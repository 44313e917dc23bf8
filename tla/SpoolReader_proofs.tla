-------------------------- MODULE SpoolReader_proofs --------------------------
(***************************************************************************)
(* Theorems about the spool reader, for every file, however it is chunked, *)
(* damaged or growing, and for any number of passes.                       *)
(***************************************************************************)
EXTENDS SpoolReader, SequenceTheorems, WellFoundedInduction, TLAPS

-----------------------------------------------------------------------------
(* Induction, over a set of numbers and over a set of lists: the library's   *)
(* theorems take a predicate as a parameter, these a set.                    *)

LEMMA Least ==
    ASSUME NEW S, S \subseteq Nat, S # {}
    PROVE  \E m \in S : \A k \in S : m <= k
<1> DEFINE R == OpToRel(<, Nat)
<1>1. IsWellFoundedOn(R, Nat)
  BY NatLessThanWellFounded
<1>2. \A x, y \in Nat : <<x, y>> \in R <=> x < y
  BY DEF OpToRel
<1> HIDE DEF R
<1>3. PICK x \in S : \A y \in S : ~ (<<y, x>> \in R)
  BY <1>1, WFMin
<1>4. \A y \in S : ~ (y < x)
  BY <1>2, <1>3
<1>5. QED
  BY <1>4

LEMMA Induct ==
    ASSUME NEW S, 0 \in S, \A n \in Nat : n \in S => n + 1 \in S
    PROVE  Nat \subseteq S
<1> DEFINE T == Nat \ S
<1>1. SUFFICES ASSUME T # {} PROVE FALSE
  OBVIOUS
<1>2. PICK m \in T : \A k \in T : m <= k
  BY <1>1, Least
<1>3. m # 0 /\ m - 1 \in Nat /\ m - 1 \in S
  BY <1>2
<1>4. m \in S
  BY <1>3
<1>5. QED
  BY <1>4, <1>2

LEMMA InductList ==
    ASSUME NEW X, NEW T, <<>> \in T,
           \A s \in Seq(X), x \in X : s \in T => Append(s, x) \in T
    PROVE  Seq(X) \subseteq T
<1> DEFINE N == {n \in Nat : \A s \in Seq(X) : Len(s) = n => s \in T}
<1>1. 0 \in N
  BY EmptySeq
<1>2. ASSUME NEW n \in Nat, n \in N PROVE n + 1 \in N
  <2>1. ASSUME NEW s \in Seq(X), Len(s) = n + 1 PROVE s \in T
    <3>1. s # <<>>
      BY <2>1, EmptySeq
    <3>2. PICK r \in Seq(X), x \in X : s = Append(r, x)
      BY <3>1, SequenceEmptyOrAppend
    <3>3. Len(s) = Len(r) + 1 /\ Len(r) \in Nat
      BY <3>2, AppendProperties, LenProperties
    <3>4. r \in T
      BY <1>2, <2>1, <3>3
    <3>5. QED
      BY <3>2, <3>4
  <2>2. QED
    BY <2>1
<1> HIDE DEF N
<1>3. Nat \subseteq N
  BY <1>1, <1>2, Induct
<1>4. QED
  BY <1>3, LenProperties DEF N

-----------------------------------------------------------------------------
(* FlattenSeq, one list at a time.  What a recursive function is, it is only *)
(* if some function solves its equation, so each step shows one that does.   *)

Flattens(flat, seqs) ==
    flat = [i \in 1..Len(seqs) |-> IF i = 1 THEN seqs[i] ELSE flat[i - 1] \o seqs[i]]

LEMMA FlattenIs ==
    ASSUME NEW X, NEW seqs \in Seq(Seq(X)), seqs # <<>>, NEW flat, Flattens(flat, seqs)
    PROVE  FlattenSeq(seqs) = flat[Len(seqs)]
<1> DEFINE flatten == CHOOSE g : g = [i \in 1..Len(seqs) |->
                            IF i = 1 THEN seqs[i] ELSE g[i - 1] \o seqs[i]]
<1>1. Len(seqs) \in Nat /\ Len(seqs) # 0
  BY EmptySeq, LenProperties
<1>2. FlattenSeq(seqs) = flatten[Len(seqs)]
  BY <1>1 DEF FlattenSeq
<1>3. Flattens(flatten, seqs)
  BY DEF Flattens
<1> HIDE DEF flatten
<1> DEFINE T == {n \in Nat : n + 1 <= Len(seqs) => flatten[n + 1] = flat[n + 1]}
<1>4. \A i \in 2..Len(seqs) : flatten[i] = flatten[i - 1] \o seqs[i] /\ flat[i] = flat[i - 1] \o seqs[i]
  <2>1. ASSUME NEW f, Flattens(f, seqs), NEW i \in 1..Len(seqs), i # 1
        PROVE  f[i] = f[i - 1] \o seqs[i]
    BY <2>1 DEF Flattens
  <2>2. \A i \in 2..Len(seqs) : i \in 1..Len(seqs) /\ i # 1
    BY <1>1
  <2>3. QED
    BY <1>3, <2>1, <2>2
<1>5. 0 \in T
  BY <1>1, <1>3 DEF Flattens
<1>6. ASSUME NEW n \in Nat, n \in T PROVE n + 1 \in T
  <2>1. ASSUME n + 2 <= Len(seqs) PROVE flatten[n + 2] = flat[n + 2]
    <3>1. n + 2 \in 2..Len(seqs) /\ (n + 2) - 1 = n + 1 /\ n + 1 <= Len(seqs)
      BY <1>1, <2>1
    <3>2. flatten[n + 1] = flat[n + 1]
      BY <1>6, <3>1
    <3>3. QED
      BY <1>4, <3>1, <3>2
  <2>2. (n + 1) + 1 = n + 2
    OBVIOUS
  <2>3. QED
    BY <2>1, <2>2
<1> HIDE DEF T
<1>7. Nat \subseteq T
  BY <1>5, <1>6, Induct
<1>8. Len(seqs) - 1 \in T /\ (Len(seqs) - 1) + 1 = Len(seqs)
  BY <1>1, <1>7
<1>9. QED
  BY <1>1, <1>2, <1>8 DEF T

LEMMA FlattenEmpty == FlattenSeq(<<>>) = <<>>
  BY EmptySeq DEF FlattenSeq

Flattened(X) == {s \in Seq(Seq(X)) : FlattenSeq(s) \in Seq(X)
                    /\ (s # <<>> => \E flat : Flattens(flat, s))}

LEMMA FlattenStep ==
    ASSUME NEW X, NEW seqs \in Seq(Seq(X)), NEW s \in Seq(X), seqs \in Flattened(X)
    PROVE  /\ Append(seqs, s) \in Flattened(X)
           /\ FlattenSeq(Append(seqs, s)) = FlattenSeq(seqs) \o s
<1> DEFINE more == Append(seqs, s)
           n == Len(seqs)
<1>1. /\ more \in Seq(Seq(X)) /\ more # <<>> /\ n \in Nat /\ Len(more) = n + 1
      /\ \A i \in 1..n : more[i] = seqs[i]
      /\ more[n + 1] = s
  BY AppendProperties, LenProperties
<1> HIDE DEF more
<1>2. CASE seqs = <<>>
  <2>1. n = 0
    BY <1>2, EmptySeq
  <2> DEFINE flat == [i \in 1..1 |-> s]
  <2>2. Flattens(flat, more)
    BY <1>1, <2>1 DEF Flattens
  <2>3. flat[1] = s
    OBVIOUS
  <2> HIDE DEF flat
  <2>4. FlattenSeq(more) = s
    <3>1. FlattenSeq(more) = flat[Len(more)]
      BY <1>1, <2>2, FlattenIs
    <3>2. Len(more) = 1
      BY <1>1, <2>1
    <3>3. QED
      BY <2>3, <3>1, <3>2
  <2>5. FlattenSeq(seqs) \o s = s
    BY <1>2, FlattenEmpty, ConcatEmptySeq
  <2>6. QED
    BY <1>1, <2>2, <2>4, <2>5 DEF more, Flattened
<1>3. CASE seqs # <<>>
  <2>1. PICK old : Flattens(old, seqs)
    BY <1>3 DEF Flattened
  <2>2. n # 0
    BY <1>3, EmptySeq
  <2>3. FlattenSeq(seqs) = old[n] /\ FlattenSeq(seqs) \in Seq(X)
    BY <1>3, <2>1, FlattenIs DEF Flattened
  <2> DEFINE flat == [i \in 1..(n + 1) |-> IF i = n + 1 THEN old[n] \o s ELSE old[i]]
  <2>4. \A i \in 1..n : old[i] = IF i = 1 THEN seqs[i] ELSE old[i - 1] \o seqs[i]
    BY <2>1 DEF Flattens
  <2>5. \A i \in 1..(n + 1) : flat[i] = IF i = 1 THEN more[i] ELSE flat[i - 1] \o more[i]
    <3>1. ASSUME NEW i \in 1..(n + 1), i # n + 1
          PROVE  flat[i] = IF i = 1 THEN more[i] ELSE flat[i - 1] \o more[i]
      <4>1. i \in 1..n /\ flat[i] = old[i] /\ (i # 1 => flat[i - 1] = old[i - 1])
        BY <1>1, <3>1
      <4>2. QED
        BY <1>1, <2>4, <4>1
    <3>2. flat[n + 1] = flat[n] \o more[n + 1] /\ n + 1 # 1
      <4>1. n \in 1..(n + 1) /\ n # n + 1 /\ n + 1 \in 1..(n + 1) /\ n + 1 # 1
        BY <1>1, <2>2
      <4>2. flat[n] = old[n] /\ flat[n + 1] = old[n] \o s
        BY <4>1
      <4>3. QED
        BY <1>1, <4>1, <4>2
    <3>3. ASSUME NEW i \in 1..(n + 1), i = n + 1
          PROVE  flat[i] = IF i = 1 THEN more[i] ELSE flat[i - 1] \o more[i]
      <4>1. i - 1 = n /\ i # 1
        BY <1>1, <3>2, <3>3
      <4>2. QED
        BY <3>2, <3>3, <4>1
    <3>4. QED
      BY <3>1, <3>3
  <2>6. flat[n + 1] = FlattenSeq(seqs) \o s
    BY <1>1, <2>3
  <2>7. flat = [i \in 1..(n + 1) |-> flat[i]]
    OBVIOUS
  <2> HIDE DEF flat
  <2>8. Flattens(flat, more)
    BY <1>1, <2>5, <2>7 DEF Flattens
  <2>9. FlattenSeq(more) = FlattenSeq(seqs) \o s
    BY <1>1, <2>6, <2>8, FlattenIs
  <2>10. FlattenSeq(more) \in Seq(X)
    BY <2>3, <2>9, ConcatProperties
  <2>11. QED
    BY <1>1, <2>8, <2>9, <2>10 DEF more, Flattened
<1>4. QED
  BY <1>2, <1>3

LEMMA FlattenAppend ==
    ASSUME NEW X, NEW seqs \in Seq(Seq(X)), NEW s \in Seq(X)
    PROVE  /\ FlattenSeq(seqs) \in Seq(X)
           /\ FlattenSeq(Append(seqs, s)) = FlattenSeq(seqs) \o s
<1>1. <<>> \in Flattened(X)
  BY FlattenEmpty, EmptySeq DEF Flattened
<1>2. Seq(Seq(X)) \subseteq Flattened(X)
  <2> DEFINE V == Seq(X)
             F == Flattened(X)
  <2>1. \A r \in Seq(V), v \in V : r \in F => Append(r, v) \in F
    BY FlattenStep
  <2> HIDE DEF V, F
  <2>2. Seq(V) \subseteq F
    BY <1>1, <2>1, InductList DEF F
  <2>3. QED
    BY <2>2 DEF V, F
<1>3. QED
  BY <1>2, FlattenStep DEF Flattened

(* Each member of a list put for what a function makes of it. *)
Expansions(X, Y) == [X -> Seq(Y)]
Expand(e, list) == FlattenSeq([i \in DOMAIN list |-> e[list[i]]])

LEMMA ExpandAppend ==
    ASSUME NEW X, NEW Y, NEW e \in Expansions(X, Y), NEW list \in Seq(X), NEW x \in X
    PROVE  /\ Expand(e, <<>>) = <<>>
           /\ Expand(e, list) \in Seq(Y)
           /\ Expand(e, Append(list, x)) = Expand(e, list) \o e[x]
<1>0. e \in [X -> Seq(Y)]
  BY DEF Expansions
<1> DEFINE parts(l) == [i \in DOMAIN l |-> e[l[i]]]
<1>1. \A l \in Seq(X) : parts(l) \in Seq(Seq(Y)) /\ Len(parts(l)) = Len(l)
  <2>1. ASSUME NEW l \in Seq(X)
        PROVE  parts(l) \in Seq(Seq(Y)) /\ Len(parts(l)) = Len(l)
    <3>1. Len(l) \in Nat /\ DOMAIN l = 1..Len(l) /\ \A i \in 1..Len(l) : l[i] \in X
      BY LenProperties
    <3>2. \A i \in 1..Len(l) : e[l[i]] \in Seq(Y)
      BY <1>0, <3>1
    <3> DEFINE n == Len(l)
               V == Seq(Y)
               p == [i \in 1..n |-> e[l[i]]]
    <3>3. p \in Seq(V) /\ Len(p) = n
      <4>1. n \in Nat /\ p \in [1..n -> V]
        BY <3>1, <3>2
      <4> HIDE DEF n, V, p
      <4>2. QED
        BY <4>1
    <3>4. QED
      BY <3>1, <3>3
  <2>2. QED
    BY <2>1
<1>2. parts(<<>>) = <<>>
  OBVIOUS
<1>3. parts(Append(list, x)) = Append(parts(list), e[x])
  <2> DEFINE more == Append(list, x)
             n == Len(list)
             V == Seq(Y)
  <2>1. /\ more \in Seq(X) /\ n \in Nat /\ Len(more) = n + 1 /\ e[x] \in V
        /\ \A i \in 1..n : more[i] = list[i]
        /\ more[n + 1] = x
        /\ DOMAIN more = 1..(n + 1) /\ DOMAIN list = 1..n
    BY <1>0, AppendProperties, LenProperties
  <2> HIDE DEF more, n
  <2>2. parts(list) \in Seq(V) /\ Len(parts(list)) = n /\ parts(more) \in Seq(V) /\ Len(parts(more)) = n + 1
    BY <1>1, <2>1 DEF n
  <2>3. \A i \in 1..n : parts(list)[i] = e[list[i]]
    BY <2>1
  <2>4. \A i \in 1..(n + 1) : parts(more)[i] = e[more[i]]
    BY <2>1
  <2> DEFINE a == parts(list)
             b == parts(more)
  <2> HIDE DEF V, parts, a, b
  <2>5. /\ Append(a, e[x]) \in Seq(V) /\ Len(Append(a, e[x])) = n + 1
        /\ \A i \in 1..n : Append(a, e[x])[i] = a[i]
        /\ Append(a, e[x])[n + 1] = e[x]
    BY <2>1, <2>2, AppendProperties DEF a
  <2>6. ASSUME NEW i \in 1..(n + 1) PROVE b[i] = Append(a, e[x])[i]
    <3>1. CASE i = n + 1
      BY <2>1, <2>4, <2>5, <3>1 DEF b
    <3>2. CASE i # n + 1
      <4>1. i \in 1..n
        BY <2>1, <3>2
      <4>2. QED
        BY <2>1, <2>3, <2>4, <2>5, <4>1 DEF a, b
    <3>3. QED
      BY <3>1, <3>2
  <2>7. b = Append(a, e[x])
    BY <2>2, <2>5, <2>6, SeqEqual DEF b
  <2>8. QED
    BY <2>7 DEF a, b, more
<1> HIDE DEF parts
<1>4. \A l : Expand(e, l) = FlattenSeq(parts(l))
  BY DEF Expand, parts
<1>5. QED
  <2> DEFINE p == parts(list)
             v == e[x]
  <2>1. p \in Seq(Seq(Y)) /\ v \in Seq(Y)
    BY <1>0, <1>1
  <2> HIDE DEF p, v
  <2>2. FlattenSeq(p) \in Seq(Y) /\ FlattenSeq(Append(p, v)) = FlattenSeq(p) \o v
    BY <2>1, FlattenAppend
  <2>3. QED
    BY <1>2, <1>3, <1>4, <2>2, FlattenEmpty DEF p, v

Regroups(u, v, w) == (u \o v) \o w = u \o (v \o w)
LEMMA Associative ==
    ASSUME NEW S, NEW u \in Seq(S), NEW v \in Seq(S), NEW w \in Seq(S)
    PROVE  Regroups(u, v, w)
  BY ConcatAssociative DEF Regroups

LEMMA SubSeqOfConcat ==
    ASSUME NEW S, NEW u \in Seq(S), NEW v \in Seq(S)
    PROVE  SubSeq(u \o v, 1, Len(u)) = u
<1>1. Len(u) \in Nat /\ Len(v) \in Nat
  BY LenProperties
<1>2. u \o v \in Seq(S) /\ Len(u \o v) = Len(u) + Len(v) /\ \A i \in 1..Len(u) : (u \o v)[i] = u[i]
  BY <1>1, ConcatProperties
<1>3. \A i \in 1..Len(u) : u[i] \in S
  BY ElementOfSeq
<1> DEFINE t == u \o v
           p == SubSeq(t, 1, Len(u))
<1>4. \A i \in 1..Len(u) : t[i] \in S
  BY <1>2, <1>3
<1>5. /\ p \in Seq(S) /\ Len(p) = IF 1 <= Len(u) THEN Len(u) - 1 + 1 ELSE 0
      /\ \A i \in 1..(Len(u) - 1 + 1) : p[i] = t[1 + i - 1]
  <2> HIDE DEF t
  <2>1. QED
    BY <1>1, <1>4, SubSeqProperties
<1>6. Len(p) = Len(u) /\ \A i \in 1..Len(u) : p[i] = u[i]
  <2> HIDE DEF p
  <2>1. Len(u) - 1 + 1 = Len(u) /\ \A i \in 1..Len(u) : 1 + i - 1 = i
    BY <1>1
  <2>2. QED
    BY <1>1, <1>2, <1>5, <2>1
<1> HIDE DEF p
<1>7. p = u
  BY <1>5, <1>6, SeqEqual
<1>8. QED
  BY <1>7 DEF p

LEMMA ExpandConcat ==
    ASSUME NEW X, NEW Y, NEW e \in Expansions(X, Y), NEW a \in Seq(X), NEW b \in Seq(X)
    PROVE  Expand(e, a \o b) = Expand(e, a) \o Expand(e, b)
<1> DEFINE T == {s \in Seq(X) : Expand(e, a \o s) = Expand(e, a) \o Expand(e, s)}
<1>1. \A s \in Seq(X) : Expand(e, s) \in Seq(Y)
  <2>1. ASSUME NEW s \in Seq(X), X # {} PROVE Expand(e, s) \in Seq(Y)
    <3>1. PICK x \in X : TRUE
      BY <2>1
    <3>2. QED
      BY ExpandAppend
  <2>2. ASSUME NEW s \in Seq(X), X = {} PROVE Expand(e, s) \in Seq(Y)
    <3>1. s = <<>>
      BY <2>2, EmptySeq, ElementOfSeq
    <3>2. DOMAIN s = {}
      BY <3>1
    <3>3. Expand(e, s) = <<>>
      BY <3>1, FlattenEmpty DEF Expand
    <3>4. QED
      BY <3>3, EmptySeq
  <2>3. QED
    BY <2>1, <2>2
<1>2. <<>> \in T
  <2>1. Expand(e, <<>>) = <<>>
    BY FlattenEmpty DEF Expand
  <2>2. a \o <<>> = a /\ Expand(e, a) \o <<>> = Expand(e, a) /\ <<>> \in Seq(X)
    BY <1>1, ConcatEmptySeq, EmptySeq
  <2>3. QED
    BY <2>1, <2>2
<1>3. ASSUME NEW s \in Seq(X), NEW x \in X, s \in T PROVE Append(s, x) \in T
  <2> HIDE DEF T
  <2>1. a \o s \in Seq(X) /\ Append(s, x) \in Seq(X)
    BY ConcatProperties, AppendProperties
  <2>2. a \o Append(s, x) = Append(a \o s, x)
    <3>1. Append(s, x) = s \o <<x>> /\ Append(a \o s, x) = (a \o s) \o <<x>> /\ <<x>> \in Seq(X)
      BY <2>1, AppendIsConcat
    <3>2. QED
      BY <3>1, ConcatAssociative
  <2>3. Expand(e, a \o Append(s, x)) = Expand(e, a \o s) \o e[x]
    <3> DEFINE c == a \o s
    <3>1. c \in Seq(X)
      BY <2>1
    <3> HIDE DEF c
    <3>2. Expand(e, Append(c, x)) = Expand(e, c) \o e[x]
      BY <3>1, ExpandAppend
    <3>3. QED
      BY <2>2, <3>2 DEF c
  <2>4. Expand(e, Append(s, x)) = Expand(e, s) \o e[x]
    BY ExpandAppend
  <2>5. (Expand(e, a) \o Expand(e, s)) \o e[x] = Expand(e, a) \o (Expand(e, s) \o e[x])
    <3>1. e[x] \in Seq(Y)
      BY DEF Expansions
    <3>2. Regroups(Expand(e, a), Expand(e, s), e[x])
      BY <1>1, <3>1, Associative
    <3>3. QED
      BY <3>2 DEF Regroups
  <2>6. QED
    BY <1>3, <2>1, <2>3, <2>4, <2>5 DEF T
<1> HIDE DEF T
<1>4. Seq(X) \subseteq T
  BY <1>2, <1>3, InductList
<1>5. QED
  BY <1>4 DEF T

LEMMA AppendConcat ==
    ASSUME NEW S, NEW u \in Seq(S), NEW v \in Seq(S), NEW x \in S
    PROVE  u \o Append(v, x) = Append(u \o v, x)
<1>1. Append(v, x) = v \o <<x>> /\ Append(u \o v, x) = (u \o v) \o <<x>> /\ <<x>> \in Seq(S)
  BY AppendIsConcat, ConcatProperties
<1>2. QED
  BY <1>1, ConcatAssociative

-----------------------------------------------------------------------------
(* Splitting.                                                              *)

SplitOf(C) == [complete : Seq(Seq(C)), rest : Seq(C)]
Splits(split, text) ==
    split = [i \in 0..Len(text) |-> IF i = 0 THEN NoLines ELSE SplitOnce(split[i - 1], text[i])]

LEMMA SplitIs ==
    ASSUME NEW C, NEW text \in Seq(C), NEW split, Splits(split, text)
    PROVE  Split(text) = split[Len(text)]
<1> DEFINE own == CHOOSE g : g = [i \in 0..Len(text) |->
                        IF i = 0 THEN NoLines ELSE SplitOnce(g[i - 1], text[i])]
<1>1. Len(text) \in Nat
  BY LenProperties
<1>2. Split(text) = own[Len(text)]
  BY DEF Split
<1>3. Splits(own, text)
  BY DEF Splits
<1> HIDE DEF own
<1> DEFINE T == {n \in Nat : n <= Len(text) => own[n] = split[n]}
<1>4. ASSUME NEW f, Splits(f, text), NEW i \in 0..Len(text)
      PROVE  f[i] = IF i = 0 THEN NoLines ELSE SplitOnce(f[i - 1], text[i])
  BY <1>4 DEF Splits
<1>5. 0 \in T
  BY <1>1, <1>3, <1>4
<1>6. ASSUME NEW n \in Nat, n \in T PROVE n + 1 \in T
  <2>1. ASSUME n + 1 <= Len(text) PROVE own[n + 1] = split[n + 1]
    <3>1. n + 1 \in 0..Len(text) /\ (n + 1) - 1 = n /\ n + 1 # 0 /\ n <= Len(text)
      BY <1>1, <2>1
    <3>2. own[n] = split[n]
      BY <1>6, <3>1
    <3> HIDE DEF T
    <3>3. own[n + 1] = SplitOnce(own[n], text[n + 1])
      BY <1>3, <1>4, <3>1
    <3>4. split[n + 1] = SplitOnce(split[n], text[n + 1])
      BY <1>4, <3>1
    <3>5. QED
      BY <3>2, <3>3, <3>4
  <2>2. QED
    BY <2>1
<1> HIDE DEF T
<1>7. Nat \subseteq T
  BY <1>5, <1>6, Induct
<1>8. QED
  BY <1>1, <1>2, <1>7 DEF T

SplitTexts(C) == {s \in Seq(C) : Split(s) \in SplitOf(C) /\ \E split : Splits(split, s)}

LEMMA SplitEmpty == Split(<<>>) = NoLines /\ \E split : Splits(split, <<>>)
<1> DEFINE split == [i \in 0..0 |-> NoLines]
<1>1. Len(<<>>) = 0 /\ <<>> \in Seq({})
  BY EmptySeq
<1>2. split = [i \in 0..0 |-> IF i = 0 THEN NoLines ELSE SplitOnce(split[i - 1], <<>>[i])]
  <2>1. \A i \in 0..0 : split[i] = IF i = 0 THEN NoLines ELSE SplitOnce(split[i - 1], <<>>[i])
    OBVIOUS
  <2>2. split = [i \in 0..0 |-> split[i]]
    OBVIOUS
  <2> HIDE DEF split
  <2>3. QED
    BY <2>1, <2>2
<1>3. split[0] = NoLines
  OBVIOUS
<1> HIDE DEF split
<1>4. Splits(split, <<>>)
  BY <1>1, <1>2 DEF Splits
<1>5. QED
  BY <1>1, <1>3, <1>4, SplitIs

LEMMA SplitOnceType ==
    ASSUME NEW C, NEW p \in SplitOf(C), NEW c \in C
    PROVE  SplitOnce(p, c) \in SplitOf(C)
<1>1. p.complete \in Seq(Seq(C)) /\ p.rest \in Seq(C)
  BY DEF SplitOf
<1>2. Append(p.rest, c) \in Seq(C) /\ Append(p.complete, p.rest) \in Seq(Seq(C)) /\ <<>> \in Seq(C)
  BY <1>1, AppendProperties, EmptySeq
<1> DEFINE V == Seq(C)
           W == Seq(V)
           d == Append(p.rest, c)
           e == Append(p.complete, p.rest)
           none == <<>>
<1>3. p \in [complete : W, rest : V] /\ d \in V /\ e \in W /\ none \in V
  BY <1>2 DEF SplitOf
<1> HIDE DEF V, W, d, e, none
<1>4. [p EXCEPT !.rest = d] \in [complete : W, rest : V] /\ [complete |-> e, rest |-> none] \in [complete : W, rest : V]
  BY <1>3
<1>5. SplitOnce(p, c) \in {[p EXCEPT !.rest = d], [complete |-> e, rest |-> none]}
  BY DEF SplitOnce, d, e, none
<1>6. QED
  BY <1>4, <1>5 DEF SplitOf, V, W

LEMMA SplitStep ==
    ASSUME NEW C, NEW text \in SplitTexts(C), NEW c \in C
    PROVE  /\ Append(text, c) \in SplitTexts(C)
           /\ Split(Append(text, c)) = SplitOnce(Split(text), c)
<1> DEFINE more == Append(text, c)
           n == Len(text)
<1>1. /\ text \in Seq(C) /\ more \in Seq(C) /\ n \in Nat /\ Len(more) = n + 1
      /\ \A i \in 1..n : more[i] = text[i]
      /\ more[n + 1] = c
  BY AppendProperties, LenProperties DEF SplitTexts
<1> HIDE DEF more
<1>2. PICK old : Splits(old, text)
  BY DEF SplitTexts
<1>3. Split(text) = old[n]
  BY <1>1, <1>2, SplitIs
<1> DEFINE split == [i \in 0..(n + 1) |-> IF i = n + 1 THEN SplitOnce(old[n], c) ELSE old[i]]
<1>4. \A i \in 0..n : old[i] = IF i = 0 THEN NoLines ELSE SplitOnce(old[i - 1], text[i])
  BY <1>2 DEF Splits
<1>5. \A i \in 0..(n + 1) : split[i] = IF i = 0 THEN NoLines ELSE SplitOnce(split[i - 1], more[i])
  <2>1. ASSUME NEW i \in 0..(n + 1), i # n + 1
        PROVE  split[i] = IF i = 0 THEN NoLines ELSE SplitOnce(split[i - 1], more[i])
    <3>1. i \in 0..n /\ split[i] = old[i] /\ (i # 0 => split[i - 1] = old[i - 1] /\ more[i] = text[i])
      BY <1>1, <2>1
    <3>2. QED
      BY <1>4, <3>1
  <2>2. ASSUME NEW i \in 0..(n + 1), i = n + 1
        PROVE  split[i] = IF i = 0 THEN NoLines ELSE SplitOnce(split[i - 1], more[i])
    <3>1. i # 0 /\ i - 1 = n /\ n \in 0..(n + 1) /\ n # n + 1
      BY <1>1, <2>2
    <3>2. split[n] = old[n] /\ split[i] = SplitOnce(old[n], c) /\ more[i] = c
      BY <1>1, <2>2, <3>1
    <3>3. QED
      BY <3>1, <3>2
  <2>3. QED
    BY <2>1, <2>2
<1>6. split[n + 1] = SplitOnce(Split(text), c)
  BY <1>1, <1>3
<1>7. split = [i \in 0..(n + 1) |-> split[i]]
  OBVIOUS
<1> HIDE DEF split
<1>8. Splits(split, more)
  BY <1>1, <1>5, <1>7 DEF Splits
<1>9. Split(more) = SplitOnce(Split(text), c)
  BY <1>1, <1>6, <1>8, SplitIs
<1>10. Split(more) \in SplitOf(C)
  BY <1>9, SplitOnceType DEF SplitTexts
<1>11. QED
  BY <1>1, <1>8, <1>9, <1>10 DEF more, SplitTexts

LEMMA SplitAppend ==
    ASSUME NEW C, NEW text \in Seq(C)
    PROVE  /\ Split(text) \in SplitOf(C)
           /\ \A c \in C : Split(Append(text, c)) = SplitOnce(Split(text), c)
<1>1. <<>> \in SplitTexts(C)
  <2>1. NoLines \in SplitOf(C)
    BY EmptySeq DEF NoLines, SplitOf
  <2>2. QED
    BY <2>1, SplitEmpty, EmptySeq DEF SplitTexts
<1>2. Seq(C) \subseteq SplitTexts(C)
  <2> DEFINE T == SplitTexts(C)
  <2>1. \A s \in Seq(C), c \in C : s \in T => Append(s, c) \in T
    BY SplitStep
  <2> HIDE DEF T
  <2>2. QED
    BY <1>1, <2>1, InductList DEF T
<1>3. QED
  BY <1>2, SplitStep DEF SplitTexts

OneLine(s) == \A i \in 1..Len(s) : s[i] # Newline

LEMMA OneLineAppend ==
    ASSUME NEW C, NEW s \in Seq(C), NEW c \in C
    PROVE  OneLine(Append(s, c)) <=> OneLine(s) /\ c # Newline
<1> DEFINE more == Append(s, c)
           n == Len(s)
<1>1. /\ n \in Nat /\ Len(more) = n + 1
      /\ \A i \in 1..n : more[i] = s[i]
      /\ more[n + 1] = c
  BY AppendProperties, LenProperties
<1> HIDE DEF more, n
<1>2. (\A i \in 1..(n + 1) : more[i] # Newline) <=> (\A i \in 1..n : s[i] # Newline) /\ c # Newline
  <2>1. ASSUME \A i \in 1..(n + 1) : more[i] # Newline
        PROVE  (\A i \in 1..n : s[i] # Newline) /\ c # Newline
    BY <1>1, <2>1
  <2>2. ASSUME \A i \in 1..n : s[i] # Newline, c # Newline, NEW i \in 1..(n + 1)
        PROVE  more[i] # Newline
    <3>1. CASE i = n + 1
      BY <1>1, <2>2, <3>1
    <3>2. CASE i # n + 1
      <4>1. i \in 1..n
        BY <1>1, <3>2
      <4>2. QED
        BY <1>1, <2>2, <4>1
    <3>3. QED
      BY <3>1, <3>2
  <2>3. QED
    BY <2>1, <2>2
<1>3. QED
  BY <1>1, <1>2 DEF OneLine, more, n

(* What follows the last newline holds none, and a text without one is all   *)
(* of it the rest.                                                           *)
LEMMA SplitRest ==
    ASSUME NEW C, NEW text \in Seq(C)
    PROVE  /\ OneLine(Split(text).rest)
           /\ OneLine(text) => Split(text) = [complete |-> <<>>, rest |-> text]
<1> DEFINE P(s) == /\ OneLine(Split(s).rest)
                   /\ OneLine(s) => Split(s) = [complete |-> <<>>, rest |-> s]
           T == {s \in Seq(C) : P(s)}
<1>1. P(<<>>)
  BY SplitEmpty, EmptySeq DEF OneLine, NoLines
<1>2. <<>> \in T
  BY <1>1, EmptySeq
<1>3. ASSUME NEW s \in Seq(C), NEW c \in C, s \in T PROVE Append(s, c) \in T
  <2> DEFINE more == Append(s, c)
  <2>1. P(s)
    BY <1>3
  <2>2. more \in Seq(C)
    BY AppendProperties
  <2>3. Split(more) = SplitOnce(Split(s), c) /\ Split(s) \in SplitOf(C)
    BY SplitAppend
  <2>4. Split(s).rest \in Seq(C)
    BY <2>3 DEF SplitOf
  <2>5. OneLine(more) <=> OneLine(s) /\ c # Newline
    BY OneLineAppend
  <2> HIDE DEF T, more
  <2>6. OneLine(Split(more).rest)
    <3>1. CASE c = Newline
      <4>1. Split(more).rest = <<>>
        BY <2>3, <3>1 DEF SplitOnce
      <4>2. QED
        BY <4>1, EmptySeq DEF OneLine
    <3>2. CASE c # Newline
      <4>1. Split(more).rest = Append(Split(s).rest, c)
        BY <2>3, <3>2 DEF SplitOnce, SplitOf
      <4> DEFINE r == Split(s).rest
      <4>2. r \in Seq(C) /\ OneLine(r)
        BY <2>1, <2>4
      <4> HIDE DEF r
      <4>3. OneLine(Append(r, c))
        BY <3>2, <4>2, OneLineAppend
      <4>4. QED
        BY <4>1, <4>3 DEF r
    <3>3. QED
      BY <3>1, <3>2
  <2>7. ASSUME OneLine(more) PROVE Split(more) = [complete |-> <<>>, rest |-> more]
    <3>1. Split(s) = [complete |-> <<>>, rest |-> s] /\ c # Newline
      BY <2>1, <2>5, <2>7
    <3>2. SplitOnce([complete |-> <<>>, rest |-> s], c) = [complete |-> <<>>, rest |-> Append(s, c)]
      BY <3>1 DEF SplitOnce
    <3>3. QED
      BY <2>3, <3>1, <3>2 DEF more
  <2>8. QED
    BY <2>2, <2>6, <2>7 DEF T, more
<1> HIDE DEF T
<1>4. Seq(C) \subseteq T
  BY <1>2, <1>3, InductList
<1>5. QED
  BY <1>4 DEF T

(* Some lines before those of a split. *)
After(lines, p) == [complete |-> lines \o p.complete, rest |-> p.rest]

LEMMA SplitOnceAfter ==
    ASSUME NEW C, NEW lines \in Seq(Seq(C)), NEW p \in SplitOf(C), NEW c \in C
    PROVE  SplitOnce(After(lines, p), c) = After(lines, SplitOnce(p, c))
<1>1. p.complete \in Seq(Seq(C)) /\ p.rest \in Seq(C)
  BY DEF SplitOf
<1>2. lines \o Append(p.complete, p.rest) = Append(lines \o p.complete, p.rest)
  <2> DEFINE V == Seq(C)
             u == p.complete
             v == p.rest
  <2>1. lines \in Seq(V) /\ u \in Seq(V) /\ v \in V
    BY <1>1
  <2> HIDE DEF V, u, v
  <2>2. lines \o Append(u, v) = Append(lines \o u, v)
    BY <2>1, AppendConcat
  <2>3. QED
    BY <2>2 DEF u, v
<1>3. p = [complete |-> p.complete, rest |-> p.rest]
  BY DEF SplitOf
<1>4. CASE c = Newline
  BY <1>2, <1>4 DEF SplitOnce, After
<1>5. CASE c # Newline
  BY <1>3, <1>5 DEF SplitOnce, After
<1>6. QED
  BY <1>4, <1>5

(* A text read in two parts is split as one: the second part after what the  *)
(* first has left (lines: buffer.split("\n")).                               *)
THEOREM SplitConcat ==
    ASSUME NEW C, NEW a \in Seq(C), NEW b \in Seq(C)
    PROVE  Split(a \o b) = After(Split(a).complete, Split(Split(a).rest \o b))
<1> DEFINE lines == Split(a).complete
           r == Split(a).rest
           T == {s \in Seq(C) : Split(a \o s) = After(lines, Split(r \o s))}
<1>1. Split(a) \in SplitOf(C) /\ lines \in Seq(Seq(C)) /\ r \in Seq(C)
  BY SplitAppend DEF SplitOf
<1>2. OneLine(r)
  BY SplitRest
<1>3. Split(a) = [complete |-> lines, rest |-> r]
  BY <1>1 DEF SplitOf
<1> HIDE DEF lines, r
<1>4. <<>> \in T
  <2>1. Split(r) = [complete |-> <<>>, rest |-> r]
    BY <1>1, <1>2, SplitRest
  <2>2. a \o <<>> = a /\ r \o <<>> = r
    BY <1>1, ConcatEmptySeq
  <2>3. lines \o <<>> = lines
    <3> DEFINE V == Seq(C)
    <3>1. lines \in Seq(V)
      BY <1>1
    <3> HIDE DEF V
    <3>2. QED
      BY <3>1, ConcatEmptySeq
  <2>4. After(lines, Split(r)) = [complete |-> lines, rest |-> r]
    BY <2>1, <2>3 DEF After
  <2>5. QED
    BY <1>3, <2>2, <2>4, EmptySeq
<1>5. ASSUME NEW s \in Seq(C), NEW c \in C, s \in T PROVE Append(s, c) \in T
  <2>1. Split(a \o s) = After(lines, Split(r \o s))
    BY <1>5
  <2> HIDE DEF T
  <2>2. a \o Append(s, c) = Append(a \o s, c) /\ r \o Append(s, c) = Append(r \o s, c)
    <3>1. a \o Append(s, c) = Append(a \o s, c)
      BY AppendConcat
    <3>2. r \o Append(s, c) = Append(r \o s, c)
      BY <1>1, AppendConcat
    <3>3. QED
      BY <3>1, <3>2
  <2>3. a \o s \in Seq(C) /\ r \o s \in Seq(C) /\ Append(s, c) \in Seq(C)
    BY <1>1, ConcatProperties, AppendProperties
  <2>4. Split(Append(a \o s, c)) = SplitOnce(Split(a \o s), c)
    BY <2>3, SplitAppend
  <2>5. Split(Append(r \o s, c)) = SplitOnce(Split(r \o s), c) /\ Split(r \o s) \in SplitOf(C)
    BY <2>3, SplitAppend
  <2>6. SplitOnce(After(lines, Split(r \o s)), c) = After(lines, SplitOnce(Split(r \o s), c))
    BY <1>1, <2>5, SplitOnceAfter
  <2>7. Split(a \o Append(s, c)) = After(lines, Split(r \o Append(s, c)))
    BY <2>1, <2>2, <2>4, <2>5, <2>6
  <2>8. QED
    BY <2>3, <2>7 DEF T
<1> HIDE DEF T
<1>6. Seq(C) \subseteq T
  BY <1>4, <1>5, InductList
<1>7. QED
  BY <1>6 DEF T, lines, r

-----------------------------------------------------------------------------
(* Text of one-byte characters.                                            *)

LEMMA FlattenOnes ==
    ASSUME NEW X, NEW s \in Seq(X)
    PROVE  FlattenSeq([i \in DOMAIN s |-> <<s[i]>>]) = s
<1> DEFINE e == [x \in X |-> <<x>>]
           T == {l \in Seq(X) : Expand(e, l) = l}
<1>1. e \in Expansions(X, X)
  <2>1. \A x \in X : <<x>> \in Seq(X)
    OBVIOUS
  <2>2. QED
    BY <2>1 DEF Expansions
<1>2. \A x \in X : e[x] = <<x>>
  OBVIOUS
<1> HIDE DEF e
<1>3. <<>> \in T
  BY FlattenEmpty, EmptySeq DEF Expand
<1>4. ASSUME NEW l \in Seq(X), NEW x \in X, l \in T PROVE Append(l, x) \in T
  <2>1. Expand(e, l) = l
    BY <1>4
  <2> HIDE DEF T
  <2>2. Expand(e, Append(l, x)) = Expand(e, l) \o e[x]
    BY <1>1, ExpandAppend
  <2>3. Expand(e, Append(l, x)) = l \o <<x>>
    BY <1>2, <2>1, <2>2
  <2>4. Append(l, x) = l \o <<x>> /\ Append(l, x) \in Seq(X)
    BY AppendIsConcat, AppendProperties
  <2>5. QED
    BY <2>3, <2>4 DEF T
<1> HIDE DEF T
<1>5. s \in T
  BY <1>3, <1>4, InductList
<1>6. Expand(e, s) = s
  BY <1>5 DEF T
<1>7. DOMAIN s = 1..Len(s) /\ \A i \in DOMAIN s : s[i] \in X
  BY LenProperties
<1>8. [i \in DOMAIN s |-> e[s[i]]] = [i \in DOMAIN s |-> <<s[i]>>]
  BY <1>2, <1>7
<1>9. QED
  BY <1>6, <1>8 DEF Expand

OneByte == (STRING \cup {Newline}) \ Wide
Whole(c) == [char |-> c, first |-> TRUE, last |-> TRUE]
Wholes == {Whole(c) : c \in OneByte}

LEMMA EncodeNarrow ==
    ASSUME NEW text \in Seq(OneByte)
    PROVE  /\ Encode(text) \in Seq(Wholes) /\ Len(Encode(text)) = Len(text)
           /\ \A i \in 1..Len(text) : Encode(text)[i] = Whole(text[i])
<1> DEFINE n == Len(text)
           b == [i \in 1..n |-> Whole(text[i])]
<1>1. n \in Nat /\ DOMAIN text = 1..n /\ \A i \in 1..n : text[i] \in OneByte
  BY LenProperties
<1>2. \A i \in 1..n : Whole(text[i]) \in Wholes
  BY <1>1 DEF Wholes
<1> HIDE DEF n
<1>3. b \in Seq(Wholes) /\ Len(b) = n /\ DOMAIN b = 1..n
  BY <1>1, <1>2
<1>4. [i \in DOMAIN text |->
        IF text[i] \in Wide
        THEN <<[char |-> text[i], first |-> TRUE, last |-> FALSE],
               [char |-> text[i], first |-> FALSE, last |-> TRUE]>>
        ELSE <<[char |-> text[i], first |-> TRUE, last |-> TRUE]>>]
      = [i \in DOMAIN b |-> <<b[i]>>]
  <2>1. ASSUME NEW i \in 1..n
        PROVE  (IF text[i] \in Wide
                THEN <<[char |-> text[i], first |-> TRUE, last |-> FALSE],
                       [char |-> text[i], first |-> FALSE, last |-> TRUE]>>
                ELSE <<[char |-> text[i], first |-> TRUE, last |-> TRUE]>>) = <<b[i]>>
    <3>1. text[i] \notin Wide
      BY <1>1 DEF OneByte
    <3>2. b[i] = [char |-> text[i], first |-> TRUE, last |-> TRUE]
      BY DEF Whole
    <3> HIDE DEF b
    <3>3. QED
      BY <3>1, <3>2
  <2> HIDE DEF b
  <2>2. QED
    BY <1>1, <1>3, <2>1
<1>5. Encode(text) = FlattenSeq([i \in DOMAIN b |-> <<b[i]>>])
  <2> HIDE DEF b
  <2>1. QED
    BY <1>4 DEF Encode
<1>6. Encode(text) = b
  <2> HIDE DEF b
  <2>1. FlattenSeq([i \in DOMAIN b |-> <<b[i]>>]) = b
    BY <1>3, FlattenOnes
  <2>2. QED
    BY <1>5, <2>1
<1>7. \A i \in 1..n : b[i] = Whole(text[i])
  OBVIOUS
<1> HIDE DEF b
<1>8. QED
  BY <1>3, <1>6, <1>7 DEF n

LEMMA DecodeNarrow ==
    ASSUME NEW run \in Seq(Wholes), NEW text \in Seq(OneByte), Len(run) = Len(text),
           \A i \in 1..Len(text) : run[i] = Whole(text[i])
    PROVE  Decode(run) = text
<1> DEFINE n == Len(text)
<1>1. n \in Nat /\ DOMAIN text = 1..n /\ DOMAIN run = 1..n
  BY LenProperties
<1>2. ASSUME NEW i \in 1..n
      PROVE  (IF run[i].first /\ run[i].last THEN <<run[i].char>>
              ELSE IF run[i].first
                   THEN IF i < Len(run) THEN <<run[i].char>> ELSE <<Bad>>
                   ELSE IF i > 1 THEN <<>> ELSE <<Bad>>) = <<text[i]>>
  <2>1. run[i] = [char |-> text[i], first |-> TRUE, last |-> TRUE]
    BY DEF Whole
  <2>2. run[i].first /\ run[i].last /\ run[i].char = text[i]
    BY <2>1
  <2>3. QED
    BY <2>2
<1>3. Decode(run) = FlattenSeq([i \in DOMAIN text |-> <<text[i]>>])
  BY <1>1, <1>2 DEF Decode
<1>4. QED
  BY <1>3, FlattenOnes

(* A run of those bytes reads as the characters it was.                      *)
LEMMA RunIsText ==
    ASSUME NEW text \in Seq(OneByte), NEW m \in Nat, NEW n \in m..Len(text)
    PROVE  Decode(SubSeq(Encode(text), m + 1, n)) = SubSeq(text, m + 1, n)
<1> DEFINE bytes == Encode(text)
           run == SubSeq(bytes, m + 1, n)
           part == SubSeq(text, m + 1, n)
<1>1. /\ bytes \in Seq(Wholes) /\ Len(bytes) = Len(text) /\ Len(text) \in Nat
      /\ \A i \in 1..Len(text) : bytes[i] = Whole(text[i])
  BY EncodeNarrow, LenProperties
<1> HIDE DEF bytes
<1>2. n \in Nat /\ m + 1 \in Int /\ n - (m + 1) + 1 = n - m /\ m <= n /\ n <= Len(text)
  BY <1>1
<1>3. (\A i \in (m + 1)..n : bytes[i] \in Wholes) /\ (\A i \in (m + 1)..n : text[i] \in OneByte)
  <2>1. \A i \in (m + 1)..n : i \in 1..Len(text)
    BY <1>1, <1>2
  <2>2. QED
    BY <1>1, <2>1, ElementOfSeq
<1>4. /\ run \in Seq(Wholes) /\ Len(run) = n - m
      /\ \A i \in 1..(n - m) : run[i] = bytes[m + i]
  <2>1. /\ run \in Seq(Wholes) /\ Len(run) = IF m + 1 <= n THEN n - (m + 1) + 1 ELSE 0
        /\ \A i \in 1..(n - (m + 1) + 1) : run[i] = bytes[(m + 1) + i - 1]
    BY <1>2, <1>3, SubSeqProperties
  <2>2. \A i \in 1..(n - m) : (m + 1) + i - 1 = m + i
    BY <1>2
  <2> HIDE DEF run
  <2>3. QED
    BY <1>2, <2>1, <2>2
<1>5. /\ part \in Seq(OneByte) /\ Len(part) = n - m
      /\ \A i \in 1..(n - m) : part[i] = text[m + i]
  <2>1. /\ part \in Seq(OneByte) /\ Len(part) = IF m + 1 <= n THEN n - (m + 1) + 1 ELSE 0
        /\ \A i \in 1..(n - (m + 1) + 1) : part[i] = text[(m + 1) + i - 1]
    BY <1>2, <1>3, SubSeqProperties
  <2>2. \A i \in 1..(n - m) : (m + 1) + i - 1 = m + i
    BY <1>2
  <2> HIDE DEF part
  <2>3. QED
    BY <1>2, <2>1, <2>2
<1> HIDE DEF run, part
<1>6. \A i \in 1..(n - m) : run[i] = Whole(part[i])
  <2>1. \A i \in 1..(n - m) : m + i \in 1..Len(text)
    BY <1>1, <1>2
  <2>2. QED
    BY <1>1, <1>4, <1>5, <2>1
<1>7. Decode(run) = part
  BY <1>4, <1>5, <1>6, DecodeNarrow
<1>8. QED
  BY <1>7 DEF run, part, bytes

-----------------------------------------------------------------------------
(* Where the lines are.                                                    *)

(* The lines hold no character of two bytes: in a file where one does, a     *)
(* chunk may end inside it (the run reader_wide).                            *)
Narrow == Lines \in Seq(Seq(OneByte))
Text == Written(Lines)
First(i) == SubSeq(Lines, 1, i)
Before(i) == Len(Written(First(i)))

LEMMA WrittenAppend ==
    ASSUME NEW lines \in Seq(Seq(OneByte)), NEW line \in Seq(OneByte), Newline \in OneByte
    PROVE  /\ Written(<<>>) = <<>>
           /\ Written(lines) \in Seq(OneByte)
           /\ Written(Append(lines, line)) = Written(lines) \o Append(line, Newline)
<1> DEFINE V == Seq(OneByte)
           e == [l \in V |-> Append(l, Newline)]
<1>1. e \in Expansions(V, OneByte)
  <2>1. \A l \in Seq(OneByte) : Append(l, Newline) \in Seq(OneByte)
    BY AppendProperties
  <2>2. QED
    BY <2>1 DEF Expansions
<1>2. \A l \in Seq(V) : Expand(e, l) = Written(l)
  <2>1. ASSUME NEW l \in Seq(V) PROVE Expand(e, l) = Written(l)
    <3>1. DOMAIN l = 1..Len(l) /\ \A i \in 1..Len(l) : l[i] \in V
      <4> HIDE DEF V
      <4>1. QED
        BY LenProperties
    <3>2. \A i \in DOMAIN l : e[l[i]] = Append(l[i], Newline)
      BY <3>1
    <3> HIDE DEF e
    <3>3. [i \in DOMAIN l |-> e[l[i]]] = [i \in DOMAIN l |-> Append(l[i], Newline)]
      BY <3>2
    <3>4. QED
      BY <3>3 DEF Expand, Written
  <2>2. QED
    BY <2>1
<1>3. e[line] = Append(line, Newline)
  OBVIOUS
<1>4. lines \in Seq(V) /\ line \in V /\ <<>> \in Seq(V)
  BY EmptySeq
<1> HIDE DEF e, V
<1>5. Append(lines, line) \in Seq(V)
  BY <1>4, AppendProperties
<1>6. /\ Expand(e, <<>>) = <<>>
      /\ Expand(e, lines) \in Seq(OneByte)
      /\ Expand(e, Append(lines, line)) = Expand(e, lines) \o e[line]
  BY <1>1, <1>4, ExpandAppend
<1>7. QED
  BY <1>2, <1>3, <1>4, <1>5, <1>6

(* One line more.                                                            *)
LEMMA FirstStep ==
    ASSUME Narrow, Newline \in OneByte, NEW i \in Nat, i < Len(Lines)
    PROVE  /\ First(i) \in Seq(Seq(OneByte))
           /\ First(i + 1) = Append(First(i), Lines[i + 1])
           /\ Lines[i + 1] \in Seq(OneByte)
           /\ Written(First(i)) \in Seq(OneByte) /\ Before(i) \in Nat
           /\ Written(First(i + 1)) = Written(First(i)) \o Append(Lines[i + 1], Newline)
           /\ Before(i + 1) = Before(i) + Len(Lines[i + 1]) + 1
<1> DEFINE V == Seq(OneByte)
<1>1. Lines \in Seq(V) /\ Len(Lines) \in Nat
  BY LenProperties DEF Narrow
<1> HIDE DEF V
<1>2. i + 1 \in 1..Len(Lines) /\ (i + 1) - 1 = i /\ 1 \in 1..Len(Lines) /\ i + 1 \in 1..Len(Lines)
  BY <1>1
<1>3. Lines[i + 1] \in V /\ \A j \in 1..i : Lines[j] \in V
  <2>1. \A j \in 1..i : j \in 1..Len(Lines)
    BY <1>1
  <2>2. QED
    BY <1>1, <1>2, <2>1, ElementOfSeq
<1>4. First(i) \in Seq(V)
  BY <1>3, SubSeqProperties DEF First
<1>5. First(i + 1) = First(i) \o <<Lines[i + 1]>>
  BY <1>1, <1>2, SubSeqRecursiveSecond DEF First
<1>6. First(i + 1) = Append(First(i), Lines[i + 1])
  BY <1>3, <1>4, <1>5, AppendIsConcat
<1>7. Written(First(i)) \in Seq(OneByte)
      /\ Written(First(i + 1)) = Written(First(i)) \o Append(Lines[i + 1], Newline)
  BY <1>3, <1>4, <1>6, WrittenAppend DEF V
<1> DEFINE w == Written(First(i))
           line == Lines[i + 1]
<1>8. w \in Seq(OneByte) /\ line \in Seq(OneByte)
  BY <1>3, <1>7 DEF V
<1> HIDE DEF w, line
<1>9. Append(line, Newline) \in Seq(OneByte) /\ Len(Append(line, Newline)) = Len(line) + 1
  BY <1>8, AppendProperties
<1>10. Len(w \o Append(line, Newline)) = Len(w) + (Len(line) + 1) /\ Len(w) \in Nat /\ Len(line) \in Nat
  BY <1>8, <1>9, ConcatProperties, LenProperties
<1>11. QED
  <2>1. First(i) \in Seq(Seq(OneByte)) /\ Lines[i + 1] \in Seq(OneByte)
    BY <1>3, <1>4 DEF V
  <2>2. Before(i) = Len(w) /\ Before(i + 1) = Len(w \o Append(line, Newline))
    BY <1>7 DEF Before, w, line
  <2>3. Before(i) \in Nat /\ Before(i + 1) = Before(i) + Len(line) + 1
    BY <1>10, <2>2
  <2>4. QED
    BY <1>6, <1>7, <2>1, <2>3 DEF line

LEMMA FirstEnds ==
    ASSUME Narrow, Newline \in OneByte
    PROVE  /\ First(0) = <<>> /\ Written(<<>>) = <<>> /\ Before(0) = 0
           /\ First(Len(Lines)) = Lines /\ Written(Lines) = Text /\ Before(Len(Lines)) = Len(Text)
           /\ Text \in Seq(OneByte) /\ Len(Text) \in Nat /\ Len(Lines) \in Nat
<1> DEFINE V == Seq(OneByte)
<1>1. Lines \in Seq(V)
  BY DEF Narrow
<1>2. <<>> \in V
  BY EmptySeq
<1>3. Text \in Seq(OneByte) /\ Written(<<>>) = <<>>
  BY <1>1, <1>2, WrittenAppend DEF Text
<1> HIDE DEF V
<1>4. Len(Lines) \in Nat /\ First(Len(Lines)) = Lines
  BY <1>1, LenProperties, SubSeqFull DEF First
<1>5. First(0) = <<>>
  BY SubSeqEmpty DEF First
<1>6. Len(Text) \in Nat /\ Len(<<>>) = 0
  BY <1>3, LenProperties, EmptySeq
<1>7. QED
  BY <1>3, <1>4, <1>5, <1>6 DEF Before, Text

LEMMA FirstGrows ==
    ASSUME Narrow, Newline \in OneByte, NEW j \in Nat, NEW k \in Nat, j <= k, k <= Len(Lines)
    PROVE  /\ \E more \in Seq(OneByte) : Written(First(k)) = Written(First(j)) \o more
           /\ Before(j) <= Before(k)
<1> DEFINE P(m) == \E more \in Seq(OneByte) : Written(First(m)) = Written(First(j)) \o more
           T == {n \in Nat : j + n <= Len(Lines) => P(j + n) /\ Before(j) <= Before(j + n)}
<1>0. Len(Lines) \in Nat /\ j <= Len(Lines) /\ k - j \in Nat /\ j + (k - j) = k
  BY FirstEnds
<1>1. \A m \in Nat : m <= Len(Lines) => Written(First(m)) \in Seq(OneByte) /\ Before(m) \in Nat
  <2>1. ASSUME NEW m \in Nat, m < Len(Lines)
        PROVE  Written(First(m)) \in Seq(OneByte) /\ Before(m) \in Nat
    BY <2>1, FirstStep
  <2>2. Written(First(Len(Lines))) \in Seq(OneByte) /\ Before(Len(Lines)) \in Nat
    BY FirstEnds
  <2>3. ASSUME NEW m \in Nat, m <= Len(Lines) PROVE m < Len(Lines) \/ m = Len(Lines)
    BY <1>0, <2>3
  <2>4. QED
    BY <2>1, <2>2, <2>3
<1>2. 0 \in T
  <2> DEFINE w == Written(First(j))
  <2>1. w \in Seq(OneByte) /\ Before(j) \in Nat
    BY <1>0, <1>1
  <2> HIDE DEF w
  <2>2. w \o <<>> = w /\ <<>> \in Seq(OneByte)
    BY <2>1, ConcatEmptySeq, EmptySeq
  <2>3. P(j)
    BY <2>2 DEF w
  <2> HIDE DEF P
  <2>4. j + 0 = j
    OBVIOUS
  <2>5. QED
    BY <2>1, <2>3, <2>4
<1>3. ASSUME NEW n \in Nat, n \in T PROVE n + 1 \in T
  <2>1. ASSUME j + (n + 1) <= Len(Lines)
        PROVE  P(j + (n + 1)) /\ Before(j) <= Before(j + (n + 1))
    <3>1. j + n < Len(Lines) /\ j + n \in Nat /\ j + (n + 1) = (j + n) + 1
      BY <1>0, <2>1
    <3> DEFINE m == j + n
    <3>2. P(m) /\ Before(j) <= Before(m)
      BY <1>3, <3>1
    <3>3. m \in Nat /\ m < Len(Lines) /\ j + (n + 1) = m + 1
      BY <3>1
    <3> HIDE DEF T, m
    <3>4. /\ Lines[m + 1] \in Seq(OneByte)
          /\ Written(First(m + 1)) = Written(First(m)) \o Append(Lines[m + 1], Newline)
          /\ Before(m + 1) = Before(m) + Len(Lines[m + 1]) + 1
          /\ Before(m) \in Nat
      BY <3>3, FirstStep
    <3>5. PICK more \in Seq(OneByte) : Written(First(m)) = Written(First(j)) \o more
      BY <3>2
    <3> DEFINE line == Lines[m + 1]
               w == Written(First(j))
               longer == Append(line, Newline)
    <3>6. w \in Seq(OneByte) /\ Before(j) \in Nat /\ line \in Seq(OneByte)
      BY <1>0, <1>1, <3>4
    <3> HIDE DEF P, line, w
    <3>7. longer \in Seq(OneByte) /\ Len(line) \in Nat
      BY <3>6, AppendProperties, LenProperties
    <3> HIDE DEF longer
    <3>8. more \o longer \in Seq(OneByte)
      BY <3>7, ConcatProperties
    <3>9. Regroups(w, more, longer)
      BY <3>6, <3>7, Associative
    <3>10. Written(First(m + 1)) = w \o (more \o longer)
      BY <3>4, <3>5, <3>9 DEF Regroups, w, longer, line
    <3>11. P(m + 1)
      BY <3>8, <3>10 DEF P, w
    <3>12. Before(j) <= Before(m + 1)
      BY <3>2, <3>4, <3>6, <3>7 DEF line
    <3>13. QED
      BY <3>3, <3>11, <3>12
  <2> HIDE DEF P
  <2>2. QED
    BY <2>1
<1> HIDE DEF T
<1>4. k - j \in T
  BY <1>0, <1>2, <1>3, Induct
<1>5. QED
  BY <1>0, <1>4 DEF T

(* What is written first stays where it is.                                  *)
LEMMA FirstIsPrefix ==
    ASSUME Narrow, Newline \in OneByte, NEW i \in Nat, i <= Len(Lines)
    PROVE  /\ First(i) \in Seq(Seq(OneByte))
           /\ Written(First(i)) \in Seq(OneByte) /\ Before(i) \in 0..Len(Text)
           /\ SubSeq(Text, 1, Before(i)) = Written(First(i))
           /\ Split(Written(First(i))) = [complete |-> First(i), rest |-> <<>>]
<1> DEFINE P(k) == /\ First(k) \in Seq(Seq(OneByte))
                   /\ Written(First(k)) \in Seq(OneByte) /\ Before(k) \in Nat
                   /\ Split(Written(First(k))) = [complete |-> First(k), rest |-> <<>>]
           T == {k \in Nat : k <= Len(Lines) => P(k)}
<1>1. 0 \in T
  <2>1. P(0)
    <3>1. <<>> \in Seq(Seq(OneByte)) /\ <<>> \in Seq(OneByte)
      BY EmptySeq
    <3>2. QED
      BY <3>1, FirstEnds, SplitEmpty, 0 \in Nat DEF NoLines
  <2>2. QED
    BY <2>1
<1>2. ASSUME NEW k \in Nat, k \in T PROVE k + 1 \in T
  <2>1. ASSUME k + 1 <= Len(Lines) PROVE P(k + 1)
    <3> DEFINE line == Lines[k + 1]
               w == Written(First(k))
    <3>1. k < Len(Lines) /\ Len(Lines) \in Nat
      BY <2>1, FirstEnds
    <3>2. P(k)
      BY <1>2, <3>1
    <3>3. /\ First(k) \in Seq(Seq(OneByte)) /\ First(k + 1) = Append(First(k), line)
          /\ line \in Seq(OneByte) /\ w \in Seq(OneByte) /\ Before(k) \in Nat
          /\ Written(First(k + 1)) = w \o Append(line, Newline)
          /\ Before(k + 1) = Before(k) + Len(line) + 1
      BY <3>1, FirstStep
    <3>4. Split(w) = [complete |-> First(k), rest |-> <<>>]
      BY <3>2
    <3> HIDE DEF T, P, line, w
    <3>5. Append(line, Newline) \in Seq(OneByte) /\ Len(line) \in Nat
      BY <3>3, AppendProperties, LenProperties
    <3>6. OneLine(line)
      <4>1. k + 1 \in DOMAIN Lines
        BY <3>1, LenProperties DEF Narrow
      <4>2. Newline \notin ToSet(line)
        BY <4>1, LinesAssumption DEF LinesAssumption, line
      <4>3. DOMAIN line = 1..Len(line)
        BY <3>3, LenProperties
      <4>4. QED
        BY <4>2, <4>3 DEF ToSet, OneLine
    <3>7. Split(Append(line, Newline)) = [complete |-> <<line>>, rest |-> <<>>]
      <4>1. Split(line) = [complete |-> <<>>, rest |-> line]
        BY <3>3, <3>6, SplitRest
      <4>2. Split(Append(line, Newline)) = SplitOnce(Split(line), Newline)
        BY <3>3, SplitAppend
      <4>3. Append(<<>>, line) = <<line>>
        OBVIOUS
      <4>4. QED
        BY <4>1, <4>2, <4>3 DEF SplitOnce
    <3>8. <<>> \o Append(line, Newline) = Append(line, Newline)
      BY <3>5, ConcatEmptySeq
    <3>9. Split(w \o Append(line, Newline)) = After(First(k), Split(Append(line, Newline)))
      <4>1. Split(w \o Append(line, Newline))
              = After(Split(w).complete, Split(Split(w).rest \o Append(line, Newline)))
        BY <3>3, <3>5, SplitConcat
      <4>2. QED
        BY <3>4, <3>8, <4>1
    <3>10. First(k) \o <<line>> = First(k + 1) /\ First(k + 1) \in Seq(Seq(OneByte))
      <4> DEFINE V == Seq(OneByte)
                 f == First(k)
      <4>1. f \in Seq(V) /\ line \in V
        BY <3>3
      <4> HIDE DEF V, f
      <4>2. Append(f, line) \in Seq(V) /\ Append(f, line) = f \o <<line>>
        BY <4>1, AppendProperties, AppendIsConcat
      <4>3. QED
        BY <3>3, <4>2 DEF V, f
    <3>11. Split(Written(First(k + 1))) = [complete |-> First(k + 1), rest |-> <<>>]
      <4>1. Split(Written(First(k + 1))) = After(First(k), [complete |-> <<line>>, rest |-> <<>>])
        BY <3>3, <3>7, <3>9
      <4>2. After(First(k), [complete |-> <<line>>, rest |-> <<>>])
              = [complete |-> First(k) \o <<line>>, rest |-> <<>>]
        BY DEF After
      <4>3. QED
        BY <3>10, <4>1, <4>2
    <3>12. Written(First(k + 1)) \in Seq(OneByte)
      <4>1. w \o Append(line, Newline) \in Seq(OneByte)
        BY <3>3, <3>5, ConcatProperties
      <4>2. QED
        BY <3>3, <4>1
    <3>13. Before(k + 1) \in Nat
      BY <3>3, <3>5
    <3>14. QED
      BY <3>10, <3>11, <3>12, <3>13 DEF P
  <2>2. QED
    BY <2>1
<1> HIDE DEF T
<1>3. i \in T
  BY <1>1, <1>2, Induct
<1>4. P(i)
  BY <1>3 DEF T
<1> HIDE DEF P
<1>5. PICK more \in Seq(OneByte) : Text = Written(First(i)) \o more
  <2> DEFINE k == Len(Lines)
  <2>1. k \in Nat /\ i <= k /\ k <= Len(Lines) /\ Written(First(k)) = Text
    BY FirstEnds
  <2> HIDE DEF k
  <2>2. QED
    BY <2>1, FirstGrows
<1> DEFINE w == Written(First(i))
<1>6. w \in Seq(OneByte) /\ Text = w \o more /\ Before(i) = Len(w)
  BY <1>4, <1>5 DEF P, Before
<1> HIDE DEF w
<1>7. Len(Text) = Len(w) + Len(more) /\ Len(w) \in Nat /\ Len(more) \in Nat
  BY <1>6, ConcatProperties, LenProperties
<1>8. SubSeq(Text, 1, Len(w)) = w
  BY <1>6, SubSeqOfConcat, ConcatEmptySeq
<1>9. QED
  BY <1>4, <1>6, <1>7, <1>8 DEF P, w

(* Every place in the text is in a line, in its newline or at the end.       *)
AtLine(n, i) ==
    /\ i \in Nat /\ i <= Len(Lines) /\ Before(i) <= n
    /\ i < Len(Lines) => n < Before(i + 1)
    /\ i = Len(Lines) => n = Before(i)

LEMMA SomeLine ==
    ASSUME Narrow, Newline \in OneByte, NEW n \in 0..Len(Text)
    PROVE  \E i \in Nat : AtLine(n, i)
<1> DEFINE last == Len(Lines)
           S == {k \in Nat : k <= last /\ (k = last \/ n < Before(k + 1))}
<1>1. last \in Nat /\ Before(0) = 0 /\ Before(last) = Len(Text) /\ Len(Text) \in Nat /\ n \in Nat
  BY FirstEnds
<1>2. \A k \in Nat : k <= last => Before(k) \in Nat
  BY FirstIsPrefix
<1> HIDE DEF last
<1>3. last \in S
  BY <1>1
<1>4. PICK i \in S : \A k \in S : i <= k
  BY <1>3, Least
<1>5. i \in Nat /\ i <= last /\ (i = last \/ n < Before(i + 1))
  BY <1>4
<1>6. Before(i) <= n
  <2>1. CASE i = 0
    BY <1>1, <2>1
  <2>2. CASE i # 0
    <3>1. i - 1 \in Nat /\ i - 1 <= last /\ i - 1 # last /\ (i - 1) + 1 = i
      BY <1>1, <1>5, <2>2
    <3>2. i - 1 \notin S
      BY <1>4, <1>5, <3>1
    <3>3. ~(n < Before(i))
      BY <3>1, <3>2
    <3>4. QED
      BY <1>1, <1>2, <1>5, <3>3
  <2>3. QED
    BY <2>1, <2>2
<1> HIDE DEF S
<1>7. i < last => n < Before(i + 1)
  BY <1>1, <1>5
<1>8. i = last => n = Before(i)
  BY <1>1, <1>6
<1>9. QED
  BY <1>5, <1>6, <1>7, <1>8 DEF AtLine, last

(* What has been read of the line that comes next.                           *)
Begun(n, i) == SubSeq(Lines[i + 1], 1, n - Before(i))

LEMMA SplitAtLine ==
    ASSUME Narrow, Newline \in OneByte, NEW n \in 0..Len(Text), NEW i \in Nat, AtLine(n, i),
           i < Len(Lines)
    PROVE  /\ Split(SubSeq(Text, 1, n)) = [complete |-> First(i), rest |-> Begun(n, i)]
           /\ Begun(n, i) \in Seq(OneByte) /\ Len(Begun(n, i)) = n - Before(i)
<1> DEFINE line == Lines[i + 1]
           w == Written(First(i))
           b == Before(i)
           d == n - b
           begun == SubSeq(line, 1, d)
           part == SubSeq(Text, b + 1, n)
           longer == Append(line, Newline)
<1>1. /\ First(i) \in Seq(Seq(OneByte)) /\ line \in Seq(OneByte) /\ w \in Seq(OneByte) /\ b \in Nat
      /\ Written(First(i + 1)) = w \o longer
      /\ Before(i + 1) = b + Len(line) + 1 /\ b = Len(w)
  BY FirstStep DEF Before
<1>2. Text \in Seq(OneByte) /\ Len(Text) \in Nat /\ n \in Nat /\ i + 1 \in Nat /\ i + 1 <= Len(Lines)
  BY FirstEnds
<1>3. /\ SubSeq(Text, 1, b) = w
      /\ Split(w) = [complete |-> First(i), rest |-> <<>>]
      /\ SubSeq(Text, 1, Before(i + 1)) = Written(First(i + 1)) /\ Before(i + 1) <= Len(Text)
  BY <1>2, FirstIsPrefix
<1>4. b <= n /\ n < Before(i + 1)
  BY DEF AtLine
<1>5. OneLine(line)
  <2>1. i + 1 \in DOMAIN Lines
    BY <1>2, FirstEnds, LenProperties DEF Narrow
  <2>2. Newline \notin ToSet(line)
    BY <2>1, LinesAssumption DEF LinesAssumption
  <2>3. DOMAIN line = 1..Len(line)
    BY <1>1, LenProperties
  <2>4. QED
    BY <2>2, <2>3 DEF ToSet, OneLine
<1> HIDE DEF line, w, b
<1>6. Len(line) \in Nat /\ d \in 0..Len(line) /\ n = b + d
  BY <1>1, <1>2, <1>4, LenProperties
<1>7. /\ longer \in Seq(OneByte) /\ Len(longer) = Len(line) + 1
      /\ \A k \in 1..Len(line) : longer[k] = line[k]
  <2>1. Newline \in OneByte
    OBVIOUS
  <2>2. QED
    BY <1>1, <2>1, AppendProperties
<1> HIDE DEF longer, d
<1>8. \A k \in 1..d : Text[b + k] = line[k]
  <2> DEFINE e == Before(i + 1)
             x == w \o longer
  <2>1. e = b + Len(line) + 1 /\ SubSeq(Text, 1, e) = x /\ e <= Len(Text)
    BY <1>1, <1>3
  <2>2. \A j \in 1..e : Text[j] \in OneByte
    <3>1. \A j \in 1..e : j \in 1..Len(Text)
      BY <1>1, <1>2, <1>6, <2>1
    <3>2. QED
      BY <1>2, <3>1, ElementOfSeq
  <2>3. \A j \in 1..(e - 1 + 1) : SubSeq(Text, 1, e)[j] = Text[1 + j - 1]
    <3>1. e \in Int /\ 1 \in Int
      BY <1>1, <1>6, <2>1
    <3> HIDE DEF e
    <3>2. QED
      BY <2>2, <3>1, SubSeqProperties
  <2>4. Len(w) = b /\ \A j \in 1..(Len(w) + Len(longer)) :
            x[j] = IF j <= Len(w) THEN w[j] ELSE longer[j - Len(w)]
    BY <1>1, <1>7, ConcatProperties
  <2> HIDE DEF e, x
  <2>5. ASSUME NEW k \in 1..d PROVE Text[b + k] = line[k]
    <3> DEFINE j == b + k
    <3>1. j \in Nat /\ k \in Nat /\ b \in Nat /\ e \in Nat /\ 1 <= k /\ k <= d /\ d <= Len(line)
      BY <1>1, <1>6, <2>1
    <3>2. 1 <= j /\ j <= e /\ 1 + j - 1 = j /\ e - 1 + 1 = e /\ b < j /\ j - b = k /\ j <= b + Len(longer)
      BY <1>6, <1>7, <2>1, <3>1
    <3> HIDE DEF j
    <3>3. SubSeq(Text, 1, e)[j] = Text[j]
      BY <2>3, <3>1, <3>2
    <3>4. x[j] = longer[k]
      <4>1. j \in 1..(Len(w) + Len(longer)) /\ ~(j <= Len(w)) /\ j - Len(w) = k
        BY <1>6, <1>7, <2>4, <3>1, <3>2
      <4>2. QED
        BY <2>4, <4>1
    <3>5. longer[k] = line[k]
      BY <1>6, <1>7, <3>1
    <3>6. QED
      BY <2>1, <3>3, <3>4, <3>5 DEF j
  <2>6. QED
    BY <2>5
<1>9. /\ begun \in Seq(OneByte) /\ Len(begun) = d
      /\ \A k \in 1..d : begun[k] = line[k]
  <2>1. \A k \in 1..d : line[k] \in OneByte
    <3>1. \A k \in 1..d : k \in 1..Len(line)
      BY <1>6
    <3>2. QED
      BY <1>1, <3>1, ElementOfSeq
  <2>2. /\ begun \in Seq(OneByte) /\ Len(begun) = IF 1 <= d THEN d - 1 + 1 ELSE 0
        /\ \A k \in 1..(d - 1 + 1) : begun[k] = line[1 + k - 1]
    BY <1>6, <2>1, SubSeqProperties
  <2> HIDE DEF begun
  <2>3. d - 1 + 1 = d /\ \A k \in 1..d : 1 + k - 1 = k
    BY <1>6
  <2>4. QED
    BY <1>6, <2>2, <2>3
<1>10. /\ part \in Seq(OneByte) /\ Len(part) = d
       /\ \A k \in 1..d : part[k] = Text[b + k]
  <2>1. \A k \in (b + 1)..n : Text[k] \in OneByte
    <3>1. \A k \in (b + 1)..n : k \in 1..Len(Text)
      BY <1>1, <1>2
    <3>2. QED
      BY <1>2, <3>1, ElementOfSeq
  <2>2. /\ part \in Seq(OneByte) /\ Len(part) = IF b + 1 <= n THEN n - (b + 1) + 1 ELSE 0
        /\ \A k \in 1..(n - (b + 1) + 1) : part[k] = Text[(b + 1) + k - 1]
    <3>1. b + 1 \in Int /\ n \in Int
      BY <1>1, <1>2
    <3>2. QED
      BY <2>1, <3>1, SubSeqProperties
  <2> HIDE DEF part
  <2>3. n - (b + 1) + 1 = d /\ (b + 1 <= n <=> d # 0) /\ \A k \in 1..d : (b + 1) + k - 1 = b + k
    BY <1>1, <1>2, <1>6
  <2>4. QED
    BY <2>2, <2>3
<1> HIDE DEF begun, part
<1>11. part = begun
  <2>1. Len(part) = Len(begun) /\ \A k \in 1..Len(part) : part[k] = begun[k]
    BY <1>8, <1>9, <1>10
  <2>2. QED
    BY <1>9, <1>10, <2>1, SeqEqual
<1>12. OneLine(begun)
  BY <1>5, <1>6, <1>9 DEF OneLine
<1>13. SubSeq(Text, 1, n) = w \o begun
  <2>1. SubSeq(Text, 1, b) \o SubSeq(Text, b + 1, n) = SubSeq(Text, 1, n)
    <3>1. 1 \in 1..(Len(Text) + 1) /\ b \in (1 - 1)..Len(Text) /\ n \in b..Len(Text)
      BY <1>1, <1>2, <1>4
    <3>2. QED
      BY <1>2, <3>1, ConcatAdjacentSubSeq
  <2>2. QED
    BY <1>3, <1>11, <2>1 DEF part
<1>14. Split(w \o begun) = After(First(i), Split(begun))
  <2>1. Split(w \o begun) = After(Split(w).complete, Split(Split(w).rest \o begun))
    BY <1>1, <1>9, SplitConcat
  <2>2. <<>> \o begun = begun
    BY <1>9, ConcatEmptySeq
  <2>3. QED
    BY <1>3, <2>1, <2>2
<1>15. Split(begun) = [complete |-> <<>>, rest |-> begun]
  BY <1>9, <1>12, SplitRest
<1>16. First(i) \o <<>> = First(i)
  <2> DEFINE V == Seq(OneByte)
             f == First(i)
  <2>1. f \in Seq(V)
    BY <1>1
  <2> HIDE DEF V, f
  <2>2. f \o <<>> = f
    BY <2>1, ConcatEmptySeq
  <2>3. QED
    BY <2>2 DEF f
<1>17. Split(w \o begun) = [complete |-> First(i), rest |-> begun]
  BY <1>14, <1>15, <1>16 DEF After
<1>18. QED
  BY <1>9, <1>13, <1>17 DEF Begun, begun, line, d, b

(* Where the lines of the file end, in bytes.                                *)
LEMMA EndIs ==
    ASSUME Narrow, Newline \in OneByte, NEW i \in Nat, i <= Len(Lines)
    PROVE  End(i) = Before(i) /\ Before(i) \in Nat
<1>1. Written(First(i)) \in Seq(OneByte) /\ Before(i) \in Nat
  BY FirstIsPrefix
<1>2. Len(Encode(Written(First(i)))) = Len(Written(First(i)))
  BY <1>1, EncodeNarrow
<1>3. QED
  BY <1>1, <1>2 DEF End, Before, First

LEMMA MaxIs ==
    ASSUME NEW S, S \subseteq Nat, NEW m \in S, \A k \in S : k <= m
    PROVE  Max(S) = m
<1>1. \A k \in S : m >= k
  OBVIOUS
<1>2. Max(S) \in S /\ \A k \in S : Max(S) >= k
  BY <1>1 DEF Max
<1> DEFINE x == Max(S)
<1>3. x \in S /\ x >= m
  BY <1>2
<1> HIDE DEF x
<1>4. x \in Nat /\ m \in Nat /\ x <= m
  BY <1>3
<1>5. QED
  BY <1>3, <1>4 DEF x

(* The lines that are whole in the first n bytes are those before the place, *)
(* and the one the place is in if all of it is there; if some of it is, that *)
(* is the partial one.                                                       *)
LEMMA WholeAtLine ==
    ASSUME Narrow, Newline \in OneByte, NEW n \in 0..Len(Text), NEW i \in Nat, AtLine(n, i)
    PROVE  /\ WholeLines(n) = IF i < Len(Lines) /\ n = Before(i + 1) - 1 THEN First(i + 1) ELSE First(i)
           /\ Partial(n) <=> i < Len(Lines) /\ Before(i) < n /\ n < Before(i + 1) - 1
<1> DEFINE last == Len(Lines)
<1>1. last \in Nat /\ n \in Nat /\ Before(0) = 0 /\ Before(last) = Len(Text) /\ DOMAIN Lines = 1..last
  BY FirstEnds, LenProperties DEF Narrow
<1>2. \A k \in Nat : k <= last => End(k) = Before(k) /\ Before(k) \in Nat
  BY EndIs
<1>3. \A j, k \in Nat : j <= k /\ k <= last => Before(j) <= Before(k)
  BY FirstGrows
<1>4. /\ i <= last /\ Before(i) <= n
      /\ i < last => n < Before(i + 1)
      /\ i = last => n = Before(i)
  BY DEF AtLine
<1>5. \A k \in Nat : k < last => Before(k) + 1 <= Before(k + 1)
  <2>1. ASSUME NEW k \in Nat, k < last PROVE Before(k) + 1 <= Before(k + 1)
    <3>1. Lines[k + 1] \in Seq(OneByte) /\ Before(k) \in Nat /\ Before(k + 1) = Before(k) + Len(Lines[k + 1]) + 1
      BY <2>1, FirstStep
    <3> DEFINE line == Lines[k + 1]
    <3>2. Len(line) \in Nat
      BY <3>1, LenProperties
    <3> HIDE DEF line
    <3>3. QED
      BY <3>1, <3>2 DEF line
  <2>2. QED
    BY <2>1
<1> HIDE DEF last
<1> DEFINE S == {0} \cup {k \in 1..last : End(k) - 1 <= n}
           m == IF i < last /\ n = Before(i + 1) - 1 THEN i + 1 ELSE i
<1>6. m \in S
  <2>1. CASE i < last /\ n = Before(i + 1) - 1
    BY <1>1, <1>2, <2>1
  <2>2. CASE ~(i < last /\ n = Before(i + 1) - 1)
    <3>1. CASE i = 0
      BY <2>2, <3>1
    <3>2. CASE i # 0
      <4>1. i \in 1..last /\ End(i) = Before(i) /\ Before(i) \in Nat
        BY <1>1, <1>2, <1>4, <3>2
      <4>2. QED
        BY <1>1, <1>4, <2>2, <4>1
    <3>3. QED
      BY <3>1, <3>2
  <2>3. QED
    BY <2>1, <2>2
<1>7. ASSUME NEW k \in S PROVE k <= m
  <2>1. CASE k <= i
    BY <1>1, <2>1
  <2>2. CASE ~(k <= i)
    <3>1. k \in Nat /\ i + 1 <= k /\ k <= last /\ i < last /\ i + 1 \in Nat /\ i + 1 <= last
      BY <1>1, <1>7, <2>2
    <3>2. Before(k) - 1 <= n /\ Before(k) \in Nat
      BY <1>2, <1>7, <2>2, <3>1
    <3>3. Before(i + 1) <= Before(k) /\ Before(i + 1) \in Nat
      BY <1>2, <1>3, <3>1
    <3>4. n = Before(i + 1) - 1
      BY <1>1, <1>4, <3>1, <3>2, <3>3
    <3>5. k = i + 1
      <4>1. CASE k = i + 1
        BY <4>1
      <4>2. CASE k # i + 1
        <5>1. i + 2 <= k /\ i + 1 < last /\ i + 2 = (i + 1) + 1 /\ i + 2 \in Nat /\ i + 2 <= last
          BY <1>1, <3>1, <4>2
        <5>2. Before(i + 1) + 1 <= Before(i + 2)
          BY <1>5, <3>1, <5>1
        <5>3. Before(i + 2) <= Before(k) /\ Before(i + 2) \in Nat
          BY <1>2, <1>3, <3>1, <5>1
        <5>4. QED
          BY <1>1, <3>2, <3>3, <3>4, <5>2, <5>3
      <4>3. QED
        BY <4>1, <4>2
    <3>6. QED
      BY <3>1, <3>4, <3>5
  <2>3. QED
    BY <2>1, <2>2
<1>8. S \subseteq Nat
  BY <1>1
<1> HIDE DEF m
<1>9. WholeLines(n) = First(m)
  <2> HIDE DEF S
  <2>1. Max(S) = m
    BY <1>6, <1>7, <1>8, MaxIs
  <2>2. QED
    BY <1>1, <2>1 DEF WholeLines, First, S
<1>10. Partial(n) <=> i < last /\ Before(i) < n /\ n < Before(i + 1) - 1
  <2>1. ASSUME i < last /\ Before(i) < n /\ n < Before(i + 1) - 1 PROVE Partial(n)
    <3>1. i + 1 \in 1..last /\ (i + 1) - 1 = i /\ i + 1 \in Nat
      BY <1>1, <2>1
    <3>2. End(i) = Before(i) /\ End(i + 1) = Before(i + 1)
      BY <1>1, <1>2, <1>4, <3>1
    <3>3. i + 1 \in DOMAIN Lines
      BY <1>1, <3>1
    <3>4. QED
      BY <2>1, <3>1, <3>2, <3>3 DEF Partial
  <2>2. ASSUME Partial(n) PROVE i < last /\ Before(i) < n /\ n < Before(i + 1) - 1
    <3>1. PICK k \in 1..last : End(k - 1) < n /\ n < End(k) - 1
      BY <1>1, <2>2 DEF Partial
    <3>2. /\ k \in Nat /\ k - 1 \in Nat /\ k <= last /\ k - 1 <= last /\ (k - 1) + 1 = k
          /\ Before(k - 1) < n /\ n < Before(k) - 1 /\ Before(k) \in Nat /\ Before(k - 1) \in Nat
      BY <1>1, <1>2, <3>1
    <3>3. CASE k <= i
      <4>1. Before(k) <= Before(i) /\ Before(i) \in Nat
        BY <1>2, <1>3, <1>4, <3>2, <3>3
      <4>2. QED
        BY <1>1, <1>4, <3>2, <4>1
    <3>4. CASE i + 1 <= k - 1
      <4>1. i + 1 \in Nat /\ i + 1 <= last /\ i < last
        BY <1>1, <3>2, <3>4
      <4>2. Before(i + 1) <= Before(k - 1) /\ Before(i + 1) \in Nat
        BY <1>2, <1>3, <3>2, <3>4, <4>1
      <4>3. QED
        BY <1>1, <1>4, <3>2, <4>1, <4>2
    <3>5. CASE k = i + 1
      <4>1. k - 1 = i /\ i < last
        BY <1>1, <3>2, <3>5
      <4>2. QED
        BY <3>2, <3>5, <4>1
    <3>6. QED
      BY <3>2, <3>3, <3>4, <3>5
  <2>3. QED
    BY <2>1, <2>2
<1>11. QED
  BY <1>9, <1>10 DEF m, last

(* What a pass that has got to a place knows of the lines.                   *)
LEMMA TailTells ==
    ASSUME Narrow, Newline \in OneByte, NEW n \in 0..Len(Text)
    PROVE  LET s == Split(SubSeq(Text, 1, n))
           IN  \/ s.rest = <<>> /\ WholeLines(n) = s.complete /\ ~Partial(n)
               \/ s.rest # <<>> /\ WholeLines(n) = Append(s.complete, s.rest) /\ ~Partial(n)
               \/ s.rest # <<>> /\ WholeLines(n) = s.complete /\ Partial(n) /\ ~Parses(s.rest)
<1>1. PICK i \in Nat : AtLine(n, i)
  BY SomeLine
<1> DEFINE s == Split(SubSeq(Text, 1, n))
<1>2. n \in Nat /\ Len(Lines) \in Nat
  BY FirstEnds
<1>3. CASE i = Len(Lines)
  <2>1. n = Len(Text) /\ WholeLines(n) = First(i) /\ ~Partial(n)
    <3>1. n = Before(i) /\ ~(i < Len(Lines))
      BY <1>1, <1>2, <1>3 DEF AtLine
    <3>2. QED
      BY <1>1, <1>3, <3>1, WholeAtLine, FirstEnds
  <2>2. SubSeq(Text, 1, n) = Written(First(i)) /\ Split(Written(First(i))) = [complete |-> First(i), rest |-> <<>>]
    <3>1. Before(i) = n
      BY <1>1, <1>3 DEF AtLine
    <3>2. i <= Len(Lines)
      BY <1>2, <1>3
    <3>3. QED
      BY <3>1, <3>2, FirstIsPrefix
  <2>3. s = [complete |-> First(i), rest |-> <<>>]
    BY <2>2
  <2> HIDE DEF s
  <2>4. s.rest = <<>> /\ s.complete = First(i)
    BY <2>3
  <2>5. QED
    BY <2>1, <2>4 DEF s
<1>4. CASE i < Len(Lines)
  <2> DEFINE line == Lines[i + 1]
             r == Begun(n, i)
             d == n - Before(i)
  <2>1. s = [complete |-> First(i), rest |-> r] /\ r \in Seq(OneByte) /\ Len(r) = d
    BY <1>1, <1>4, SplitAtLine
  <2>2. /\ WholeLines(n) = IF n = Before(i + 1) - 1 THEN First(i + 1) ELSE First(i)
        /\ Partial(n) <=> Before(i) < n /\ n < Before(i + 1) - 1
    BY <1>1, <1>4, WholeAtLine
  <2>3. /\ First(i + 1) = Append(First(i), line) /\ line \in Seq(OneByte)
        /\ Before(i + 1) = Before(i) + Len(line) + 1 /\ Before(i) \in Nat
    BY <1>4, FirstStep
  <2>4. line # <<>> /\ \A k \in 1..(Len(line) - 1) : ~Parses(SubSeq(line, 1, k))
    <3>1. i + 1 \in DOMAIN Lines
      BY <1>2, <1>4, LenProperties DEF Narrow
    <3>2. QED
      BY <3>1, LinesAssumption DEF LinesAssumption
  <2>5. r = SubSeq(line, 1, d)
    BY DEF Begun
  <2>6. n < Before(i + 1) /\ Before(i) <= n
    BY <1>1, <1>4 DEF AtLine
  <2> HIDE DEF s, line, r
  <2>7. s.complete = First(i) /\ s.rest = r
    BY <2>1
  <2>8. Len(line) \in Nat \ {0} /\ SubSeq(line, 1, Len(line)) = line /\ Len(<<>>) = 0
    BY <2>3, <2>4, EmptySeq, SubSeqFull
  <2>9. d \in 0..Len(line) /\ (d = Len(line) <=> n = Before(i + 1) - 1)
    <3> DEFINE b == Before(i)
               c == Before(i + 1)
               l == Len(line)
    <3>1. n \in Nat /\ b \in Nat /\ l \in Nat /\ c = b + l + 1 /\ n < c /\ b <= n
      BY <1>2, <2>3, <2>6, <2>8
    <3> HIDE DEF b, c, l
    <3>2. n - b \in 0..l /\ (n - b = l <=> n = c - 1)
      BY <3>1
    <3>3. QED
      BY <3>2 DEF b, c, l
  <2>10. r = <<>> <=> d = 0
    <3>1. r = <<>> => d = 0
      BY <2>1, <2>8
    <3>2. r # <<>> => d # 0
      BY <2>1, EmptySeq
    <3>3. QED
      BY <3>1, <3>2
  <2>11. CASE d = 0
    <3>1. ~(n = Before(i + 1) - 1) /\ ~Partial(n)
      BY <1>2, <2>2, <2>3, <2>8, <2>9, <2>11
    <3>2. QED
      BY <2>2, <2>7, <2>10, <2>11, <3>1 DEF s
  <2>12. CASE d = Len(line)
    <3>1. n = Before(i + 1) - 1 /\ ~Partial(n) /\ d # 0
      <4>1. n = Before(i + 1) - 1 /\ Before(i + 1) \in Nat /\ d # 0
        BY <2>3, <2>8, <2>9, <2>12
      <4>2. QED
        BY <1>2, <2>2, <4>1
    <3>2. r = line
      BY <2>5, <2>8, <2>12
    <3>3. WholeLines(n) = Append(s.complete, s.rest) /\ s.rest # <<>>
      BY <2>2, <2>3, <2>4, <2>7, <3>1, <3>2
    <3>4. QED
      BY <3>1, <3>3 DEF s
  <2>13. CASE d # 0 /\ d # Len(line)
    <3>1. ~(n = Before(i + 1) - 1) /\ Partial(n) /\ d \in 1..(Len(line) - 1)
      <4>1. ~(n = Before(i + 1) - 1) /\ d \in 1..(Len(line) - 1) /\ Before(i) < n /\ n < Before(i + 1) - 1
        BY <1>2, <2>3, <2>6, <2>8, <2>9, <2>13
      <4>2. QED
        BY <2>2, <4>1
    <3>2. ~Parses(r)
      BY <2>4, <2>5, <3>1
    <3>3. QED
      BY <2>2, <2>7, <2>10, <2>13, <3>1, <3>2 DEF s
  <2>14. QED
    BY <2>11, <2>12, <2>13
<1>5. i <= Len(Lines)
  BY <1>1 DEF AtLine
<1>6. QED
  BY <1>2, <1>3, <1>4, <1>5

-----------------------------------------------------------------------------
(* What decodes.                                                           *)

Take(line) == IF Decodes(line) THEN <<line>> ELSE <<>>

TakesBoth(a, b) ==
    Taken(a \o b) = Taken(a) \o Taken(b) /\ Rejected(a \o b) = Rejected(a) + Rejected(b)

LEMMA TakenConcat ==
    ASSUME NEW V, NEW lines \in Seq(V), NEW more \in Seq(V), NEW line \in V
    PROVE  /\ Taken(lines) \in Seq(V) /\ Rejected(lines) \in Int
           /\ TakesBoth(lines, more)
           /\ Taken(<<line>>) = Take(line)
           /\ Taken(<<>>) = <<>> /\ Rejected(<<>>) = 0
           /\ Rejected(<<line>>) = IF Decodes(line) THEN 0 ELSE 1
<1> DEFINE e == [l \in V |-> Take(l)]
<1>1. e \in Expansions(V, V)
  <2>1. \A l \in V : <<l>> \in Seq(V) /\ <<>> \in Seq(V)
    BY EmptySeq
  <2>2. \A l \in V : Take(l) \in Seq(V)
    BY <2>1 DEF Take
  <2>3. QED
    BY <2>2 DEF Expansions
<1>2. \A l \in V : e[l] = Take(l)
  OBVIOUS
<1> HIDE DEF e
<1>3. \A l \in Seq(V) : Expand(e, l) = Taken(l)
  <2>1. ASSUME NEW l \in Seq(V) PROVE Expand(e, l) = Taken(l)
    <3>1. \A i \in DOMAIN l : l[i] \in V
      BY LenProperties
    <3>2. [i \in DOMAIN l |-> e[l[i]]] = [i \in DOMAIN l |-> IF Decodes(l[i]) THEN <<l[i]>> ELSE <<>>]
      BY <1>2, <3>1 DEF Take
    <3>3. QED
      BY <3>2 DEF Expand, Taken
  <2>2. QED
    BY <2>1
<1>4. <<>> \in Seq(V) /\ <<line>> \in Seq(V) /\ lines \o more \in Seq(V) /\ Append(<<>>, line) = <<line>>
  BY EmptySeq, ConcatProperties
<1>5. Expand(e, lines \o more) = Expand(e, lines) \o Expand(e, more)
  BY <1>1, ExpandConcat
<1>6. /\ \A l \in Seq(V) : Expand(e, l) \in Seq(V)
      /\ Expand(e, <<>>) = <<>>
      /\ Expand(e, Append(<<>>, line)) = Expand(e, <<>>) \o e[line]
  <2> DEFINE none == <<>>
  <2>1. none \in Seq(V)
    BY <1>4
  <2> HIDE DEF none
  <2>2. Expand(e, <<>>) = <<>> /\ Expand(e, Append(none, line)) = Expand(e, none) \o e[line]
    BY <1>1, <2>1, ExpandAppend
  <2>3. \A l \in Seq(V) : Expand(e, l) \in Seq(V)
    BY <1>1, ExpandAppend
  <2>4. QED
    BY <2>2, <2>3 DEF none
<1>7. Taken(<<line>>) = Take(line)
  <2>1. Take(line) \in Seq(V)
    BY <1>4 DEF Take
  <2>2. <<>> \o Take(line) = Take(line)
    BY <2>1, ConcatEmptySeq
  <2>3. QED
    BY <1>2, <1>3, <1>4, <1>6, <2>2
<1>8. Taken(lines \o more) = Taken(lines) \o Taken(more) /\ Taken(<<>>) = <<>>
  BY <1>3, <1>4, <1>5, <1>6
<1>9. Taken(lines) \in Seq(V) /\ Taken(more) \in Seq(V)
  BY <1>3, <1>6
<1> DEFINE a == Taken(lines)
           b == Taken(more)
           c == lines \o more
<1>10. a \in Seq(V) /\ b \in Seq(V) /\ Taken(c) = a \o b
  BY <1>8, <1>9
<1>11. Len(c) = Len(lines) + Len(more) /\ Len(lines) \in Nat /\ Len(more) \in Nat
  BY ConcatProperties, LenProperties
<1> HIDE DEF a, b, c
<1>12. Len(a \o b) = Len(a) + Len(b) /\ Len(a) \in Nat /\ Len(b) \in Nat
  BY <1>10, ConcatProperties, LenProperties
<1>13. Rejected(lines) = Len(lines) - Len(a) /\ Rejected(more) = Len(more) - Len(b)
       /\ Rejected(c) = Len(c) - Len(a \o b)
  BY <1>10 DEF Rejected, a, b
<1>14. Rejected(c) = Rejected(lines) + Rejected(more) /\ Rejected(lines) \in Int
  BY <1>11, <1>12, <1>13
<1>15. Len(<<>>) = 0 /\ Len(<<line>>) = 1
  OBVIOUS
<1>16. Rejected(<<>>) = 0 /\ Rejected(<<line>>) = IF Decodes(line) THEN 0 ELSE 1
  <2>1. Rejected(<<>>) = 0
    BY <1>8, <1>15 DEF Rejected
  <2>2. Rejected(<<line>>) = 1 - Len(Take(line))
    BY <1>7, <1>15 DEF Rejected
  <2>3. Len(Take(line)) = IF Decodes(line) THEN 1 ELSE 0
    BY <1>15 DEF Take
  <2>4. QED
    BY <2>1, <2>2, <2>3
<1>17. QED
  BY <1>7, <1>8, <1>9, <1>14, <1>16 DEF c, TakesBoth

-----------------------------------------------------------------------------
(* A pass over text of one-byte characters.                                *)

(* In the middle of a pass what has been yielded and counted, and what waits *)
(* in the buffer, are what splitting the text so far in one piece would give.*)
Passing ==
    LET s == Split(SubSeq(Text, 1, pos))
    IN  buffer = s.rest /\ out = Taken(s.complete) /\ malformed = Rejected(s.complete)

PassInv ==
    /\ size \in 0..Len(Text) /\ pos \in 0..size
    /\ pc = "reading" => Passing
    /\ ReadsEveryWholeLine
    /\ CountsTheDamage

LEMMA BytesAreText ==
    ASSUME Narrow
    PROVE  /\ Newline \in OneByte /\ Len(Bytes) = Len(Text) /\ Bytes = Encode(Text)
           /\ Text \in Seq(OneByte) /\ Len(Text) \in Nat
<1>1. Newline \in OneByte
  <2>1. Newline \notin Wide
    BY LinesAssumption DEF LinesAssumption
  <2>2. QED
    BY <2>1 DEF OneByte
<1>2. Text \in Seq(OneByte) /\ Len(Text) \in Nat
  BY <1>1, FirstEnds
<1>3. QED
  BY <1>1, <1>2, EncodeNarrow DEF Bytes, Text

LEMMA InitPass == ASSUME Narrow, Init PROVE PassInv
  BY BytesAreText DEF Init, PassInv, ReadsEveryWholeLine, CountsTheDamage

LEMMA StartOfPass == ASSUME Narrow, PassInv, StartPass PROVE PassInv'
<1>1. pc' = "reading" /\ pos' = 0 /\ buffer' = <<>> /\ out' = <<>> /\ malformed' = 0 /\ size' = size
  BY DEF StartPass
<1>2. SubSeq(Text, 1, 0) = <<>>
  BY SubSeqEmpty
<1>3. Taken(<<>>) = <<>> /\ Rejected(<<>>) = 0
  <2>1. <<>> \in Seq({1}) /\ 1 \in {1}
    BY EmptySeq
  <2>2. QED
    BY <2>1, TakenConcat
<1>4. Passing'
  <2>1. Split(SubSeq(Text, 1, pos')) = NoLines
    BY <1>1, <1>2, SplitEmpty
  <2>2. NoLines.rest = <<>> /\ NoLines.complete = <<>>
    BY DEF NoLines
  <2>3. QED
    BY <1>1, <1>3, <2>1, <2>2 DEF Passing, Text
<1>5. QED
  BY <1>1, <1>4, BytesAreText DEF PassInv, ReadsEveryWholeLine, CountsTheDamage

LEMMA ChunkRead == ASSUME Narrow, PassInv, ReadChunk PROVE PassInv'
<1> DEFINE s == Split(SubSeq(Text, 1, pos))
           V == Seq(OneByte)
<1>1. PICK n \in 1..(size - pos) :
        /\ pos' = pos + n
        /\ LET text == buffer \o Decode(SubSeq(Bytes, pos + 1, pos + n))
           IN  /\ Yield(Split(text).complete)
               /\ buffer' = Split(text).rest
  BY DEF ReadChunk
<1>2. pc = "reading" /\ pc' = "reading" /\ size' = size
  BY DEF ReadChunk
<1>3. buffer = s.rest /\ out = Taken(s.complete) /\ malformed = Rejected(s.complete)
  BY <1>2 DEF PassInv, Passing
<1>4. /\ Newline \in OneByte /\ Bytes = Encode(Text) /\ Text \in V /\ Len(Text) \in Nat
      /\ pos \in Nat /\ size \in 0..Len(Text) /\ n \in Nat /\ pos' \in 0..size /\ pos' \in pos..Len(Text)
  BY <1>1, BytesAreText DEF PassInv
<1> DEFINE head == SubSeq(Text, 1, pos)
           run == SubSeq(Text, pos + 1, pos')
<1>5. Decode(SubSeq(Bytes, pos + 1, pos + n)) = run
  BY <1>1, <1>4, RunIsText
<1>6. head \in V /\ run \in V /\ head \o run = SubSeq(Text, 1, pos')
  <2>1. \A k \in 1..Len(Text) : Text[k] \in OneByte
    BY <1>4, ElementOfSeq
  <2>2. (\A k \in 1..pos : Text[k] \in OneByte) /\ (\A k \in (pos + 1)..pos' : Text[k] \in OneByte)
    <3>1. (\A k \in 1..pos : k \in 1..Len(Text)) /\ (\A k \in (pos + 1)..pos' : k \in 1..Len(Text))
      BY <1>4
    <3>2. QED
      BY <2>1, <3>1
  <2>3. head \in V /\ run \in V
    BY <1>4, <2>2, SubSeqProperties
  <2>4. 1 \in 1..(Len(Text) + 1) /\ pos \in (1 - 1)..Len(Text) /\ pos' \in pos..Len(Text)
    BY <1>4
  <2>5. head \o run = SubSeq(Text, 1, pos')
    BY <1>4, <2>4, ConcatAdjacentSubSeq
  <2>6. QED
    BY <2>3, <2>5
<1> HIDE DEF head, run
<1> DEFINE t == Split(s.rest \o run)
<1>7. s \in SplitOf(OneByte) /\ s = Split(head)
  BY <1>6, SplitAppend DEF head
<1> HIDE DEF s
<1>8. s.complete \in Seq(V) /\ s.rest \in V
  BY <1>7 DEF SplitOf
<1>9. t \in SplitOf(OneByte) /\ Split(head \o run) = After(s.complete, t)
  <2>1. s.rest \o run \in Seq(OneByte)
    BY <1>6, <1>8, ConcatProperties
  <2>2. QED
    BY <1>6, <1>7, <2>1, SplitConcat, SplitAppend
<1> HIDE DEF t
<1>10. t.complete \in Seq(V) /\ t.rest \in V
  BY <1>9 DEF SplitOf
<1>11. buffer' = t.rest /\ out' = out \o Taken(t.complete) /\ malformed' = malformed + Rejected(t.complete)
  BY <1>1, <1>3, <1>5 DEF Yield, t
<1>12. /\ Taken(s.complete \o t.complete) = Taken(s.complete) \o Taken(t.complete)
       /\ Rejected(s.complete \o t.complete) = Rejected(s.complete) + Rejected(t.complete)
  <2> DEFINE a == s.complete
             b == t.complete
             line == s.rest
  <2>1. a \in Seq(V) /\ b \in Seq(V) /\ line \in V
    BY <1>8, <1>10
  <2> HIDE DEF V, a, b, line
  <2>2. Taken(a \o b) = Taken(a) \o Taken(b) /\ Rejected(a \o b) = Rejected(a) + Rejected(b)
    <3>1. TakesBoth(a, b)
      BY <2>1, TakenConcat
    <3>2. QED
      BY <3>1 DEF TakesBoth
  <2>3. QED
    BY <2>2 DEF a, b
<1>13. Split(SubSeq(Text, 1, pos')) = [complete |-> s.complete \o t.complete, rest |-> t.rest]
  BY <1>6, <1>9 DEF After
<1>14. /\ buffer' = Split(SubSeq(Text, 1, pos')).rest
       /\ out' = Taken(Split(SubSeq(Text, 1, pos')).complete)
       /\ malformed' = Rejected(Split(SubSeq(Text, 1, pos')).complete)
  <2> DEFINE u == Split(SubSeq(Text, 1, pos'))
             x == s.complete \o t.complete
             y == t.rest
  <2>1. u = [complete |-> x, rest |-> y]
    BY <1>13
  <2> HIDE DEF u, x, y
  <2>2. u.rest = y /\ u.complete = x
    BY <2>1
  <2>3. QED
    BY <1>3, <1>11, <1>12, <2>2 DEF u, x, y
<1>15. Passing'
  BY <1>14 DEF Passing, Text
<1>16. QED
  BY <1>2, <1>4, <1>15 DEF PassInv, ReadsEveryWholeLine, CountsTheDamage

LEMMA PassEnds ==
    ASSUME Narrow, PassInv, pc = "reading", NEW damaged, Finish(damaged)
    PROVE  PassInv'
<1> DEFINE s == Split(SubSeq(Text, 1, pos))
           V == Seq(OneByte)
<1>1. pc' = "done" /\ pos' = pos /\ size' = size
  BY DEF Finish
<1>2. IF buffer = <<>> THEN out' = out /\ malformed' = malformed
      ELSE out' = out \o Taken(<<buffer>>) /\ malformed' = malformed + Rejected(<<buffer>>)
  BY DEF Finish, Yield
<1>3. buffer = s.rest /\ out = Taken(s.complete) /\ malformed = Rejected(s.complete)
  BY DEF PassInv, Passing
<1>4. /\ Newline \in OneByte /\ Text \in V /\ Len(Text) \in Nat /\ pos \in 0..Len(Text) /\ size \in 0..Len(Text)
  BY BytesAreText DEF PassInv
<1>5. s.complete \in Seq(V) /\ s.rest \in V
  <2>1. \A k \in 1..pos : Text[k] \in OneByte
    <3>1. \A k \in 1..pos : k \in 1..Len(Text)
      BY <1>4
    <3>2. QED
      BY <1>4, <3>1, ElementOfSeq
  <2>2. SubSeq(Text, 1, pos) \in Seq(OneByte)
    BY <1>4, <2>1, SubSeqProperties
  <2>3. s \in SplitOf(OneByte)
    BY <2>2, SplitAppend
  <2>4. QED
    BY <2>3 DEF SplitOf
<1>6. \/ s.rest = <<>> /\ WholeLines(pos) = s.complete /\ ~Partial(pos)
      \/ s.rest # <<>> /\ WholeLines(pos) = Append(s.complete, s.rest) /\ ~Partial(pos)
      \/ s.rest # <<>> /\ WholeLines(pos) = s.complete /\ Partial(pos) /\ ~Parses(s.rest)
  BY <1>4, TailTells
<1> DEFINE a == s.complete
           r == s.rest
<1>7. a \in Seq(V) /\ r \in V /\ buffer = r /\ out = Taken(a) /\ malformed = Rejected(a)
  BY <1>3, <1>5
<1> HIDE DEF a, r, V
<1>8. <<r>> \in Seq(V) /\ Append(a, r) = a \o <<r>>
  BY <1>7, AppendIsConcat
<1>9. /\ Taken(a) \in Seq(V) /\ Rejected(a) \in Int
      /\ Taken(a \o <<r>>) = Taken(a) \o Taken(<<r>>)
      /\ Rejected(a \o <<r>>) = Rejected(a) + Rejected(<<r>>)
      /\ Taken(<<r>>) = Take(r)
      /\ Rejected(<<r>>) = IF Decodes(r) THEN 0 ELSE 1
  <2> DEFINE last == <<r>>
  <2>1. last \in Seq(V)
    BY <1>8
  <2> HIDE DEF last
  <2>2. /\ Taken(a \o last) = Taken(a) \o Taken(last)
        /\ Rejected(a \o last) = Rejected(a) + Rejected(last)
    <3>1. TakesBoth(a, last)
      BY <1>7, <2>1, TakenConcat
    <3>2. QED
      BY <3>1 DEF TakesBoth
  <2>3. /\ Taken(a) \in Seq(V) /\ Rejected(a) \in Int
        /\ Taken(<<r>>) = Take(r)
        /\ Rejected(<<r>>) = IF Decodes(r) THEN 0 ELSE 1
    BY <1>7, TakenConcat
  <2>4. QED
    BY <2>2, <2>3 DEF last
<1>10. out' = Taken(WholeLines(pos)) /\ malformed' = Rejected(WholeLines(pos)) + (IF Partial(pos) THEN 1 ELSE 0)
  <2>1. CASE r = <<>> /\ WholeLines(pos) = a /\ ~Partial(pos)
    BY <1>2, <1>7, <1>9, <2>1
  <2>2. CASE r # <<>> /\ WholeLines(pos) = Append(a, r) /\ ~Partial(pos)
    <3>1. out' = Taken(a \o <<r>>) /\ malformed' = Rejected(a \o <<r>>)
      BY <1>2, <1>7, <1>9, <2>2
    <3>2. Rejected(a \o <<r>>) \in Int
      BY <1>9
    <3>3. QED
      BY <1>8, <2>2, <3>1, <3>2
  <2>3. CASE r # <<>> /\ WholeLines(pos) = a /\ Partial(pos) /\ ~Parses(r)
    <3>1. ~Decodes(r)
      BY <2>3 DEF Decodes
    <3>2. Taken(<<r>>) = <<>> /\ Rejected(<<r>>) = 1
      BY <1>9, <3>1 DEF Take
    <3>3. Taken(a) \o <<>> = Taken(a)
      BY <1>9, ConcatEmptySeq
    <3>4. QED
      BY <1>2, <1>7, <2>3, <3>2, <3>3
  <2>4. QED
    BY <1>6, <2>1, <2>2, <2>3 DEF a, r
<1>11. ReadsEveryWholeLine' /\ CountsTheDamage'
  <2>1. WholeLines(pos)' = WholeLines(pos) /\ (Partial(pos)' <=> Partial(pos))
    BY <1>1 DEF WholeLines, Partial
  <2>2. QED
    BY <1>1, <1>10, <2>1 DEF ReadsEveryWholeLine, CountsTheDamage
<1>12. QED
  BY <1>1, <1>11 DEF PassInv

LEMMA NextPass == ASSUME Narrow, PassInv, [Next]_vars PROVE PassInv'
<1>1. CASE StartPass
  BY <1>1, StartOfPass
<1>2. CASE ReadChunk
  BY <1>2, ChunkRead
<1>3. CASE EndOfFile
  BY <1>3, PassEnds DEF EndOfFile
<1>4. CASE HitDamage
  BY <1>4, PassEnds DEF HitDamage
<1>5. ASSUME UNCHANGED <<pc, pos, buffer, out, malformed>>, size' \in size..Len(Text) PROVE PassInv'
  <2>1. Passing' <=> Passing
    BY <1>5 DEF Passing, Text
  <2>2. (ReadsEveryWholeLine' <=> ReadsEveryWholeLine) /\ (CountsTheDamage' <=> CountsTheDamage)
    BY <1>5 DEF ReadsEveryWholeLine, CountsTheDamage, WholeLines, Partial
  <2>3. size' \in 0..Len(Text) /\ pos' \in 0..size'
    BY <1>5, BytesAreText DEF PassInv
  <2>4. QED
    BY <1>5, <2>1, <2>2, <2>3 DEF PassInv
<1>6. size \in size..Len(Text)
  BY BytesAreText DEF PassInv
<1>7. CASE Probe
  BY <1>5, <1>6, <1>7 DEF Probe
<1>8. CASE Grow
  <2>1. UNCHANGED <<pc, pos, buffer, out, malformed>>
    BY <1>8 DEF Grow
  <2>2. size' \in size..Len(Text)
    BY <1>6, <1>8, BytesAreText DEF Grow, PassInv
  <2>3. QED
    BY <1>5, <2>1, <2>2
<1>9. CASE UNCHANGED vars
  BY <1>5, <1>6, <1>9 DEF vars
<1>10. QED
  BY <1>1, <1>2, <1>3, <1>4, <1>7, <1>8, <1>9 DEF Next

(* However a file of one-byte characters is chunked, cut, damaged or growing, *)
(* and whichever pass it is, a pass that is over has yielded every line it   *)
(* could decompress whole, as it was written and in order (lines, items).    *)
THEOREM WholeLinesAreRead == Narrow => (Spec => []ReadsEveryWholeLine)
<1> SUFFICES ASSUME Narrow PROVE Spec => []ReadsEveryWholeLine
  OBVIOUS
<1>1. Init => PassInv
  BY InitPass
<1>2. PassInv /\ [Next]_vars => PassInv'
  BY NextPass
<1>3. PassInv => ReadsEveryWholeLine
  BY DEF PassInv
<1>4. QED
  BY <1>1, <1>2, <1>3, PTL DEF Spec

(* And it has counted each line it could not read, and the partial one at    *)
(* the end, once (_objects, items).                                          *)
THEOREM DamageIsCounted == Narrow => (Spec => []CountsTheDamage)
<1> SUFFICES ASSUME Narrow PROVE Spec => []CountsTheDamage
  OBVIOUS
<1>1. Init => PassInv
  BY InitPass
<1>2. PassInv /\ [Next]_vars => PassInv'
  BY NextPass
<1>3. PassInv => CountsTheDamage
  BY DEF PassInv
<1>4. QED
  BY <1>1, <1>2, <1>3, PTL DEF Spec

-----------------------------------------------------------------------------
(* Whether the file is whole.                                              *)

(* A closed file is complete and stays as it is; a pass has decompressed     *)
(* nothing from the damage on; and a pass that is over has told.             *)
FileInv ==
    /\ size \in Int /\ damageAt \in Int /\ pos \in Int
    /\ closed \in BOOLEAN /\ (closed => size = Len(Bytes))
    /\ 0 < damageAt /\ pos < damageAt

TruncatedInv ==
    /\ FileInv
    /\ pc = "done" => truncated # "unasked"
    /\ TruncatedIsHonest

LEMMA InitTruncated == Init => TruncatedInv
<1> SUFFICES ASSUME Init PROVE TruncatedInv
  OBVIOUS
<1>1. /\ pc = "idle" /\ truncated = "unasked" /\ pos = 0
      /\ size \in 0..Len(Bytes) /\ damageAt \in 1..(Len(Bytes) + 1)
      /\ closed \in {FALSE, size = Len(Bytes)}
  BY DEF Init
<1>2. size \in Int /\ damageAt \in Int /\ 1 <= damageAt
  BY <1>1
<1>3. closed \in BOOLEAN /\ (closed => size = Len(Bytes))
  BY <1>1
<1>4. QED
  BY <1>1, <1>2, <1>3 DEF TruncatedInv, FileInv, TruncatedIsHonest

(* The end of the pass tells "whole" only of a closed file it has read to   *)
(* its end, which no damage precedes.                                       *)
LEMMA EndOfFileTells == ASSUME TruncatedInv, EndOfFile PROVE TruncatedInv'
<1>1. /\ pos = size /\ pc' = "done" /\ truncated' = Verdict(FALSE)
      /\ UNCHANGED <<size, closed, damageAt, pos>>
  BY DEF EndOfFile, Finish
<1>2. FileInv'
  BY <1>1 DEF TruncatedInv, FileInv
<1>3. truncated' \in {"cut", "whole"} /\ (truncated' = "whole" => closed)
  BY <1>1 DEF Verdict
<1>4. TruncatedIsHonest'
  BY <1>1, <1>3 DEF TruncatedInv, FileInv, TruncatedIsHonest
<1>5. QED
  BY <1>1, <1>2, <1>3, <1>4 DEF TruncatedInv

LEMMA NextTruncated == TruncatedInv /\ [Next]_vars => TruncatedInv'
<1> SUFFICES ASSUME TruncatedInv, [Next]_vars PROVE TruncatedInv'
  OBVIOUS
<1> USE DEF TruncatedInv, FileInv, TruncatedIsHonest
<1>1. CASE StartPass
  BY <1>1 DEF StartPass
<1>2. CASE ReadChunk
  <2>1. PICK n \in 1..(size - pos) : pos + n < damageAt /\ pos' = pos + n
    BY <1>2 DEF ReadChunk
  <2>2. n \in Int
    BY <2>1
  <2>3. pc = "reading" /\ UNCHANGED <<pc, size, closed, damageAt, truncated>>
    BY <1>2 DEF ReadChunk
  <2>4. QED
    BY <2>1, <2>2, <2>3
<1>3. CASE EndOfFile
  BY <1>3, EndOfFileTells
<1>4. CASE HitDamage
  <2>1. /\ pc' = "done" /\ truncated' = "cut"
        /\ UNCHANGED <<size, closed, damageAt, pos>>
    BY <1>4 DEF HitDamage, Finish, Verdict
  <2>2. QED
    BY <2>1
<1>5. CASE Probe
  <2>1. /\ truncated = "unasked" /\ truncated' \in {"cut", "whole"}
        /\ truncated' = "whole" => closed /\ ~(damageAt <= size)
        /\ UNCHANGED <<pc, size, closed, damageAt, pos>>
    BY <1>5 DEF Probe, Verdict
  <2>2. QED
    BY <2>1
<1>6. CASE Grow
  <2>1. ~closed /\ UNCHANGED <<pc, damageAt, pos, truncated>>
    BY <1>6 DEF Grow
  <2>2. CASE size' \in (size + 1)..Len(Bytes) /\ closed' = closed
    <3>1. size' \in Int
      BY <2>2
    <3>2. QED
      BY <2>1, <2>2, <3>1
  <2>3. CASE size = Len(Bytes) /\ closed' = TRUE /\ size' = size
    BY <2>1, <2>3
  <2>4. QED
    BY <1>6, <2>2, <2>3 DEF Grow
<1>7. CASE UNCHANGED vars
  BY <1>7 DEF vars
<1>8. QED
  BY <1>1, <1>2, <1>3, <1>4, <1>5, <1>6, <1>7 DEF Next

(* Whoever asks, before, between or after the passes, and however the file   *)
(* grew meanwhile, is told "whole" only of a closed and undamaged file, and  *)
(* a pass that is over then has read all of it (truncated, lines).           *)
THEOREM TruncatedTellsTrue == Spec => []TruncatedIsHonest
<1>1. TruncatedInv => TruncatedIsHonest
  BY DEF TruncatedInv
<1>2. QED
  BY <1>1, InitTruncated, NextTruncated, PTL DEF Spec
=============================================================================
