------------------------- MODULE RecordModel_proofs -------------------------
(***************************************************************************)
(* Theorems about the table's model, for every capture, cap, margin and    *)
(* size of a batch: what it holds by source index follows the rows.        *)
(***************************************************************************)
EXTENDS RecordModel, FiniteSetTheorems, SequenceTheorems,
        WellFoundedInduction, TLAPS

USE CapAssumption, BucketAssumption, TextAssumption, BoundsAssumption

-----------------------------------------------------------------------------
(* Finite sets.                                                            *)

(* A function that is one to one has as many values as arguments. *)
LEMMA ImageCardinality ==
    ASSUME NEW S, IsFiniteSet(S), NEW f, f = [s \in S |-> f[s]],
           \A r, s \in S : f[r] = f[s] => r = s
    PROVE  LET T == {f[s] : s \in S}
           IN  IsFiniteSet(T) /\ Cardinality(T) = Cardinality(S)
<1> DEFINE T == {f[s] : s \in S}
<1>1. f \in [S -> T]
  OBVIOUS
<1>2. \A t \in T : \E s \in S : f[s] = t
  OBVIOUS
<1> HIDE DEF T
<1>5. f \in Injection(S, T)
  BY <1>1 DEF Injection, IsInjective
<1>6. f \in Surjection(S, T)
  BY <1>1, <1>2 DEF Surjection
<1>7. f \in Bijection(S, T)
  BY <1>5, <1>6 DEF Bijection
<1>3. ExistsBijection(S, T)
  BY <1>7 DEF ExistsBijection
<1>4. IsFiniteSet(T) /\ Cardinality(T) = Cardinality(S)
  BY <1>3, FS_Bijection
<1>8. QED
  BY <1>4 DEF T

(* Numbers moved by the same amount are as many. *)
LEMMA MovedCardinality ==
    ASSUME NEW S, IsFiniteSet(S), S \subseteq Int, NEW k \in Int
    PROVE  LET T == {s - k : s \in S}
           IN  IsFiniteSet(T) /\ Cardinality(T) = Cardinality(S)
<1> DEFINE f == [s \in S |-> s - k]
<1>1. \A r, s \in S : f[r] = f[s] => r = s
  OBVIOUS
<1>2. {s - k : s \in S} = {f[s] : s \in S}
  OBVIOUS
<1>3. f = [s \in S |-> f[s]]
  OBVIOUS
<1> HIDE DEF f
<1>4. IsFiniteSet({f[s] : s \in S}) /\ Cardinality({f[s] : s \in S}) = Cardinality(S)
  BY <1>1, <1>3, ImageCardinality
<1>5. QED
  BY <1>2, <1>4

(* Disjoint parts add up. *)
LEMMA DisjointCardinality ==
    ASSUME NEW S, NEW T, IsFiniteSet(S), IsFiniteSet(T), S \cap T = {}
    PROVE  /\ IsFiniteSet(S \cup T)
           /\ Cardinality(S \cup T) = Cardinality(S) + Cardinality(T)
<1>1. Cardinality(S \cap T) = 0
  BY FS_EmptySet
<1>2. Cardinality(S) \in Nat /\ Cardinality(T) \in Nat
  BY FS_CardinalityType
<1>3. QED
  BY <1>1, <1>2, FS_Union

(* A set of naturals has a least. *)
LEMMA LeastNatural ==
    ASSUME NEW S, S \subseteq Nat, S # {}
    PROVE  \E m \in S : \A k \in S : m <= k
<1>1. PICK m \in S : \A k \in S : ~ (<<k, m>> \in OpToRel(<, Nat))
  BY NatLessThanWellFounded, WFMin
<1>2. ASSUME NEW k \in S, k < m PROVE <<k, m>> \in OpToRel(<, Nat)
  BY <1>2 DEF OpToRel
<1>3. \A k \in S : ~ (k < m)
  BY <1>1, <1>2
<1>4. \A k \in S : m <= k
  BY <1>3
<1>5. QED
  BY <1>4

(* A bounded set of numbers has a greatest. *)
LEMMA GreatestNatural ==
    ASSUME NEW S, S # {}, NEW n \in Nat, S \subseteq 0..n
    PROVE  Max(S) \in S /\ \A s \in S : s <= Max(S)
<1> DEFINE below == {n - s : s \in S}
<1>1. PICK t \in S : TRUE
  OBVIOUS
<1>2. below \subseteq Nat /\ below # {}
  BY <1>1
<1>3. PICK m \in below : \A k \in below : m <= k
  <2> HIDE DEF below
  <2>1. QED
    BY <1>2, LeastNatural
<1>4. PICK s \in S : m = n - s
  OBVIOUS
<1>5. \A r \in S : s >= r
  <2>1. SUFFICES ASSUME NEW r \in S PROVE s >= r
    OBVIOUS
  <2>2. n - r \in below
    OBVIOUS
  <2>3. m <= n - r
    BY <1>3, <2>2
  <2>4. s \in Int /\ r \in Int
    OBVIOUS
  <2>5. QED
    BY <1>4, <2>3, <2>4
<1>6. QED
  BY <1>5 DEF Max

(* A sequence without its first rows. *)
LEMMA SuffixProperties ==
    ASSUME NEW S, NEW s \in Seq(S), NEW d \in 0..Len(s)
    PROVE  LET t == SubSeq(s, d + 1, Len(s))
           IN  /\ t \in Seq(S) /\ Len(t) = Len(s) - d
               /\ \A i \in 1..(Len(s) - d) : t[i] = s[d + i]
<1>1. Len(s) \in Nat /\ DOMAIN s = 1..Len(s) /\ \A i \in 1..Len(s) : s[i] \in S
  OBVIOUS
<1>2. PICK low \in Int : low = d + 1
  BY <1>1
<1>3. \A i \in low..Len(s) : s[i] \in S
  BY <1>1, <1>2
<1>4. /\ SubSeq(s, low, Len(s)) \in Seq(S)
      /\ Len(SubSeq(s, low, Len(s))) = IF low <= Len(s) THEN Len(s) - low + 1 ELSE 0
      /\ \A i \in 1..(Len(s) - low + 1) : SubSeq(s, low, Len(s))[i] = s[low + i - 1]
  BY <1>1, <1>3, SubSeqProperties
<1> DEFINE t == SubSeq(s, low, Len(s))
<1>5. /\ t \in Seq(S)
      /\ Len(t) = IF low <= Len(s) THEN Len(s) - low + 1 ELSE 0
      /\ \A i \in 1..(Len(s) - low + 1) : t[i] = s[low + i - 1]
  BY <1>4
<1>6. t = SubSeq(s, d + 1, Len(s))
  BY <1>2
<1> HIDE DEF t
<1>7. d \in Int /\ 0 <= d /\ d <= Len(s) /\ Len(s) \in Int
  BY <1>1
<1>8. Len(t) = IF low <= Len(s) THEN Len(s) - low + 1 ELSE 0
  BY <1>5
<1>9. Len(t) = Len(s) - d
  <2>1. CASE low <= Len(s)
    BY <1>2, <1>7, <1>8, <2>1
  <2>2. CASE ~(low <= Len(s))
    BY <1>2, <1>7, <1>8, <2>2
  <2>3. QED
    BY <2>1, <2>2
<1>10. ASSUME NEW i \in 1..(Len(s) - d) PROVE t[i] = s[d + i]
  <2>1. i \in 1..(Len(s) - low + 1) /\ low + i - 1 = d + i
    BY <1>2, <1>7
  <2>2. QED
    BY <1>5, <2>1
<1>11. QED
  BY <1>5, <1>6, <1>9, <1>10

-----------------------------------------------------------------------------
(* Rows that moved.                                                        *)

AnyRow == [kind : {"item"}, n : 1..MaxItems]
            \cup [kind : {"eviction"}, n : Nat, through : 1..MaxItems]

(* The items among the rows, and the places of the gaps among them. *)
Held(rows) == {rows[s].n : s \in {t \in DOMAIN rows : ~IsNotice(rows[t])}}
GapPlaces(rows) == {s \in DOMAIN rows : ~IsNotice(rows[s]) /\ IsGap(rows[s].n)}

(* Rows an operation may hold: items of the first k, in their order, and a  *)
(* notice of the total only at the top.                                     *)
InOrder(rows, k, total) ==
    /\ rows \in Seq(AnyRow)
    /\ \A s \in DOMAIN rows :
          IF IsNotice(rows[s]) THEN s = 1 /\ rows[s].n = total ELSE rows[s].n \in 1..k
    /\ \A r, s \in DOMAIN rows :
          r < s /\ ~IsNotice(rows[r]) /\ ~IsNotice(rows[s]) => rows[r].n < rows[s].n

MarksAgree(rows, marks, items) ==
    \A s \in DOMAIN rows : ~IsNotice(rows[s]) => (s \in marks <=> rows[s].n \in items)

MovedBy(S, off, drop) == {s - off : s \in {t \in S : t > drop}}

(* The rows behind the first `drop` of r1 are in r2, `off` places up; r2    *)
(* has nothing else but the notices at `head`.                              *)
Renumbered(r1, r2, off, drop, head) ==
    /\ off \in Int /\ drop \in Nat /\ head \subseteq {1}
    /\ \A t \in DOMAIN r1 :
          t > drop => /\ t - off \in DOMAIN r2 /\ t - off \notin head
                      /\ r2[t - off] = r1[t] /\ ~IsNotice(r1[t])
    /\ \A s \in DOMAIN r2 :
          s \notin head => s + off \in DOMAIN r1 /\ s + off > drop
    /\ \A s \in head : s \in DOMAIN r2 /\ IsNotice(r2[s])

(* What a filter shows moves with the rows, and a notice is always shown. *)
LEMMA VisibleMoves ==
    ASSUME NEW r1 \in Seq(AnyRow), NEW r2 \in Seq(AnyRow), NEW off, NEW drop, NEW head,
           Renumbered(r1, r2, off, drop, head), NEW f
    PROVE  VisibleOf(r2, f) = MovedBy(VisibleOf(r1, f), off, drop) \cup head
<1> DEFINE moved == MovedBy(VisibleOf(r1, f), off, drop)
<1>1. ASSUME NEW s \in VisibleOf(r2, f), s \notin head PROVE s \in moved
  <2>1. s \in DOMAIN r2 /\ s \in Int /\ Passes(r2[s], f)
    BY <1>1 DEF VisibleOf
  <2>2. s + off \in DOMAIN r1 /\ s + off > drop /\ off \in Int
    BY <1>1, <2>1 DEF Renumbered
  <2>3. (s + off) - off = s
    BY <2>1, <2>2
  <2>4. r2[s] = r1[s + off]
    BY <2>2, <2>3 DEF Renumbered
  <2>5. s + off \in VisibleOf(r1, f)
    BY <2>1, <2>2, <2>4 DEF VisibleOf
  <2>6. QED
    BY <2>2, <2>3, <2>5 DEF MovedBy
<1>2. ASSUME NEW s \in moved PROVE s \in VisibleOf(r2, f)
  <2>1. PICK t \in VisibleOf(r1, f) : t > drop /\ s = t - off
    BY <1>2 DEF MovedBy
  <2>2. t \in DOMAIN r1 /\ Passes(r1[t], f)
    BY <2>1 DEF VisibleOf
  <2>3. QED
    BY <2>1, <2>2 DEF Renumbered, VisibleOf
<1>3. ASSUME NEW s \in head PROVE s \in VisibleOf(r2, f)
  BY <1>3 DEF Renumbered, VisibleOf, Passes
<1>4. QED
  BY <1>1, <1>2, <1>3

(* So do the hits of a highlight, but for those of the notices. *)
LEMMA HitsMove ==
    ASSUME NEW r1 \in Seq(AnyRow), NEW r2 \in Seq(AnyRow), NEW off, NEW drop, NEW head,
           Renumbered(r1, r2, off, drop, head), NEW V, V \subseteq DOMAIN r1, NEW h
    PROVE  HitsOf(r2, MovedBy(V, off, drop) \cup head, h) =
             MovedBy(HitsOf(r1, V, h), off, drop) \cup HitsOf(r2, head, h)
<1> DEFINE W == MovedBy(V, off, drop)
<1>1. ASSUME NEW s \in W, TextOf(r2[s]) \in h PROVE s \in MovedBy(HitsOf(r1, V, h), off, drop)
  <2>1. PICK t \in V : t > drop /\ s = t - off
    BY DEF MovedBy
  <2>2. r2[s] = r1[t]
    BY <2>1 DEF Renumbered
  <2>3. t \in HitsOf(r1, V, h)
    BY <1>1, <2>2 DEF HitsOf
  <2>4. QED
    BY <2>1, <2>3 DEF MovedBy
<1>2. ASSUME NEW s \in MovedBy(HitsOf(r1, V, h), off, drop)
      PROVE  s \in W /\ TextOf(r2[s]) \in h
  <2>1. PICK t \in HitsOf(r1, V, h) : t > drop /\ s = t - off
    BY DEF MovedBy
  <2>2. t \in V /\ TextOf(r1[t]) \in h
    BY <2>1 DEF HitsOf
  <2>3. r2[s] = r1[t]
    BY <2>1, <2>2 DEF Renumbered
  <2>4. QED
    BY <2>1, <2>2, <2>3 DEF MovedBy
<1>3. HitsOf(r2, W \cup head, h) = HitsOf(r2, W, h) \cup HitsOf(r2, head, h)
  BY DEF HitsOf
<1>4. HitsOf(r2, W, h) = MovedBy(HitsOf(r1, V, h), off, drop)
  BY <1>1, <1>2 DEF HitsOf
<1>5. QED
  BY <1>3, <1>4

(* The marks too. *)
LEMMA MarksMove ==
    ASSUME NEW r1 \in Seq(AnyRow), NEW r2 \in Seq(AnyRow), NEW off, NEW drop, NEW head,
           Renumbered(r1, r2, off, drop, head), NEW marks, marks \subseteq DOMAIN r1, NEW items,
           MarksAgree(r1, marks, items)
    PROVE  /\ MarksAgree(r2, MovedBy(marks, off, drop), items)
           /\ MovedBy(marks, off, drop) \subseteq DOMAIN r2
<1>1. ASSUME NEW s \in DOMAIN r2, ~IsNotice(r2[s])
      PROVE  s \in MovedBy(marks, off, drop) <=> r2[s].n \in items
  <2>1. s \in Int /\ off \in Int /\ s + off \in DOMAIN r1 /\ s + off > drop
    BY <1>1 DEF Renumbered
  <2>2. (s + off) - off = s
    BY <2>1
  <2>3. r2[s] = r1[s + off]
    BY <2>1, <2>2 DEF Renumbered
  <2>4. s \in MovedBy(marks, off, drop) <=> s + off \in marks
    <3>1. ASSUME s \in MovedBy(marks, off, drop) PROVE s + off \in marks
      <4>1. PICK t \in marks : s = t - off
        BY <3>1 DEF MovedBy
      <4>2. t \in Int
        OBVIOUS
      <4>3. t = s + off
        BY <2>1, <4>1, <4>2
      <4>4. QED
        BY <4>3
    <3>2. QED
      BY <2>1, <2>2, <3>1 DEF MovedBy
  <2>5. QED
    BY <1>1, <2>1, <2>3, <2>4 DEF MarksAgree
<1>2. MovedBy(marks, off, drop) \subseteq DOMAIN r2
  BY DEF MovedBy, Renumbered
<1>3. QED
  BY <1>1, <1>2 DEF MarksAgree

(* What is left of the gaps, with those of the rows that went. *)
LEMMA GapsMove ==
    ASSUME NEW r1 \in Seq(AnyRow), NEW r2 \in Seq(AnyRow), NEW off, NEW drop, NEW head,
           Renumbered(r1, r2, off, drop, head)
    PROVE  GapsOf(r2) = GapsOf(r1) - Cardinality({s \in GapPlaces(r1) : s <= drop})
<1> DEFINE G == GapPlaces(r1)
           low == {s \in G : s <= drop}
           high == {s \in G : s > drop}
<1>1. IsFiniteSet(1..Len(r1)) /\ DOMAIN r1 = 1..Len(r1) /\ DOMAIN r1 \subseteq Int
  BY SMTT(30), FS_Interval
<1>2. IsFiniteSet(low) /\ IsFiniteSet(high)
  <2>1. low \subseteq 1..Len(r1) /\ high \subseteq 1..Len(r1)
    BY <1>1 DEF GapPlaces
  <2>2. QED
    BY <1>1, <2>1, FS_Subset
<1>3. low \cup high = G /\ low \cap high = {}
  BY <1>1 DEF Renumbered, GapPlaces
<1>4. Cardinality(G) = Cardinality(low) + Cardinality(high)
  BY <1>2, <1>3, DisjointCardinality
<1>5. GapPlaces(r2) = {s - off : s \in high}
  <2>1. ASSUME NEW s \in GapPlaces(r2) PROVE s \in {t - off : t \in high}
    <3>1. s \in DOMAIN r2 /\ s \in Int /\ ~IsNotice(r2[s]) /\ IsGap(r2[s].n)
      BY DEF GapPlaces
    <3>2. s + off \in DOMAIN r1 /\ s + off > drop /\ off \in Int
      BY <3>1 DEF Renumbered
    <3>3. (s + off) - off = s
      BY <3>1, <3>2
    <3>4. r2[s] = r1[s + off]
      BY <3>2, <3>3 DEF Renumbered
    <3>5. s + off \in high
      BY <3>1, <3>2, <3>4 DEF GapPlaces
    <3>6. QED
      BY <3>3, <3>5
  <2>2. ASSUME NEW t \in high PROVE t - off \in GapPlaces(r2)
    <3>1. t \in DOMAIN r1 /\ t > drop /\ ~IsNotice(r1[t]) /\ IsGap(r1[t].n)
      BY DEF GapPlaces
    <3>2. t - off \in DOMAIN r2 /\ r2[t - off] = r1[t]
      BY <3>1 DEF Renumbered
    <3>3. QED
      BY <3>1, <3>2 DEF GapPlaces
  <2>3. QED
    BY <2>1, <2>2
<1>6. Cardinality(GapPlaces(r2)) = Cardinality(high)
  <2>1. off \in Int /\ high \subseteq Int
    BY <1>1 DEF Renumbered, GapPlaces
  <2> HIDE DEF high
  <2>2. QED
    BY <1>2, <1>5, <2>1, MovedCardinality
<1>7. Cardinality(low) \in Nat /\ Cardinality(high) \in Nat
  BY <1>2, FS_CardinalityType
<1>8. GapsOf(r1) = Cardinality(G) /\ GapsOf(r2) = Cardinality(GapPlaces(r2))
  BY DEF GapsOf, GapPlaces
<1> HIDE DEF G, low, high
<1>9. GapsOf(r2) = GapsOf(r1) - Cardinality(low)
  BY <1>4, <1>6, <1>7, <1>8
<1>10. QED
  BY <1>9 DEF low, G

HeldBehind(rows, drop) == {rows[s].n : s \in {t \in DOMAIN rows : t > drop}}

(* The rows of r2 that are not at the head are rows of r1. *)
LEMMA RowsMove ==
    ASSUME NEW r1 \in Seq(AnyRow), NEW r2 \in Seq(AnyRow), NEW off, NEW drop, NEW head,
           Renumbered(r1, r2, off, drop, head), NEW s \in DOMAIN r2, s \notin head
    PROVE  /\ s + off \in DOMAIN r1 /\ s + off > drop
           /\ r2[s] = r1[s + off] /\ ~IsNotice(r2[s])
<1>1. s \in Int /\ off \in Int /\ s + off \in DOMAIN r1 /\ s + off > drop
  BY DEF Renumbered
<1>2. (s + off) - off = s
  BY <1>1
<1>3. QED
  BY <1>1, <1>2 DEF Renumbered

(* Rows that moved hold the items of the rows behind those that went. *)
LEMMA HeldMoves ==
    ASSUME NEW r1 \in Seq(AnyRow), NEW r2 \in Seq(AnyRow), NEW off, NEW drop, NEW head,
           Renumbered(r1, r2, off, drop, head)
    PROVE  Held(r2) = HeldBehind(r1, drop)
<1>1. ASSUME NEW n \in Held(r2) PROVE n \in HeldBehind(r1, drop)
  <2>1. PICK s \in DOMAIN r2 : ~IsNotice(r2[s]) /\ n = r2[s].n
    BY DEF Held
  <2>2. s \notin head
    BY <2>1 DEF Renumbered
  <2>3. s + off \in DOMAIN r1 /\ s + off > drop /\ r2[s] = r1[s + off]
    BY <2>2, RowsMove
  <2>4. QED
    BY <2>1, <2>3 DEF HeldBehind
<1>2. ASSUME NEW t \in DOMAIN r1, t > drop PROVE r1[t].n \in Held(r2)
  BY <1>2 DEF Renumbered, Held
<1>3. QED
  BY <1>1, <1>2 DEF HeldBehind

(* They are still items in their order, under at most a notice. *)
LEMMA OrderMoves ==
    ASSUME NEW r1 \in Seq(AnyRow), NEW r2 \in Seq(AnyRow), NEW off, NEW drop, NEW head,
           Renumbered(r1, r2, off, drop, head), NEW k, NEW total, InOrder(r1, k, total),
           NEW new, \A s \in head : r2[s].n = new
    PROVE  InOrder(r2, k, new)
<1>1. ASSUME NEW s \in DOMAIN r2, s \notin head
      PROVE  /\ s + off \in DOMAIN r1 /\ s + off > drop
             /\ r2[s] = r1[s + off] /\ ~IsNotice(r2[s])
  BY <1>1, RowsMove
<1>2. ASSUME NEW s \in DOMAIN r2
      PROVE  IF IsNotice(r2[s]) THEN s = 1 /\ r2[s].n = new ELSE r2[s].n \in 1..k
  <2>1. CASE s \in head
    BY <2>1 DEF Renumbered
  <2>2. CASE s \notin head
    BY <1>1, <2>2 DEF InOrder
  <2>3. QED
    BY <2>1, <2>2
<1>3. ASSUME NEW r \in DOMAIN r2, NEW s \in DOMAIN r2, r < s,
             ~IsNotice(r2[r]), ~IsNotice(r2[s])
      PROVE  r2[r].n < r2[s].n
  <2>1. r \notin head /\ s \notin head
    BY <1>3 DEF Renumbered
  <2>2. r + off < s + off
    BY <1>3 DEF Renumbered
  <2>3. r + off \in DOMAIN r1 /\ s + off \in DOMAIN r1
        /\ r2[r] = r1[r + off] /\ r2[s] = r1[s + off]
    BY <1>1, <2>1
  <2>4. QED
    BY <1>3, <2>2, <2>3 DEF InOrder
<1>4. QED
  BY <1>2, <1>3 DEF InOrder

-----------------------------------------------------------------------------
(* What a trim counts.                                                     *)

Gone(rows, drop) == {rows[s].n : s \in {d \in 1..drop : ~IsNotice(rows[d])}}

(* The items are numbers, and finitely many. *)
LEMMA HeldFinite ==
    ASSUME NEW rows, NEW k \in Nat, NEW total, InOrder(rows, k, total)
    PROVE  /\ Held(rows) \subseteq 1..k /\ IsFiniteSet(Held(rows))
           /\ IsFiniteSet(GapPlaces(rows)) /\ IsFiniteSet(1..k)
           /\ \A drop \in 0..Len(rows) : Gone(rows, drop) \subseteq Held(rows)
<1>1. rows \in Seq(AnyRow)
  BY DEF InOrder
<1>2. DOMAIN rows = 1..Len(rows) /\ Len(rows) \in Nat
  BY <1>1
<1>3. Held(rows) \subseteq 1..k
  BY DEF InOrder, Held
<1>4. IsFiniteSet(1..k) /\ IsFiniteSet(1..Len(rows))
  BY <1>2, FS_Interval
<1>5. GapPlaces(rows) \subseteq 1..Len(rows)
  BY <1>2 DEF GapPlaces
<1>6. \A drop \in 0..Len(rows) : Gone(rows, drop) \subseteq Held(rows)
  BY <1>2 DEF Gone, Held
<1>7. QED
  BY <1>3, <1>4, <1>5, <1>6, FS_Subset

(* A row has an item of its own. *)
LEMMA OwnItem ==
    ASSUME NEW rows, NEW k \in Nat, NEW total, InOrder(rows, k, total),
           NEW r \in DOMAIN rows, NEW s \in DOMAIN rows,
           ~IsNotice(rows[r]), ~IsNotice(rows[s]), rows[r].n = rows[s].n
    PROVE  r = s
<1>1. r \in Int /\ s \in Int /\ rows[r].n \in Int /\ rows[s].n \in Int
  BY DEF InOrder
<1>2. ~ (r < s) /\ ~ (s < r)
  BY <1>1 DEF InOrder
<1>3. QED
  BY <1>1, <1>2

(* The items of the rows that go, and the gaps among them, are as many as   *)
(* the gaps' rows.                                                          *)
LEMMA GoneGaps ==
    ASSUME NEW rows, NEW k \in Nat, NEW total, InOrder(rows, k, total),
           NEW drop \in 0..Len(rows)
    PROVE  LET gone == Gone(rows, drop)
           IN  Cardinality(gone \ Records(gone)) =
                 Cardinality({s \in GapPlaces(rows) : s <= drop})
<1> DEFINE gone == Gone(rows, drop)
           low == {s \in GapPlaces(rows) : s <= drop}
           f == [s \in low |-> rows[s].n]
<1>1. DOMAIN rows = 1..Len(rows) /\ Len(rows) \in Nat
  BY DEF InOrder
<1>2. IsFiniteSet(low)
  BY HeldFinite, FS_Subset
<1>3. \A r, s \in low : f[r] = f[s] => r = s
  BY OwnItem DEF GapPlaces
<1>4. {f[s] : s \in low} = gone \ Records(gone)
  <2>1. ASSUME NEW s \in low PROVE f[s] \in gone \ Records(gone)
    BY <1>1 DEF GapPlaces, Gone, Records
  <2>2. ASSUME NEW n \in gone \ Records(gone) PROVE n \in {f[s] : s \in low}
    <3>1. PICK s \in 1..drop : ~IsNotice(rows[s]) /\ n = rows[s].n
      BY DEF Gone
    <3>2. IsGap(n)
      BY DEF Records
    <3>3. s \in low
      BY <1>1, <3>1, <3>2 DEF GapPlaces
    <3>4. QED
      BY <3>1, <3>3
  <2>3. QED
    BY <2>1, <2>2
<1>5. f = [s \in low |-> f[s]]
  OBVIOUS
<1> HIDE DEF f, low
<1>6. Cardinality({f[s] : s \in low}) = Cardinality(low)
  BY <1>2, <1>3, <1>5, ImageCardinality
<1>7. Cardinality(gone \ Records(gone)) = Cardinality(low)
  BY <1>4, <1>6
<1>8. QED
  BY <1>7 DEF low

-----------------------------------------------------------------------------
(* A trim.                                                                 *)

(* A model has its fields, and its rows are in order. *)
IsModel(m) ==
    DOMAIN m = {"rows", "visible", "marks", "hits", "buckets", "markers", "evicted", "gaps"}

Sound(m, k) ==
    /\ IsModel(m) /\ m.evicted \in Nat /\ InOrder(m.rows, k, m.evicted)
    /\ m.marks \subseteq DOMAIN m.rows

(* What is derived from the rows: what is shown, and the overview of it. *)
ShownExact(m) ==
    /\ m.visible = VisibleOf(m.rows, filter)
    /\ m.hits = HitsOf(m.rows, m.visible, highlight)
    /\ m.gaps = GapsOf(m.rows)
OverviewExact(m) ==
    /\ m.buckets = ErrorBuckets(m.rows, m.visible, m.visible)
    /\ m.markers = MarkersOf(m.rows, m.visible)
Exact(m) == ShownExact(m) /\ OverviewExact(m)

(* Every record of the first k is held or counted. *)
Counted(m, k) ==
    Cardinality(Records(1..k)) = m.evicted + Cardinality(Records(Held(m.rows)))

(* No longer than the margin, but for a notice. *)
Bounded(rows) ==
    \/ Len(rows) <= TrimAt
    \/ Len(rows) = TrimAt + 1 /\ IsNotice(rows[1])

DropOf(m) == Len(m.rows) - RowCap
LostOf(m) == Records(Gone(m.rows, DropOf(m)))
KeptOf(m) == SubSeq(m.rows, DropOf(m) + 1, Len(m.rows))
NewNotice(m) == Notice(m.evicted + Cardinality(LostOf(m)), Max(LostOf(m)))
TrimmedRows(m) == IF LostOf(m) = {} THEN KeptOf(m) ELSE <<NewNotice(m)>> \o KeptOf(m)
OffsetOf(m) == IF LostOf(m) = {} THEN DropOf(m) ELSE DropOf(m) - 1
HeadOf(m) == IF LostOf(m) = {} THEN {} ELSE {1}

(* What a trim that happens leaves behind. *)
LEMMA TrimFields ==
    ASSUME NEW m, IsModel(m), Len(m.rows) \in Nat, Exceeded(m)
    PROVE  LET t == Trimmed(m)
               hits == MovedBy(m.hits, OffsetOf(m), DropOf(m))
               gone == Gone(m.rows, DropOf(m))
           IN  /\ IsModel(t)
               /\ t.rows = TrimmedRows(m)
               /\ t.visible = MovedBy(m.visible, OffsetOf(m), DropOf(m)) \cup HeadOf(m)
               /\ t.marks = MovedBy(m.marks, OffsetOf(m), DropOf(m))
               /\ t.hits = IF LostOf(m) = {} THEN hits
                           ELSE IF TextOf(t.rows[1]) \in highlight THEN hits \cup {1}
                                ELSE hits \ {1}
               /\ t.gaps = m.gaps - Cardinality(gone \ Records(gone))
               /\ t.evicted = IF LostOf(m) = {} THEN m.evicted
                              ELSE m.evicted + Cardinality(LostOf(m))
               /\ OverviewExact(t)
<1> DEFINE plan == PlanTrim(m)
           kept == SubSeq(m.rows, plan.drop + 1, Len(m.rows))
           rest == [m EXCEPT !.rows = kept,
                             !.visible = Moved(@, plan),
                             !.marks = Moved(@, plan),
                             !.hits = Moved(@, plan),
                             !.gaps = @ - plan.gaps]
           headed == [rest EXCEPT !.rows = <<Notice(m.evicted + plan.records, plan.through)>> \o @,
                                  !.visible = @ \cup {1},
                                  !.evicted = @ + plan.records]
           gone == Gone(m.rows, DropOf(m))
<1>1. /\ plan.drop = DropOf(m) /\ plan.offset = OffsetOf(m)
      /\ plan.notice = (LostOf(m) # {})
      /\ plan.records = Cardinality(LostOf(m))
      /\ plan.gaps = Cardinality(gone \ Records(gone))
      /\ LostOf(m) # {} => plan.through = Max(LostOf(m))
  BY DEF PlanTrim, DropOf, OffsetOf, LostOf, Gone
<1>2. DropOf(m) > 0
  BY DEF Exceeded, DropOf
<1>3. plan # NoPlan
  BY <1>1, <1>2 DEF NoPlan
<1>4. \A S : Moved(S, plan) = MovedBy(S, OffsetOf(m), DropOf(m))
  BY <1>1 DEF Moved, MovedBy
<1>5. Trimmed(m) = WithBuckets(IF plan.notice THEN WithHit(headed, 1) ELSE rest)
  BY <1>3 DEF Trimmed
<1>6. kept = KeptOf(m)
  BY <1>1 DEF KeptOf
<1> HIDE DEF plan, kept
<1>7. /\ IsModel(rest)
      /\ rest.rows = KeptOf(m)
      /\ rest.visible = MovedBy(m.visible, OffsetOf(m), DropOf(m))
      /\ rest.marks = MovedBy(m.marks, OffsetOf(m), DropOf(m))
      /\ rest.hits = MovedBy(m.hits, OffsetOf(m), DropOf(m))
      /\ rest.gaps = m.gaps - Cardinality(gone \ Records(gone))
      /\ rest.evicted = m.evicted
  <2> HIDE DEF gone
  <2>1. QED
    BY <1>1, <1>4, <1>6 DEF IsModel
<1> HIDE DEF rest
<1>8. CASE LostOf(m) = {}
  <2>1. Trimmed(m) = WithBuckets(rest)
    BY <1>1, <1>5, <1>8
  <2>2. KeptOf(m) = TrimmedRows(m) /\ HeadOf(m) = {}
    BY <1>8 DEF TrimmedRows, HeadOf
  <2>3. /\ IsModel(Trimmed(m)) /\ OverviewExact(Trimmed(m))
        /\ Trimmed(m).rows = rest.rows /\ Trimmed(m).visible = rest.visible
        /\ Trimmed(m).marks = rest.marks /\ Trimmed(m).gaps = rest.gaps
        /\ Trimmed(m).evicted = rest.evicted /\ Trimmed(m).hits = rest.hits
    BY <1>7, <2>1 DEF WithBuckets, IsModel, OverviewExact
  <2>4. QED
    BY <1>7, <1>8, <2>2, <2>3
<1>9. CASE LostOf(m) # {}
  <2>1. Trimmed(m) = WithBuckets(WithHit(headed, 1))
    BY <1>1, <1>5, <1>9
  <2>2. <<Notice(m.evicted + plan.records, plan.through)>> \o KeptOf(m) = TrimmedRows(m)
    BY <1>1, <1>9 DEF TrimmedRows, NewNotice
  <2>3. HeadOf(m) = {1}
    BY <1>9 DEF HeadOf
  <2>4. /\ IsModel(headed)
        /\ headed.rows = TrimmedRows(m)
        /\ headed.visible = rest.visible \cup HeadOf(m)
        /\ headed.marks = rest.marks /\ headed.hits = rest.hits /\ headed.gaps = rest.gaps
        /\ headed.evicted = m.evicted + Cardinality(LostOf(m))
    BY <1>1, <1>7, <2>2, <2>3 DEF IsModel
  <2> HIDE DEF headed
  <2> DEFINE hit == WithHit(headed, 1)
  <2>5. /\ IsModel(hit)
        /\ hit.rows = headed.rows /\ hit.visible = headed.visible
        /\ hit.marks = headed.marks /\ hit.gaps = headed.gaps
        /\ hit.evicted = headed.evicted
        /\ hit.hits = IF TextOf(headed.rows[1]) \in highlight THEN headed.hits \cup {1}
                      ELSE headed.hits \ {1}
    BY <2>4 DEF WithHit, IsModel
  <2> HIDE DEF hit
  <2>6. Trimmed(m) = WithBuckets(hit)
    BY <2>1 DEF hit
  <2>7. /\ IsModel(Trimmed(m)) /\ OverviewExact(Trimmed(m))
        /\ Trimmed(m).rows = hit.rows /\ Trimmed(m).visible = hit.visible
        /\ Trimmed(m).marks = hit.marks /\ Trimmed(m).gaps = hit.gaps
        /\ Trimmed(m).evicted = hit.evicted /\ Trimmed(m).hits = hit.hits
    BY <2>5, <2>6 DEF WithBuckets, IsModel, OverviewExact
  <2>8. QED
    BY <1>7, <1>9, <2>4, <2>5, <2>7
<1>10. QED
  BY <1>8, <1>9

(* Its rows are those it keeps, moved, under the notice it adds. *)
LEMMA TrimMoves ==
    ASSUME NEW k \in 0..MaxItems, NEW m, Sound(m, k), Exceeded(m)
    PROVE  /\ TrimmedRows(m) \in Seq(AnyRow)
           /\ Renumbered(m.rows, TrimmedRows(m), OffsetOf(m), DropOf(m), HeadOf(m))
           /\ Len(TrimmedRows(m)) = RowCap + (IF LostOf(m) = {} THEN 0 ELSE 1)
           /\ LostOf(m) # {} => TrimmedRows(m)[1] = NewNotice(m)
           /\ Cardinality(LostOf(m)) \in Nat
           /\ DropOf(m) \in 1..Len(m.rows) /\ LostOf(m) \subseteq Held(m.rows)
<1> DEFINE drop == DropOf(m)
           kept == KeptOf(m)
           lost == LostOf(m)
<1>1. /\ m.rows \in Seq(AnyRow) /\ InOrder(m.rows, k, m.evicted) /\ k \in Nat
      /\ RowCap \in Nat \ {0} /\ TrimAt \in Nat /\ TrimAt >= RowCap /\ MaxItems \in Nat
      /\ m.evicted \in Nat
  BY DEF Sound, InOrder
<1>2. Len(m.rows) \in Nat /\ DOMAIN m.rows = 1..Len(m.rows)
  BY <1>1
<1>3. drop \in Int /\ drop >= 1 /\ drop < Len(m.rows) /\ Len(m.rows) = drop + RowCap
  BY <1>1, <1>2 DEF Exceeded, DropOf
<1>4. lost \subseteq Held(m.rows) /\ lost \subseteq 1..k /\ IsFiniteSet(lost)
  <2>1. Gone(m.rows, drop) \subseteq Held(m.rows)
    BY SMTT(30), <1>1, <1>2, <1>3, HeldFinite
  <2>2. lost \subseteq Gone(m.rows, drop)
    BY DEF LostOf, Records
  <2>3. QED
    BY <1>1, <2>1, <2>2, HeldFinite, FS_Subset
<1>5. Cardinality(lost) \in Nat
  BY <1>4, FS_CardinalityType
<1>6. /\ kept \in Seq(AnyRow) /\ Len(kept) = RowCap
      /\ \A i \in 1..RowCap : kept[i] = m.rows[drop + i]
  <2>1. kept = SubSeq(m.rows, drop + 1, Len(m.rows)) /\ drop \in 0..Len(m.rows)
    BY <1>2, <1>3 DEF KeptOf
  <2> HIDE DEF kept, drop
  <2>2. /\ kept \in Seq(AnyRow) /\ Len(kept) = Len(m.rows) - drop
        /\ \A i \in 1..(Len(m.rows) - drop) : kept[i] = m.rows[drop + i]
    BY <1>1, <2>1, SuffixProperties
  <2>3. QED
    BY <1>1, <1>2, <1>3, <2>2
<1>7. ASSUME lost # {} PROVE NewNotice(m) \in AnyRow
  <2>1. lost \subseteq 0..k
    BY <1>1, <1>4
  <2>2. Max(lost) \in 1..MaxItems
    BY <1>1, <1>4, <1>7, <2>1, GreatestNatural
  <2>3. m.evicted + Cardinality(lost) \in Nat
    BY <1>1, <1>5
  <2>4. QED
    BY <2>2, <2>3 DEF AnyRow, NewNotice, Notice
<1>8. ASSUME NEW t \in DOMAIN m.rows, t > drop PROVE ~IsNotice(m.rows[t])
  <2>1. t # 1
    BY <1>2, <1>3, <1>8
  <2>2. QED
    BY <1>1, <2>1 DEF InOrder
<1> HIDE DEF drop, kept, lost
<1>9. CASE lost = {}
  <2>1. TrimmedRows(m) = kept /\ OffsetOf(m) = drop /\ HeadOf(m) = {}
    BY <1>9 DEF TrimmedRows, OffsetOf, HeadOf, lost, kept, drop
  <2>2. \A t \in DOMAIN m.rows : t > drop =>
            t - drop \in DOMAIN kept /\ kept[t - drop] = m.rows[t]
    BY SMTT(30), <1>2, <1>3, <1>6
  <2>3. \A s \in DOMAIN kept : s + drop \in DOMAIN m.rows /\ s + drop > drop
    BY SMTT(30), <1>2, <1>3, <1>6
  <2>4. Renumbered(m.rows, kept, drop, drop, {})
    BY <1>3, <1>8, <2>2, <2>3 DEF Renumbered
  <2>5. QED
    BY <1>2, <1>3, <1>4, <1>5, <1>6, <1>9, <2>1, <2>4 DEF lost, drop
<1>10. CASE lost # {}
  <2> DEFINE rows == <<NewNotice(m)>> \o kept
  <2>1. TrimmedRows(m) = rows /\ OffsetOf(m) = drop - 1 /\ HeadOf(m) = {1}
    BY <1>10 DEF TrimmedRows, OffsetOf, HeadOf, lost, kept, drop
  <2>2. <<NewNotice(m)>> \in Seq(AnyRow)
    BY <1>7, <1>10
  <2>3. /\ rows \in Seq(AnyRow) /\ Len(rows) = RowCap + 1
        /\ rows[1] = NewNotice(m)
        /\ \A i \in 1..RowCap : rows[i + 1] = kept[i]
    BY SMTT(30), <1>1, <1>6, <2>2, ConcatProperties
  <2>4. IsNotice(NewNotice(m))
    BY DEF NewNotice, Notice, IsNotice
  <2> HIDE DEF rows
  <2>5. ASSUME NEW t \in DOMAIN m.rows, t > drop
        PROVE  t - (drop - 1) \in DOMAIN rows /\ t - (drop - 1) \notin {1}
               /\ rows[t - (drop - 1)] = m.rows[t]
    <3>1. t - drop \in 1..RowCap
      BY <1>2, <1>3, <2>5
    <3>2. kept[t - drop] = m.rows[drop + (t - drop)] /\ drop + (t - drop) = t
      BY SMTT(30), <1>2, <1>3, <1>6, <3>1
    <3>3. rows[(t - drop) + 1] = kept[t - drop]
      BY <2>3, <3>1
    <3>4. (t - drop) + 1 = t - (drop - 1)
      BY <1>2, <1>3
    <3>5. t - (drop - 1) \in 1..(RowCap + 1) /\ t - (drop - 1) # 1
      BY SMTT(30), <1>1, <1>2, <1>3, <3>1
    <3>6. QED
      BY <2>3, <3>2, <3>3, <3>4, <3>5
  <2>6. \A s \in DOMAIN rows : s \notin {1} =>
            s + (drop - 1) \in DOMAIN m.rows /\ s + (drop - 1) > drop
    BY <1>1, <1>2, <1>3, <2>3
  <2>7. Renumbered(m.rows, rows, drop - 1, drop, {1})
    BY <1>1, <1>3, <1>8, <2>3, <2>4, <2>5, <2>6 DEF Renumbered
  <2>8. QED
    BY SMTT(30), <1>2, <1>3, <1>4, <1>5, <1>10, <2>1, <2>3, <2>7 DEF lost, drop
<1>11. QED
  BY <1>9, <1>10

(* A trim leaves exactly what its rows say, with every mark on its item and *)
(* every record held or counted.                                            *)
LEMMA TrimKeeps ==
    ASSUME NEW k \in 0..MaxItems, NEW m, NEW items,
           Sound(m, k), Exact(m), MarksAgree(m.rows, m.marks, items), Counted(m, k)
    PROVE  LET t == Trimmed(m)
           IN  /\ Sound(t, k) /\ Exact(t) /\ MarksAgree(t.rows, t.marks, items)
               /\ Counted(t, k) /\ Bounded(t.rows)
<1> DEFINE t == Trimmed(m)
           off == OffsetOf(m)
           drop == DropOf(m)
           head == HeadOf(m)
           lost == LostOf(m)
           gone == Gone(m.rows, drop)
<1>1. /\ m.rows \in Seq(AnyRow) /\ InOrder(m.rows, k, m.evicted) /\ IsModel(m)
      /\ m.marks \subseteq DOMAIN m.rows /\ m.evicted \in Nat /\ Len(m.rows) \in Nat
      /\ k \in Nat /\ MaxItems \in Nat
  BY DEF Sound, InOrder
<1>2. CASE ~Exceeded(m)
  <2>1. t = m
    BY <1>2 DEF Trimmed, PlanTrim
  <2>2. Bounded(m.rows)
    BY <1>1, <1>2 DEF Exceeded, Bounded
  <2>3. QED
    BY <2>1, <2>2
<1>3. CASE Exceeded(m)
  <2>1. /\ IsModel(t) /\ t.rows = TrimmedRows(m)
        /\ t.visible = MovedBy(m.visible, off, drop) \cup head
        /\ t.marks = MovedBy(m.marks, off, drop)
        /\ t.gaps = m.gaps - Cardinality(gone \ Records(gone))
        /\ t.evicted = IF lost = {} THEN m.evicted ELSE m.evicted + Cardinality(lost)
        /\ OverviewExact(t)
    BY <1>1, <1>3, TrimFields
  <2>2. t.hits = IF lost = {} THEN MovedBy(m.hits, off, drop)
                 ELSE IF TextOf(t.rows[1]) \in highlight
                      THEN MovedBy(m.hits, off, drop) \cup {1}
                      ELSE MovedBy(m.hits, off, drop) \ {1}
    BY <1>1, <1>3, TrimFields
  <2>3. /\ t.rows \in Seq(AnyRow)
        /\ Renumbered(m.rows, t.rows, off, drop, head)
        /\ Len(t.rows) = RowCap + (IF lost = {} THEN 0 ELSE 1)
        /\ lost # {} => t.rows[1] = NewNotice(m)
        /\ Cardinality(lost) \in Nat
        /\ drop \in 1..Len(m.rows) /\ lost \subseteq Held(m.rows)
    BY <1>3, <2>1, TrimMoves
  <2>4. head = IF lost = {} THEN {} ELSE {1}
    BY DEF HeadOf
  <2>5. lost = Records(gone)
    BY DEF LostOf
  <2> HIDE DEF t, off, drop, head, lost, gone
  <2>6. t.evicted \in Nat
    BY <1>1, <2>1, <2>3
  <2>7. /\ InOrder(t.rows, k, t.evicted)
        /\ Held(t.rows) = HeldBehind(m.rows, drop)
    <3>1. \A s \in head : t.rows[s].n = t.evicted
      BY <2>1, <2>3, <2>4 DEF NewNotice, Notice, lost
    <3>2. /\ m.rows \in Seq(AnyRow) /\ t.rows \in Seq(AnyRow)
          /\ Renumbered(m.rows, t.rows, off, drop, head) /\ InOrder(m.rows, k, m.evicted)
      BY <1>1, <2>3
    <3>3. InOrder(t.rows, k, t.evicted)
      BY <3>1, <3>2, OrderMoves
    <3>4. Held(t.rows) = HeldBehind(m.rows, drop)
      BY <3>2, HeldMoves
    <3>5. QED
      BY <3>3, <3>4
  <2>8. MarksAgree(t.rows, t.marks, items) /\ t.marks \subseteq DOMAIN t.rows
    BY <1>1, <2>1, <2>3, MarksMove
  <2>9. t.visible = VisibleOf(t.rows, filter)
    BY <1>1, <2>1, <2>3, VisibleMoves DEF Exact, ShownExact
  <2>10. t.hits = HitsOf(t.rows, t.visible, highlight)
    <3>1. m.visible \subseteq DOMAIN m.rows
      BY DEF Exact, ShownExact, VisibleOf
    <3>6. /\ m.rows \in Seq(AnyRow) /\ t.rows \in Seq(AnyRow)
          /\ Renumbered(m.rows, t.rows, off, drop, head)
          /\ t.visible = MovedBy(m.visible, off, drop) \cup head
          /\ m.hits = HitsOf(m.rows, m.visible, highlight)
      BY <1>1, <2>1, <2>3 DEF Exact, ShownExact
    <3>2. HitsOf(t.rows, t.visible, highlight) =
            MovedBy(m.hits, off, drop) \cup HitsOf(t.rows, head, highlight)
      BY <3>1, <3>6, HitsMove
    <3>3. CASE lost = {}
      BY <2>2, <2>4, <3>2, <3>3 DEF HitsOf
    <3>4. CASE lost # {}
      <4>1. 1 \notin MovedBy(m.hits, off, drop)
        <5>1. m.hits \subseteq DOMAIN m.rows
          BY <3>1 DEF Exact, ShownExact, HitsOf
        <5>2. QED
          BY <2>3, <2>4, <3>4, <5>1 DEF MovedBy, Renumbered
      <4>2. HitsOf(t.rows, {1}, highlight) =
              IF TextOf(t.rows[1]) \in highlight THEN {1} ELSE {}
        BY DEF HitsOf
      <4>3. QED
        BY <2>2, <2>4, <3>2, <3>4, <4>1, <4>2
    <3>5. QED
      BY <3>3, <3>4
  <2>11. t.gaps = GapsOf(t.rows)
    <3>1. GapsOf(t.rows) = GapsOf(m.rows) - Cardinality({s \in GapPlaces(m.rows) : s <= drop})
      BY <1>1, <2>3, GapsMove
    <3>2. drop \in 0..Len(m.rows)
      BY <1>1, <2>3
    <3>3. Cardinality(gone \ Records(gone)) =
            Cardinality({s \in GapPlaces(m.rows) : s <= drop})
      BY <1>1, <3>2, GoneGaps DEF gone
    <3>4. QED
      BY <2>1, <3>1, <3>3 DEF Exact, ShownExact
  <2>12. Counted(t, k)
    <3>1. Held(m.rows) = gone \cup Held(t.rows)
      <4>1. DOMAIN m.rows = 1..Len(m.rows)
        BY <1>1
      <4>2. \A s \in DOMAIN m.rows : s > drop => ~IsNotice(m.rows[s])
        BY <2>3 DEF Renumbered
      <4>3. ASSUME NEW n \in Held(m.rows) PROVE n \in gone \cup Held(t.rows)
        <5>1. PICK s \in DOMAIN m.rows : ~IsNotice(m.rows[s]) /\ n = m.rows[s].n
          BY DEF Held
        <5>2. CASE s > drop
          BY <2>7, <5>1, <5>2 DEF HeldBehind
        <5>3. CASE s <= drop
          <6>1. s \in 1..drop
            BY <2>3, <4>1, <5>3
          <6>2. QED
            BY <5>1, <6>1 DEF gone, Gone
        <5>4. QED
          BY <2>3, <4>1, <5>2, <5>3
      <4>4. gone \subseteq Held(m.rows)
        <5>1. drop \in 0..Len(m.rows)
          BY <1>1, <2>3
        <5>2. QED
          BY <1>1, <5>1, HeldFinite DEF gone
      <4>5. Held(t.rows) \subseteq Held(m.rows)
        BY <2>7, <4>2 DEF Held, HeldBehind
      <4>6. QED
        BY <4>3, <4>4, <4>5
    <3>2. gone \cap Held(t.rows) = {}
      <4>1. SUFFICES ASSUME NEW n \in gone, n \in Held(t.rows) PROVE FALSE
        OBVIOUS
      <4>2. PICK r \in 1..drop : ~IsNotice(m.rows[r]) /\ n = m.rows[r].n
        BY DEF gone, Gone
      <4>3. PICK s \in DOMAIN m.rows : s > drop /\ n = m.rows[s].n
        BY <2>7, <4>1 DEF HeldBehind
      <4>4. ~IsNotice(m.rows[s])
        BY <2>3, <4>3 DEF Renumbered
      <4>5. r \in DOMAIN m.rows
        BY <1>1, <2>3
      <4>6. r = s
        BY <1>1, <4>2, <4>3, <4>4, <4>5, OwnItem
      <4>7. QED
        BY <2>3, <4>3, <4>6
    <3>3. Records(Held(m.rows)) = lost \cup Records(Held(t.rows))
      BY <2>5, <3>1 DEF Records
    <3>4. lost \cap Records(Held(t.rows)) = {}
      BY <2>5, <3>2 DEF Records
    <3>5. IsFiniteSet(lost) /\ IsFiniteSet(Records(Held(t.rows)))
      <4>1. IsFiniteSet(Held(m.rows)) /\ IsFiniteSet(Held(t.rows))
        BY <1>1, <2>7, HeldFinite
      <4>2. Records(Held(t.rows)) \subseteq Held(t.rows)
        BY DEF Records
      <4>3. QED
        BY <2>3, <4>1, <4>2, FS_Subset
    <3>6. Cardinality(Records(Held(m.rows))) =
            Cardinality(lost) + Cardinality(Records(Held(t.rows)))
      BY <3>3, <3>4, <3>5, DisjointCardinality
    <3>7. Cardinality(Records(Held(t.rows))) \in Nat
      BY <3>5, FS_CardinalityType
    <3>8. t.evicted = m.evicted + Cardinality(lost)
      <4>1. CASE lost = {}
        BY <1>1, <2>1, <4>1, FS_EmptySet
      <4>2. CASE lost # {}
        BY <2>1, <4>2
      <4>3. QED
        BY <4>1, <4>2
    <3>9. QED
      BY <1>1, <2>3, <3>6, <3>7, <3>8 DEF Counted
  <2>13. Bounded(t.rows)
    <3>1. CASE lost = {}
      <4>1. Len(t.rows) = RowCap
        BY <2>3, <3>1
      <4>2. QED
        BY <4>1 DEF Bounded
    <3>2. CASE lost # {}
      <4>1. IsNotice(t.rows[1])
        BY <2>3, <3>2 DEF NewNotice, Notice, IsNotice
      <4>2. Len(t.rows) = RowCap + 1
        BY <2>3, <3>2
      <4>3. QED
        BY <4>1, <4>2 DEF Bounded
    <3>3. QED
      BY <3>1, <3>2
  <2>14. QED
    BY <2>1, <2>6, <2>7, <2>8, <2>9, <2>10, <2>11, <2>12, <2>13
       DEF Sound, Exact, ShownExact, t
<1>4. QED
  BY <1>2, <1>3

-----------------------------------------------------------------------------
(* An append, before its trim.                                             *)

(* What an append adds is what computing everything anew would add: the     *)
(* rows that were there are shown where they were.                          *)
LEMMA ExtendKeeps ==
    ASSUME NEW k \in Nat, NEW n \in Nat, k + n <= MaxItems,
           NEW batch \in Seq(AnyRow), Len(batch) = n, \A i \in 1..n : batch[i] = Item(k + i),
           NEW m, NEW items, items \subseteq 1..k,
           Sound(m, k), Exact(m), MarksAgree(m.rows, m.marks, items), Counted(m, k)
    PROVE  LET e == Extended(m, batch)
           IN  /\ Sound(e, k + n) /\ Exact(e) /\ MarksAgree(e.rows, e.marks, items)
               /\ Counted(e, k + n)
<1> DEFINE e == Extended(m, batch)
           L == Len(m.rows)
           rows == m.rows \o batch
           new == {s \in (L + 1)..Len(rows) : Passes(rows[s], filter)}
           visible == m.visible \cup new
           added == (k + 1)..(k + n)
<1>1. /\ m.rows \in Seq(AnyRow) /\ InOrder(m.rows, k, m.evicted) /\ IsModel(m)
      /\ m.marks \subseteq DOMAIN m.rows /\ m.evicted \in Nat /\ L \in Nat
      /\ DOMAIN m.rows = 1..L
  BY DEF Sound, InOrder
<1>2. /\ IsModel(e) /\ e.rows = rows /\ e.visible = visible /\ e.marks = m.marks
      /\ e.hits = m.hits \cup HitsOf(rows, new, highlight)
      /\ e.buckets = m.buckets \cup ErrorBuckets(rows, visible, new)
      /\ e.markers = m.markers \cup MarkersOf(rows, new)
      /\ e.gaps = m.gaps + GapsOf(batch) /\ e.evicted = m.evicted
  BY <1>1 DEF Extended, IsModel
<1>3. /\ rows \in Seq(AnyRow) /\ Len(rows) = L + n /\ DOMAIN rows = 1..(L + n)
      /\ \A s \in 1..L : rows[s] = m.rows[s]
      /\ \A i \in 1..n : rows[L + i] = Item(k + i)
  <2>1. /\ rows \in Seq(AnyRow) /\ Len(rows) = L + n
        /\ \A s \in 1..(L + n) : rows[s] = IF s <= L THEN m.rows[s] ELSE batch[s - L]
    <3>1. /\ rows \in Seq(AnyRow) /\ Len(rows) = Len(m.rows) + Len(batch)
          /\ \A s \in 1..(Len(m.rows) + Len(batch)) :
                rows[s] = IF s <= Len(m.rows) THEN m.rows[s] ELSE batch[s - Len(m.rows)]
      BY ZenonT(40), <1>1, ConcatProperties
    <3> HIDE DEF rows
    <3>2. QED
      BY <3>1
  <2> HIDE DEF rows, L
  <2>2. \A s \in 1..L : rows[s] = m.rows[s]
    BY <1>1, <2>1
  <2>3. ASSUME NEW i \in 1..n PROVE rows[L + i] = Item(k + i)
    <3>1. L + i \in 1..(L + n) /\ ~ (L + i <= L) /\ (L + i) - L = i
      BY SMTT(30), <1>1
    <3>2. QED
      BY <2>1, <3>1
  <2>4. DOMAIN rows = 1..(L + n)
    BY <2>1
  <2>5. QED
    BY <2>1, <2>2, <2>3, <2>4
<1> HIDE DEF L
<1>4. ASSUME NEW s \in (L + 1)..(L + n)
      PROVE  /\ rows[s] = Item(k + (s - L)) /\ ~IsNotice(rows[s])
             /\ rows[s].n = k + (s - L) /\ rows[s].n \in added
  <2>1. s - L \in 1..n /\ L + (s - L) = s
    BY <1>1
  <2>2. rows[s] = Item(k + (s - L))
    BY <1>3, <2>1
  <2>3. k + (s - L) \in added
    BY <2>1
  <2>4. QED
    BY <2>2, <2>3 DEF Item, IsNotice
<1>16. ASSUME NEW s \in 1..(L + n), s <= L
       PROVE  s \in DOMAIN m.rows /\ rows[s] = m.rows[s]
  <2>1. s \in 1..L
    BY <1>16
  <2>2. DOMAIN m.rows = 1..L /\ \A d \in 1..L : rows[d] = m.rows[d]
    BY <1>1, <1>3
  <2> HIDE DEF rows
  <2>3. QED
    BY <2>1, <2>2
<1> HIDE DEF rows, e
<1>5. visible = VisibleOf(rows, filter)
  <2>1. m.visible = {s \in 1..L : Passes(m.rows[s], filter)}
    BY <1>1 DEF Exact, ShownExact, VisibleOf
  <2>2. m.visible = {s \in 1..L : Passes(rows[s], filter)}
    BY <1>3, <2>1
  <2>3. 1..(L + n) = (1..L) \cup ((L + 1)..(L + n))
    BY <1>1
  <2>4. VisibleOf(rows, filter) = {s \in 1..(L + n) : Passes(rows[s], filter)}
    BY <1>3 DEF VisibleOf
  <2>5. new = {s \in (L + 1)..(L + n) : Passes(rows[s], filter)}
    BY <1>3
  <2>6. QED
    BY <2>2, <2>3, <2>4, <2>5
<1>6. m.visible \subseteq 1..L /\ new \subseteq (L + 1)..(L + n)
  BY <1>1, <1>3 DEF Exact, ShownExact, VisibleOf
<1>7. e.hits = HitsOf(rows, visible, highlight)
  <2>1. HitsOf(rows, m.visible, highlight) = HitsOf(m.rows, m.visible, highlight)
    BY <1>3, <1>6 DEF HitsOf
  <2>2. HitsOf(rows, visible, highlight) =
          HitsOf(rows, m.visible, highlight) \cup HitsOf(rows, new, highlight)
    BY DEF HitsOf
  <2>3. QED
    BY <1>2, <2>1, <2>2 DEF Exact, ShownExact
<1>8. e.markers = MarkersOf(rows, visible)
  <2>1. MarkersOf(rows, m.visible) = MarkersOf(m.rows, m.visible)
    BY <1>3, <1>6 DEF MarkersOf
  <2>2. MarkersOf(rows, visible) = MarkersOf(rows, m.visible) \cup MarkersOf(rows, new)
    BY DEF MarkersOf
  <2>3. QED
    BY <1>2, <2>1, <2>2 DEF Exact, OverviewExact
<1>9. e.buckets = ErrorBuckets(rows, visible, visible)
  <2>1. ASSUME NEW s \in m.visible PROVE Bucket(visible, s) = Bucket(m.visible, s)
    <3>1. {v \in visible : v < s} = {v \in m.visible : v < s}
      <4>1. ASSUME NEW v \in new PROVE ~ (v < s)
        BY SMTT(30), <1>1, <1>6
      <4>2. QED
        BY <4>1
    <3>2. QED
      BY <3>1 DEF Bucket, ViewRow
  <2>2. ErrorBuckets(rows, visible, m.visible) = ErrorBuckets(m.rows, m.visible, m.visible)
    <3> DEFINE old == {s \in m.visible : IsError(m.rows[s])}
    <3>1. {s \in m.visible : IsError(rows[s])} = old
      BY <1>3, <1>6
    <3>2. {Bucket(visible, s) : s \in old} = {Bucket(m.visible, s) : s \in old}
      BY <2>1
    <3>3. QED
      BY <3>1, <3>2 DEF ErrorBuckets
  <2>3. ErrorBuckets(rows, visible, visible) =
          ErrorBuckets(rows, visible, m.visible) \cup ErrorBuckets(rows, visible, new)
    <3> HIDE DEF new
    <3>1. QED
      BY DEF ErrorBuckets
  <2>4. QED
    BY <1>2, <2>2, <2>3 DEF Exact, OverviewExact
<1>10. e.gaps = GapsOf(rows)
  <2> DEFINE old == GapPlaces(m.rows)
             late == {s - (-L) : s \in GapPlaces(batch)}
  <2>1. GapPlaces(rows) = old \cup late
    <3>1. ASSUME NEW s \in GapPlaces(rows) PROVE s \in old \cup late
      <4>1. s \in 1..(L + n) /\ ~IsNotice(rows[s]) /\ IsGap(rows[s].n)
        BY <1>3 DEF GapPlaces
      <4>2. CASE s <= L
        BY <1>1, <1>3, <4>1, <4>2 DEF GapPlaces
      <4>3. CASE ~ (s <= L)
        <5>1. s - L \in 1..n /\ s = (s - L) - (-L) /\ L + (s - L) = s
          BY SMTT(30), <1>1, <4>1, <4>3
        <5>2. rows[s] = batch[s - L]
          BY <1>3, <5>1
        <5>3. s - L \in GapPlaces(batch)
          BY <4>1, <5>1, <5>2 DEF GapPlaces
        <5>4. QED
          BY <5>1, <5>3
      <4>4. QED
        BY <4>2, <4>3
    <3>2. ASSUME NEW s \in old PROVE s \in GapPlaces(rows)
      BY <1>1, <1>3 DEF GapPlaces
    <3>3. ASSUME NEW i \in GapPlaces(batch) PROVE i - (-L) \in GapPlaces(rows)
      <4>1. i \in 1..n /\ ~IsNotice(batch[i]) /\ IsGap(batch[i].n)
        BY DEF GapPlaces
      <4>2. i - (-L) = L + i /\ L + i \in 1..(L + n)
        BY <1>1, <4>1
      <4>3. rows[L + i] = batch[i]
        BY <1>3, <4>1
      <4>4. QED
        BY <1>3, <4>1, <4>2, <4>3 DEF GapPlaces
    <3>4. QED
      BY <3>1, <3>2, <3>3
  <2>2. old \subseteq 1..L /\ GapPlaces(batch) \subseteq 1..n
    BY <1>1 DEF GapPlaces
  <2>3. old \cap late = {}
    BY <1>1, <2>2
  <2>4. IsFiniteSet(1..L) /\ IsFiniteSet(1..n)
    BY <1>1, FS_Interval
  <2>5. IsFiniteSet(old) /\ IsFiniteSet(GapPlaces(batch))
    BY <2>2, <2>4, FS_Subset
  <2>6. IsFiniteSet(late) /\ Cardinality(late) = Cardinality(GapPlaces(batch))
    <3>1. -L \in Int /\ GapPlaces(batch) \subseteq Int
      BY <1>1, <2>2
    <3>2. PICK d \in Int : d = -L
      BY <3>1
    <3>3. LET T == {s - d : s \in GapPlaces(batch)}
          IN  IsFiniteSet(T) /\ Cardinality(T) = Cardinality(GapPlaces(batch))
      BY <2>5, <3>1, MovedCardinality
    <3>4. QED
      BY <3>2, <3>3
  <2> HIDE DEF late
  <2>7. Cardinality(GapPlaces(rows)) = Cardinality(old) + Cardinality(GapPlaces(batch))
    BY <2>1, <2>3, <2>5, <2>6, DisjointCardinality
  <2>8. \A r : GapsOf(r) = Cardinality(GapPlaces(r))
    BY DEF GapsOf, GapPlaces
  <2>9. QED
    BY <1>2, <2>7, <2>8 DEF Exact, ShownExact
<1>11. InOrder(rows, k + n, m.evicted)
  <2>1. ASSUME NEW s \in 1..(L + n)
        PROVE  IF IsNotice(rows[s]) THEN s = 1 /\ rows[s].n = m.evicted
               ELSE rows[s].n \in 1..(k + n)
    <3>1. CASE s <= L
      <4>1. s \in DOMAIN m.rows /\ rows[s] = m.rows[s]
        BY <1>16, <3>1
      <4>2. IF IsNotice(rows[s]) THEN s = 1 /\ rows[s].n = m.evicted
            ELSE rows[s].n \in 1..k
        BY <1>1, <4>1 DEF InOrder
      <4>3. 1..k \subseteq 1..(k + n)
        OBVIOUS
      <4>4. QED
        BY <4>2, <4>3
    <3>2. CASE ~ (s <= L)
      <4>1. s \in (L + 1)..(L + n)
        BY <1>1, <3>2
      <4>2. QED
        BY <1>4, <4>1
    <3>3. QED
      BY <3>1, <3>2
  <2>2. ASSUME NEW r \in 1..(L + n), NEW s \in 1..(L + n), r < s,
               ~IsNotice(rows[r]), ~IsNotice(rows[s])
        PROVE  rows[r].n < rows[s].n
    <3>1. CASE s <= L
      <4>1. r \in DOMAIN m.rows /\ s \in DOMAIN m.rows
            /\ rows[r] = m.rows[r] /\ rows[s] = m.rows[s]
        BY SMTT(30), <1>1, <1>3, <2>2, <3>1
      <4>2. QED
        BY <1>1, <2>2, <4>1 DEF InOrder
    <3>2. CASE r <= L /\ ~ (s <= L)
      <4>1. r \in DOMAIN m.rows /\ rows[r] = m.rows[r] /\ s \in (L + 1)..(L + n)
        BY SMTT(30), <1>1, <1>3, <3>2
      <4>2. rows[r].n \in 1..k
        BY <1>1, <2>2, <4>1 DEF InOrder
      <4>3. rows[s].n \in added
        BY <1>4, <4>1
      <4>4. QED
        BY <4>2, <4>3
    <3>3. CASE ~ (r <= L) /\ ~ (s <= L)
      <4>1. r \in (L + 1)..(L + n) /\ s \in (L + 1)..(L + n)
        BY <1>1, <3>3
      <4>2. rows[r].n = k + (r - L) /\ rows[s].n = k + (s - L)
        BY <1>4, <4>1
      <4>3. QED
        BY <1>1, <2>2, <4>2
    <3>4. QED
      BY <1>1, <2>2, <3>1, <3>2, <3>3
  <2>3. QED
    BY <1>3, <2>1, <2>2 DEF InOrder
<1>12. MarksAgree(rows, m.marks, items)
  <2>1. ASSUME NEW s \in 1..(L + n), ~IsNotice(rows[s])
        PROVE  s \in m.marks <=> rows[s].n \in items
    <3>1. CASE s <= L
      BY <1>16, <2>1, <3>1 DEF MarksAgree
    <3>2. CASE ~ (s <= L)
      <4>1. s \in (L + 1)..(L + n)
        BY <1>1, <3>2
      <4>2. rows[s].n \notin items
        BY <1>4, <4>1
      <4>3. s \notin m.marks
        BY <1>1, <3>2
      <4>4. QED
        BY <4>2, <4>3
    <3>3. QED
      BY <3>1, <3>2
  <2>2. QED
    BY <1>3, <2>1 DEF MarksAgree
<1>13. Counted(e, k + n)
  <2>1. Held(rows) = Held(m.rows) \cup added
    <3>1. ASSUME NEW s \in DOMAIN m.rows, ~IsNotice(m.rows[s])
          PROVE  m.rows[s].n \in Held(rows)
      <4>1. s \in DOMAIN rows /\ rows[s] = m.rows[s]
        BY <1>1, <1>3
      <4>2. QED
        BY <3>1, <4>1 DEF Held
    <3>2. ASSUME NEW j \in added PROVE j \in Held(rows)
      <4>1. L + (j - k) \in (L + 1)..(L + n)
        BY <1>1
      <4>2. rows[L + (j - k)].n = j
        BY <1>1, <1>4, <4>1
      <4>3. L + (j - k) \in DOMAIN rows
        BY SMTT(30), <1>1, <1>3, <4>1
      <4>4. QED
        BY <1>4, <4>1, <4>2, <4>3 DEF Held
    <3>3. ASSUME NEW s \in DOMAIN rows, ~IsNotice(rows[s])
          PROVE  rows[s].n \in Held(m.rows) \cup added
      <4>1. CASE s <= L
        BY <1>3, <1>16, <3>3, <4>1 DEF Held
      <4>2. CASE ~ (s <= L)
        BY SMTT(30), <1>1, <1>3, <1>4, <4>2
      <4>3. QED
        BY <4>1, <4>2
    <3>4. QED
      BY <3>1, <3>2, <3>3 DEF Held
  <2>2. Held(m.rows) \subseteq 1..k /\ IsFiniteSet(Held(m.rows)) /\ IsFiniteSet(1..k)
    BY <1>1, HeldFinite
  <2>3. IsFiniteSet(added)
    <3>1. k + 1 \in Int /\ k + n \in Int
      OBVIOUS
    <3>2. QED
      BY <3>1, FS_Interval
  <2>4. 1..(k + n) = (1..k) \cup added /\ (1..k) \cap added = {}
    OBVIOUS
  <2> DEFINE A == Records(1..k)
             B == Records(added)
             C == Records(Held(m.rows))
  <2>5. /\ Records(1..(k + n)) = A \cup B /\ A \cap B = {}
        /\ Records(Held(rows)) = C \cup B /\ C \cap B = {}
    BY <2>1, <2>2, <2>4 DEF Records
  <2>6. IsFiniteSet(A) /\ IsFiniteSet(B) /\ IsFiniteSet(C)
    <3>1. A \subseteq 1..k /\ B \subseteq added /\ C \subseteq Held(m.rows)
      BY DEF Records
    <3>2. QED
      BY <2>2, <2>3, <3>1, FS_Subset
  <2> HIDE DEF A, B, C
  <2>7. /\ Cardinality(Records(1..(k + n))) = Cardinality(A) + Cardinality(B)
        /\ Cardinality(Records(Held(rows))) = Cardinality(C) + Cardinality(B)
    BY <2>5, <2>6, DisjointCardinality
  <2>8. Cardinality(A) \in Nat /\ Cardinality(B) \in Nat /\ Cardinality(C) \in Nat
    BY <2>6, FS_CardinalityType
  <2>9. Cardinality(A) = m.evicted + Cardinality(C)
    BY DEF Counted, A, C
  <2>10. QED
    BY SMTT(30), <1>1, <1>2, <2>7, <2>8, <2>9 DEF Counted
<1>14. m.marks \subseteq DOMAIN rows
  BY <1>1, <1>3
<1>15. QED
  BY <1>1, <1>2, <1>5, <1>7, <1>8, <1>9, <1>10, <1>11, <1>12, <1>13, <1>14
     DEF Sound, Exact, ShownExact, OverviewExact, e

-----------------------------------------------------------------------------
(* A notice of what was dropped before it came here.                       *)

(* A new notice over rows that moved leaves exactly what the rows say, when *)
(* no gap went.                                                             *)
LEMMA HeadingKeeps ==
    ASSUME NEW k \in Nat, NEW m, Sound(m, k), ShownExact(m),
           NEW e, e.rows \in Seq(AnyRow), NEW off, NEW drop,
           NEW head, head = {1}, Renumbered(m.rows, e.rows, off, drop, head),
           \A s \in DOMAIN m.rows : s <= drop => IsNotice(m.rows[s]),
           e.visible = MovedBy(m.visible, off, drop) \cup head,
           e.hits = IF TextOf(e.rows[1]) \in highlight
                    THEN MovedBy(m.hits, off, drop) \cup {1}
                    ELSE MovedBy(m.hits, off, drop) \ {1},
           e.gaps = m.gaps, e.rows[1].n = e.evicted
    PROVE  /\ ShownExact(e) /\ InOrder(e.rows, k, e.evicted)
           /\ Held(e.rows) = Held(m.rows)
<1>1. m.rows \in Seq(AnyRow) /\ InOrder(m.rows, k, m.evicted)
  BY DEF Sound, InOrder
<1>2. e.visible = VisibleOf(e.rows, filter)
  BY <1>1, VisibleMoves DEF ShownExact
<1>3. e.hits = HitsOf(e.rows, e.visible, highlight)
  <2>1. m.visible \subseteq DOMAIN m.rows /\ m.hits = HitsOf(m.rows, m.visible, highlight)
    BY DEF ShownExact, VisibleOf
  <2>6. HitsOf(e.rows, MovedBy(m.visible, off, drop) \cup head, highlight) =
          MovedBy(HitsOf(m.rows, m.visible, highlight), off, drop)
            \cup HitsOf(e.rows, head, highlight)
    <3> DEFINE r1 == m.rows
               r2 == e.rows
               V == m.visible
    <3>1. /\ r1 \in Seq(AnyRow) /\ r2 \in Seq(AnyRow) /\ V \subseteq DOMAIN r1
          /\ Renumbered(r1, r2, off, drop, head)
      BY <1>1, <2>1
    <3> HIDE DEF r1, r2, V
    <3>2. HitsOf(r2, MovedBy(V, off, drop) \cup head, highlight) =
            MovedBy(HitsOf(r1, V, highlight), off, drop) \cup HitsOf(r2, head, highlight)
      BY <3>1, HitsMove
    <3>3. QED
      BY <3>2 DEF r1, r2, V
  <2>2. HitsOf(e.rows, e.visible, highlight) =
          MovedBy(m.hits, off, drop) \cup HitsOf(e.rows, head, highlight)
    BY <2>1, <2>6
  <2>3. 1 \notin MovedBy(m.hits, off, drop)
    <3>1. m.hits \subseteq DOMAIN m.rows
      BY <2>1 DEF HitsOf
    <3>2. QED
      BY <3>1 DEF MovedBy, Renumbered
  <2>4. HitsOf(e.rows, head, highlight) = IF TextOf(e.rows[1]) \in highlight THEN {1} ELSE {}
    BY DEF HitsOf
  <2>5. QED
    BY <2>2, <2>3, <2>4
<1>4. e.gaps = GapsOf(e.rows)
  <2>1. {s \in GapPlaces(m.rows) : s <= drop} = {}
    BY DEF GapPlaces
  <2>2. Cardinality({s \in GapPlaces(m.rows) : s <= drop}) = 0
    BY <2>1, FS_EmptySet
  <2>3. GapsOf(e.rows) = GapsOf(m.rows) - Cardinality({s \in GapPlaces(m.rows) : s <= drop})
    BY <1>1, GapsMove
  <2>4. GapsOf(m.rows) \in Nat
    <3>1. GapsOf(m.rows) = Cardinality(GapPlaces(m.rows))
      BY DEF GapsOf, GapPlaces
    <3>2. QED
      BY <1>1, <3>1, HeldFinite, FS_CardinalityType
  <2>5. QED
    BY <2>2, <2>3, <2>4 DEF ShownExact
<1>5. /\ InOrder(e.rows, k, e.evicted)
      /\ Held(e.rows) = HeldBehind(m.rows, drop)
  <2>1. \A s \in head : e.rows[s].n = e.evicted
    OBVIOUS
  <2>2. InOrder(e.rows, k, e.evicted)
    BY <1>1, <2>1, OrderMoves
  <2>3. Held(e.rows) = HeldBehind(m.rows, drop)
    BY <1>1, HeldMoves
  <2>4. QED
    BY <2>2, <2>3
<1>6. Held(m.rows) = HeldBehind(m.rows, drop)
  <2>1. \A t \in DOMAIN m.rows : t > drop <=> ~IsNotice(m.rows[t])
    BY <1>1 DEF Renumbered
  <2>2. QED
    BY <2>1 DEF Held, HeldBehind
<1>7. QED
  BY <1>2, <1>3, <1>4, <1>5, <1>6 DEF ShownExact

(* Records that were dropped are counted: those of the next n items. *)
LEMMA DroppedCounted ==
    ASSUME NEW k \in Nat, NEW n \in Nat, NEW m, m.evicted \in Nat, Counted(m, k),
           InOrder(m.rows, k, m.evicted)
    PROVE  /\ Cardinality(Records((k + 1)..(k + n))) \in Nat
           /\ Cardinality(Records(1..(k + n))) =
                m.evicted + Cardinality(Records((k + 1)..(k + n)))
                  + Cardinality(Records(Held(m.rows)))
<1> DEFINE A == Records(1..k)
           B == Records((k + 1)..(k + n))
           C == Records(Held(m.rows))
<1>1. Records(1..(k + n)) = A \cup B /\ A \cap B = {}
  <2>1. 1..(k + n) = (1..k) \cup ((k + 1)..(k + n)) /\ (1..k) \cap ((k + 1)..(k + n)) = {}
    OBVIOUS
  <2>2. QED
    BY <2>1 DEF Records
<1>2. IsFiniteSet(A) /\ IsFiniteSet(B) /\ IsFiniteSet(C)
  <2>1. A \subseteq 1..k /\ B \subseteq (k + 1)..(k + n) /\ C \subseteq Held(m.rows)
    BY DEF Records
  <2>2. k + 1 \in Int /\ k + n \in Int
    OBVIOUS
  <2>3. IsFiniteSet(1..k) /\ IsFiniteSet((k + 1)..(k + n)) /\ IsFiniteSet(Held(m.rows))
    BY <2>2, FS_Interval, HeldFinite
  <2>4. QED
    BY <2>1, <2>3, FS_Subset
<1> HIDE DEF A, B, C
<1>3. Cardinality(Records(1..(k + n))) = Cardinality(A) + Cardinality(B)
  BY <1>1, <1>2, DisjointCardinality
<1>4. Cardinality(A) \in Nat /\ Cardinality(B) \in Nat /\ Cardinality(C) \in Nat
  BY <1>2, FS_CardinalityType
<1>5. Cardinality(A) = m.evicted + Cardinality(C)
  BY DEF Counted, A, C
<1>6. Cardinality(Records(1..(k + n))) = m.evicted + Cardinality(B) + Cardinality(C)
  BY <1>3, <1>4, <1>5
<1>7. QED
  BY <1>4, <1>6 DEF B, C

(* Items that were not fed yet may come later. *)
LEMMA OrderGrows ==
    ASSUME NEW k \in Nat, NEW n \in Nat, NEW rows, NEW total, InOrder(rows, k, total)
    PROVE  InOrder(rows, k + n, total)
<1>1. 1..k \subseteq 1..(k + n)
  OBVIOUS
<1>2. QED
  BY <1>1 DEF InOrder

(* A notice, new or updated, leaves exactly what the rows say, every mark   *)
(* on its item and every record held or counted.                            *)
LEMMA NotedKeeps ==
    ASSUME NEW k \in Nat, NEW n \in Nat, k + n <= MaxItems, NEW m, NEW items,
           Sound(m, k), Exact(m), MarksAgree(m.rows, m.marks, items), Counted(m, k),
           Bounded(m.rows), Records((k + 1)..(k + n)) # {}
    PROVE  LET dropped == Records((k + 1)..(k + n))
               e == Noted(m, Cardinality(dropped), Max(dropped))
           IN  /\ Sound(e, k + n) /\ Exact(e) /\ MarksAgree(e.rows, e.marks, items)
               /\ Counted(e, k + n) /\ Bounded(e.rows)
<1> DEFINE dropped == Records((k + 1)..(k + n))
           count == Cardinality(dropped)
           notice == Notice(m.evicted + count, Max(dropped))
           e == Noted(m, count, Max(dropped))
           L == Len(m.rows)
<1>1. /\ m.rows \in Seq(AnyRow) /\ InOrder(m.rows, k, m.evicted) /\ IsModel(m)
      /\ m.marks \subseteq DOMAIN m.rows /\ m.evicted \in Nat /\ L \in Nat
      /\ DOMAIN m.rows = 1..L
  BY DEF Sound, InOrder
<1>2. count \in Nat /\ m.evicted + count \in Nat
  <2>1. count \in Nat
    BY <1>1, DroppedCounted
  <2> HIDE DEF count
  <2>2. QED
    BY <1>1, <2>1
<1>3. notice \in AnyRow /\ IsNotice(notice) /\ notice.n = m.evicted + count
  <2>1. dropped \subseteq 1..MaxItems /\ dropped \subseteq 0..MaxItems /\ MaxItems \in Nat
    BY DEF Records
  <2>2. Max(dropped) \in 1..MaxItems
    BY <2>1, GreatestNatural
  <2>3. QED
    BY <1>2, <2>2 DEF AnyRow, Notice, IsNotice
<1> HIDE DEF dropped, count, notice
<1>4. m.visible \subseteq 1..L /\ m.hits \subseteq 1..L
  BY <1>1 DEF Exact, ShownExact, VisibleOf, HitsOf
<1>5. ASSUME NEW f, f.evicted = m.evicted + count, Held(f.rows) = Held(m.rows)
      PROVE  Counted(f, k + n)
  BY <1>1, <1>5, DroppedCounted DEF Counted, count, dropped
<1>6. CASE m.rows # <<>> /\ IsNotice(m.rows[1])
  <2> DEFINE r2 == [m.rows EXCEPT ![1] = notice]
  <2>1. L >= 1
    BY <1>1, <1>6
  <2>2. /\ r2 \in Seq(AnyRow) /\ Len(r2) = L /\ DOMAIN r2 = 1..L /\ r2[1] = notice
        /\ \A s \in 1..L : s # 1 => r2[s] = m.rows[s]
    BY <1>1, <1>3, <2>1, ExceptSeq
  <2> DEFINE noted == [[m EXCEPT !.evicted = @ + count] EXCEPT !.rows[1] = notice]
  <2>3. /\ IsModel(noted) /\ noted.rows = r2 /\ noted.visible = m.visible
        /\ noted.marks = m.marks /\ noted.hits = m.hits /\ noted.buckets = m.buckets
        /\ noted.markers = m.markers /\ noted.gaps = m.gaps
        /\ noted.evicted = m.evicted + count
    BY <1>1 DEF IsModel
  <2>4. e = WithHit(noted, 1)
    BY <1>6 DEF Noted, notice
  <2> HIDE DEF noted, r2, e, L
  <2>5. /\ IsModel(e) /\ e.rows = r2 /\ e.visible = m.visible
        /\ e.marks = m.marks /\ e.buckets = m.buckets
        /\ e.markers = m.markers /\ e.gaps = m.gaps
        /\ e.evicted = m.evicted + count
        /\ e.hits = IF TextOf(r2[1]) \in highlight THEN m.hits \cup {1} ELSE m.hits \ {1}
    BY <2>3, <2>4 DEF WithHit, IsModel
  <2>6. \A s \in 1..L : s > 1 => ~IsNotice(m.rows[s])
    BY <1>1 DEF InOrder
  <2>7. Renumbered(m.rows, r2, 0, 1, {1})
    <3>1. ASSUME NEW t \in 1..L, t > 1
          PROVE  t - 0 \in 1..L /\ t - 0 \notin {1} /\ r2[t - 0] = m.rows[t]
      BY <2>2, <3>1
    <3>2. ASSUME NEW s \in 1..L, s \notin {1} PROVE s + 0 \in 1..L /\ s + 0 > 1
      BY <3>2
    <3>3. 1 \in 1..L
      BY <1>1, <2>1
    <3>4. QED
      BY <1>1, <1>3, <2>2, <2>6, <3>1, <3>2, <3>3 DEF Renumbered
  <2>8. \A S \in SUBSET (1..L) : MovedBy(S, 0, 1) = S \ {1}
    <3>1. ASSUME NEW S \in SUBSET (1..L), NEW s PROVE s \in MovedBy(S, 0, 1) <=> s \in S \ {1}
      <4>1. ASSUME s \in MovedBy(S, 0, 1) PROVE s \in S \ {1}
        <5>1. PICK t \in S : t > 1 /\ s = t - 0
          BY <4>1 DEF MovedBy
        <5>2. t \in Int
          BY <1>1
        <5>3. QED
          BY <5>1, <5>2
      <4>2. ASSUME s \in S \ {1} PROVE s \in MovedBy(S, 0, 1)
        <5>1. s > 1 /\ s - 0 = s /\ s \in S
          BY <1>1, <4>2
        <5>2. QED
          BY <5>1 DEF MovedBy
      <4>3. QED
        BY <4>1, <4>2
    <3>2. QED
      BY <3>1
  <2>9. e.visible = MovedBy(m.visible, 0, 1) \cup {1}
    <3>1. 1 \in m.visible
      BY <1>1, <1>6, <2>1 DEF Exact, ShownExact, VisibleOf, Passes
    <3>2. QED
      BY <1>4, <2>5, <2>8, <3>1
  <2>10. e.hits = IF TextOf(e.rows[1]) \in highlight
                  THEN MovedBy(m.hits, 0, 1) \cup {1} ELSE MovedBy(m.hits, 0, 1) \ {1}
    <3>1. MovedBy(m.hits, 0, 1) = m.hits \ {1}
      BY <1>4, <2>8
    <3>2. QED
      BY <2>5, <3>1
  <2>11. /\ ShownExact(e) /\ InOrder(e.rows, k, e.evicted)
         /\ Held(e.rows) = Held(m.rows)
    <3>1. \A s \in DOMAIN m.rows : s <= 1 => IsNotice(m.rows[s])
      BY <1>1, <1>6
    <3>2. e.rows[1].n = e.evicted /\ e.rows \in Seq(AnyRow) /\ e.gaps = m.gaps
      BY <1>3, <2>2, <2>5
    <3>3. Renumbered(m.rows, e.rows, 0, 1, {1}) /\ ShownExact(m)
      BY <2>5, <2>7 DEF Exact
    <3>4. QED
      BY <2>9, <2>10, <3>1, <3>2, <3>3, HeadingKeeps
  <2>12. OverviewExact(e)
    <3>1. \A s \in 1..L : /\ IsError(r2[s]) <=> IsError(m.rows[s])
                          /\ IsMarker(r2[s]) <=> IsMarker(m.rows[s])
      BY <1>3, <1>6, <2>2 DEF IsError, IsMarker
    <3>2. ErrorBuckets(r2, m.visible, m.visible) = ErrorBuckets(m.rows, m.visible, m.visible)
      <4>1. {s \in m.visible : IsError(r2[s])} = {s \in m.visible : IsError(m.rows[s])}
        BY <1>4, <3>1
      <4>2. QED
        BY <4>1 DEF ErrorBuckets
    <3>3. MarkersOf(r2, m.visible) = MarkersOf(m.rows, m.visible)
      BY <1>4, <3>1 DEF MarkersOf
    <3>4. QED
      BY <2>5, <3>2, <3>3 DEF Exact, OverviewExact
  <2>13. MarksAgree(e.rows, e.marks, items) /\ e.marks \subseteq DOMAIN e.rows
    BY <1>1, <1>3, <2>2, <2>5 DEF MarksAgree
  <2>14. Bounded(e.rows)
    <3>1. Len(e.rows) = Len(m.rows) /\ IsNotice(e.rows[1])
      BY <1>3, <2>2, <2>5 DEF L
    <3>2. QED
      BY <3>1 DEF Bounded
  <2>15. Counted(e, k + n) /\ InOrder(e.rows, k + n, e.evicted)
    BY <1>5, <2>5, <2>11, OrderGrows
  <2>16. e.evicted \in Nat
    BY <1>2, <2>5
  <2>17. QED
    BY <2>5, <2>11, <2>12, <2>13, <2>14, <2>15, <2>16 DEF Sound, Exact, e, count, dropped
<1>7. CASE ~ (m.rows # <<>> /\ IsNotice(m.rows[1]))
  <2> DEFINE r2 == <<notice>> \o m.rows
  <2>1. /\ r2 \in Seq(AnyRow) /\ Len(r2) = 1 + L /\ DOMAIN r2 = 1..(1 + L)
        /\ \A s \in 1..(1 + L) : r2[s] = IF s = 1 THEN notice ELSE m.rows[s - 1]
    <3>1. <<notice>> \in Seq(AnyRow)
      BY <1>3
    <3>2. /\ r2 \in Seq(AnyRow) /\ Len(r2) = Len(<<notice>>) + Len(m.rows)
          /\ \A s \in 1..(Len(<<notice>>) + Len(m.rows)) :
                r2[s] = IF s <= Len(<<notice>>) THEN <<notice>>[s]
                        ELSE m.rows[s - Len(<<notice>>)]
      BY <1>1, <3>1, ConcatProperties
    <3> HIDE DEF r2
    <3>3. Len(<<notice>>) = 1 /\ <<notice>>[1] = notice
      OBVIOUS
    <3>4. /\ Len(r2) = 1 + L
          /\ \A s \in 1..(1 + L) : r2[s] = IF s <= 1 THEN <<notice>>[s] ELSE m.rows[s - 1]
      BY <3>2, <3>3
    <3> HIDE DEF L
    <3>5. \A s \in 1..(1 + L) : s <= 1 <=> s = 1
      BY <1>1
    <3>6. DOMAIN r2 = 1..(1 + L)
      BY <3>2, <3>4
    <3>7. QED
      BY <3>2, <3>3, <3>4, <3>5, <3>6
  <2> DEFINE noted == [[m EXCEPT !.evicted = @ + count] EXCEPT
                          !.rows = <<notice>> \o @,
                          !.visible = Shifted(@) \cup {1},
                          !.marks = Shifted(@), !.hits = Shifted(@)]
             hit == WithHit(noted, 1)
  <2>2. /\ IsModel(noted) /\ noted.rows = r2 /\ noted.visible = Shifted(m.visible) \cup {1}
        /\ noted.marks = Shifted(m.marks) /\ noted.hits = Shifted(m.hits)
        /\ noted.gaps = m.gaps /\ noted.evicted = m.evicted + count
    BY <1>1 DEF IsModel
  <2>3. e = WithBuckets(hit)
    BY <1>7 DEF Noted, notice
  <2> HIDE DEF noted, r2, e, L
  <2>4. /\ IsModel(hit) /\ hit.rows = r2 /\ hit.visible = Shifted(m.visible) \cup {1}
        /\ hit.marks = Shifted(m.marks) /\ hit.gaps = m.gaps
        /\ hit.evicted = m.evicted + count
        /\ hit.hits = IF TextOf(r2[1]) \in highlight
                      THEN Shifted(m.hits) \cup {1} ELSE Shifted(m.hits) \ {1}
    BY <2>2 DEF WithHit, IsModel
  <2> HIDE DEF hit
  <2>5. /\ IsModel(e) /\ e.rows = r2 /\ e.visible = Shifted(m.visible) \cup {1}
        /\ e.marks = Shifted(m.marks) /\ e.gaps = m.gaps
        /\ e.evicted = m.evicted + count
        /\ e.hits = IF TextOf(r2[1]) \in highlight
                    THEN Shifted(m.hits) \cup {1} ELSE Shifted(m.hits) \ {1}
        /\ OverviewExact(e)
    BY <2>3, <2>4 DEF WithBuckets, IsModel, OverviewExact
  <2>6. \A s \in 1..L : ~IsNotice(m.rows[s])
    BY SMTT(30), <1>1, <1>7 DEF InOrder, L
  <2>7. r2[1] = notice
    BY <1>1, <2>1
  <2>8. Renumbered(m.rows, r2, -1, 0, {1})
    <3>1. ASSUME NEW t \in 1..L
          PROVE  t - (-1) \in 1..(1 + L) /\ t - (-1) \notin {1} /\ r2[t - (-1)] = m.rows[t]
      <4>1. t - (-1) \in 1..(1 + L) /\ t - (-1) # 1 /\ (t - (-1)) - 1 = t
        BY <1>1
      <4>2. QED
        BY <2>1, <4>1
    <3>2. ASSUME NEW s \in 1..(1 + L), s \notin {1} PROVE s + (-1) \in 1..L /\ s + (-1) > 0
      BY <1>1, <3>2
    <3>3. -1 \in Int /\ 1 \in 1..(1 + L)
      BY <1>1
    <3>4. QED
      BY <1>1, <1>3, <2>1, <2>6, <2>7, <3>1, <3>2, <3>3 DEF Renumbered
  <2>9. \A S \in SUBSET (1..L) : Shifted(S) = MovedBy(S, -1, 0)
    <3>1. ASSUME NEW S \in SUBSET (1..L) PROVE Shifted(S) = MovedBy(S, -1, 0)
      <4>1. {t \in S : t > 0} = S
        <5>1. \A t \in S : t > 0
          BY <1>1
        <5>2. QED
          BY <5>1
      <4>2. \A s \in S : s + 1 = s - (-1)
        BY <1>1
      <4>3. QED
        BY <4>1, <4>2 DEF Shifted, MovedBy
    <3>2. QED
      BY <3>1
  <2>10. /\ ShownExact(e) /\ InOrder(e.rows, k, e.evicted)
         /\ Held(e.rows) = Held(m.rows)
    <3>1. \A s \in DOMAIN m.rows : s <= 0 => IsNotice(m.rows[s])
      BY <1>1
    <3>2. e.rows[1].n = e.evicted /\ e.rows \in Seq(AnyRow) /\ e.gaps = m.gaps
      BY <1>3, <2>1, <2>5, <2>7
    <3>3. Renumbered(m.rows, e.rows, -1, 0, {1}) /\ ShownExact(m)
      BY <2>5, <2>8 DEF Exact
    <3>4. e.visible = MovedBy(m.visible, -1, 0) \cup {1}
      BY <1>4, <2>5, <2>9
    <3>5. Shifted(m.hits) = MovedBy(m.hits, -1, 0)
      BY <1>4, <2>9
    <3>6. e.hits = IF TextOf(e.rows[1]) \in highlight
                   THEN MovedBy(m.hits, -1, 0) \cup {1} ELSE MovedBy(m.hits, -1, 0) \ {1}
      BY <2>5, <3>5
    <3>7. QED
      BY <3>1, <3>2, <3>3, <3>4, <3>6, HeadingKeeps
  <2>11. MarksAgree(e.rows, e.marks, items) /\ e.marks \subseteq DOMAIN e.rows
    <3>1. m.marks \in SUBSET (1..L)
      BY <1>1
    <3>2. e.marks = MovedBy(m.marks, -1, 0)
      BY <2>5, <2>9, <3>1
    <3>3. Renumbered(m.rows, e.rows, -1, 0, {1}) /\ e.rows \in Seq(AnyRow)
      BY <2>1, <2>5, <2>8
    <3>4. QED
      BY SMTT(30), <1>1, <3>2, <3>3, MarksMove
  <2>12. Bounded(e.rows)
    <3>1. Len(e.rows) = Len(m.rows) + 1 /\ IsNotice(e.rows[1])
      BY <1>1, <1>3, <2>1, <2>5, <2>7 DEF L
    <3>2. Len(m.rows) <= TrimAt
      <4>1. Len(m.rows) = TrimAt + 1 => m.rows # <<>>
        OBVIOUS
      <4>2. QED
        BY <1>7, <4>1 DEF Bounded
    <3>3. Len(m.rows) \in Nat
      BY <1>1
    <3>4. QED
      BY SMTT(30), <3>1, <3>2, <3>3 DEF Bounded
  <2>13. Counted(e, k + n) /\ InOrder(e.rows, k + n, e.evicted)
    BY <1>5, <2>5, <2>10, OrderGrows
  <2>14. e.evicted \in Nat
    BY <1>2, <2>5
  <2>15. QED
    BY <2>5, <2>10, <2>11, <2>12, <2>13, <2>14 DEF Sound, Exact, e, count, dropped
<1>8. QED
  BY <1>6, <1>7

-----------------------------------------------------------------------------
(* The inductive invariant.                                                *)

Good(m, k, items) ==
    /\ Sound(m, k) /\ Exact(m) /\ MarksAgree(m.rows, m.marks, items)
    /\ Counted(m, k) /\ Bounded(m.rows)

Settled ==
    /\ loads \in 0..MaxLoads /\ restored \in BOOLEAN
    /\ filter \in Filters /\ highlight \in Highlights
    /\ told \in Int
    /\ saved \subseteq [at : 1..MaxItems, of : 1..MaxItems]

(* Rows, marks and counts agree with each other and with what was fed; that *)
(* the rows are in the order of the capture is what lets a trim count the   *)
(* gaps it takes by their items.                                            *)
IInv ==
    /\ fed \in 0..MaxItems /\ marked \subseteq 1..fed
    /\ Good(model, fed, marked) /\ Settled

(* What holds of a model holds of it in the next state, when it becomes the *)
(* model there.                                                             *)
LEMMA GoodNext ==
    ASSUME NEW m, NEW k, NEW items, NEW f, NEW h,
           model' = m, fed' = k, marked' = items, filter' = f, highlight' = h,
           UNCHANGED capture,
           Sound(m, k), MarksAgree(m.rows, m.marks, items), Counted(m, k), Bounded(m.rows),
           m.visible = VisibleOf(m.rows, f), m.hits = HitsOf(m.rows, m.visible, h),
           m.gaps = GapsOf(m.rows), OverviewExact(m)
    PROVE  Good(model, fed, marked)'
<1>1. Sound(model, fed)'
  BY DEF Sound, IsModel, InOrder, IsNotice
<1>2. ShownExact(model)'
  BY DEF ShownExact, VisibleOf, HitsOf, GapsOf, TextOf, Passes, IsGap, IsNotice
<1>3. OverviewExact(model)'
  BY DEF OverviewExact, ErrorBuckets, MarkersOf, IsMarker, IsError, IsGap, IsNotice,
         Bucket, ViewRow
<1>4. Counted(model, fed)'
  BY DEF Counted, Records, Held, IsGap, IsNotice
<1>5. MarksAgree(model.rows, model.marks, marked)'
  BY DEF MarksAgree, IsNotice
<1>6. Bounded(model.rows)'
  BY DEF Bounded, IsNotice
<1>7. QED
  BY <1>1, <1>2, <1>3, <1>4, <1>5, <1>6 DEF Good, Exact

(* The form for an operation that leaves the filter and the highlight. *)
LEMMA GoodStays ==
    ASSUME NEW m, NEW k, NEW items, model' = m, fed' = k, marked' = items,
           UNCHANGED <<capture, filter, highlight>>, Good(m, k, items)
    PROVE  Good(model, fed, marked)'
<1>1. filter' = filter /\ highlight' = highlight /\ capture' = capture
  OBVIOUS
<1>2. /\ Sound(m, k) /\ MarksAgree(m.rows, m.marks, items) /\ Counted(m, k)
      /\ Bounded(m.rows) /\ OverviewExact(m)
      /\ m.visible = VisibleOf(m.rows, filter)
      /\ m.hits = HitsOf(m.rows, m.visible, highlight) /\ m.gaps = GapsOf(m.rows)
  BY DEF Good, Exact, ShownExact
<1>3. QED
  BY <1>1, <1>2, GoodNext

(* An empty model has nothing to be wrong about. *)
LEMMA EmptyIsGood ==
    Good(Empty, 0, {})
<1>1. /\ Empty.rows = <<>> /\ Empty.visible = {} /\ Empty.marks = {} /\ Empty.hits = {}
      /\ Empty.buckets = {} /\ Empty.markers = {} /\ Empty.evicted = 0 /\ Empty.gaps = 0
      /\ IsModel(Empty)
  BY DEF Empty, IsModel
<1>2. <<>> \in Seq(AnyRow) /\ DOMAIN <<>> = {} /\ Len(<<>>) = 0
  OBVIOUS
<1>3. Sound(Empty, 0)
  BY <1>1, <1>2 DEF Sound, InOrder
<1>4. Cardinality({}) = 0
  BY FS_EmptySet
<1>5. VisibleOf(<<>>, filter) = {} /\ HitsOf(<<>>, {}, highlight) = {}
      /\ MarkersOf(<<>>, {}) = {} /\ ErrorBuckets(<<>>, {}, {}) = {}
  BY <1>2 DEF VisibleOf, HitsOf, MarkersOf, ErrorBuckets
<1>6. GapPlaces(<<>>) = {} /\ GapsOf(<<>>) = Cardinality(GapPlaces(<<>>))
  BY <1>2 DEF GapPlaces, GapsOf
<1>7. Exact(Empty)
  BY <1>1, <1>4, <1>5, <1>6 DEF Exact, ShownExact, OverviewExact
<1>8. Records(1..0) = {} /\ Records(Held(<<>>)) = {}
  BY <1>2 DEF Records, Held
<1>9. Counted(Empty, 0)
  <2>1. Cardinality(Records(1..0)) = 0 /\ Cardinality(Records(Held(Empty.rows))) = 0
    BY <1>1, <1>4, <1>8
  <2>2. Empty.evicted = 0
    BY <1>1
  <2>3. Cardinality(Records(1..0)) = Empty.evicted + Cardinality(Records(Held(Empty.rows)))
    BY <2>1, <2>2
  <2>4. QED
    BY <2>3 DEF Counted
<1>10. MarksAgree(<<>>, {}, {}) /\ Bounded(<<>>)
  BY <1>2 DEF MarksAgree, Bounded
<1>11. QED
  BY <1>1, <1>3, <1>7, <1>9, <1>10 DEF Good

(* The model may be given marks, and nothing else is touched. *)
LEMMA MarkedIsGood ==
    ASSUME NEW m, NEW k, NEW items, NEW marks, NEW others, Good(m, k, items),
           marks \subseteq DOMAIN m.rows, MarksAgree(m.rows, marks, others),
           NEW n, n = [m EXCEPT !.marks = marks]
    PROVE  Good(n, k, others)
<1>1. IsModel(m)
  BY DEF Good, Sound
<1>2. /\ IsModel(n) /\ n.rows = m.rows /\ n.visible = m.visible /\ n.marks = marks
      /\ n.hits = m.hits /\ n.buckets = m.buckets /\ n.markers = m.markers
      /\ n.evicted = m.evicted /\ n.gaps = m.gaps
  BY <1>1 DEF IsModel
<1>3. QED
  BY <1>2 DEF Good, Sound, Exact, ShownExact, OverviewExact, Counted

(* An item's instant is an item's. *)
LEMMA AtIsItem ==
    ASSUME NEW n \in 1..MaxItems
    PROVE  At(n) \in 1..MaxItems
<1>1. CASE IsGap(n) /\ Records(1..n) # {}
  <2>1. Records(1..n) \subseteq 1..n /\ Records(1..n) \subseteq 0..n /\ n \in Nat
    BY DEF Records
  <2>2. Max(Records(1..n)) \in 1..n
    BY <1>1, <2>1, GreatestNatural
  <2>3. QED
    BY <1>1, <2>2 DEF At
<1>2. CASE ~ (IsGap(n) /\ Records(1..n) # {})
  BY <1>2 DEF At
<1>3. QED
  BY <1>1, <1>2

(* The rows shown can be counted. *)
LEMMA ShownCounted ==
    ASSUME NEW m, NEW k, Sound(m, k), ShownExact(m)
    PROVE  /\ Cardinality(m.visible) \in Nat
           /\ \A s \in Int : ViewRow(m.visible, s) \in Nat
           /\ Len(m.rows) \in Nat
<1>1. m.rows \in Seq(AnyRow)
  BY DEF Sound, InOrder
<1>2. Len(m.rows) \in Nat /\ DOMAIN m.rows = 1..Len(m.rows) /\ IsFiniteSet(1..Len(m.rows))
  <2>1. Len(m.rows) \in Nat /\ DOMAIN m.rows = 1..Len(m.rows)
    BY <1>1
  <2>2. PICK n \in Nat : n = Len(m.rows)
    BY <2>1
  <2>3. IsFiniteSet(1..n)
    BY FS_Interval
  <2>4. QED
    BY <2>1, <2>2, <2>3
<1>3. m.visible \subseteq 1..Len(m.rows)
  BY <1>2 DEF ShownExact, VisibleOf
<1>4. ASSUME NEW S, S \subseteq m.visible PROVE Cardinality(S) \in Nat
  BY <1>2, <1>3, <1>4, FS_Subset, FS_CardinalityType
<1>5. \A s \in Int : ViewRow(m.visible, s) \in Nat
  BY <1>4 DEF ViewRow
<1>6. QED
  BY <1>2, <1>4, <1>5

(* A bracket is a number of rows. *)
LEMMA BracketIsNumber ==
    ASSUME NEW m, NEW k, Sound(m, k), ShownExact(m)
    PROVE  Bracketed(m) \in Int
<1> DEFINE plan == PlanTrim(m)
           hidden == ViewRow(m.visible, plan.drop + 1)
<1>1. CASE ~Exceeded(m)
  BY <1>1 DEF Bracketed, PlanTrim
<1>2. CASE Exceeded(m)
  <2>1. plan.drop = Len(m.rows) - RowCap
    BY <1>2 DEF PlanTrim
  <2>2. Len(m.rows) \in Nat /\ \A s \in Int : ViewRow(m.visible, s) \in Nat
    BY ShownCounted
  <2>3. hidden \in Nat
    <3>1. plan.drop + 1 \in Int
      BY <2>1, <2>2
    <3>2. QED
      BY <2>2, <3>1
  <2>4. plan.gone = hidden \/ plan.gone = hidden - 1
    BY <1>2, <2>1 DEF PlanTrim
  <2> HIDE DEF hidden, plan
  <2>5. -plan.gone \in Int /\ 1 \in Int /\ 0 \in Int
    BY <2>3, <2>4
  <2>6. Bracketed(m) \in {0, 1, -plan.gone}
    BY DEF Bracketed, plan
  <2>7. QED
    BY <2>5, <2>6
<1>3. QED
  BY <1>1, <1>2

LEMMA InitIsGood ==
    ASSUME Init
    PROVE  IInv
<1>1. /\ fed = 0 /\ marked = {} /\ model = Empty
      /\ filter = NoFilter /\ highlight = {} /\ told = 0
      /\ saved = {} /\ loads = 0 /\ restored = FALSE
  BY DEF Init
<1>2. Good(model, fed, marked)
  BY <1>1, EmptyIsGood
<1>3. Settled
  <2>1. MaxLoads \in Nat
    OBVIOUS
  <2>2. loads \in 0..MaxLoads /\ told \in Int
    BY <1>1, <2>1
  <2>6. restored \in BOOLEAN
    BY <1>1, Zenon
  <2>3. filter \in Filters /\ highlight \in Highlights
    BY <1>1
  <2>4. saved \subseteq [at : 1..MaxItems, of : 1..MaxItems]
    BY <1>1
  <2>5. QED
    BY <2>2, <2>3, <2>4, <2>6 DEF Settled
<1>4. QED
  BY <1>1, <1>2, <1>3 DEF IInv

-----------------------------------------------------------------------------
(* Each operation keeps it.                                                *)

LEMMA AppendKeeps ==
    ASSUME IInv, NEW k \in 1..MaxBatch, AppendBatch(k)
    PROVE  IInv'
<1> DEFINE n == fed + k
           longer == Extended(model, Batch(k))
           next == Trimmed(longer)
<1>1. /\ fed \in Nat /\ k \in Nat /\ n <= MaxItems /\ n \in 0..MaxItems
      /\ fed' = n /\ model' = next /\ marked' = marked
      /\ UNCHANGED <<capture, filter, highlight>>
      /\ marked \subseteq 1..fed /\ marked \subseteq 1..n
  BY DEF IInv, AppendBatch
<1>2. /\ Batch(k) \in Seq(AnyRow) /\ Len(Batch(k)) = k
      /\ \A i \in 1..k : Batch(k)[i] = Item(fed + i)
  <2>1. \A i \in 1..k : Item(fed + i) \in AnyRow
    BY <1>1 DEF Item, AnyRow
  <2>2. QED
    BY <1>1, <2>1 DEF Batch
<1>3. /\ Sound(longer, n) /\ Exact(longer)
      /\ MarksAgree(longer.rows, longer.marks, marked) /\ Counted(longer, n)
  BY <1>1, <1>2, ExtendKeeps DEF IInv, Good
<1>4. Good(next, n, marked)
  <2> HIDE DEF longer, n
  <2>1. QED
    BY <1>1, <1>3, TrimKeeps DEF Good
<1>5. Good(model, fed, marked)'
  <2> HIDE DEF next, n
  <2>1. QED
    BY <1>1, <1>4, GoodStays
<1>6. told' \in Int
  <2>1. Sound(model, fed) /\ ShownExact(model) /\ told \in Int /\ ShownExact(longer)
    BY <1>3 DEF IInv, Good, Exact, Settled
  <2>2. Cardinality(model.visible) \in Nat /\ Cardinality(longer.visible) \in Nat
    BY <1>3, <2>1, ShownCounted
  <2>3. Bracketed(longer) \in Int
    BY <1>3, <2>1, BracketIsNumber
  <2>4. told' = told + Cardinality(longer.visible) - Cardinality(model.visible)
                  + Bracketed(longer)
    BY DEF AppendBatch
  <2> HIDE DEF longer
  <2>5. QED
    BY <2>1, <2>2, <2>3, <2>4
<1>7. Settled'
  BY <1>6 DEF IInv, Settled, AppendBatch
<1>8. QED
  BY <1>1, <1>5, <1>7 DEF IInv

LEMMA DropKeeps ==
    ASSUME IInv, NEW k \in 1..MaxBatch, DropPaused(k)
    PROVE  IInv'
<1> DEFINE n == fed + k
           dropped == Records((fed + 1)..(fed + k))
<1>1. /\ fed \in Nat /\ k \in Nat /\ n <= MaxItems /\ n \in 0..MaxItems
      /\ fed' = n /\ marked' = marked /\ UNCHANGED <<capture, filter, highlight>>
      /\ marked \subseteq 1..fed /\ marked \subseteq 1..n
      /\ Good(model, fed, marked) /\ told \in Int
  BY DEF IInv, Settled, DropPaused
<1>2. CASE dropped = {}
  <2>1. model' = model /\ told' = told
    BY <1>2 DEF DropPaused
  <2>2. Sound(model, n)
    BY <1>1, OrderGrows DEF Good, Sound
  <2>3. Counted(model, n)
    <3>1. 1..n = (1..fed) \cup ((fed + 1)..(fed + k))
      BY <1>1
    <3>2. Records(1..n) = Records(1..fed) \cup dropped
      BY <3>1 DEF Records
    <3>3. Counted(model, fed)
      BY <1>1 DEF Good
    <3>4. QED
      BY <1>2, <3>2, <3>3 DEF Counted
  <2>4. Good(model, n, marked)
    BY <1>1, <2>2, <2>3 DEF Good
  <2>5. Good(model, fed, marked)'
    <3> HIDE DEF n
    <3>1. QED
      BY <1>1, <2>1, <2>4, GoodStays
  <2>6. QED
    BY <1>1, <2>1, <2>5 DEF IInv, Settled, DropPaused
<1>3. CASE dropped # {}
  <2> DEFINE next == Noted(model, Cardinality(dropped), Max(dropped))
  <2>1. model' = next /\ told' = told + Len(model'.rows) - Len(model.rows)
    BY <1>3 DEF DropPaused
  <2>2. Good(next, n, marked)
    BY <1>1, <1>3, NotedKeeps DEF Good
  <2>3. Good(model, fed, marked)'
    <3> HIDE DEF n, next
    <3>1. QED
      BY <1>1, <2>1, <2>2, GoodStays
  <2>4. told' \in Int
    <3>1. Len(next.rows) \in Nat /\ Len(model.rows) \in Nat
      BY SMTT(30), <1>1, <2>2 DEF Good, Sound, InOrder
    <3> HIDE DEF next
    <3>2. QED
      BY <1>1, <2>1, <3>1
  <2>5. QED
    BY <1>1, <2>3, <2>4 DEF IInv, Settled, DropPaused
<1>4. QED
  BY <1>2, <1>3

LEMMA FilterKeeps ==
    ASSUME IInv, NEW f \in Filters, SetFilter(f)
    PROVE  IInv'
<1> DEFINE visible == VisibleOf(model.rows, f)
           next == WithBuckets([model EXCEPT !.visible = visible,
                                             !.hits = HitsOf(model.rows, visible, highlight)])
<1>1. /\ model' = next /\ filter' = f /\ highlight' = highlight /\ fed' = fed
      /\ marked' = marked /\ UNCHANGED capture /\ told' = Cardinality(visible)
      /\ Good(model, fed, marked) /\ IsModel(model)
  BY DEF IInv, Good, Sound, SetFilter
<1>2. /\ IsModel(next) /\ next.rows = model.rows /\ next.visible = visible
      /\ next.marks = model.marks /\ next.gaps = model.gaps /\ next.evicted = model.evicted
      /\ next.hits = HitsOf(model.rows, visible, highlight) /\ OverviewExact(next)
  BY <1>1 DEF IsModel, WithBuckets, OverviewExact
<1> HIDE DEF next
<1>3. /\ Sound(next, fed) /\ MarksAgree(next.rows, next.marks, marked)
      /\ Counted(next, fed) /\ Bounded(next.rows) /\ next.gaps = GapsOf(next.rows)
  BY <1>1, <1>2 DEF Good, Sound, Counted, Exact, ShownExact
<1>4. Good(model, fed, marked)'
  BY <1>1, <1>2, <1>3, GoodNext
<1>5. Cardinality(visible) \in Nat
  <2>1. DOMAIN model.rows = 1..Len(model.rows) /\ Len(model.rows) \in Nat
    BY <1>1 DEF Good, Sound, InOrder
  <2>2. PICK n \in Nat : n = Len(model.rows)
    BY <2>1
  <2>3. visible \subseteq 1..n
    BY <2>1, <2>2 DEF VisibleOf
  <2>4. IsFiniteSet(1..n)
    BY FS_Interval
  <2>5. QED
    BY <2>3, <2>4, FS_Subset, FS_CardinalityType
<1> HIDE DEF visible
<1>6. QED
  BY <1>1, <1>4, <1>5 DEF IInv, Settled, SetFilter

LEMMA HighlightKeeps ==
    ASSUME IInv, NEW h \in Highlights, SetHighlight(h)
    PROVE  IInv'
<1> DEFINE next == [model EXCEPT !.hits = HitsOf(model.rows, model.visible, h)]
<1>1. /\ model' = next /\ filter' = filter /\ highlight' = h /\ fed' = fed
      /\ marked' = marked /\ UNCHANGED capture /\ told' = told
      /\ Good(model, fed, marked) /\ IsModel(model)
  BY DEF IInv, Good, Sound, SetHighlight
<1>2. /\ IsModel(next) /\ next.rows = model.rows /\ next.visible = model.visible
      /\ next.marks = model.marks /\ next.gaps = model.gaps /\ next.evicted = model.evicted
      /\ next.buckets = model.buckets /\ next.markers = model.markers
      /\ next.hits = HitsOf(model.rows, model.visible, h)
  BY <1>1 DEF IsModel
<1> HIDE DEF next
<1>3. /\ Sound(next, fed) /\ MarksAgree(next.rows, next.marks, marked)
      /\ Counted(next, fed) /\ Bounded(next.rows) /\ next.gaps = GapsOf(next.rows)
      /\ OverviewExact(next) /\ next.visible = VisibleOf(next.rows, filter)
  BY <1>1, <1>2 DEF Good, Sound, Counted, Exact, ShownExact, OverviewExact
<1>4. Good(model, fed, marked)'
  BY <1>1, <1>2, <1>3, GoodNext
<1>5. QED
  BY <1>1, <1>4 DEF IInv, Settled, SetHighlight

LEMMA ToggleKeeps ==
    ASSUME IInv, NEW s, ToggleMark(s)
    PROVE  IInv'
<1> DEFINE rows == model.rows
           one == {s}
<1>1. /\ UNCHANGED <<capture, filter, highlight>> /\ fed' = fed /\ fed \in Nat
      /\ Good(model, fed, marked) /\ marked \subseteq 1..fed
      /\ s \in model.visible
  BY DEF IInv, ToggleMark
<1>2. /\ InOrder(rows, fed, model.evicted) /\ model.marks \subseteq DOMAIN rows
      /\ MarksAgree(rows, model.marks, marked) /\ s \in DOMAIN rows
  BY <1>1 DEF Good, Sound, Exact, ShownExact, VisibleOf
<1>3. MarkedItems(one) = IF IsNotice(rows[s]) THEN {} ELSE {rows[s].n}
  BY DEF MarkedItems
<1>4. MarkedItems(one) \subseteq 1..fed
  BY <1>2, <1>3 DEF InOrder
<1>5. \A r \in DOMAIN rows : ~IsNotice(rows[r]) => (r = s <=> rows[r].n \in MarkedItems(one))
  BY <1>1, <1>2, <1>3, OwnItem
<1>6. PICK marks, items :
        /\ marks \subseteq DOMAIN rows /\ items \subseteq 1..fed
        /\ MarksAgree(rows, marks, items)
        /\ model' = [model EXCEPT !.marks = marks] /\ marked' = items
  <2>1. CASE s \in model.marks
    <3>1. model' = [model EXCEPT !.marks = model.marks \ one]
          /\ marked' = marked \ MarkedItems(one)
      BY <2>1 DEF ToggleMark
    <3>2. MarksAgree(rows, model.marks \ one, marked \ MarkedItems(one))
      BY <1>2, <1>5 DEF MarksAgree
    <3>3. QED
      BY <1>1, <1>2, <3>1, <3>2
  <2>2. CASE s \notin model.marks
    <3>1. model' = [model EXCEPT !.marks = model.marks \cup one]
          /\ marked' = marked \cup MarkedItems(one)
      BY <2>2 DEF ToggleMark
    <3>2. MarksAgree(rows, model.marks \cup one, marked \cup MarkedItems(one))
      BY <1>2, <1>5 DEF MarksAgree
    <3>3. QED
      BY <1>1, <1>2, <1>4, <3>1, <3>2
  <2>3. QED
    BY <2>1, <2>2
<1>7. Good(model', fed, items)
  BY <1>1, <1>6, MarkedIsGood
<1>8. Good(model, fed, marked)'
  BY <1>1, <1>6, <1>7, GoodStays
<1>9. QED
  BY <1>1, <1>6, <1>8 DEF IInv, Settled, ToggleMark

LEMMA ClearKeeps ==
    ASSUME IInv, ClearMarks
    PROVE  IInv'
<1> DEFINE next == [model EXCEPT !.marks = {}]
<1>1. /\ UNCHANGED <<capture, filter, highlight>> /\ fed' = fed
      /\ Good(model, fed, marked) /\ model' = next /\ marked' = {}
  BY DEF IInv, ClearMarks
<1>2. MarksAgree(model.rows, {}, {})
  BY DEF MarksAgree
<1>3. Good(next, fed, {})
  BY <1>1, <1>2, MarkedIsGood
<1> HIDE DEF next
<1>4. Good(model, fed, marked)'
  BY <1>1, <1>3, GoodStays
<1>5. QED
  BY <1>1, <1>4 DEF IInv, Settled, ClearMarks

LEMMA ReopenKeeps ==
    ASSUME IInv, Reopen
    PROVE  IInv'
<1>1. /\ UNCHANGED <<capture, filter, highlight>> /\ fed' = 0 /\ marked' = {}
      /\ model' = Empty /\ loads' \in 0..MaxLoads /\ told' = 0 /\ restored' = FALSE
      /\ saved' = NamedMarks
  BY DEF IInv, Settled, Reopen
<1>2. Good(model, fed, marked)'
  BY <1>1, EmptyIsGood, GoodStays
<1>3. NamedMarks \subseteq [at : 1..MaxItems, of : 1..MaxItems]
  <2>1. MarkedItems(model.marks) \subseteq 1..MaxItems
    <3>1. /\ InOrder(model.rows, fed, model.evicted) /\ model.marks \subseteq DOMAIN model.rows
          /\ fed \in 0..MaxItems
      BY DEF IInv, Good, Sound
    <3>2. 1..fed \subseteq 1..MaxItems
      BY <3>1
    <3>3. QED
      BY <3>1, <3>2 DEF InOrder, MarkedItems
  <2>2. QED
    BY <2>1, AtIsItem DEF NamedMarks
<1>4. Settled'
  <2>1. told' \in Int /\ loads' \in 0..MaxLoads
    BY <1>1
  <2>5. restored' \in BOOLEAN
    BY <1>1, Zenon
  <2>2. saved' \subseteq [at : 1..MaxItems, of : 1..MaxItems]
    BY <1>1, <1>3
  <2>3. filter' \in Filters /\ highlight' \in Highlights
    BY <1>1 DEF IInv, Settled
  <2>4. QED
    BY <2>1, <2>2, <2>3, <2>5 DEF Settled
<1>5. QED
  BY <1>1, <1>2, <1>4 DEF IInv

LEMMA RestoreKeeps ==
    ASSUME IInv, RestoreMarks
    PROVE  IInv'
<1> DEFINE rows == model.rows
<1>1. /\ UNCHANGED <<capture, filter, highlight>> /\ fed' = fed /\ fed \in Nat
      /\ Good(model, fed, marked) /\ marked \subseteq 1..fed
  BY DEF IInv, RestoreMarks
<1>2. /\ InOrder(rows, fed, model.evicted) /\ model.marks \subseteq DOMAIN rows
      /\ MarksAgree(rows, model.marks, marked)
  BY <1>1 DEF Good, Sound
<1>3. PICK landed :
        /\ landed \subseteq DOMAIN rows
        /\ model' = [model EXCEPT !.marks = model.marks \cup landed]
        /\ marked' = marked \cup MarkedItems(landed)
  BY DEF RestoreMarks
<1>4. MarkedItems(landed) \subseteq 1..fed
  BY <1>2, <1>3 DEF MarkedItems, InOrder
<1>5. ASSUME NEW r \in DOMAIN rows, ~IsNotice(rows[r])
      PROVE  r \in landed <=> rows[r].n \in MarkedItems(landed)
  <2>1. ASSUME rows[r].n \in MarkedItems(landed) PROVE r \in landed
    <3>1. PICK s \in landed : ~IsNotice(rows[s]) /\ rows[s].n = rows[r].n
      BY <2>1 DEF MarkedItems
    <3>2. r = s
      BY <1>1, <1>2, <1>3, <1>5, <3>1, OwnItem
    <3>3. QED
      BY <3>2
  <2>2. QED
    BY <1>5, <2>1 DEF MarkedItems
<1>6. MarksAgree(rows, model.marks \cup landed, marked \cup MarkedItems(landed))
  BY <1>2, <1>5 DEF MarksAgree
<1>7. Good(model', fed, marked')
  BY <1>1, <1>2, <1>3, <1>6, MarkedIsGood
<1>8. Good(model, fed, marked)'
  BY <1>1, <1>7, GoodStays
<1>9. QED
  BY <1>1, <1>3, <1>4, <1>8 DEF IInv, Settled, RestoreMarks

LEMMA QuietKeeps ==
    ASSUME IInv, UNCHANGED vars
    PROVE  IInv'
<1>1. /\ UNCHANGED <<capture, filter, highlight>> /\ model' = model /\ fed' = fed
      /\ marked' = marked /\ Good(model, fed, marked)
  BY DEF IInv, vars
<1>2. Good(model, fed, marked)'
  BY <1>1, GoodStays
<1>3. QED
  BY <1>2 DEF IInv, Settled, vars

LEMMA Invariance ==
    Spec => []IInv
<1>1. Init => IInv
  BY InitIsGood
<1>2. IInv /\ [Next]_vars => IInv'
  <2>1. SUFFICES ASSUME IInv, [Next]_vars PROVE IInv'
    OBVIOUS
  <2>2. CASE \E k \in 1..MaxBatch : AppendBatch(k)
    BY <2>1, <2>2, AppendKeeps
  <2>3. CASE \E k \in 1..MaxBatch : DropPaused(k)
    BY <2>1, <2>3, DropKeeps
  <2>4. CASE \E f \in Filters : SetFilter(f)
    BY <2>1, <2>4, FilterKeeps
  <2>5. CASE \E h \in Highlights : SetHighlight(h)
    BY <2>1, <2>5, HighlightKeeps
  <2>6. CASE \E s \in DOMAIN model.rows : ToggleMark(s)
    BY <2>1, <2>6, ToggleKeeps
  <2>7. CASE ClearMarks
    BY <2>1, <2>7, ClearKeeps
  <2>8. CASE Reopen
    BY <2>1, <2>8, ReopenKeeps
  <2>9. CASE RestoreMarks
    BY <2>1, <2>9, RestoreKeeps
  <2>10. CASE UNCHANGED vars
    BY <2>1, <2>10, QuietKeeps
  <2>11. QED
    BY <2>1, <2>2, <2>3, <2>4, <2>5, <2>6, <2>7, <2>8, <2>9, <2>10 DEF Next
<1>3. QED
  BY <1>1, <1>2, PTL DEF Spec

-----------------------------------------------------------------------------
(* What it says.                                                           *)

(* Every variable stays in its type, the rows are items that were fed, in   *)
(* the order of the capture, and there are never more than the margin and a *)
(* notice: for every cap, margin and size of a batch (append, _trim).       *)
THEOREM ModelTypeCorrect == Spec => []TypeOK
<1>1. IInv => TypeOK
  <2>1. SUFFICES ASSUME IInv PROVE TypeOK
    OBVIOUS
  <2>2. /\ fed \in 0..MaxItems /\ marked \subseteq 1..fed /\ Settled
        /\ InOrder(model.rows, fed, model.evicted) /\ model.marks \subseteq Places
        /\ Bounded(model.rows) /\ ShownExact(model)
    BY <2>1 DEF IInv, Good, Sound, Exact, Places
  <2>3. marked \subseteq 1..MaxItems
    BY <2>2
  <2>4. Len(model.rows) \in Nat
    BY <2>2 DEF InOrder
  <2>5. Len(model.rows) <= TrimAt + 1
    BY <2>2, <2>4 DEF Bounded
  <2>6. model.visible \subseteq Places
    BY <2>2 DEF ShownExact, VisibleOf, Places
  <2>7. \A s \in Places : ~IsNotice(model.rows[s]) => model.rows[s].n \in 1..fed
    BY <2>2 DEF InOrder, Places
  <2>8. \A r, s \in Places :
          r < s /\ ~IsNotice(model.rows[r]) /\ ~IsNotice(model.rows[s])
            => model.rows[r].n < model.rows[s].n
    BY <2>2 DEF InOrder, Places
  <2>9. QED
    BY <2>2, <2>3, <2>5, <2>6, <2>7, <2>8 DEF TypeOK, Settled
<1>2. QED
  BY <1>1, Invariance, PTL

(* What appends, trims and notices maintain step by step is what computing  *)
(* it anew from the rows gives, for every cap, margin, bucket and filter    *)
(* (append, _trim, note_eviction, set_filter, set_highlight).               *)
THEOREM DerivedStaysExact == Spec => []DerivedIsExact
<1>1. IInv => DerivedIsExact
  BY DEF IInv, Good, Exact, ShownExact, OverviewExact, DerivedIsExact
<1>2. QED
  BY <1>1, Invariance, PTL

(* A mark stays on its item until the item leaves (_trim, note_eviction).   *)
THEOREM MarksStayOnItems == Spec => []MarksFollowItems
<1>1. IInv => MarksFollowItems
  BY DEF IInv, Good, MarksAgree, MarksFollowItems, Places
<1>2. QED
  BY <1>1, Invariance, PTL

(* Every record fed is a row or is counted as evicted, whether a trim or    *)
(* the pause limit took it (plan_trim, note_eviction).                      *)
THEOREM RecordsAreCounted == Spec => []NothingUncounted
<1>1. IInv => NothingUncounted
  BY DEF IInv, Good, Counted, Held, NothingUncounted, Places
<1>2. QED
  BY <1>1, Invariance, PTL

(* There is at most one notice, it is the first row, and it carries the     *)
(* running total (note_eviction, _trim).                                    *)
THEOREM NoticeAtTheTop == Spec => []OneNotice
<1>1. IInv => OneNotice
  BY DEF IInv, Good, Sound, InOrder, OneNotice, Places
<1>2. QED
  BY <1>1, Invariance, PTL

=============================================================================
