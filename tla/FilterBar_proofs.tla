--------------------------- MODULE FilterBar_proofs ---------------------------
(***************************************************************************)
(* Theorems about the filter bar, for every set of levels, patterns, names *)
(* and messages, and for every list an older version may have stored.      *)
(***************************************************************************)
EXTENDS FilterBar, SequenceTheorems, WellFoundedInduction, FiniteSetTheorems, TLAPS

(* What the bar holds, whatever is written in its fields. *)
ShapeInv ==
    /\ bar = [terms |-> bar.terms, mark |-> bar.mark]
    /\ timers \in [debounce : BOOLEAN, settled : BOOLEAN, glow : BOOLEAN]
    /\ drawn = [filter |-> drawn.filter, mark |-> drawn.mark]

BarInv == ShapeInv /\ BarIsTrue

(* An empty bar narrows nothing: its value is NoFilter, and there is nothing *)
(* to save or to copy.                                                       *)
LEMMA EmptyBarIsEmpty ==
    /\ Valid(EmptyBar) /\ ValidMark(EmptyBar)
    /\ Current(EmptyBar) = NoFilter
    /\ BarIsEmpty(EmptyBar)
<1>1. EmptyBar.terms = NoFilter /\ EmptyBar.mark = NoMark
  BY DEF EmptyBar
<1>2. ToSet(<<>>) = {} /\ Strip(<<>>) = <<>>
  BY DEF ToSet, Strip
<1>3. Valid(EmptyBar) /\ ValidMark(EmptyBar)
  BY <1>1 DEF Valid, ValidMark, NoFilter, NoMark, Compiles
<1>4. Current(EmptyBar) = NoFilter
  <2>1. Current(EmptyBar) = [NoFilter EXCEPT !.process = Strip(NoFilter.process),
                                             !.subsystem = Strip(NoFilter.subsystem)]
    BY <1>1 DEF Current, NoFilter
  <2>2. NoFilter.process = <<>> /\ NoFilter.subsystem = <<>>
    BY DEF NoFilter
  <2>3. NoFilter = [name \in DOMAIN NoFilter |-> NoFilter[name]]
    BY DEF NoFilter
  <2>4. [NoFilter EXCEPT !.process = <<>>, !.subsystem = <<>>] = NoFilter
    BY <2>2, <2>3
  <2>5. QED
    BY <1>2, <2>1, <2>2, <2>4
<1>5. IsEmpty(NoFilter)
  BY DEF IsEmpty, NoFilter
<1>6. QED
  BY <1>3, <1>4, <1>5 DEF BarIsEmpty

(* A change of the fields starts the timer that brings it to the table, and *)
(* rebuilds the menu; the mark is another's.                                *)
LEMMA ChangedKeeps ==
    ASSUME BarInv, NEW b, Changed(b), b = [terms |-> b.terms, mark |-> bar.mark],
           UNCHANGED <<drawn, lists>>
    PROVE  BarInv'
<1>1. /\ bar' = b /\ timers'.debounce = TRUE /\ timers'.glow = timers.glow
      /\ timers' \in [debounce : BOOLEAN, settled : BOOLEAN, glow : BOOLEAN]
      /\ chrome' = Menu(b, lists, ~BarIsEmpty(b))
  BY DEF Changed, BarInv, ShapeInv
<1>2. b.mark = bar.mark
  OBVIOUS
<1>3. ShapeInv'
  BY <1>1, <1>2 DEF BarInv, ShapeInv
<1>4. ValidMark(bar') = ValidMark(bar)
  BY <1>1, <1>2 DEF ValidMark
<1>5. ~timers'.glow /\ ValidMark(bar') => drawn'.mark = bar'.mark
  BY <1>1, <1>2, <1>4 DEF BarInv, BarIsTrue
<1>6. BarIsTrue'
  BY <1>1, <1>5 DEF BarIsTrue
<1>7. QED
  BY <1>3, <1>6 DEF BarInv

(* The lists change, and the menu with them. *)
LEMMA ListsChange ==
    ASSUME BarInv, UNCHANGED <<bar, applied, drawn>>,
           UNCHANGED timers \/
               timers' = [timers EXCEPT !.settled = FALSE],
           \/ chrome' = Menu(bar, lists', chrome.copy)
           \/ UNCHANGED <<lists, chrome>>
    PROVE  BarInv'
<1>1. chrome = Menu(bar, lists, ~BarIsEmpty(bar))
  BY DEF BarInv, BarIsTrue
<1>2. chrome.copy = ~BarIsEmpty(bar)
  BY <1>1 DEF Menu
<1>3. chrome' = Menu(bar, lists', ~BarIsEmpty(bar))
  BY <1>1, <1>2
<1>4. /\ timers' \in [debounce : BOOLEAN, settled : BOOLEAN, glow : BOOLEAN]
      /\ timers'.debounce = timers.debounce /\ timers'.glow = timers.glow
  BY DEF BarInv, ShapeInv
<1>5. ShapeInv'
  BY <1>4 DEF BarInv, ShapeInv
<1>6. BarIsTrue'
  BY <1>3, <1>4 DEF BarInv, BarIsTrue
<1>7. QED
  BY <1>5, <1>6 DEF BarInv

(* Nothing the invariant speaks of is touched. *)
LEMMA ElsewhereKeeps ==
    ASSUME BarInv, UNCHANGED <<bar, timers, applied, drawn, lists, chrome>>
    PROVE  BarInv'
  BY DEF BarInv, ShapeInv, BarIsTrue

LEMMA InitBar == Init => BarInv
<1> SUFFICES ASSUME Init PROVE BarInv
  OBVIOUS
<1>1. /\ bar = EmptyBar /\ timers = NotRunning /\ applied = NoFilter
      /\ drawn = [filter |-> NoFilter, mark |-> NoMark]
      /\ chrome = Menu(EmptyBar, lists, FALSE)
  BY DEF Init
<1>2. ShapeInv
  BY <1>1 DEF ShapeInv, EmptyBar, NotRunning
<1>3. EmptyBar.mark = NoMark
  BY DEF EmptyBar
<1>4. BarIsTrue
  BY <1>1, <1>3, EmptyBarIsEmpty DEF BarIsTrue
<1>5. QED
  BY <1>2, <1>4 DEF BarInv

LEMMA EditKeeps == ASSUME BarInv, Edit PROVE BarInv'
<1>1. PICK field \in {"minimum_level", "process", "search", "regex", "process_exclude"} :
        \E value \in {f[field] : f \in Fields} :
           Changed([bar EXCEPT !.terms[field] = value])
  BY DEF Edit
<1>2. PICK value : Changed([bar EXCEPT !.terms[field] = value])
  BY <1>1
<1> DEFINE b == [bar EXCEPT !.terms[field] = value]
<1>3. b = [terms |-> b.terms, mark |-> bar.mark]
  BY DEF BarInv, ShapeInv
<1>4. Changed(b) /\ UNCHANGED <<drawn, lists>>
  BY <1>2 DEF Edit
<1> HIDE DEF b
<1>5. QED
  BY <1>3, <1>4, ChangedKeeps

LEMMA SetFilterKeeps ==
    ASSUME BarInv, NEW wanted, SetFilter(wanted)
    PROVE  BarInv'
<1> DEFINE b == [bar EXCEPT !.terms = wanted]
<1>1. b = [terms |-> b.terms, mark |-> bar.mark]
  BY DEF BarInv, ShapeInv
<1>2. Changed(b) /\ UNCHANGED <<drawn, lists>>
  BY DEF SetFilter
<1> HIDE DEF b
<1>3. QED
  BY <1>1, <1>2, ChangedKeeps

LEMMA FilterByProcessKeeps ==
    ASSUME BarInv, NEW process, FilterByProcess(process)
    PROVE  BarInv'
<1> DEFINE b == [bar EXCEPT !.terms.process = process]
<1>1. b = [terms |-> b.terms, mark |-> bar.mark]
  BY DEF BarInv, ShapeInv
<1>2. Changed(b) /\ UNCHANGED <<drawn, lists>>
  BY DEF FilterByProcess
<1> HIDE DEF b
<1>3. QED
  BY <1>1, <1>2, ChangedKeeps

LEMMA EditHighlightKeeps == ASSUME BarInv, EditHighlight PROVE BarInv'
<1>1. PICK mark : bar' = [bar EXCEPT !.mark = mark]
  BY DEF EditHighlight
<1>2. bar' = [terms |-> bar.terms, mark |-> mark]
  BY <1>1 DEF BarInv, ShapeInv
<1>3. /\ timers' \in [debounce : BOOLEAN, settled : BOOLEAN, glow : BOOLEAN]
      /\ timers'.debounce = timers.debounce /\ timers'.glow = TRUE
  BY DEF EditHighlight, BarInv, ShapeInv
<1>4. UNCHANGED <<applied, drawn, lists, chrome>>
  BY DEF EditHighlight
<1>5. bar'.terms = bar.terms
  BY <1>2
<1>6. /\ Valid(bar') = Valid(bar) /\ Current(bar') = Current(bar)
      /\ BarIsEmpty(bar') = BarIsEmpty(bar)
  BY <1>5 DEF Valid, Current, BarIsEmpty
<1>7. Menu(bar', lists, ~BarIsEmpty(bar')) = Menu(bar, lists, ~BarIsEmpty(bar))
  BY <1>6 DEF Menu
<1>8. ShapeInv'
  BY <1>2, <1>3, <1>4 DEF BarInv, ShapeInv
<1>9. BarIsTrue'
  BY <1>3, <1>4, <1>6, <1>7 DEF BarInv, BarIsTrue
<1>10. QED
  BY <1>8, <1>9 DEF BarInv

LEMMA ApplyFilterKeeps == ASSUME BarInv, ApplyFilter PROVE BarInv'
<1>1. /\ timers' \in [debounce : BOOLEAN, settled : BOOLEAN, glow : BOOLEAN]
      /\ timers'.glow = timers.glow
      /\ UNCHANGED <<bar, lists, chrome>>
  BY DEF ApplyFilter, BarInv, ShapeInv
<1>2. CASE Valid(bar)
  <2>1. applied' = Current(bar) /\ drawn' = [filter |-> Current(bar), mark |-> drawn.mark]
    BY <1>2 DEF ApplyFilter, BarInv, ShapeInv
  <2>2. ShapeInv'
    BY <1>1, <2>1 DEF BarInv, ShapeInv
  <2>3. BarIsTrue'
    BY <1>1, <2>1 DEF BarInv, BarIsTrue
  <2>4. QED
    BY <2>2, <2>3 DEF BarInv
<1>3. CASE ~Valid(bar)
  <2>1. UNCHANGED <<applied, drawn>>
    BY <1>3 DEF ApplyFilter
  <2>2. ShapeInv'
    BY <1>1, <2>1 DEF BarInv, ShapeInv
  <2>3. BarIsTrue'
    BY <1>1, <1>3, <2>1 DEF BarInv, BarIsTrue
  <2>4. QED
    BY <2>2, <2>3 DEF BarInv
<1>4. QED
  BY <1>2, <1>3

LEMMA ApplyHighlightKeeps == ASSUME BarInv, ApplyHighlight PROVE BarInv'
<1>1. /\ timers' \in [debounce : BOOLEAN, settled : BOOLEAN, glow : BOOLEAN]
      /\ timers'.debounce = timers.debounce
      /\ UNCHANGED <<bar, applied, lists, chrome>>
  BY DEF ApplyHighlight, BarInv, ShapeInv
<1>2. /\ drawn' = [filter |-> drawn.filter, mark |-> drawn'.mark]
      /\ ValidMark(bar) => drawn'.mark = bar.mark
  BY DEF ApplyHighlight, BarInv, ShapeInv
<1>3. drawn'.filter = drawn.filter
  BY <1>2
<1>4. ShapeInv'
  BY <1>1, <1>2, <1>3 DEF BarInv, ShapeInv
<1>5. BarIsTrue'
  BY <1>1, <1>2, <1>3 DEF BarInv, BarIsTrue
<1>6. QED
  BY <1>4, <1>5 DEF BarInv

(* Opening a door takes over what the bar says, half-written or not. *)
LEMMA OpenDoorKeeps == ASSUME BarInv, OpenDoor PROVE BarInv'
<1> DEFINE f == IF Valid(bar) THEN Current(bar) ELSE drawn.filter
           m == IF ValidMark(bar) THEN bar.mark ELSE drawn.mark
<1>1. /\ applied' = IF Valid(bar) THEN f ELSE applied
      /\ drawn' = [filter |-> f, mark |-> m]
      /\ UNCHANGED <<bar, timers, lists, chrome>>
  BY DEF OpenDoor
<1>2. /\ Valid(bar) => applied' = Current(bar) /\ drawn'.filter = Current(bar)
      /\ ValidMark(bar) => drawn'.mark = bar.mark
  BY <1>1
<1> HIDE DEF f, m
<1>3. ShapeInv'
  BY <1>1 DEF BarInv, ShapeInv
<1>4. BarIsTrue'
  BY <1>1, <1>2 DEF BarInv, BarIsTrue
<1>5. QED
  BY <1>3, <1>4 DEF BarInv

(* Closing a capture, or the program, leaves an empty bar. *)
LEMMA EmptiedKeeps ==
    ASSUME bar' = EmptyBar, applied' = NoFilter,
           drawn' = [filter |-> drawn'.filter, mark |-> NoMark],
           drawn'.filter = NoFilter \/ timers'.debounce = TRUE,
           timers' \in [debounce : BOOLEAN, settled : BOOLEAN, glow : BOOLEAN],
           chrome' = Menu(EmptyBar, lists', FALSE)
    PROVE  BarInv'
<1>1. EmptyBar = [terms |-> NoFilter, mark |-> NoMark] /\ EmptyBar.mark = NoMark
      /\ EmptyBar.terms = NoFilter /\ drawn'.mark = NoMark
  BY DEF EmptyBar
<1>2. ShapeInv'
  BY <1>1 DEF ShapeInv
<1>3. BarIsTrue'
  BY <1>1, EmptyBarIsEmpty DEF BarIsTrue
<1>4. QED
  BY <1>2, <1>3 DEF BarInv

LEMMA CloseDoorKeeps == ASSUME BarInv, CloseDoor PROVE BarInv'
<1>1. /\ bar' = EmptyBar /\ applied' = NoFilter /\ lists' = lists
      /\ chrome' = Menu(EmptyBar, lists, FALSE)
      /\ timers' = [debounce |-> TRUE, settled |-> TRUE,
                    glow |-> timers.glow \/ bar.mark # NoMark]
      /\ drawn' = [drawn EXCEPT !.mark = NoMark]
  BY DEF CloseDoor
<1>2. /\ timers' \in [debounce : BOOLEAN, settled : BOOLEAN, glow : BOOLEAN]
      /\ timers'.debounce = TRUE
  BY <1>1
<1>3. drawn' = [filter |-> drawn'.filter, mark |-> NoMark]
  BY <1>1 DEF BarInv, ShapeInv
<1>4. QED
  BY <1>1, <1>2, <1>3, EmptiedKeeps

LEMMA RelaunchKeeps == ASSUME BarInv, Relaunch PROVE BarInv'
<1>1. /\ bar' = EmptyBar /\ applied' = NoFilter /\ timers' = NotRunning
      /\ chrome' = Menu(EmptyBar, lists', FALSE)
      /\ drawn' = [filter |-> NoFilter, mark |-> NoMark]
  BY DEF Relaunch
<1>2. timers' \in [debounce : BOOLEAN, settled : BOOLEAN, glow : BOOLEAN]
  BY <1>1 DEF NotRunning
<1>3. QED
  BY <1>1, <1>2, EmptiedKeeps

LEMMA NextBar == ASSUME BarInv, [Next]_vars PROVE BarInv'
<1>1. CASE ApplyFilter
  BY <1>1, ApplyFilterKeeps
<1>2. CASE ApplyHighlight
  BY <1>2, ApplyHighlightKeeps
<1>3. CASE RememberFilter
  BY <1>3, ListsChange DEF RememberFilter, Remembered
<1>4. CASE \E name \in Names : NameCurrentFilter(name)
  BY <1>4, ListsChange DEF NameCurrentFilter, SetSaved
<1>5. CASE \E name \in Names : RenameSelected(name)
  BY <1>5, ElsewhereKeeps DEF RenameSelected
<1>6. CASE OpenDialog
  BY <1>6, ElsewhereKeeps DEF OpenDialog
<1>7. CASE RemoveSelected
  BY <1>7, ElsewhereKeeps DEF RemoveSelected
<1>8. CASE Choose
  BY <1>8, ElsewhereKeeps DEF Choose
<1>9. CASE CloseDialog
  BY <1>9, ListsChange DEF CloseDialog, SetSaved
<1>10. CASE Choosing
  BY <1>10, SetFilterKeeps, FilterByProcessKeeps DEF Choosing, Clear
<1>11. CASE Edit
  BY <1>11, EditKeeps
<1>12. CASE EditHighlight
  BY <1>12, EditHighlightKeeps
<1>13. CASE CopyFilter
  BY <1>13, ElsewhereKeeps DEF CopyFilter
<1>14. CASE OpenDoor
  BY <1>14, OpenDoorKeeps
<1>15. CASE CloseDoor
  BY <1>15, CloseDoorKeeps
<1>16. CASE Relaunch
  BY <1>16, RelaunchKeeps
<1>17. CASE UNCHANGED vars
  BY <1>17, ElsewhereKeeps DEF vars
<1>18. QED
  BY <1>1, <1>2, <1>3, <1>4, <1>5, <1>6, <1>7, <1>8, <1>9, <1>10, <1>11, <1>12,
     <1>13, <1>14, <1>15, <1>16, <1>17
     DEF Next, Timers, Saving

(* Whichever way the bar was set, by hand, from a list, from a row, by a door *)
(* or by a start, the table, what is painted and the menus follow it, unless  *)
(* a timer is still to bring it to them.                                      *)
THEOREM BarStaysTrue == Spec => []BarIsTrue
<1>1. Init => BarInv
  BY InitBar
<1>2. BarInv /\ [Next]_vars => BarInv'
  BY NextBar
<1>3. BarInv => BarIsTrue
  BY DEF BarInv
<1>4. QED
  BY <1>1, <1>2, <1>3, PTL DEF Spec

-----------------------------------------------------------------------------
(* Induction, over a set of numbers and over a set of lists: the library's   *)
(* theorems take a predicate as a parameter, these a set.                    *)

LEMMA Least ==
    ASSUME NEW S, S \subseteq Nat, S # {}
    PROVE  \E m \in S : \A k \in S : m <= k
<1> DEFINE R == OpToRel(<, Nat)
<1>1. IsWellFoundedOn(R, Nat)
  BY NatLessThanWellFounded
<1>2. \A x, y \in Nat : <<x, y>> \in R <=> x < y
  BY DEF OpToRel
<1> HIDE DEF R
<1>3. PICK x \in S : \A y \in S : ~ (<<y, x>> \in R)
  BY <1>1, WFMin
<1>4. \A y \in S : ~ (y < x)
  BY <1>2, <1>3
<1>5. QED
  BY <1>4

LEMMA Induct ==
    ASSUME NEW S, 0 \in S, \A n \in Nat : n \in S => n + 1 \in S
    PROVE  Nat \subseteq S
<1> DEFINE T == Nat \ S
<1>1. SUFFICES ASSUME T # {} PROVE FALSE
  OBVIOUS
<1>2. PICK m \in T : \A k \in T : m <= k
  BY <1>1, Least
<1>3. m # 0 /\ m - 1 \in Nat /\ m - 1 \in S
  BY <1>2
<1>4. m \in S
  BY <1>3
<1>5. QED
  BY <1>4, <1>2

LEMMA InductList ==
    ASSUME NEW X, NEW T, <<>> \in T,
           \A s \in Seq(X), x \in X : s \in T => Append(s, x) \in T
    PROVE  Seq(X) \subseteq T
<1> DEFINE N == {n \in Nat : \A s \in Seq(X) : Len(s) = n => s \in T}
<1>1. 0 \in N
  BY EmptySeq
<1>2. ASSUME NEW n \in Nat, n \in N PROVE n + 1 \in N
  <2>1. ASSUME NEW s \in Seq(X), Len(s) = n + 1 PROVE s \in T
    <3>1. s # <<>>
      BY <2>1, EmptySeq
    <3>2. PICK r \in Seq(X), x \in X : s = Append(r, x)
      BY <3>1, SequenceEmptyOrAppend
    <3>3. Len(s) = Len(r) + 1 /\ Len(r) \in Nat
      BY <3>2, AppendProperties, LenProperties
    <3>4. r \in T
      BY <1>2, <2>1, <3>3
    <3>5. QED
      BY <3>2, <3>4
  <2>2. QED
    BY <2>1
<1> HIDE DEF N
<1>3. Nat \subseteq N
  BY <1>1, <1>2, Induct
<1>4. QED
  BY <1>3, LenProperties DEF N

-----------------------------------------------------------------------------
(* FlattenSeq, one list at a time.  What a recursive function is, it is only *)
(* if some function solves its equation, so each step shows one that does.   *)

Flattens(flat, seqs) ==
    flat = [i \in 1..Len(seqs) |-> IF i = 1 THEN seqs[i] ELSE flat[i - 1] \o seqs[i]]

LEMMA FlattenIs ==
    ASSUME NEW X, NEW seqs \in Seq(Seq(X)), seqs # <<>>, NEW flat, Flattens(flat, seqs)
    PROVE  FlattenSeq(seqs) = flat[Len(seqs)]
<1> DEFINE flatten == CHOOSE g : g = [i \in 1..Len(seqs) |->
                            IF i = 1 THEN seqs[i] ELSE g[i - 1] \o seqs[i]]
<1>1. Len(seqs) \in Nat /\ Len(seqs) # 0
  BY EmptySeq, LenProperties
<1>2. FlattenSeq(seqs) = flatten[Len(seqs)]
  BY <1>1 DEF FlattenSeq
<1>3. Flattens(flatten, seqs)
  BY DEF Flattens
<1> HIDE DEF flatten
<1> DEFINE T == {n \in Nat : n + 1 <= Len(seqs) => flatten[n + 1] = flat[n + 1]}
<1>4. \A i \in 2..Len(seqs) : flatten[i] = flatten[i - 1] \o seqs[i] /\ flat[i] = flat[i - 1] \o seqs[i]
  <2>1. ASSUME NEW f, Flattens(f, seqs), NEW i \in 1..Len(seqs), i # 1
        PROVE  f[i] = f[i - 1] \o seqs[i]
    BY <2>1 DEF Flattens
  <2>2. \A i \in 2..Len(seqs) : i \in 1..Len(seqs) /\ i # 1
    BY <1>1
  <2>3. QED
    BY <1>3, <2>1, <2>2
<1>5. 0 \in T
  BY <1>1, <1>3 DEF Flattens
<1>6. ASSUME NEW n \in Nat, n \in T PROVE n + 1 \in T
  <2>1. ASSUME n + 2 <= Len(seqs) PROVE flatten[n + 2] = flat[n + 2]
    <3>1. n + 2 \in 2..Len(seqs) /\ (n + 2) - 1 = n + 1 /\ n + 1 <= Len(seqs)
      BY <1>1, <2>1
    <3>2. flatten[n + 1] = flat[n + 1]
      BY <1>6, <3>1
    <3>3. QED
      BY <1>4, <3>1, <3>2
  <2>2. (n + 1) + 1 = n + 2
    OBVIOUS
  <2>3. QED
    BY <2>1, <2>2
<1> HIDE DEF T
<1>7. Nat \subseteq T
  BY <1>5, <1>6, Induct
<1>8. Len(seqs) - 1 \in T /\ (Len(seqs) - 1) + 1 = Len(seqs)
  BY <1>1, <1>7
<1>9. QED
  BY <1>1, <1>2, <1>8 DEF T

LEMMA FlattenEmpty == FlattenSeq(<<>>) = <<>>
  BY EmptySeq DEF FlattenSeq

Flattened(X) == {s \in Seq(Seq(X)) : FlattenSeq(s) \in Seq(X)
                    /\ (s # <<>> => \E flat : Flattens(flat, s))}

LEMMA FlattenStep ==
    ASSUME NEW X, NEW seqs \in Seq(Seq(X)), NEW s \in Seq(X), seqs \in Flattened(X)
    PROVE  /\ Append(seqs, s) \in Flattened(X)
           /\ FlattenSeq(Append(seqs, s)) = FlattenSeq(seqs) \o s
<1> DEFINE more == Append(seqs, s)
           n == Len(seqs)
<1>1. /\ more \in Seq(Seq(X)) /\ more # <<>> /\ n \in Nat /\ Len(more) = n + 1
      /\ \A i \in 1..n : more[i] = seqs[i]
      /\ more[n + 1] = s
  BY AppendProperties, LenProperties
<1> HIDE DEF more
<1>2. CASE seqs = <<>>
  <2>1. n = 0
    BY <1>2, EmptySeq
  <2> DEFINE flat == [i \in 1..1 |-> s]
  <2>2. Flattens(flat, more)
    BY <1>1, <2>1 DEF Flattens
  <2>3. flat[1] = s
    OBVIOUS
  <2> HIDE DEF flat
  <2>4. FlattenSeq(more) = s
    <3>1. FlattenSeq(more) = flat[Len(more)]
      BY <1>1, <2>2, FlattenIs
    <3>2. Len(more) = 1
      BY <1>1, <2>1
    <3>3. QED
      BY <2>3, <3>1, <3>2
  <2>5. FlattenSeq(seqs) \o s = s
    BY <1>2, FlattenEmpty, ConcatEmptySeq
  <2>6. QED
    BY <1>1, <2>2, <2>4, <2>5 DEF more, Flattened
<1>3. CASE seqs # <<>>
  <2>1. PICK old : Flattens(old, seqs)
    BY <1>3 DEF Flattened
  <2>2. n # 0
    BY <1>3, EmptySeq
  <2>3. FlattenSeq(seqs) = old[n] /\ FlattenSeq(seqs) \in Seq(X)
    BY <1>3, <2>1, FlattenIs DEF Flattened
  <2> DEFINE flat == [i \in 1..(n + 1) |-> IF i = n + 1 THEN old[n] \o s ELSE old[i]]
  <2>4. \A i \in 1..n : old[i] = IF i = 1 THEN seqs[i] ELSE old[i - 1] \o seqs[i]
    BY <2>1 DEF Flattens
  <2>5. \A i \in 1..(n + 1) : flat[i] = IF i = 1 THEN more[i] ELSE flat[i - 1] \o more[i]
    <3>1. ASSUME NEW i \in 1..(n + 1), i # n + 1
          PROVE  flat[i] = IF i = 1 THEN more[i] ELSE flat[i - 1] \o more[i]
      <4>1. i \in 1..n /\ flat[i] = old[i] /\ (i # 1 => flat[i - 1] = old[i - 1])
        BY <1>1, <3>1
      <4>2. QED
        BY <1>1, <2>4, <4>1
    <3>2. flat[n + 1] = flat[n] \o more[n + 1] /\ n + 1 # 1
      <4>1. n \in 1..(n + 1) /\ n # n + 1 /\ n + 1 \in 1..(n + 1) /\ n + 1 # 1
        BY <1>1, <2>2
      <4>2. flat[n] = old[n] /\ flat[n + 1] = old[n] \o s
        BY <4>1
      <4>3. QED
        BY <1>1, <4>1, <4>2
    <3>3. ASSUME NEW i \in 1..(n + 1), i = n + 1
          PROVE  flat[i] = IF i = 1 THEN more[i] ELSE flat[i - 1] \o more[i]
      <4>1. i - 1 = n /\ i # 1
        BY <1>1, <3>2, <3>3
      <4>2. QED
        BY <3>2, <3>3, <4>1
    <3>4. QED
      BY <3>1, <3>3
  <2>6. flat[n + 1] = FlattenSeq(seqs) \o s
    BY <1>1, <2>3
  <2>7. flat = [i \in 1..(n + 1) |-> flat[i]]
    OBVIOUS
  <2> HIDE DEF flat
  <2>8. Flattens(flat, more)
    BY <1>1, <2>5, <2>7 DEF Flattens
  <2>9. FlattenSeq(more) = FlattenSeq(seqs) \o s
    BY <1>1, <2>6, <2>8, FlattenIs
  <2>10. FlattenSeq(more) \in Seq(X)
    BY <2>3, <2>9, ConcatProperties
  <2>11. QED
    BY <1>1, <2>8, <2>9, <2>10 DEF more, Flattened
<1>4. QED
  BY <1>2, <1>3

LEMMA FlattenAppend ==
    ASSUME NEW X, NEW seqs \in Seq(Seq(X)), NEW s \in Seq(X)
    PROVE  /\ FlattenSeq(seqs) \in Seq(X)
           /\ FlattenSeq(Append(seqs, s)) = FlattenSeq(seqs) \o s
<1>1. <<>> \in Flattened(X)
  BY FlattenEmpty, EmptySeq DEF Flattened
<1>2. Seq(Seq(X)) \subseteq Flattened(X)
  <2> DEFINE V == Seq(X)
             F == Flattened(X)
  <2>1. \A r \in Seq(V), v \in V : r \in F => Append(r, v) \in F
    BY FlattenStep
  <2> HIDE DEF V, F
  <2>2. Seq(V) \subseteq F
    BY <1>1, <2>1, InductList DEF F
  <2>3. QED
    BY <2>2 DEF V, F
<1>3. QED
  BY <1>2, FlattenStep DEF Flattened

(* Each member of a list put for what a function makes of it. *)
Expansions(X, Y) == [X -> Seq(Y)]
Expand(e, list) == FlattenSeq([i \in DOMAIN list |-> e[list[i]]])

LEMMA ExpandAppend ==
    ASSUME NEW X, NEW Y, NEW e \in Expansions(X, Y), NEW list \in Seq(X), NEW x \in X
    PROVE  /\ Expand(e, <<>>) = <<>>
           /\ Expand(e, list) \in Seq(Y)
           /\ Expand(e, Append(list, x)) = Expand(e, list) \o e[x]
<1>0. e \in [X -> Seq(Y)]
  BY DEF Expansions
<1> DEFINE parts(l) == [i \in DOMAIN l |-> e[l[i]]]
<1>1. \A l \in Seq(X) : parts(l) \in Seq(Seq(Y)) /\ Len(parts(l)) = Len(l)
  <2>1. ASSUME NEW l \in Seq(X)
        PROVE  parts(l) \in Seq(Seq(Y)) /\ Len(parts(l)) = Len(l)
    <3>1. Len(l) \in Nat /\ DOMAIN l = 1..Len(l) /\ \A i \in 1..Len(l) : l[i] \in X
      BY LenProperties
    <3>2. \A i \in 1..Len(l) : e[l[i]] \in Seq(Y)
      BY <1>0, <3>1
    <3> DEFINE n == Len(l)
               V == Seq(Y)
               p == [i \in 1..n |-> e[l[i]]]
    <3>3. p \in Seq(V) /\ Len(p) = n
      <4>1. n \in Nat /\ p \in [1..n -> V]
        BY <3>1, <3>2
      <4> HIDE DEF n, V, p
      <4>2. QED
        BY <4>1
    <3>4. QED
      BY <3>1, <3>3
  <2>2. QED
    BY <2>1
<1>2. parts(<<>>) = <<>>
  OBVIOUS
<1>3. parts(Append(list, x)) = Append(parts(list), e[x])
  <2> DEFINE more == Append(list, x)
             n == Len(list)
             V == Seq(Y)
  <2>1. /\ more \in Seq(X) /\ n \in Nat /\ Len(more) = n + 1 /\ e[x] \in V
        /\ \A i \in 1..n : more[i] = list[i]
        /\ more[n + 1] = x
        /\ DOMAIN more = 1..(n + 1) /\ DOMAIN list = 1..n
    BY <1>0, AppendProperties, LenProperties
  <2> HIDE DEF more, n
  <2>2. parts(list) \in Seq(V) /\ Len(parts(list)) = n /\ parts(more) \in Seq(V) /\ Len(parts(more)) = n + 1
    BY <1>1, <2>1 DEF n
  <2>3. \A i \in 1..n : parts(list)[i] = e[list[i]]
    BY <2>1
  <2>4. \A i \in 1..(n + 1) : parts(more)[i] = e[more[i]]
    BY <2>1
  <2> DEFINE a == parts(list)
             b == parts(more)
  <2> HIDE DEF V, parts, a, b
  <2>5. /\ Append(a, e[x]) \in Seq(V) /\ Len(Append(a, e[x])) = n + 1
        /\ \A i \in 1..n : Append(a, e[x])[i] = a[i]
        /\ Append(a, e[x])[n + 1] = e[x]
    BY <2>1, <2>2, AppendProperties DEF a
  <2>6. ASSUME NEW i \in 1..(n + 1) PROVE b[i] = Append(a, e[x])[i]
    <3>1. CASE i = n + 1
      BY <2>1, <2>4, <2>5, <3>1 DEF b
    <3>2. CASE i # n + 1
      <4>1. i \in 1..n
        BY <2>1, <3>2
      <4>2. QED
        BY <2>1, <2>3, <2>4, <2>5, <4>1 DEF a, b
    <3>3. QED
      BY <3>1, <3>2
  <2>7. b = Append(a, e[x])
    BY <2>2, <2>5, <2>6, SeqEqual DEF b
  <2>8. QED
    BY <2>7 DEF a, b, more
<1> HIDE DEF parts
<1>4. \A l : Expand(e, l) = FlattenSeq(parts(l))
  BY DEF Expand, parts
<1>5. QED
  <2> DEFINE p == parts(list)
             v == e[x]
  <2>1. p \in Seq(Seq(Y)) /\ v \in Seq(Y)
    BY <1>0, <1>1
  <2> HIDE DEF p, v
  <2>2. FlattenSeq(p) \in Seq(Y) /\ FlattenSeq(Append(p, v)) = FlattenSeq(p) \o v
    BY <2>1, FlattenAppend
  <2>3. QED
    BY <1>2, <1>3, <1>4, <2>2, FlattenEmpty DEF p, v


(* Without() is such an expansion. *)
Drops(list, x, S) ==
    Without(Append(list, x), S) = IF x \in S THEN Without(list, S) ELSE Append(Without(list, S), x)

LEMMA WithoutAppend ==
    ASSUME NEW X, NEW S, NEW list \in Seq(X), NEW x \in X
    PROVE  /\ Without(<<>>, S) = <<>>
           /\ Without(list, S) \in Seq(X \ S)
           /\ Drops(list, x, S)
<1> DEFINE Y == X \ S
           e == [y \in X |-> IF y \in S THEN <<>> ELSE <<y>>]
<1>1. e \in Expansions(X, Y)
  <2>1. ASSUME NEW y \in X, y \in S PROVE e[y] \in Seq(Y)
    BY <2>1, EmptySeq
  <2>2. ASSUME NEW y \in X, y \notin S PROVE e[y] \in Seq(Y)
    <3>1. y \in Y /\ e[y] = <<y>>
      BY <2>2
    <3> HIDE DEF Y, e
    <3>2. QED
      BY <3>1
  <2>3. QED
    BY <2>1, <2>2 DEF Expansions
<1>2. ASSUME NEW l \in Seq(X) PROVE Without(l, S) = Expand(e, l)
  <2>1. \A i \in DOMAIN l : l[i] \in X
    BY ElementOfSeq, LenProperties
  <2>2. [i \in DOMAIN l |-> IF l[i] \in S THEN <<>> ELSE <<l[i]>>] = [i \in DOMAIN l |-> e[l[i]]]
    BY <2>1
  <2>3. QED
    BY <2>2 DEF Without, Expand
<1>3. e[x] = IF x \in S THEN <<>> ELSE <<x>>
  OBVIOUS
<1> HIDE DEF e, Y
<1>4. /\ Expand(e, <<>>) = <<>>
      /\ Expand(e, list) \in Seq(Y)
      /\ Expand(e, Append(list, x)) = Expand(e, list) \o e[x]
  BY <1>1, ExpandAppend
<1>5. <<>> \in Seq(X) /\ Append(list, x) \in Seq(X)
  BY EmptySeq, AppendProperties
<1> DEFINE w == Expand(e, list)
<1>6. w \in Seq(Y)
  BY <1>4
<1>7. ASSUME x \notin S PROVE w \o <<x>> = Append(w, x)
  <2>1. x \in Y
    BY <1>7 DEF Y
  <2> HIDE DEF w
  <2>2. QED
    BY <1>6, <2>1, AppendIsConcat
<1>8. w \o <<>> = w
  <2> HIDE DEF w
  <2>1. QED
    BY <1>6, ConcatEmptySeq
<1>9. QED
  BY <1>2, <1>3, <1>4, <1>5, <1>7, <1>8 DEF Y, Drops

LEMMA WithoutIn ==
    ASSUME NEW X, NEW S, NEW list \in Seq(X)
    PROVE  Without(list, S) \in Seq(X \ S)
<1>1. CASE X = {}
  <2>1. list = <<>>
    BY <1>1, EmptySeq, ElementOfSeq
  <2>2. DOMAIN list = {}
    BY <2>1
  <2>3. Without(list, S) = <<>>
    BY <2>1, FlattenEmpty DEF Without
  <2>4. QED
    BY <2>3, EmptySeq
<1>2. CASE X # {}
  <2>1. PICK x \in X : TRUE
    BY <1>2
  <2>2. QED
    BY <2>1, WithoutAppend
<1>3. QED
  BY <1>1, <1>2

LEMMA WithoutNone ==
    ASSUME NEW X, NEW S, X \cap S = {}, NEW list \in Seq(X)
    PROVE  Without(list, S) = list
<1> DEFINE T == {l \in Seq(X) : Without(l, S) = l}
<1>1. <<>> \in T
  <2>1. Without(<<>>, S) = <<>>
    BY FlattenEmpty DEF Without
  <2>2. QED
    BY <2>1, EmptySeq
<1>2. ASSUME NEW l \in Seq(X), NEW x \in X, l \in T PROVE Append(l, x) \in T
  <2>1. Append(l, x) \in Seq(X) /\ x \notin S
    BY AppendProperties
  <2>2. Without(Append(l, x), S) = Append(Without(l, S), x)
    <3>1. Drops(l, x, S)
      BY WithoutAppend
    <3>2. QED
      BY <2>1, <3>1 DEF Drops
  <2>3. QED
    BY <1>2, <2>1, <2>2
<1> HIDE DEF T
<1>3. Seq(X) \subseteq T
  BY <1>1, <1>2, InductList
<1>4. QED
  BY <1>3 DEF T

(* A list, of whatever it holds. *)
IsList(list) == list \in Seq(ToSet(list))

LEMMA ListOf ==
    ASSUME NEW X, NEW list \in Seq(X)
    PROVE  /\ IsList(list) /\ ToSet(list) \subseteq X
           /\ Len(list) \in Nat /\ DOMAIN list = 1..Len(list)
           /\ \A i \in DOMAIN list : list[i] \in ToSet(list)
<1>1. /\ Len(list) \in Nat /\ DOMAIN list = 1..Len(list)
      /\ list = [i \in 1..Len(list) |-> list[i]]
  BY LenProperties
<1>2. \A i \in DOMAIN list : list[i] \in ToSet(list) /\ list[i] \in X
  BY <1>1, ElementOfSeq DEF ToSet
<1>3. ToSet(list) \subseteq X
  BY <1>2 DEF ToSet
<1>4. IsList(list)
  <2> DEFINE n == Len(list)
             Y == ToSet(list)
  <2>1. n \in Nat /\ list = [i \in 1..n |-> list[i]] /\ \A i \in 1..n : list[i] \in Y
    BY <1>1, <1>2
  <2> HIDE DEF n, Y
  <2>2. list \in [1..n -> Y]
    BY <2>1
  <2>3. list \in Seq(Y)
    BY <2>1, <2>2
  <2>4. QED
    BY <2>3 DEF IsList, Y
<1>5. QED
  BY <1>1, <1>2, <1>3, <1>4

(* No two of the entries that are in use have one name. *)
Apart(list, S) ==
    \A i, j \in DOMAIN list :
        list[i] \notin S /\ list[j] \notin S /\ SameName(list[i].name, list[j].name) => i = j

LEMMA WithoutApart ==
    ASSUME NEW X, NEW S, NEW list \in Seq(X), Apart(list, S)
    PROVE  Apart(Without(list, S), {})
<1> DEFINE T == {l \in Seq(X) : Apart(l, S) => Apart(Without(l, S), {})}
<1>1. <<>> \in T
  <2>1. Without(<<>>, S) = <<>>
    BY FlattenEmpty DEF Without
  <2>2. QED
    BY <2>1, EmptySeq DEF Apart
<1>2. ASSUME NEW l \in Seq(X), NEW x \in X, l \in T PROVE Append(l, x) \in T
  <2> DEFINE more == Append(l, x)
             w == Without(l, S)
             n == Len(l)
             k == Len(w)
             Y == ToSet(l) \ S
  <2>1. /\ more \in Seq(X) /\ n \in Nat /\ DOMAIN l = 1..n /\ DOMAIN more = 1..(n + 1)
        /\ \A i \in 1..n : more[i] = l[i]
        /\ more[n + 1] = x
    BY AppendProperties, LenProperties
  <2>2. l \in Seq(ToSet(l))
    BY ListOf DEF IsList
  <2>3. w \in Seq(Y)
    BY <2>2, WithoutIn
  <2>4. Without(more, S) = IF x \in S THEN w ELSE Append(w, x)
    <3>1. Drops(l, x, S)
      BY WithoutAppend
    <3>2. QED
      BY <3>1 DEF Drops
  <2> SUFFICES ASSUME Apart(more, S) PROVE Apart(Without(more, S), {})
    BY <2>1
  <2> HIDE DEF more
  <2>5. Apart(l, S)
    BY <2>1 DEF Apart
  <2>6. Apart(w, {})
    BY <1>2, <2>5
  <2>7. CASE x \in S
    BY <2>4, <2>6, <2>7
  <2>8. CASE x \notin S
    <3>1. \A y \in Y : ~SameName(x.name, y.name) /\ ~SameName(y.name, x.name)
      <4>1. ASSUME NEW y \in Y PROVE ~SameName(x.name, y.name) /\ ~SameName(y.name, x.name)
        <5>1. PICK i \in 1..n : y = l[i]
          BY <2>1 DEF ToSet
        <5>2. i \in DOMAIN more /\ n + 1 \in DOMAIN more /\ i # n + 1
          BY <2>1
        <5>3. more[i] = y /\ more[n + 1] = x /\ y \notin S
          BY <2>1, <5>1
        <5>4. QED
          BY <2>8, <5>2, <5>3 DEF Apart
      <4>2. QED
        BY <4>1
    <3> DEFINE v == Append(w, x)
               Z == Y \cup {x}
    <3> HIDE DEF w, Y
    <3>2. /\ v \in Seq(Z) /\ k \in Nat /\ DOMAIN v = 1..(k + 1) /\ DOMAIN w = 1..k
          /\ \A i \in 1..k : v[i] = w[i] /\ w[i] \in Y
          /\ v[k + 1] = x
      <4>1. w \in Seq(Z) /\ x \in Z
        <5>1. Y \subseteq Z
          OBVIOUS
        <5>2. QED
          BY <2>3, <5>1
      <4>2. k \in Nat /\ DOMAIN w = 1..k /\ \A i \in 1..k : w[i] \in Y
        BY <2>3, LenProperties, ElementOfSeq
      <4> HIDE DEF Z
      <4>3. QED
        BY <4>1, <4>2, AppendProperties, LenProperties
    <3> HIDE DEF v, k
    <3>3. ASSUME NEW i \in DOMAIN v, NEW j \in DOMAIN v, SameName(v[i].name, v[j].name)
          PROVE  i = j
      <4>1. CASE i \in 1..k /\ j \in 1..k
        BY <2>6, <3>2, <3>3, <4>1 DEF Apart
      <4>2. CASE i = k + 1 /\ j \in 1..k
        BY <3>1, <3>2, <3>3, <4>2
      <4>3. CASE i \in 1..k /\ j = k + 1
        BY <3>1, <3>2, <3>3, <4>3
      <4>4. CASE i = k + 1 /\ j = k + 1
        BY <4>4
      <4>5. (i \in 1..k \/ i = k + 1) /\ (j \in 1..k \/ j = k + 1)
        BY <3>2
      <4>6. QED
        BY <4>1, <4>2, <4>3, <4>4, <4>5
    <3>4. QED
      BY <2>4, <2>8, <3>3 DEF Apart, v, w
  <2>9. QED
    BY <2>7, <2>8
<1> HIDE DEF T
<1>3. Seq(X) \subseteq T
  BY <1>1, <1>2, InductList
<1>4. QED
  BY <1>3 DEF T

-----------------------------------------------------------------------------
(* The lists of filters.                                                   *)

(* A filter as the program holds one, and one that may be applied. *)
Shaped(f) ==
    /\ f = [field \in DOMAIN NoFilter |-> f[field]]
    /\ f.process_exclude \in BOOLEAN /\ f.subsystem_exclude \in BOOLEAN
    /\ f.search \in Seq(STRING)
Readable(f) == Shaped(f) /\ Compiles(f.search, f.regex)

(* A saved filter. *)
Entry(x) ==
    /\ x = [name |-> x.name, terms |-> x.terms]
    /\ Strip(x.name) # <<>> /\ Readable(x.terms)

Recents(list) ==
    IsList(list) /\ Len(list) <= RecentKept /\ \A f \in ToSet(list) : Readable(f)
Saveds(list) == IsList(list) /\ (\A x \in ToSet(list) : Entry(x)) /\ Apart(list, {})

(* What an older version may have left of a filter. *)
Texts(line) == "search" \in DOMAIN line => line.search \in Seq(STRING)

(* What from_fields() makes is nothing, or a filter that it reads as it is. *)
LEMMA FieldsAreRead ==
    ASSUME NEW stored
    PROVE  /\ FromFields(stored) # Unreadable /\ Texts(stored) => Readable(FromFields(stored))
           /\ Readable(stored) => FromFields(stored) = stored /\ stored # Unreadable
<1>1. DOMAIN NoFilter = Required \cup {"process_exclude", "subsystem_exclude"}
  BY DEF NoFilter, Required
<1>2. "process_exclude" \notin Required /\ "subsystem_exclude" \notin Required
      /\ "search" \in Required /\ "regex" \in Required
  BY DEF Required
<1> DEFINE flag(field) == field \in DOMAIN stored /\ stored[field]
           read == [field \in DOMAIN NoFilter |->
                      IF field \in Required THEN stored[field] ELSE flag(field)]
<1>3. FromFields(stored) # Unreadable =>
          /\ FromFields(stored) = read /\ Compiles(stored.search, stored.regex)
          /\ Texts(stored) => stored.search \in Seq(STRING)
  BY <1>2 DEF FromFields, Texts
<1>4. (stored.search \in Seq(STRING) => Shaped(read)) /\ read.search = stored.search /\ read.regex = stored.regex
  <2>1. read.search = stored.search /\ read.regex = stored.regex
    BY <1>1, <1>2
  <2>2. read.process_exclude \in BOOLEAN /\ read.subsystem_exclude \in BOOLEAN
    BY <1>1, <1>2
  <2>3. read = [field \in DOMAIN NoFilter |-> read[field]]
    OBVIOUS
  <2>4. QED
    BY <2>1, <2>2, <2>3 DEF Shaped
<1>5. ASSUME Readable(stored) PROVE FromFields(stored) = stored /\ stored # Unreadable
  <2>1. DOMAIN stored = DOMAIN NoFilter /\ Compiles(stored.search, stored.regex)
    BY <1>5 DEF Readable, Shaped
  <2>2. FromFields(stored) = read
    BY <1>1, <2>1 DEF FromFields
  <2>3. read = [field \in DOMAIN NoFilter |-> stored[field]]
    <3>1. ASSUME NEW field \in DOMAIN NoFilter PROVE read[field] = stored[field]
      <4>1. CASE field \in Required
        BY <4>1
      <4>2. CASE field \notin Required
        <5>1. field \in DOMAIN stored /\ stored[field] \in BOOLEAN
          BY <1>1, <1>5, <2>1, <4>2 DEF Readable, Shaped
        <5>2. QED
          BY <4>2, <5>1
      <4>3. QED
        BY <4>1, <4>2
    <3>2. QED
      BY <3>1
  <2>4. stored # Unreadable
    BY <1>1, <1>2, <2>1 DEF Unreadable
  <2>5. QED
    BY <1>5, <2>2, <2>3, <2>4 DEF Readable, Shaped
<1> HIDE DEF read
<1>6. QED
  BY <1>3, <1>4, <1>5 DEF Readable

LEMMA EntriesAreRead ==
    ASSUME NEW stored
    PROVE  /\ FromStored(stored) # Unreadable => FromStored(stored).name = stored.name
           /\ FromStored(stored) # Unreadable /\ Texts(stored.filter) => Entry(FromStored(stored))
           /\ Entry(stored) =>
                  /\ FromStored([name |-> stored.name, filter |-> stored.terms]) = stored
                  /\ stored # Unreadable
<1>1. ASSUME FromStored(stored) # Unreadable
      PROVE  /\ FromStored(stored).name = stored.name
             /\ Texts(stored.filter) => Entry(FromStored(stored))
  <2>1. /\ FromStored(stored) = [name |-> stored.name, terms |-> FromFields(stored.filter)]
        /\ Strip(stored.name) # <<>> /\ FromFields(stored.filter) # Unreadable
    BY <1>1 DEF FromStored
  <2>2. Texts(stored.filter) => Readable(FromFields(stored.filter))
    BY <2>1, FieldsAreRead
  <2>3. QED
    BY <2>1, <2>2 DEF Entry
<1>2. ASSUME Entry(stored)
      PROVE  /\ FromStored([name |-> stored.name, filter |-> stored.terms]) = stored
             /\ stored # Unreadable
  <2> DEFINE line == [name |-> stored.name, filter |-> stored.terms]
  <2>1. line.name = stored.name /\ line.filter = stored.terms
    OBVIOUS
  <2>2. FromFields(stored.terms) = stored.terms /\ stored.terms # Unreadable
    BY <1>2, FieldsAreRead DEF Entry
  <2> HIDE DEF line
  <2>3. FromStored(line) = [name |-> stored.name, terms |-> stored.terms]
    BY <1>2, <2>1, <2>2 DEF FromStored, Entry
  <2>4. stored # Unreadable
    <3>1. DOMAIN stored = {"name", "terms"}
      BY <1>2 DEF Entry
    <3>2. QED
      BY <3>1 DEF Unreadable
  <2>5. QED
    BY <1>2, <2>3, <2>4 DEF line, Entry
<1>3. QED
  BY <1>1, <1>2

LEMMA ListIs ==
    ASSUME NEW list, IsList(list)
    PROVE  /\ list \in Seq(ToSet(list))
           /\ Len(list) \in Nat /\ DOMAIN list = 1..Len(list)
           /\ list = [i \in 1..Len(list) |-> list[i]]
           /\ \A i \in DOMAIN list : list[i] \in ToSet(list)
           /\ \A x \in ToSet(list) : \E i \in DOMAIN list : x = list[i]
<1>1. list \in Seq(ToSet(list))
  BY DEF IsList
<1>2. list = [i \in 1..Len(list) |-> list[i]]
  BY <1>1, LenProperties
<1>3. QED
  BY <1>1, <1>2, ListOf DEF ToSet

(* A list made of another, one entry for one. *)
LEMMA ListMade ==
    ASSUME NEW list, IsList(list), NEW Y, NEW f \in [DOMAIN list -> Y]
    PROVE  /\ f \in Seq(Y) /\ Len(f) = Len(list)
           /\ DOMAIN f = DOMAIN list
<1> DEFINE n == Len(list)
<1>1. n \in Nat /\ DOMAIN list = 1..n
  BY ListIs
<1> HIDE DEF n
<1>2. f \in [1..n -> Y]
  BY <1>1
<1>3. f \in Seq(Y) /\ Len(f) = n /\ DOMAIN f = 1..n
  BY <1>1, <1>2
<1>4. QED
  BY <1>1, <1>3 DEF n

(* The first `kept` of a list. *)
LEMMA Truncated ==
    ASSUME NEW X, NEW list \in Seq(X), NEW kept \in Nat,
           NEW cut, cut = SubSeq(list, 1, IF Len(list) < kept THEN Len(list) ELSE kept)
    PROVE  /\ cut \in Seq(X) /\ Len(cut) <= kept
           /\ Len(list) <= kept => cut = list
           /\ list # <<>> /\ kept # 0 => cut # <<>> /\ Head(cut) = list[1]
<1> DEFINE n == IF Len(list) < kept THEN Len(list) ELSE kept
<1>1. Len(list) \in Nat /\ \A i \in 1..Len(list) : list[i] \in X
  BY LenProperties, ElementOfSeq
<1>2. n \in Nat /\ n <= Len(list) /\ n <= kept /\ (Len(list) <= kept => n = Len(list))
  BY <1>1
<1>3. list # <<>> /\ kept # 0 => n # 0
  BY <1>1, EmptySeq
<1>4. cut = SubSeq(list, 1, n)
  OBVIOUS
<1> HIDE DEF n
<1>5. cut \in Seq(X) /\ Len(cut) = n /\ \A i \in 1..n : cut[i] = list[i]
  <2>1. \A i \in 1..n : list[i] \in X
    BY <1>1, <1>2
  <2>2. /\ SubSeq(list, 1, n) \in Seq(X)
        /\ Len(SubSeq(list, 1, n)) = IF 1 <= n THEN n - 1 + 1 ELSE 0
        /\ \A i \in 1..(n - 1 + 1) : SubSeq(list, 1, n)[i] = list[1 + i - 1]
    BY <1>2, <2>1, SubSeqProperties
  <2>3. n - 1 + 1 = n /\ \A i \in 1..n : 1 + i - 1 = i
    BY <1>2
  <2>4. QED
    BY <1>2, <1>4, <2>2, <2>3
<1>6. Len(list) <= kept => cut = list
  BY <1>2, <1>5, SeqEqual
<1>7. ASSUME list # <<>>, kept # 0 PROVE cut # <<>> /\ Head(cut) = list[1]
  <2>1. n # 0
    BY <1>3, <1>7
  <2>2. cut # <<>>
    BY <1>5, <2>1, EmptySeq
  <2>3. Head(cut) = cut[1]
    BY <1>5, <2>2, HeadTailProperties
  <2>4. 1 \in 1..n
    BY <1>2, <2>1
  <2>5. QED
    BY <1>5, <2>2, <2>3, <2>4
<1>8. QED
  BY <1>2, <1>5, <1>6, <1>7

(* What a version has written, it reads. *)
LEMMA RecentIsRead == ASSUME NEW list, Recents(list) PROVE ReadRecent(list) = list
<1> DEFINE X == ToSet(list)
           fields == [i \in DOMAIN list |-> FromFields(list[i])]
<1>1. list \in Seq(X) /\ Len(list) \in Nat /\ Len(list) <= RecentKept
  BY ListIs DEF Recents
<1>2. \A i \in DOMAIN list : list[i] \in X /\ FromFields(list[i]) = list[i] /\ list[i] # Unreadable
  BY ListIs, FieldsAreRead DEF Recents
<1>3. fields = list
  BY <1>2, ListIs DEF Recents
<1>4. X \cap {Unreadable} = {}
  BY FieldsAreRead DEF Recents
<1> HIDE DEF fields, X
<1>5. Without(list, {Unreadable}) = list
  BY <1>1, <1>4, WithoutNone
<1>6. ReadRecent(list) = SubSeq(list, 1, IF Len(list) < RecentKept THEN Len(list) ELSE RecentKept)
  <2> DEFINE read == Without(fields, {Unreadable})
  <2>1. read = list
    BY <1>3, <1>5
  <2>2. ReadRecent(list) = SubSeq(read, 1, IF Len(read) < RecentKept THEN Len(read) ELSE RecentKept)
    BY DEF ReadRecent, fields
  <2> HIDE DEF read
  <2>3. QED
    BY <2>1, <2>2
<1>7. RecentKept \in Nat
  BY KeptAssumption
<1>8. QED
  BY <1>1, <1>6, <1>7, Truncated

LEMMA SavedIsRead == ASSUME NEW list, Saveds(list) PROVE ReadSaved(AsStored(list)) = list
<1> DEFINE X == ToSet(list)
           lines == AsStored(list)
           read == [i \in DOMAIN lines |-> FromStored(lines[i])]
<1>1. list \in Seq(X)
  BY ListIs DEF Saveds
<1>2. DOMAIN lines = DOMAIN list
      /\ \A i \in DOMAIN list : lines[i] = [name |-> list[i].name, filter |-> list[i].terms]
  BY DEF AsStored
<1>3. \A i \in DOMAIN list : Entry(list[i])
  BY ListIs DEF Saveds
<1> HIDE DEF lines
<1>4. \A i \in DOMAIN list : FromStored(lines[i]) = list[i]
  BY <1>2, <1>3, EntriesAreRead
<1>5. read = list
  BY <1>2, <1>4, ListIs DEF Saveds
<1>6. X \cap {Unreadable} = {}
  BY EntriesAreRead DEF Saveds
<1> HIDE DEF read, X
<1>7. Without(list, {Unreadable}) = list
  BY <1>1, <1>6, WithoutNone
<1>8. QED
  BY <1>5, <1>7 DEF ReadSaved, read, lines

(* Whatever lines there are, what is read of them is a list of filters. *)
LEMMA RecentsRead ==
    ASSUME NEW lines, IsList(lines), \A x \in ToSet(lines) : Texts(x)
    PROVE  Recents(ReadRecent(lines))
<1> DEFINE Y == {FromFields(x) : x \in ToSet(lines)}
           Z == Y \ {Unreadable}
           fields == [i \in DOMAIN lines |-> FromFields(lines[i])]
           read == Without(fields, {Unreadable})
<1>1. fields \in Seq(Y)
  <2>1. fields \in [DOMAIN lines -> Y]
    BY ListIs
  <2> HIDE DEF fields, Y
  <2>2. QED
    BY <2>1, ListMade
<1>2. \A f \in Z : Readable(f)
  BY FieldsAreRead
<1> HIDE DEF Y, fields
<1>3. read \in Seq(Z)
  BY <1>1, WithoutIn
<1>4. ReadRecent(lines) = SubSeq(read, 1, IF Len(read) < RecentKept THEN Len(read) ELSE RecentKept)
  BY DEF ReadRecent, fields
<1>5. RecentKept \in Nat
  BY KeptAssumption
<1> HIDE DEF Z, read
<1> DEFINE cut == ReadRecent(lines)
<1> HIDE DEF cut
<1>6. cut \in Seq(Z) /\ Len(cut) <= RecentKept
  BY <1>3, <1>4, <1>5, Truncated DEF cut
<1>7. IsList(cut) /\ ToSet(cut) \subseteq Z
  BY <1>6, ListOf
<1>8. Recents(cut)
  BY <1>2, <1>6, <1>7 DEF Recents
<1>9. QED
  BY <1>8 DEF cut

LEMMA SavedsRead ==
    ASSUME NEW lines, IsList(lines), Apart(lines, {}), \A x \in ToSet(lines) : Texts(x.filter)
    PROVE  Saveds(ReadSaved(lines))
<1> DEFINE Y == {FromStored(x) : x \in ToSet(lines)}
           Z == Y \ {Unreadable}
           fields == [i \in DOMAIN lines |-> FromStored(lines[i])]
           read == Without(fields, {Unreadable})
<1>1. fields \in Seq(Y) /\ DOMAIN fields = DOMAIN lines
  <2>1. fields \in [DOMAIN lines -> Y]
    BY ListIs
  <2> HIDE DEF fields, Y
  <2>2. QED
    BY <2>1, ListMade
<1>2. \A x \in Z : Entry(x)
  BY EntriesAreRead
<1>3. Apart(fields, {Unreadable})
  <2>1. ASSUME NEW i \in DOMAIN fields, NEW j \in DOMAIN fields,
               fields[i] # Unreadable, fields[j] # Unreadable,
               SameName(fields[i].name, fields[j].name)
        PROVE  i = j
    <3>1. i \in DOMAIN lines /\ j \in DOMAIN lines
      OBVIOUS
    <3>2. fields[i] = FromStored(lines[i]) /\ fields[j] = FromStored(lines[j])
      BY <3>1
    <3> HIDE DEF fields
    <3>3. fields[i].name = lines[i].name /\ fields[j].name = lines[j].name
      BY <2>1, <3>2, EntriesAreRead
    <3>4. SameName(lines[i].name, lines[j].name)
      BY <2>1, <3>3
    <3>5. QED
      BY <3>1, <3>4 DEF Apart
  <2> HIDE DEF fields
  <2>2. QED
    BY <2>1 DEF Apart
<1> HIDE DEF Y, fields
<1>4. read \in Seq(Z) /\ Apart(read, {})
  BY <1>1, <1>3, WithoutIn, WithoutApart
<1>5. ReadSaved(lines) = read
  BY DEF ReadSaved, fields
<1> HIDE DEF Z, read
<1>6. IsList(read) /\ ToSet(read) \subseteq Z
  BY <1>4, ListOf
<1>7. Saveds(read)
  BY <1>2, <1>4, <1>6 DEF Saveds
<1>8. QED
  BY <1>5, <1>7

(* The lists as they change. *)
LEMMA RememberKeeps ==
    ASSUME NEW recent, Recents(recent), NEW f, Readable(f),
           NEW new, new = Remember(recent, f, RecentKept)
    PROVE  /\ Recents(new)
           /\ new # recent => Head(new) = f
<1>1. CASE IsEmpty(f)
  BY <1>1 DEF Remember
<1>2. CASE ~IsEmpty(f)
  <2> DEFINE X == ToSet(recent) \cup {f}
             others == Without(recent, {f})
             all == <<f>> \o others
  <2>1. others \in Seq(ToSet(recent) \ {f})
    BY ListIs, WithoutIn DEF Recents
  <2>2. others \in Seq(X) /\ <<f>> \in Seq(X) /\ f \in X /\ Len(<<f>>) = 1
    <3>1. ToSet(recent) \ {f} \subseteq X
      OBVIOUS
    <3> HIDE DEF others
    <3>2. others \in Seq(X)
      BY <2>1, <3>1
    <3>3. QED
      BY <3>2
  <2>3. new = SubSeq(all, 1, IF Len(all) < RecentKept THEN Len(all) ELSE RecentKept)
    BY <1>2 DEF Remember
  <2>4. \A x \in X : Readable(x)
    BY DEF Recents
  <2> HIDE DEF X, others
  <2>5. all \in Seq(X) /\ all[1] = f /\ all # <<>>
    <3>1. <<f>>[1] = f /\ 1 \in 1..Len(<<f>>) /\ Len(others) \in Nat
      BY <2>2, LenProperties
    <3>2. all \in Seq(X) /\ Len(all) = 1 + Len(others) /\ all[1] = f
      BY <2>2, <3>1, ConcatProperties
    <3>3. QED
      BY <3>1, <3>2, EmptySeq
  <2> HIDE DEF all
  <2>6. RecentKept \in Nat /\ RecentKept # 0
    BY KeptAssumption
  <2>7. new \in Seq(X) /\ Len(new) <= RecentKept /\ Head(new) = f
    BY <2>3, <2>5, <2>6, Truncated
  <2>8. IsList(new) /\ ToSet(new) \subseteq X
    BY <2>7, ListOf
  <2>9. QED
    BY <2>4, <2>7, <2>8 DEF Recents
<1>3. QED
  BY <1>1, <1>2

LEMMA SaveKeeps ==
    ASSUME NEW saved, Saveds(saved), NEW x, Entry(x)
    PROVE  Saveds(Save(saved, x))
<1> DEFINE Y == ToSet(saved) \cup {x}
<1>1. \A y \in Y : Entry(y)
  BY DEF Saveds
<1>2. /\ IsList(saved) /\ Apart(saved, {})
      /\ \A i \in DOMAIN saved : saved[i] \in Y
  BY ListIs DEF Saveds
<1>3. ASSUME NEW list \in Seq(Y), Apart(list, {}) PROVE Saveds(list)
  BY <1>1, <1>3, ListOf DEF Saveds
<1>4. CASE \E i \in DOMAIN saved : SameName(saved[i].name, x.name)
  <2> DEFINE new == [i \in DOMAIN saved |->
                        IF SameName(saved[i].name, x.name) THEN x ELSE saved[i]]
  <2>1. Save(saved, x) = new
    BY <1>4 DEF Save
  <2>2. new \in [DOMAIN saved -> Y]
    BY <1>2
  <2>3. \A i \in DOMAIN saved : SameName(new[i].name, saved[i].name)
    BY DEF SameName
  <2> HIDE DEF new, Y
  <2>4. new \in Seq(Y) /\ DOMAIN new = DOMAIN saved
    BY <1>2, <2>2, ListMade
  <2>5. Apart(new, {})
    BY <1>2, <2>3, <2>4 DEF Apart, SameName
  <2>6. QED
    BY <1>3, <2>1, <2>4, <2>5
<1>5. CASE ~\E i \in DOMAIN saved : SameName(saved[i].name, x.name)
  <2> DEFINE n == Len(saved)
             new == Append(saved, x)
  <2>1. Save(saved, x) = new
    BY <1>5 DEF Save
  <2>2. saved \in Seq(Y) /\ x \in Y /\ n \in Nat /\ DOMAIN saved = 1..n
    <3>1. saved \in Seq(ToSet(saved)) /\ ToSet(saved) \subseteq Y
      BY <1>2, ListIs
    <3> HIDE DEF Y
    <3>2. saved \in Seq(Y)
      BY <3>1
    <3>3. QED
      BY <1>2, <3>2, ListIs DEF Y
  <2> HIDE DEF Y
  <2>3. /\ new \in Seq(Y) /\ DOMAIN new = 1..(n + 1)
        /\ \A i \in 1..n : new[i] = saved[i]
        /\ new[n + 1] = x
    BY <2>2, AppendProperties, LenProperties
  <2> HIDE DEF new, n
  <2>4. ASSUME NEW i \in DOMAIN new, NEW j \in DOMAIN new, SameName(new[i].name, new[j].name)
        PROVE  i = j
    <3>1. (i \in 1..n \/ i = n + 1) /\ (j \in 1..n \/ j = n + 1)
      BY <2>2, <2>3
    <3>2. CASE i \in 1..n /\ j \in 1..n
      BY <1>2, <2>2, <2>3, <2>4, <3>2 DEF Apart
    <3>3. CASE i \in 1..n /\ j = n + 1
      BY <1>5, <2>2, <2>3, <2>4, <3>3
    <3>4. CASE i = n + 1 /\ j \in 1..n
      BY <1>5, <2>2, <2>3, <2>4, <3>4 DEF SameName
    <3>5. QED
      BY <3>1, <3>2, <3>3, <3>4
  <2>5. QED
    BY <1>3, <2>1, <2>3, <2>4 DEF Apart
<1>6. QED
  BY <1>4, <1>5

LEMMA ForgetKeeps ==
    ASSUME NEW saved, Saveds(saved), NEW name
    PROVE  Saveds(Forget(saved, name))
<1> DEFINE S == {x \in ToSet(saved) : SameName(x.name, name)}
           X == ToSet(saved)
           left == Without(saved, S)
<1>1. Forget(saved, name) = left
  BY DEF Forget
<1>2. saved \in Seq(X) /\ \A x \in X : Entry(x)
  BY ListIs DEF Saveds
<1>3. Apart(saved, S)
  BY DEF Saveds, Apart
<1> HIDE DEF S
<1>4. left \in Seq(X \ S) /\ Apart(left, {})
  BY <1>2, <1>3, WithoutIn, WithoutApart
<1> HIDE DEF X, left
<1>5. IsList(left) /\ ToSet(left) \subseteq X \ S
  BY <1>4, ListOf
<1>6. QED
  BY <1>1, <1>2, <1>4, <1>5 DEF Saveds

(* The ends of a set of positions. *)
LEMMA Ends ==
    ASSUME NEW n \in Nat, NEW S, S \subseteq 0..n, S # {}
    PROVE  /\ Min(S) \in S /\ Max(S) \in S /\ Min(S) <= Max(S)
           /\ \A k \in S : k <= Max(S)
<1>1. \E a \in S : \A k \in S : a <= k
  <2>1. S \subseteq Nat
    OBVIOUS
  <2>2. QED
    BY <2>1, Least
<1>2. \E b \in S : \A k \in S : k <= b
  <2> DEFINE D == {m \in Nat : \E k \in S : m = n - k}
  <2>1. D \subseteq Nat /\ D # {}
    <3>1. PICK k \in S : TRUE
      OBVIOUS
    <3>2. k \in 0..n /\ n - k \in Nat
      OBVIOUS
    <3>3. n - k \in D
      BY <3>2
    <3>4. QED
      BY <3>3
  <2>2. PICK d \in D : \A k \in D : d <= k
    <3> HIDE DEF D
    <3>1. QED
      BY <2>1, Least
  <2>3. PICK b \in S : d = n - b
    OBVIOUS
  <2>4. \A k \in S : n - k \in D
    BY SMT
  <2>5. QED
    BY <2>2, <2>3, <2>4
<1>3. Min(S) \in S /\ \A k \in S : Min(S) <= k
  BY <1>1 DEF Min
<1>4. Max(S) \in S /\ \A k \in S : k <= Max(S)
  BY <1>2 DEF Max
<1>5. QED
  BY <1>3, <1>4

(* A name that reads as something reads as something once it is trimmed. *)
LEMMA StripTwice ==
    ASSUME NEW X, NEW name \in Seq(X), Strip(name) # <<>>
    PROVE  Strip(Strip(name)) # <<>>
<1> DEFINE Solid(text) == {i \in DOMAIN text : text[i] # " "}
<1>1. \A text : Strip(text) = IF Solid(text) = {} THEN <<>>
                              ELSE SubSeq(text, Min(Solid(text)), Max(Solid(text)))
  BY DEF Strip
<1>2. Len(name) \in Nat /\ DOMAIN name = 1..Len(name) /\ \A i \in 1..Len(name) : name[i] \in X
  BY LenProperties, ElementOfSeq
<1>3. Solid(name) # {} /\ Solid(name) \subseteq 1..Len(name)
  BY <1>1, <1>2
<1> DEFINE a == Min(Solid(name))
           b == Max(Solid(name))
           cut == SubSeq(name, a, b)
<1>4. a \in Solid(name) /\ b \in Solid(name) /\ a <= b
  <2> DEFINE S == Solid(name)
             n == Len(name)
  <2>0. n \in Nat /\ S \subseteq 1..n /\ S # {}
    BY <1>2, <1>3
  <2> HIDE DEF S, n
  <2>1. S \subseteq 0..n
    BY <2>0
  <2>2. Min(S) \in S /\ Max(S) \in S /\ Min(S) <= Max(S)
    BY <2>0, <2>1, Ends
  <2>3. QED
    BY <2>2 DEF S
<1>5. name[a] # " " /\ a \in 1..Len(name) /\ b \in 1..Len(name)
  BY <1>3, <1>4
<1>6. Strip(name) = cut
  BY <1>1, <1>3
<1> HIDE DEF a, b
<1>0. a \in Int /\ b \in Int /\ b - a + 1 >= 1
  <2> DEFINE n == Len(name)
  <2>1. n \in Nat /\ a \in 1..n /\ b \in 1..n /\ a <= b
    BY <1>2, <1>4, <1>5
  <2> HIDE DEF n, Solid, cut
  <2>2. a \in Int /\ b \in Int /\ a <= b
    BY <2>1
  <2>3. QED
    BY <2>2
<1>7. cut \in Seq(X) /\ Len(cut) = b - a + 1 /\ cut[1] = name[a]
  <2>1. a \in Int /\ b \in Int /\ \A i \in a..b : name[i] \in X
    <3> DEFINE n == Len(name)
    <3>1. n \in Nat /\ a \in 1..n /\ b \in 1..n /\ \A i \in 1..n : name[i] \in X
      BY <1>2, <1>5
    <3> HIDE DEF n
    <3>2. QED
      BY <3>1
  <2>2. /\ cut \in Seq(X) /\ Len(cut) = IF a <= b THEN b - a + 1 ELSE 0
        /\ \A i \in 1..(b - a + 1) : cut[i] = name[a + i - 1]
    BY <2>1, SubSeqProperties
  <2>3. 1 \in 1..(b - a + 1) /\ a + 1 - 1 = a
    BY <1>0
  <2>4. QED
    BY <1>4, <2>2, <2>3
<1>8. 1 \in DOMAIN cut /\ DOMAIN cut = 1..Len(cut) /\ Len(cut) \in Nat
  <2>1. Len(cut) \in Nat /\ DOMAIN cut = 1..Len(cut)
    <3> HIDE DEF cut
    <3>1. QED
      BY <1>7, LenProperties
  <2> DEFINE n == Len(cut)
  <2>2. n \in Nat /\ n >= 1
    BY <1>0, <1>7, <2>1
  <2> HIDE DEF n
  <2>3. 1 \in 1..n
    BY <2>2
  <2>4. QED
    BY <2>1, <2>3 DEF n
<1> HIDE DEF cut
<1>9. 1 \in Solid(cut)
  BY <1>5, <1>7, <1>8
<1> DEFINE S == Solid(cut)
           n == Len(cut)
<1>10. S # {} /\ S \subseteq 1..n /\ n \in Nat
  BY <1>8, <1>9
<1>11. Strip(cut) = SubSeq(cut, Min(S), Max(S))
  BY <1>1, <1>9
<1> HIDE DEF S, n
<1>12. Min(S) \in 1..n /\ Max(S) \in 1..n /\ Min(S) <= Max(S)
  <2>0. S \subseteq 0..n
    BY <1>10
  <2>1. Min(S) \in S /\ Max(S) \in S /\ Min(S) <= Max(S)
    BY <1>10, <2>0, Ends
  <2>2. QED
    BY <1>10, <2>1
<1> DEFINE c == Min(S)
           d == Max(S)
<1>13. c \in Int /\ d \in Int /\ c <= d /\ \A i \in c..d : cut[i] \in X
  <2>1. \A i \in 1..n : cut[i] \in X
    BY <1>7, ElementOfSeq, LenProperties DEF n
  <2>2. QED
    BY <1>10, <1>12, <2>1
<1> HIDE DEF c, d
<1>14. SubSeq(cut, c, d) \in Seq(X) /\ Len(SubSeq(cut, c, d)) = d - c + 1
  BY <1>13, SubSeqProperties
<1>15. SubSeq(cut, c, d) # <<>>
  <2> DEFINE t == SubSeq(cut, c, d)
  <2>1. d - c + 1 # 0
    BY <1>13
  <2>2. Len(t) # 0
    BY <1>14, <2>1
  <2> HIDE DEF t
  <2>3. t # <<>>
    BY <2>2, EmptySeq
  <2>4. QED
    BY <2>3 DEF t
<1>16. QED
  BY <1>6, <1>11, <1>15 DEF c, d

-----------------------------------------------------------------------------
(* What is held, and what is stored of it.                                 *)

(* The fields of the bar hold a filter, and what is applied can be read. *)
Entered == Shaped(bar.terms) /\ Readable(applied)

(* The lists, and the settings they would be read from. *)
Listed ==
    /\ lists = [recent |-> lists.recent, saved |-> lists.saved]
    /\ store = [recent |-> store.recent, saved |-> store.saved]
    /\ Recents(lists.recent) /\ Saveds(lists.saved)
    /\ ReadRecent(store.recent) = lists.recent /\ ReadSaved(store.saved) = lists.saved

(* The dialog's own copy, and the row that is chosen in it. *)
Chosen ==
    /\ dialog = [open |-> dialog.open, saved |-> dialog.saved, row |-> dialog.row]
    /\ Saveds(dialog.saved) /\ dialog.row \in 0..Len(dialog.saved)

HeldInv == BarInv /\ Entered /\ Listed /\ Chosen

LEMMA NothingIsReadable == Readable(NoFilter)
<1>1. NoFilter = [field \in DOMAIN NoFilter |-> NoFilter[field]]
  BY DEF NoFilter
<1>2. /\ NoFilter.process_exclude \in BOOLEAN /\ NoFilter.subsystem_exclude \in BOOLEAN
      /\ ~NoFilter.regex /\ NoFilter.search = <<>>
  BY DEF NoFilter
<1>3. <<>> \in Seq(STRING)
  BY EmptySeq
<1>4. QED
  BY <1>1, <1>2, <1>3 DEF Readable, Shaped, Compiles

LEMMA CurrentIsReadable ==
    ASSUME NEW b, Shaped(b.terms), Valid(b)
    PROVE  Readable(Current(b))
<1> DEFINE f == b.terms
<1>1. /\ f = [field \in DOMAIN NoFilter |-> f[field]]
      /\ f.process_exclude \in BOOLEAN /\ f.subsystem_exclude \in BOOLEAN
      /\ Compiles(f.search, f.regex) /\ f.search \in Seq(STRING)
  BY DEF Shaped, Valid
<1> HIDE DEF f
<1>2. Current(b) = [f EXCEPT !.process = Strip(@), !.subsystem = Strip(@)]
  BY DEF Current, f
<1>3. DOMAIN NoFilter = {"minimum_level", "process", "subsystem", "search", "regex",
                         "process_exclude", "subsystem_exclude"}
  BY DEF NoFilter
<1> DEFINE g == Current(b)
<1>4. /\ g = [field \in DOMAIN NoFilter |-> g[field]]
      /\ g.search = f.search /\ g.regex = f.regex
      /\ g.process_exclude = f.process_exclude /\ g.subsystem_exclude = f.subsystem_exclude
  BY <1>1, <1>2, <1>3
<1> HIDE DEF g
<1>5. QED
  BY <1>1, <1>4 DEF Readable, Shaped, g

LEMMA ShapedField ==
    ASSUME NEW f, Shaped(f), NEW field \in DOMAIN NoFilter, NEW value,
           field \in {"process_exclude", "subsystem_exclude"} => value \in BOOLEAN,
           field = "search" => value \in Seq(STRING)
    PROVE  Shaped([f EXCEPT ![field] = value])
<1>1. DOMAIN NoFilter = {"minimum_level", "process", "subsystem", "search", "regex",
                         "process_exclude", "subsystem_exclude"}
  BY DEF NoFilter
<1> DEFINE g == [f EXCEPT ![field] = value]
<1>2. DOMAIN f = DOMAIN NoFilter
  BY DEF Shaped
<1>3. DOMAIN g = DOMAIN f /\ g = [x \in DOMAIN f |-> g[x]]
  OBVIOUS
<1>4. \A x \in DOMAIN f : g[x] = IF x = field THEN value ELSE f[x]
  OBVIOUS
<1>5. g.process_exclude \in BOOLEAN /\ g.subsystem_exclude \in BOOLEAN /\ g.search \in Seq(STRING)
  <2>1. f.process_exclude \in BOOLEAN /\ f.subsystem_exclude \in BOOLEAN /\ f.search \in Seq(STRING)
    BY DEF Shaped
  <2> HIDE DEF g
  <2>2. g.process_exclude \in BOOLEAN
    BY <1>1, <1>2, <1>4, <2>1
  <2>3. g.subsystem_exclude \in BOOLEAN
    BY <1>1, <1>2, <1>4, <2>1
  <2>4. g.search \in Seq(STRING)
    BY <1>1, <1>2, <1>4, <2>1
  <2>5. QED
    BY <2>2, <2>3, <2>4
<1> HIDE DEF g
<1>6. QED
  BY <1>2, <1>3, <1>5 DEF Shaped, g

LEMMA NoSaved == Saveds(<<>>) /\ Len(<<>>) = 0
<1>1. <<>> \in Seq(ToSet(<<>>)) /\ ToSet(<<>>) = {} /\ DOMAIN <<>> = {}
  BY EmptySeq DEF ToSet
<1>2. Apart(<<>>, {})
  BY <1>1 DEF Apart
<1>3. QED
  BY <1>1, <1>2 DEF Saveds, IsList

LEMMA InitHeld == Init => HeldInv
<1> SUFFICES ASSUME Init PROVE HeldInv
  OBVIOUS
<1>1. /\ store = [recent |-> OldRecent, saved |-> OldSaved]
      /\ lists = [recent |-> ReadRecent(store.recent), saved |-> ReadSaved(store.saved)]
      /\ bar = EmptyBar /\ applied = NoFilter /\ dialog = NoDialog
  BY DEF Init, ReadLists
<1>2. Entered
  BY <1>1, NothingIsReadable DEF Entered, EmptyBar, Readable
<1>3. IsList(OldRecent) /\ IsList(OldSaved) /\ Apart(OldSaved, {})
  BY OldAssumption DEF IsList, Apart
<1>0. /\ \A line \in ToSet(OldRecent) : Texts(line)
      /\ \A line \in ToSet(OldSaved) : Texts(line.filter)
  BY OldAssumption DEF Texts
<1>4. Recents(ReadRecent(OldRecent)) /\ Saveds(ReadSaved(OldSaved))
  BY <1>0, <1>3, RecentsRead, SavedsRead
<1>5. Listed
  BY <1>1, <1>4 DEF Listed
<1>6. Chosen
  BY <1>1, NoSaved DEF Chosen, NoDialog
<1>7. QED
  BY <1>2, <1>5, <1>6, InitBar DEF HeldInv

(* A filter that is set, in whichever way, has the shape of one. *)
LEMMA EditEnters == ASSUME HeldInv, Edit PROVE Entered'
<1>1. PICK field \in {"minimum_level", "process", "search", "regex", "process_exclude"} :
        \E value \in {f[field] : f \in Fields} :
           bar' = [bar EXCEPT !.terms[field] = value]
  BY DEF Edit, Changed
<1>2. PICK value \in {f[field] : f \in Fields} : bar' = [bar EXCEPT !.terms[field] = value]
  BY <1>1
<1>3. field \in {"process_exclude", "subsystem_exclude"} => value \in BOOLEAN
  <2>1. PICK f \in Fields : value = f[field]
    BY <1>2
  <2>2. f.process_exclude \in BOOLEAN
    BY DEF Fields
  <2>3. QED
    BY <1>1, <2>1, <2>2
<1>0. field = "search" => value \in Seq(STRING)
  <2>1. PICK f \in Fields : value = f[field]
    BY <1>2
  <2>2. f.search \in Searches
    BY DEF Fields
  <2>3. QED
    BY <2>1, <2>2, TextsAssumption
<1>4. field \in DOMAIN NoFilter
  BY <1>1 DEF NoFilter
<1>5. bar'.terms = [bar.terms EXCEPT ![field] = value]
  BY <1>2 DEF HeldInv, BarInv, ShapeInv
<1>6. Shaped(bar'.terms)
  <2>1. Shaped(bar.terms)
    BY DEF HeldInv, Entered
  <2>2. Shaped([bar.terms EXCEPT ![field] = value])
    BY <1>0, <1>3, <1>4, <2>1, ShapedField
  <2>3. QED
    BY <1>5, <2>2
<1>7. applied' = applied
  BY DEF Edit
<1>8. QED
  BY <1>6, <1>7 DEF HeldInv, Entered

LEMMA SetEnters ==
    ASSUME HeldInv, NEW wanted, Shaped(wanted), SetFilter(wanted)
    PROVE  Entered'
<1>1. bar' = [bar EXCEPT !.terms = wanted] /\ applied' = applied
  BY DEF SetFilter, Changed
<1>2. bar'.terms = wanted
  BY <1>1 DEF HeldInv, BarInv, ShapeInv
<1>3. QED
  BY <1>1, <1>2 DEF HeldInv, Entered

LEMMA ChoosingEnters == ASSUME HeldInv, Choosing PROVE Entered'
<1>1. CASE \E i \in DOMAIN lists.recent : SetFilter(lists.recent[i])
  <2>1. PICK i \in DOMAIN lists.recent : SetFilter(lists.recent[i])
    BY <1>1
  <2>2. Shaped(lists.recent[i])
    BY ListIs DEF HeldInv, Listed, Recents, Readable
  <2>3. QED
    BY <2>1, <2>2, SetEnters
<1>2. CASE \E i \in DOMAIN lists.saved : SetFilter(lists.saved[i].terms)
  <2>1. PICK i \in DOMAIN lists.saved : SetFilter(lists.saved[i].terms)
    BY <1>2
  <2>2. Shaped(lists.saved[i].terms)
    BY ListIs DEF HeldInv, Listed, Saveds, Entry, Readable
  <2>3. QED
    BY <2>1, <2>2, SetEnters
<1>3. CASE \E process \in Processes \ {<<>>} : FilterByProcess(process)
  <2>1. PICK process : FilterByProcess(process)
    BY <1>3
  <2>2. bar' = [bar EXCEPT !.terms.process = process] /\ applied' = applied
    BY <2>1 DEF FilterByProcess, Changed
  <2>3. bar'.terms = [bar.terms EXCEPT !["process"] = process]
    BY <2>2 DEF HeldInv, BarInv, ShapeInv
  <2>4. Shaped([bar.terms EXCEPT !["process"] = process])
    <3>1. Shaped(bar.terms) /\ "process" \in DOMAIN NoFilter
          /\ "process" \notin {"process_exclude", "subsystem_exclude"} /\ "process" # "search"
      BY DEF HeldInv, Entered, NoFilter
    <3>2. QED
      BY <3>1, ShapedField
  <2>5. QED
    BY <2>2, <2>3, <2>4 DEF HeldInv, Entered
<1>4. CASE Clear
  BY <1>4, NothingIsReadable, SetEnters DEF Clear, Readable
<1>5. QED
  BY <1>1, <1>2, <1>3, <1>4 DEF Choosing

(* What is applied is what the bar says once it can be read. *)
LEMMA AppliedIsRead ==
    ASSUME HeldInv, bar' = bar,
           applied' = (IF Valid(bar) THEN Current(bar) ELSE applied)
    PROVE  Entered'
<1>1. Valid(bar) => Readable(Current(bar))
  BY CurrentIsReadable DEF HeldInv, Entered
<1>2. QED
  BY <1>1 DEF HeldInv, Entered

(* What is remembered is stored as it is held. *)
LEMMA RememberedIsListed ==
    ASSUME HeldInv, Remembered
    PROVE  Listed'
<1> DEFINE recent == Remember(lists.recent, applied, RecentKept)
<1>1. Recents(recent) /\ ReadRecent(recent) = recent
  BY RememberKeeps, RecentIsRead DEF HeldInv, Entered, Listed
<1>2. CASE recent = lists.recent
  BY <1>2 DEF Remembered, HeldInv, Listed
<1>3. CASE recent # lists.recent
  <2>1. lists' = [lists EXCEPT !.recent = recent] /\ store' = [store EXCEPT !.recent = recent]
    BY <1>3 DEF Remembered
  <2> HIDE DEF recent
  <2>2. /\ lists' = [recent |-> recent, saved |-> lists.saved]
        /\ store' = [recent |-> recent, saved |-> store.saved]
    BY <2>1 DEF HeldInv, Listed
  <2>3. QED
    BY <1>1, <2>2 DEF HeldInv, Listed
<1>4. QED
  BY <1>2, <1>3

LEMMA SavedIsListed ==
    ASSUME HeldInv, NEW saved, Saveds(saved), SetSaved(saved)
    PROVE  Listed'
<1>1. ReadSaved(AsStored(saved)) = saved
  BY SavedIsRead
<1>2. /\ lists' = [recent |-> lists.recent, saved |-> saved]
      /\ store' = [recent |-> store.recent, saved |-> AsStored(saved)]
  BY DEF SetSaved, HeldInv, Listed
<1>3. QED
  BY <1>1, <1>2 DEF HeldInv, Listed

LEMMA NamedIsListed ==
    ASSUME HeldInv, NEW name \in Names, NameCurrentFilter(name)
    PROVE  Listed'
<1> DEFINE x == [name |-> Strip(name), terms |-> Current(bar)]
<1>1. /\ Valid(bar) /\ Strip(name) # <<>>
      /\ SetSaved(Save(lists.saved, x))
  BY DEF NameCurrentFilter
<1>2. name \in Seq(STRING)
  BY TextsAssumption
<1>3. Strip(Strip(name)) # <<>> /\ Readable(Current(bar))
  BY <1>1, <1>2, StripTwice, CurrentIsReadable DEF HeldInv, Entered
<1>4. Entry(x)
  BY <1>3 DEF Entry
<1> HIDE DEF x
<1>5. Saveds(Save(lists.saved, x))
  BY <1>4, SaveKeeps DEF HeldInv, Listed
<1>6. QED
  BY <1>1, <1>5, SavedIsListed

(* The dialog's list, filled again. *)
LEMMA FilledKeeps ==
    ASSUME HeldInv, NEW saved, Saveds(saved), dialog' = Filled(saved)
    PROVE  Chosen'
<1>1. Len(saved) \in Nat /\ dialog.row \in Nat
  <2>1. Len(saved) \in Nat
    BY ListIs DEF Saveds
  <2>2. dialog.row \in Nat
    BY DEF HeldInv, Chosen
  <2>3. QED
    BY <2>1, <2>2
<1>2. dialog' = [open |-> dialog.open, saved |-> saved,
                 row |-> IF dialog.row <= Len(saved) THEN dialog.row ELSE Len(saved)]
  BY DEF Filled, HeldInv, Chosen
<1> DEFINE row == IF dialog.row <= Len(saved) THEN dialog.row ELSE Len(saved)
<1>3. row \in 0..Len(saved)
  BY <1>1
<1> HIDE DEF row
<1>4. dialog' = [open |-> dialog.open, saved |-> saved, row |-> row]
  BY <1>2 DEF row
<1>5. QED
  BY <1>3, <1>4 DEF Chosen

(* The row that is chosen has an entry. *)
LEMMA RowIsThere ==
    ASSUME HeldInv, dialog.row # 0
    PROVE  Entry(dialog.saved[dialog.row])
<1>1. IsList(dialog.saved) /\ dialog.row \in 0..Len(dialog.saved)
  BY DEF HeldInv, Chosen, Saveds
<1>2. dialog.row \in DOMAIN dialog.saved
  <2>1. Len(dialog.saved) \in Nat /\ DOMAIN dialog.saved = 1..Len(dialog.saved)
    BY <1>1, ListIs
  <2>2. QED
    BY <1>1, <2>1
<1>3. QED
  BY <1>1, <1>2, ListIs DEF HeldInv, Chosen, Saveds

LEMMA RenamedIsChosen ==
    ASSUME HeldInv, NEW name \in Names, RenameSelected(name)
    PROVE  Chosen'
<1> DEFINE x == dialog.saved[dialog.row]
           left == Forget(dialog.saved, x.name)
           y == [x EXCEPT !.name = Strip(name)]
<1>1. /\ dialog.row # 0 /\ Strip(name) # <<>>
      /\ dialog' = Filled(Save(left, y))
  BY DEF RenameSelected
<1>2. Entry(x)
  BY <1>1, RowIsThere
<1>3. Strip(Strip(name)) # <<>>
  BY <1>1, TextsAssumption, StripTwice
<1>4. Saveds(left)
  BY ForgetKeeps DEF HeldInv, Chosen
<1> HIDE DEF x, left
<1>5. y = [name |-> Strip(name), terms |-> x.terms]
  BY <1>2 DEF Entry
<1>6. Entry(y)
  BY <1>2, <1>3, <1>5 DEF Entry
<1> HIDE DEF y
<1>7. Saveds(Save(left, y))
  BY <1>4, <1>6, SaveKeeps
<1>8. QED
  BY <1>1, <1>7, FilledKeeps

LEMMA RemovedIsChosen == ASSUME HeldInv, RemoveSelected PROVE Chosen'
<1> DEFINE left == Forget(dialog.saved, dialog.saved[dialog.row].name)
<1>1. Saveds(left)
  BY ForgetKeeps DEF HeldInv, Chosen
<1>2. dialog' = Filled(left)
  BY DEF RemoveSelected
<1> HIDE DEF left
<1>3. QED
  BY <1>1, <1>2, FilledKeeps

LEMMA OpenedIsChosen == ASSUME HeldInv, OpenDialog PROVE Chosen'
<1>1. dialog' = [open |-> TRUE, saved |-> lists.saved, row |-> 1]
  BY DEF OpenDialog
<1>2. lists.saved # <<>>
  BY DEF OpenDialog, HeldInv, BarInv, BarIsTrue, Menu
<1>3. Saveds(lists.saved)
  BY DEF HeldInv, Listed
<1>4. Len(lists.saved) \in Nat /\ Len(lists.saved) # 0
  <2>1. lists.saved \in Seq(ToSet(lists.saved))
    BY <1>3, ListIs DEF Saveds
  <2> DEFINE l == lists.saved
             X == ToSet(l)
  <2> HIDE DEF l, X
  <2>2. l \in Seq(X) /\ l # <<>>
    BY <1>2, <2>1 DEF l, X
  <2>3. Len(l) \in Nat /\ Len(l) # 0
    BY <2>2, EmptySeq, LenProperties
  <2>4. QED
    BY <2>3 DEF l
<1>5. 1 \in 0..Len(lists.saved)
  BY <1>4
<1>6. QED
  BY <1>1, <1>3, <1>5 DEF Chosen

LEMMA RowIsChosen == ASSUME HeldInv, Choose PROVE Chosen'
<1>1. PICK row \in DOMAIN dialog.saved : dialog' = [dialog EXCEPT !.row = row]
  BY DEF Choose
<1>2. row \in 0..Len(dialog.saved)
  BY ListIs DEF HeldInv, Chosen, Saveds
<1>3. dialog' = [open |-> dialog.open, saved |-> dialog.saved, row |-> row]
  BY <1>1 DEF HeldInv, Chosen
<1>4. QED
  BY <1>2, <1>3 DEF HeldInv, Chosen

(* A new start reads the lists that were held. *)
LEMMA RelaunchHolds == ASSUME HeldInv, Relaunch PROVE lists' = lists /\ Entered' /\ Listed' /\ Chosen'
<1>1. /\ lists' = [recent |-> ReadRecent(store.recent), saved |-> ReadSaved(store.saved)]
      /\ bar' = EmptyBar /\ applied' = NoFilter /\ dialog' = NoDialog /\ store' = store
  BY DEF Relaunch, ReadLists
<1>2. lists' = lists
  BY <1>1 DEF HeldInv, Listed
<1>3. Listed'
  BY <1>1, <1>2 DEF HeldInv, Listed
<1>4. Entered'
  BY <1>1, NothingIsReadable DEF Entered, EmptyBar, Readable
<1>5. Chosen'
  BY <1>1, NoSaved DEF Chosen, NoDialog
<1>6. QED
  BY <1>2, <1>3, <1>4, <1>5

LEMMA NextHeld == ASSUME HeldInv, [Next]_vars PROVE HeldInv'
<1>1. BarInv'
  BY NextBar DEF HeldInv
<1>2. ASSUME UNCHANGED <<lists, store>> PROVE Listed'
  BY <1>2 DEF HeldInv, Listed
<1>3. ASSUME UNCHANGED <<bar, applied>> PROVE Entered'
  BY <1>3 DEF HeldInv, Entered
<1>4. ASSUME UNCHANGED dialog PROVE Chosen'
  BY <1>4 DEF HeldInv, Chosen
<1>5. CASE ApplyFilter
  <2>1. bar' = bar /\ applied' = (IF Valid(bar) THEN Current(bar) ELSE applied)
    BY <1>5 DEF ApplyFilter
  <2>2. UNCHANGED <<lists, store, dialog>>
    BY <1>5 DEF ApplyFilter
  <2>3. QED
    BY <1>1, <1>2, <1>4, <2>1, <2>2, AppliedIsRead DEF HeldInv
<1>6. CASE ApplyHighlight
  BY <1>1, <1>2, <1>3, <1>4, <1>6 DEF HeldInv, ApplyHighlight
<1>7. CASE RememberFilter
  <2>1. Remembered /\ UNCHANGED <<bar, applied, dialog>>
    BY <1>7 DEF RememberFilter
  <2>2. QED
    BY <1>1, <1>3, <1>4, <2>1, RememberedIsListed DEF HeldInv
<1>8. CASE \E name \in Names : NameCurrentFilter(name)
  <2>1. PICK name \in Names : NameCurrentFilter(name)
    BY <1>8
  <2>2. UNCHANGED <<bar, applied, dialog>>
    BY <2>1 DEF NameCurrentFilter
  <2>3. QED
    BY <1>1, <1>3, <1>4, <2>1, <2>2, NamedIsListed DEF HeldInv
<1>9. CASE \E name \in Names : RenameSelected(name)
  <2>1. PICK name \in Names : RenameSelected(name)
    BY <1>9
  <2>2. UNCHANGED <<bar, applied, lists, store>>
    BY <2>1 DEF RenameSelected
  <2>3. QED
    BY <1>1, <1>2, <1>3, <2>1, <2>2, RenamedIsChosen DEF HeldInv
<1>10. CASE OpenDialog
  BY <1>1, <1>2, <1>3, <1>10, OpenedIsChosen DEF HeldInv, OpenDialog
<1>11. CASE RemoveSelected
  BY <1>1, <1>2, <1>3, <1>11, RemovedIsChosen DEF HeldInv, RemoveSelected
<1>12. CASE Choose
  BY <1>1, <1>2, <1>3, <1>12, RowIsChosen DEF HeldInv, Choose
<1>13. CASE CloseDialog
  <2>1. SetSaved(dialog.saved) /\ UNCHANGED <<bar, applied>> /\ dialog' = NoDialog
    BY <1>13 DEF CloseDialog
  <2>2. Listed'
    BY <2>1, SavedIsListed DEF HeldInv, Chosen
  <2>3. Chosen'
    BY <2>1, NoSaved DEF Chosen, NoDialog
  <2>4. QED
    BY <1>1, <1>3, <2>1, <2>2, <2>3 DEF HeldInv
<1>14. CASE Choosing
  <2>1. UNCHANGED <<lists, store, dialog>>
    BY <1>14 DEF Choosing, SetFilter, FilterByProcess, Clear
  <2>2. QED
    BY <1>1, <1>2, <1>4, <1>14, <2>1, ChoosingEnters DEF HeldInv
<1>15. CASE Edit
  BY <1>1, <1>2, <1>4, <1>15, EditEnters DEF HeldInv, Edit
<1>16. CASE EditHighlight
  <2>1. UNCHANGED <<applied, lists, store, dialog>>
    BY <1>16 DEF EditHighlight
  <2>2. PICK mark : bar' = [bar EXCEPT !.mark = mark]
    BY <1>16 DEF EditHighlight
  <2>3. bar'.terms = bar.terms
    BY <2>2 DEF HeldInv, BarInv, ShapeInv
  <2>4. Entered'
    BY <2>1, <2>3 DEF HeldInv, Entered
  <2>5. QED
    BY <1>1, <1>2, <1>4, <2>1, <2>4 DEF HeldInv
<1>17. CASE CopyFilter
  BY <1>1, <1>2, <1>3, <1>4, <1>17 DEF HeldInv, CopyFilter
<1>18. CASE OpenDoor
  <2>1. bar' = bar /\ applied' = (IF Valid(bar) THEN Current(bar) ELSE applied)
    BY <1>18 DEF OpenDoor
  <2>2. UNCHANGED <<lists, store, dialog>>
    BY <1>18 DEF OpenDoor
  <2>3. QED
    BY <1>1, <1>2, <1>4, <2>1, <2>2, AppliedIsRead DEF HeldInv
<1>19. CASE CloseDoor
  <2>1. bar' = EmptyBar /\ applied' = NoFilter /\ UNCHANGED <<lists, store, dialog>>
    BY <1>19 DEF CloseDoor
  <2>2. Entered'
    BY <2>1, NothingIsReadable DEF Entered, EmptyBar, Readable
  <2>3. QED
    BY <1>1, <1>2, <1>4, <2>1, <2>2 DEF HeldInv
<1>20. CASE Relaunch
  BY <1>1, <1>20, RelaunchHolds DEF HeldInv
<1>21. CASE UNCHANGED vars
  BY <1>1, <1>2, <1>3, <1>4, <1>21 DEF HeldInv, vars
<1>22. QED
  BY <1>5, <1>6, <1>7, <1>8, <1>9, <1>10, <1>11, <1>12, <1>13, <1>14, <1>15, <1>16,
     <1>17, <1>18, <1>19, <1>20, <1>21
     DEF Next, Timers, Saving

(* Whatever was saved, renamed, removed or remembered, by however many runs   *)
(* of the program, what the settings hold is read back as the lists that are  *)
(* offered, and no list offers two saved filters under one name (_set_saved,  *)
(* _remember_filter, read_recent, read_saved, save).                          *)
THEOREM ListsAreKept == Spec => []StoredIsHeld
<1>1. Init => HeldInv
  BY InitHeld
<1>2. HeldInv /\ [Next]_vars => HeldInv'
  BY NextHeld
<1>3. HeldInv => StoredIsHeld
  BY DEF HeldInv, Listed, Chosen, Saveds, Apart, StoredIsHeld
<1>4. QED
  BY <1>1, <1>2, <1>3, PTL DEF Spec

(* The list of recent filters changes only for one that stood in the bar      *)
(* until it was applied, never for a prefix of one being typed, and a start   *)
(* does not change it (_remember_filter).                                     *)
THEOREM RememberedIsWhatStood == Spec => RememberedStood
<1>1. Init => HeldInv
  BY InitHeld
<1>2. HeldInv /\ [Next]_vars => HeldInv'
  BY NextHeld
<1>3. ASSUME HeldInv, [Next]_vars, lists'.recent # lists.recent, Valid(bar)
      PROVE  Head(lists'.recent) = Current(bar)
  <2>1. lists' # lists
    BY <1>3
  <2>2. CASE RememberFilter
    <3> DEFINE recent == Remember(lists.recent, applied, RecentKept)
    <3>1. ~timers.debounce /\ Remembered
      BY <2>2 DEF RememberFilter
    <3>2. applied = Current(bar)
      BY <1>3, <3>1 DEF HeldInv, BarInv, BarIsTrue
    <3>3. lists' = [lists EXCEPT !.recent = recent] /\ recent # lists.recent
      BY <2>1, <3>1 DEF Remembered
    <3>4. Head(recent) = applied
      BY <1>3, <3>3, RememberKeeps DEF HeldInv, Entered, Listed
    <3> HIDE DEF recent
    <3>5. lists'.recent = recent
      BY <1>3, <3>3 DEF HeldInv, Listed
    <3>6. QED
      BY <3>2, <3>4, <3>5
  <2>3. ASSUME NEW saved, SetSaved(saved) PROVE FALSE
    <3>1. lists' = [lists EXCEPT !.saved = saved]
      BY <2>3 DEF SetSaved
    <3>2. lists'.recent = lists.recent
      BY <1>3, <3>1 DEF HeldInv, Listed
    <3>3. QED
      BY <1>3, <3>2
  <2>4. CASE \E name \in Names : NameCurrentFilter(name)
    BY <2>3, <2>4 DEF NameCurrentFilter
  <2>5. CASE CloseDialog
    BY <2>3, <2>5 DEF CloseDialog
  <2>6. CASE Relaunch
    BY <1>3, <2>1, <2>6, RelaunchHolds
  <2>7. CASE UNCHANGED lists
    BY <2>1, <2>7
  <2>8. QED
    BY <1>3, <2>2, <2>4, <2>5, <2>6, <2>7
       DEF Next, Timers, Saving, Choosing, ApplyFilter, ApplyHighlight, RenameSelected,
           OpenDialog, RemoveSelected, Choose, SetFilter, FilterByProcess, Clear, Edit,
           EditHighlight, CopyFilter, OpenDoor, CloseDoor, vars
<1>4. HeldInv /\ [Next]_vars =>
        [lists'.recent # lists.recent /\ Valid(bar) => Head(lists'.recent) = Current(bar)]_<<lists>>
  BY <1>3
<1>5. QED
  BY <1>1, <1>2, <1>4, PTL DEF Spec, RememberedStood

-----------------------------------------------------------------------------
(* The washes.                                                             *)

(* What a function makes of each step from what it made of the one before:   *)
(* there is such a function.                                                 *)
Rules(S, n) == [S \X (1..n) -> S]
Follows(f, g, S, base, n) ==
    f \in [0..n -> S] /\ f[0] = base /\ \A i \in 1..n : f[i] = g[<<f[i - 1], i>>]

LEMMA Stepwise ==
    ASSUME NEW S, NEW base \in S, NEW n \in Nat, NEW g \in Rules(S, n)
    PROVE  \E f : Follows(f, g, S, base, n)
<1>0. g \in [S \X (1..n) -> S]
  BY DEF Rules
<1> DEFINE Upto(k) == \E f \in [0..k -> S] :
                          f[0] = base /\ \A i \in 1..k : f[i] = g[<<f[i - 1], i>>]
           T == {k \in Nat : k <= n => Upto(k)}
<1>1. 0 \in T
  <2> DEFINE f == [i \in 0..0 |-> base]
  <2>1. f \in [0..0 -> S] /\ f[0] = base /\ \A i \in 1..0 : f[i] = g[<<f[i - 1], i>>]
    OBVIOUS
  <2>2. QED
    BY <2>1
<1>2. ASSUME NEW k \in Nat, k \in T PROVE k + 1 \in T
  <2> SUFFICES ASSUME k + 1 <= n PROVE Upto(k + 1)
    OBVIOUS
  <2>1. PICK f \in [0..k -> S] : f[0] = base /\ \A i \in 1..k : f[i] = g[<<f[i - 1], i>>]
    BY <1>2
  <2> DEFINE h == [i \in 0..(k + 1) |-> IF i = k + 1 THEN g[<<f[k], k + 1>>] ELSE f[i]]
  <2>2. g[<<f[k], k + 1>>] \in S
    <3>1. f[k] \in S /\ k + 1 \in 1..n
      BY <2>1
    <3>2. QED
      BY <1>0, <3>1
  <2>3. h \in [0..(k + 1) -> S] /\ h[0] = base
    BY <2>1, <2>2
  <2>4. ASSUME NEW i \in 1..(k + 1) PROVE h[i] = g[<<h[i - 1], i>>]
    <3>1. CASE i = k + 1
      <4>1. h[i] = g[<<f[k], k + 1>>] /\ h[i - 1] = f[k]
        BY <3>1
      <4>2. QED
        BY <3>1, <4>1
    <3>2. CASE i # k + 1
      <4>1. i \in 1..k /\ i - 1 \in 0..k /\ i - 1 # k + 1
        BY <3>2
      <4>2. h[i] = f[i] /\ h[i - 1] = f[i - 1]
        BY <3>2, <4>1
      <4>3. QED
        BY <2>1, <4>1, <4>2
    <3>3. QED
      BY <3>1, <3>2
  <2> HIDE DEF h
  <2>5. QED
    BY <2>3, <2>4
<1> HIDE DEF T
<1>3. Nat \subseteq T
  BY <1>1, <1>2, Induct
<1>4. Upto(n)
  <2>1. n \in T
    BY <1>3
  <2> HIDE DEF Upto
  <2>2. QED
    BY <2>1 DEF T
<1>5. QED
  BY <1>4 DEF Follows

(* Stretches of a text, of one place at least. *)
Stretch == {x \in Nat \X Nat : x[1] < x[2]}
Over(x, i) == x[1] <= i /\ i < x[2]
Covers(spans, i) == \E k \in DOMAIN spans : Over(spans[k], i)

(* Each after the one before; each starting no earlier than those before. *)
Tidy(spans) ==
    spans \in Seq(Stretch) /\ \A k \in 2..Len(spans) : spans[k - 1][2] <= spans[k][1]
Ordered(spans) ==
    /\ spans \in Seq(Stretch)
    /\ \A i, j \in DOMAIN spans : i <= j => spans[i][1] <= spans[j][1]

LEMMA StretchIs ==
    /\ \A x \in Stretch : x = <<x[1], x[2]>> /\ x[1] \in Nat /\ x[2] \in Nat /\ x[1] < x[2]
    /\ \A a, b \in Nat : a < b => <<a, b>> \in Stretch
  BY DEF Stretch

LEMMA NoSpans == Tidy(<<>>) /\ Ordered(<<>>) /\ \A i : ~Covers(<<>>, i)
<1>1. <<>> \in Seq(Stretch) /\ Len(<<>>) = 0 /\ DOMAIN <<>> = {}
  BY EmptySeq
<1>2. QED
  BY <1>1 DEF Tidy, Ordered, Covers

(* A stretch that starts where the last has ended. *)
LEMMA TidyAppend ==
    ASSUME NEW spans, Tidy(spans), NEW x \in Stretch,
           spans # <<>> => Last(spans)[2] <= x[1]
    PROVE  /\ Tidy(Append(spans, x))
           /\ \A i : Covers(Append(spans, x), i) <=> Covers(spans, i) \/ Over(x, i)
           /\ Append(spans, x) # <<>> /\ Last(Append(spans, x)) = x
<1> DEFINE n == Len(spans)
           more == Append(spans, x)
<1>1. /\ spans \in Seq(Stretch) /\ n \in Nat /\ DOMAIN spans = 1..n
      /\ more \in Seq(Stretch) /\ Len(more) = n + 1 /\ DOMAIN more = 1..(n + 1)
      /\ \A k \in 1..n : more[k] = spans[k]
      /\ more[n + 1] = x
  BY AppendProperties, LenProperties DEF Tidy
<1>2. more # <<>> /\ Last(more) = x
  <2> HIDE DEF more, n
  <2>1. n + 1 # 0
    BY <1>1
  <2>2. QED
    BY <1>1, <2>1, EmptySeq DEF Last
<1>3. n # 0 => spans[n][2] <= x[1]
  <2>1. n # 0 => spans # <<>>
    BY EmptySeq
  <2>2. QED
    BY <2>1 DEF Last
<1> HIDE DEF more
<1>4. \A k \in 2..n : spans[k - 1][2] <= spans[k][1]
  BY DEF Tidy
<1> HIDE DEF n
<1>5. ASSUME NEW k \in 2..(n + 1) PROVE more[k - 1][2] <= more[k][1]
  <2>1. CASE k = n + 1
    <3>1. n # 0 /\ n \in 1..n /\ k - 1 = n
      BY <1>1, <2>1
    <3>2. more[k - 1] = spans[n] /\ more[k] = x
      BY <1>1, <2>1, <3>1
    <3>3. QED
      BY <1>3, <3>1, <3>2
  <2>2. CASE k # n + 1
    <3>1. k \in 2..n /\ k \in 1..n /\ k - 1 \in 1..n
      BY <1>1, <2>2
    <3>2. QED
      BY <1>1, <1>4, <3>1
  <2>3. QED
    BY <2>1, <2>2
<1>6. Tidy(more)
  BY <1>1, <1>5 DEF Tidy
<1>7. ASSUME NEW i PROVE Covers(more, i) <=> Covers(spans, i) \/ Over(x, i)
  <2>1. \A k \in 1..(n + 1) : k \in 1..n \/ k = n + 1
    BY <1>1
  <2>2. 1..n \subseteq 1..(n + 1) /\ n + 1 \in 1..(n + 1)
    BY <1>1
  <2>3. QED
    BY <1>1, <2>1, <2>2 DEF Covers
<1>8. QED
  BY <1>2, <1>6, <1>7 DEF more

(* _spans(): from the left, each after the one before. *)
LEMMA SpansAreTidy ==
    ASSUME NEW text \in Seq(STRING), NEW regex, NEW message \in Seq(STRING)
    PROVE  Tidy(Spans(text, regex, message))
<1> DEFINE star == IsStar(text, regex)
           m == Casefold(message)
           needle == Casefold(text)
           run(i) == {j \in i..Len(m) : \A k \in i..j : m[k] = needle[1]}
           here(i) == IF star THEN Cardinality(run(i))
                      ELSE IF OccursAt(needle, m, i) THEN Len(needle) ELSE 0
           n == Len(m)
           Next1(s, i) == IF here(i) = 0 \/ (s # <<>> /\ i < Last(s)[2])
                          THEN s ELSE Append(s, <<i, i + here(i)>>)
           S == {s \in Seq(Stretch) : Tidy(s)}
<1>1. n \in Nat /\ Len(needle) \in Nat
  <2>1. ASSUME NEW t \in Seq(STRING) PROVE Len(Casefold(t)) \in Nat
    <3>1. Len(t) \in Nat /\ DOMAIN t = 1..Len(t)
      BY LenProperties
    <3> DEFINE l == Len(t)
    <3>2. Casefold(t) = [i \in 1..l |-> Casefold(t)[i]]
      BY <3>1 DEF Casefold
    <3> DEFINE c == Casefold(t)
    <3> HIDE DEF l, c
    <3>3. l \in Nat /\ c = [i \in 1..l |-> c[i]]
      BY <3>1, <3>2 DEF l, c
    <3>4. Len(c) = l
      BY <3>3
    <3>5. QED
      BY <3>1, <3>4 DEF l, c
  <2>2. QED
    BY <2>1
<1>2. \A i \in 1..n : here(i) \in Nat
  <2>1. ASSUME NEW i \in 1..n PROVE Cardinality(run(i)) \in Nat
    <3>1. IsFiniteSet(i..n)
      BY <1>1, FS_Interval
    <3>2. run(i) \subseteq i..n
      OBVIOUS
    <3> HIDE DEF run
    <3>3. QED
      BY <3>1, <3>2, FS_Subset, FS_CardinalityType
  <2> HIDE DEF run
  <2>2. QED
    BY <1>1, <2>1
<1> HIDE DEF here, star, needle, m
<1>3. ASSUME NEW s \in S, NEW i \in 1..n PROVE Next1(s, i) \in S
  <2>1. CASE here(i) = 0 \/ (s # <<>> /\ i < Last(s)[2])
    BY <2>1
  <2>2. CASE ~(here(i) = 0 \/ (s # <<>> /\ i < Last(s)[2]))
    <3> DEFINE x == <<i, i + here(i)>>
               e == i + here(i)
    <3>1. i \in Nat /\ e \in Nat /\ i < e
      BY <1>1, <1>2, <2>2
    <3>2. x \in Stretch /\ x[1] = i
      BY <3>1, StretchIs
    <3>3. s # <<>> => Last(s)[2] <= x[1]
      <4>1. ASSUME s # <<>> PROVE Last(s) \in Stretch
        <5>1. Len(s) \in Nat /\ Len(s) # 0 /\ \A k \in 1..Len(s) : s[k] \in Stretch
          BY <4>1, EmptySeq, LenProperties, ElementOfSeq
        <5> DEFINE l == Len(s)
        <5> HIDE DEF l
        <5>2. l \in 1..l
          BY <5>1 DEF l
        <5>3. s[l] \in Stretch
          BY <5>1, <5>2 DEF l
        <5>4. QED
          BY <5>3 DEF Last, l
      <4> DEFINE z == Last(s)[2]
      <4>2. s # <<>> => z \in Nat /\ ~(i < z)
        BY <2>2, <4>1, StretchIs
      <4> HIDE DEF z
      <4>3. s # <<>> => z <= i
        BY <3>1, <4>2
      <4>4. QED
        BY <3>2, <4>3 DEF z
    <3> HIDE DEF x
    <3>4. Tidy(Append(s, x))
      BY <3>2, <3>3, TidyAppend
    <3>5. QED
      BY <2>2, <3>4 DEF Tidy, x
  <2>3. QED
    BY <2>1, <2>2
<1> DEFINE Found(f) == f = [i \in 0..n |-> IF i = 0 THEN <<>> ELSE Next1(f[i - 1], i)]
<1>4. \E f : Found(f)
  <2> DEFINE g == [p \in S \X (1..n) |-> Next1(p[1], p[2])]
  <2> HIDE DEF Next1
  <2>1. g \in Rules(S, n)
    BY <1>3 DEF Rules
  <2>2. <<>> \in S
    BY NoSpans, EmptySeq
  <2>3. \A s \in S, i \in 1..n : g[<<s, i>>] = Next1(s, i)
    OBVIOUS
  <2>0. n \in Nat
    BY <1>1
  <2> DEFINE none == <<>>
  <2> HIDE DEF S, g, n, run, none
  <2>4. PICK f : Follows(f, g, S, none, n)
    <3>1. none \in S
      BY <2>2 DEF none
    <3>2. QED
      BY <2>0, <2>1, <3>1, Stepwise
  <2>8. /\ f \in [0..n -> S] /\ f[0] = none
        /\ \A i \in 1..n : f[i] = g[<<f[i - 1], i>>]
    BY <2>4 DEF Follows
  <2>5. ASSUME NEW i \in 0..n PROVE f[i] = IF i = 0 THEN <<>> ELSE Next1(f[i - 1], i)
    <3>1. i # 0 => i \in 1..n /\ i - 1 \in 0..n
      BY <1>1
    <3>2. i # 0 => f[i - 1] \in S
      BY <2>8, <3>1
    <3>3. QED
      BY <2>3, <2>8, <3>1, <3>2 DEF none
  <2>6. f = [i \in 0..n |-> IF i = 0 THEN <<>> ELSE Next1(f[i - 1], i)]
    BY <2>5, <2>8
  <2>7. QED
    BY <2>6
<1> DEFINE found == CHOOSE f : f = [i \in 0..n |-> IF i = 0 THEN <<>> ELSE Next1(f[i - 1], i)]
<1>5. Found(found)
  BY <1>4
<1>6. Spans(text, regex, message) = IF text = <<>> THEN <<>> ELSE found[n]
  BY DEF Spans, here, star, needle, m
<1> HIDE DEF found
<1>7. \A i \in 0..n : found[i] = IF i = 0 THEN <<>> ELSE Next1(found[i - 1], i)
  BY <1>5
<1> HIDE DEF Next1, Found, n
<1> DEFINE T == {i \in Nat : i <= n => found[i] \in S}
<1>8. 0 \in T
  <2>1. <<>> \in S
    BY NoSpans, EmptySeq
  <2>2. found[0] = <<>>
    BY <1>1, <1>7
  <2>3. QED
    BY <2>1, <2>2
<1>9. ASSUME NEW i \in Nat, i \in T PROVE i + 1 \in T
  <2>1. ASSUME i + 1 <= n PROVE found[i + 1] \in S
    <3>1. i + 1 \in 0..n /\ i + 1 \in 1..n /\ i + 1 # 0 /\ (i + 1) - 1 = i /\ i <= n
      BY <1>1, <2>1
    <3>2. found[i] \in S
      BY <1>9, <3>1
    <3>3. found[i + 1] = Next1(found[i], i + 1)
      BY <1>7, <3>1
    <3>4. QED
      BY <1>3, <3>1, <3>2, <3>3
  <2>2. QED
    BY <2>1
<1> HIDE DEF T
<1>10. Nat \subseteq T
  BY <1>8, <1>9, Induct
<1>11. found[n] \in S
  BY <1>1, <1>10 DEF T
<1>12. QED
  BY <1>6, <1>11, NoSpans

(* InsertAt, place by place. *)
Inserted(new, list, x, k, X) ==
    /\ new \in Seq(X) /\ Len(new) = Len(list) + 1
    /\ \A j \in 1..k : new[j] = list[j]
    /\ new[k + 1] = x
    /\ \A j \in (k + 2)..(Len(list) + 1) : new[j] = list[j - 1]

LEMMA InsertAtIs ==
    ASSUME NEW X, NEW list \in Seq(X), NEW x \in X, NEW k \in 0..Len(list),
           NEW new, new = InsertAt(list, 1 + k, x)
    PROVE  Inserted(new, list, x, k, X)
<1> DEFINE n == Len(list)
           a == SubSeq(list, 1, k)
           b == <<x>>
           c == SubSeq(list, k + 1, n)
<1>1. n \in Nat /\ k \in Nat /\ k <= n /\ \A i \in 1..n : list[i] \in X
  BY LenProperties, ElementOfSeq
<1>2. new = (a \o b) \o c
  <2>1. (1 + k) - 1 = k /\ 1 + k = k + 1
    BY <1>1
  <2>2. QED
    BY <2>1 DEF InsertAt
<1>3. a \in Seq(X) /\ Len(a) = k /\ \A j \in 1..k : a[j] = list[j]
  <2> HIDE DEF n
  <2>1. \A i \in 1..k : list[i] \in X
    BY <1>1
  <2>2. /\ a \in Seq(X) /\ Len(a) = IF 1 <= k THEN k - 1 + 1 ELSE 0
        /\ \A i \in 1..(k - 1 + 1) : a[i] = list[1 + i - 1]
    BY <1>1, <2>1, SubSeqProperties
  <2>3. k - 1 + 1 = k /\ (~(1 <= k) => k = 0) /\ \A i \in 1..k : 1 + i - 1 = i
    BY <1>1
  <2>4. QED
    BY <2>2, <2>3
<1>4. c \in Seq(X) /\ Len(c) = n - k /\ \A j \in 1..(n - k) : c[j] = list[k + j]
  <2> HIDE DEF n
  <2>1. \A i \in (k + 1)..n : list[i] \in X
    BY <1>1
  <2>2. /\ c \in Seq(X) /\ Len(c) = IF k + 1 <= n THEN n - (k + 1) + 1 ELSE 0
        /\ \A i \in 1..(n - (k + 1) + 1) : c[i] = list[(k + 1) + i - 1]
    BY <1>1, <2>1, SubSeqProperties
  <2>3. n - (k + 1) + 1 = n - k /\ (~(k + 1 <= n) => n - k = 0)
        /\ \A i \in 1..(n - k) : (k + 1) + i - 1 = k + i
    BY <1>1
  <2>4. QED
    BY <2>2, <2>3
<1>5. b \in Seq(X) /\ Len(b) = 1 /\ b[1] = x
  OBVIOUS
<1> HIDE DEF n, a, b, c
<1> DEFINE p == a \o b
<1>6. p \in Seq(X) /\ Len(p) = k + 1 /\ (\A j \in 1..k : p[j] = list[j]) /\ p[k + 1] = x
  <2>1. /\ p \in Seq(X) /\ Len(p) = k + 1
        /\ \A i \in 1..(k + 1) : p[i] = IF i <= k THEN a[i] ELSE b[i - k]
    <3>1. /\ p \in Seq(X) /\ Len(p) = Len(a) + Len(b)
          /\ \A i \in 1..(Len(a) + Len(b)) : p[i] = IF i <= Len(a) THEN a[i] ELSE b[i - Len(a)]
      <4>1. a \in Seq(X) /\ b \in Seq(X)
        BY <1>3, <1>5
      <4>2. QED
        BY <4>1, ConcatProperties
    <3> HIDE DEF p
    <3>2. QED
      BY <1>3, <1>5, <3>1
  <2> HIDE DEF p
  <2>2. \A j \in 1..k : j \in 1..(k + 1) /\ j <= k
    BY <1>1
  <2>3. k + 1 \in 1..(k + 1) /\ ~(k + 1 <= k) /\ (k + 1) - k = 1
    BY <1>1
  <2>4. QED
    BY <1>3, <1>5, <2>1, <2>2, <2>3
<1> HIDE DEF p
<1>7. /\ new \in Seq(X) /\ Len(new) = (k + 1) + (n - k)
      /\ \A i \in 1..((k + 1) + (n - k)) : new[i] = IF i <= k + 1 THEN p[i] ELSE c[i - (k + 1)]
  <2> DEFINE q == p \o c
  <2>1. /\ q \in Seq(X) /\ Len(q) = Len(p) + Len(c)
        /\ \A i \in 1..(Len(p) + Len(c)) : q[i] = IF i <= Len(p) THEN p[i] ELSE c[i - Len(p)]
    <3>1. p \in Seq(X) /\ c \in Seq(X)
      BY <1>4, <1>6
    <3>2. QED
      BY <3>1, ConcatProperties
  <2>2. q = new
    BY <1>2 DEF p
  <2> HIDE DEF q
  <2>3. QED
    BY <1>4, <1>6, <2>1, <2>2
<1>8. (k + 1) + (n - k) = n + 1
  BY <1>1
<1>9. \A j \in 1..k : new[j] = list[j]
  <2>1. \A j \in 1..k : j \in 1..(n + 1) /\ j <= k + 1
    BY <1>1
  <2>2. QED
    BY <1>6, <1>7, <1>8, <2>1
<1>10. new[k + 1] = x
  <2>1. k + 1 \in 1..(n + 1) /\ k + 1 <= k + 1
    BY <1>1
  <2>2. QED
    BY <1>6, <1>7, <1>8, <2>1
<1>11. ASSUME NEW j \in (k + 2)..(n + 1) PROVE new[j] = list[j - 1]
  <2>1. j \in 1..(n + 1) /\ ~(j <= k + 1) /\ j - (k + 1) \in 1..(n - k) /\ k + (j - (k + 1)) = j - 1
    BY <1>1
  <2>2. QED
    BY <1>4, <1>7, <1>8, <2>1
<1>12. QED
  BY <1>7, <1>8, <1>9, <1>10, <1>11 DEF n, Inserted

(* sorted(), one stretch at a time. *)
LEMMA InsertKeeps ==
    ASSUME NEW list, Ordered(list), NEW x \in Stretch
    PROVE  /\ Ordered(Insert(list, x))
           /\ \A i : Covers(Insert(list, x), i) <=> Covers(list, i) \/ Over(x, i)
<1> DEFINE n == Len(list)
           D == {0} \cup {i \in DOMAIN list : ~Before(x, list[i])}
           k == Max(D)
           new == Insert(list, x)
<1>1. list \in Seq(Stretch) /\ n \in Nat /\ DOMAIN list = 1..n /\ \A i \in 1..n : list[i] \in Stretch
  BY LenProperties, ElementOfSeq DEF Ordered
<1>2. D \subseteq 0..n /\ D # {}
  BY <1>1
<1>3. k \in D /\ \A i \in D : i <= k
  <2> HIDE DEF D, n
  <2>1. QED
    BY <1>1, <1>2, Ends
<1>4. new = InsertAt(list, 1 + k, x)
  BY DEF Insert
<1> HIDE DEF k
<1>5. k \in 0..n /\ (k # 0 => k \in 1..n /\ ~Before(x, list[k]))
  BY <1>1, <1>2, <1>3
<1>6. \A i \in 1..n : i > k => Before(x, list[i])
  <2>1. ASSUME NEW i \in 1..n, i > k, ~Before(x, list[i]) PROVE FALSE
    <3>1. i \in D
      BY <1>1, <2>1
    <3>2. i <= k /\ k \in Nat /\ i \in Nat
      BY <1>3, <1>5, <3>1
    <3>3. QED
      BY <2>1, <3>2
  <2>2. QED
    BY <2>1
<1> HIDE DEF D, new
<1>7. /\ new \in Seq(Stretch) /\ Len(new) = n + 1
      /\ \A j \in 1..k : new[j] = list[j]
      /\ new[k + 1] = x
      /\ \A j \in (k + 2)..(n + 1) : new[j] = list[j - 1]
  <2>1. k \in 0..Len(list) /\ list \in Seq(Stretch)
    BY <1>1, <1>5
  <2>2. Inserted(new, list, x, k, Stretch)
    BY <1>4, <2>1, InsertAtIs
  <2>3. QED
    BY <2>2 DEF Inserted
<1>8. DOMAIN new = 1..(n + 1)
  BY <1>1, <1>7, LenProperties
<1>9. \A i, j \in 1..n : i <= j => list[i][1] <= list[j][1]
  BY <1>1 DEF Ordered
<1> HIDE DEF n
<1>10. \A i \in 1..k : list[i][1] <= x[1]
  <2>1. ASSUME NEW i \in 1..k PROVE list[i][1] <= x[1]
    <3>1. k # 0 /\ i \in 1..n /\ k \in 1..n /\ i <= k
      BY <1>1, <1>5
    <3>2. list[i][1] <= list[k][1]
      BY <1>9, <3>1
    <3>3. list[i][1] \in Nat /\ list[k][1] \in Nat /\ x[1] \in Nat
      BY <1>1, <3>1, StretchIs
    <3>4. ~(x[1] < list[k][1])
      BY <1>5, <3>1 DEF Before
    <3>5. QED
      BY <3>2, <3>3, <3>4
  <2>2. QED
    BY <2>1
<1>11. \A i \in (k + 1)..n : x[1] <= list[i][1]
  <2>1. ASSUME NEW i \in (k + 1)..n PROVE x[1] <= list[i][1]
    <3>1. i \in 1..n /\ i > k
      BY <1>1, <1>5
    <3>2. x[1] < list[i][1] \/ x[1] = list[i][1]
      BY <1>6, <3>1 DEF Before
    <3>3. list[i][1] \in Nat /\ x[1] \in Nat
      BY <1>1, <3>1, StretchIs
    <3>4. QED
      BY <3>2, <3>3
  <2>2. QED
    BY <2>1
<1>12. ASSUME NEW j \in 1..(n + 1)
       PROVE  j \in 1..k \/ j = k + 1 \/ (j \in (k + 2)..(n + 1) /\ j - 1 \in (k + 1)..n)
  BY <1>1, <1>5
<1>13. ASSUME NEW i \in 1..(n + 1), NEW j \in 1..(n + 1), i <= j
       PROVE  new[i][1] <= new[j][1]
  <2>0. k \in Nat /\ k <= n /\ n \in Nat
    BY <1>1, <1>5
  <2>1. CASE i \in 1..k /\ j \in 1..k
    <3>1. i \in 1..n /\ j \in 1..n
      BY <2>0, <2>1
    <3>2. QED
      BY <1>7, <1>9, <1>13, <2>1, <3>1
  <2>2. CASE i \in 1..k /\ j = k + 1
    BY <1>7, <1>10, <2>2
  <2>3. CASE i \in 1..k /\ j \in (k + 2)..(n + 1)
    <3>1. i \in 1..n /\ j - 1 \in 1..n /\ i <= j - 1
      BY <2>0, <2>3
    <3>2. QED
      BY <1>7, <1>9, <2>3, <3>1
  <2>4. CASE i = k + 1 /\ j = k + 1
    <3>1. x[1] \in Nat
      BY StretchIs
    <3>2. QED
      BY <1>7, <2>4, <3>1
  <2>5. CASE i = k + 1 /\ j \in (k + 2)..(n + 1)
    <3>1. j - 1 \in (k + 1)..n
      BY <2>0, <2>5
    <3>2. QED
      BY <1>7, <1>11, <2>5, <3>1
  <2>6. CASE i \in (k + 2)..(n + 1) /\ j \in (k + 2)..(n + 1)
    <3>1. i - 1 \in 1..n /\ j - 1 \in 1..n /\ i - 1 <= j - 1
      BY <1>13, <2>0, <2>6
    <3>2. QED
      BY <1>7, <1>9, <2>6, <3>1
  <2>7. /\ ~(i = k + 1 /\ j \in 1..k)
        /\ ~(i \in (k + 2)..(n + 1) /\ (j \in 1..k \/ j = k + 1))
    BY <1>13, <2>0
  <2>8. QED
    BY <1>12, <2>1, <2>2, <2>3, <2>4, <2>5, <2>6, <2>7
<1>14. Ordered(new)
  BY <1>7, <1>8, <1>13 DEF Ordered
<1>15. ASSUME NEW i PROVE Covers(new, i) <=> Covers(list, i) \/ Over(x, i)
  <2>0. k \in Nat /\ k <= n /\ n \in Nat
    BY <1>1, <1>5
  <2>1. ASSUME NEW j \in 1..(n + 1), Over(new[j], i) PROVE Covers(list, i) \/ Over(x, i)
    <3>1. CASE j \in 1..k
      <4>1. j \in 1..n /\ new[j] = list[j]
        BY <1>7, <2>0, <3>1
      <4>2. QED
        BY <1>1, <2>1, <4>1 DEF Covers
    <3>2. CASE j = k + 1
      BY <1>7, <2>1, <3>2
    <3>3. CASE j \in (k + 2)..(n + 1) /\ j - 1 \in (k + 1)..n
      <4>1. j - 1 \in 1..n /\ new[j] = list[j - 1]
        BY <1>7, <2>0, <3>3
      <4>2. QED
        BY <1>1, <2>1, <4>1 DEF Covers
    <3>4. QED
      BY <1>12, <3>1, <3>2, <3>3
  <2>2. ASSUME NEW j \in 1..n, Over(list[j], i) PROVE Covers(new, i)
    <3>1. CASE j <= k
      <4>1. j \in 1..k /\ j \in 1..(n + 1)
        BY <2>0, <3>1
      <4>2. QED
        BY <1>7, <1>8, <2>2, <4>1 DEF Covers
    <3>2. CASE j > k
      <4>1. j + 1 \in (k + 2)..(n + 1) /\ j + 1 \in 1..(n + 1) /\ (j + 1) - 1 = j
        BY <2>0, <3>2
      <4>2. new[j + 1] = list[j]
        BY <1>7, <4>1
      <4>3. QED
        BY <1>8, <2>2, <4>1, <4>2 DEF Covers
    <3>3. QED
      BY <2>0, <3>1, <3>2
  <2>3. ASSUME Over(x, i) PROVE Covers(new, i)
    <3>1. k + 1 \in 1..(n + 1)
      BY <2>0
    <3>2. QED
      BY <1>7, <1>8, <2>3, <3>1 DEF Covers
  <2>4. QED
    BY <1>1, <1>8, <2>1, <2>2, <2>3 DEF Covers
<1>16. QED
  BY <1>14, <1>15 DEF new

(* All of them, in order: nothing is covered that was not, and nothing lost. *)
LEMMA SortedIs ==
    ASSUME NEW list \in Seq(Stretch)
    PROVE  /\ Ordered(Sorted(list))
           /\ \A i : Covers(Sorted(list), i) <=> Covers(list, i)
<1> DEFINE n == Len(list)
           S == {s \in Seq(Stretch) : Ordered(s)}
<1>1. n \in Nat /\ DOMAIN list = 1..n /\ \A i \in 1..n : list[i] \in Stretch
  BY LenProperties, ElementOfSeq
<1>2. \A s \in S, i \in 1..n : Insert(s, list[i]) \in S
  BY <1>1, InsertKeeps DEF Ordered
<1>3. <<>> \in S
  BY NoSpans, EmptySeq
<1> DEFINE sorted == CHOOSE f : f = [i \in 0..n |->
                        IF i = 0 THEN <<>> ELSE Insert(f[i - 1], list[i])]
<1>4. \E f : f = [i \in 0..n |-> IF i = 0 THEN <<>> ELSE Insert(f[i - 1], list[i])]
  <2> DEFINE g == [p \in S \X (1..n) |-> Insert(p[1], list[p[2]])]
             none == <<>>
  <2>1. g \in Rules(S, n)
    BY <1>2 DEF Rules
  <2>2. \A s \in S, i \in 1..n : g[<<s, i>>] = Insert(s, list[i])
    OBVIOUS
  <2> HIDE DEF S, g, n, none
  <2>3. PICK f : Follows(f, g, S, none, n)
    <3>1. none \in S
      BY <1>3 DEF none
    <3>2. QED
      BY <1>1, <2>1, <3>1, Stepwise
  <2>4. /\ f \in [0..n -> S] /\ f[0] = none
        /\ \A i \in 1..n : f[i] = g[<<f[i - 1], i>>]
    BY <2>3 DEF Follows
  <2>5. ASSUME NEW i \in 0..n PROVE f[i] = IF i = 0 THEN <<>> ELSE Insert(f[i - 1], list[i])
    <3>1. i # 0 => i \in 1..n /\ i - 1 \in 0..n
      BY <1>1
    <3>2. i # 0 => f[i - 1] \in S
      BY <2>4, <3>1
    <3>3. QED
      BY <2>2, <2>4, <3>1, <3>2 DEF none
  <2>6. f = [i \in 0..n |-> IF i = 0 THEN <<>> ELSE Insert(f[i - 1], list[i])]
    BY <2>4, <2>5
  <2>7. QED
    BY <2>6
<1>5. Sorted(list) = sorted[n]
  BY DEF Sorted
<1>6. sorted = [i \in 0..n |-> IF i = 0 THEN <<>> ELSE Insert(sorted[i - 1], list[i])]
  BY <1>4
<1> HIDE DEF sorted
<1>7. \A i \in 0..n : sorted[i] = IF i = 0 THEN <<>> ELSE Insert(sorted[i - 1], list[i])
  BY <1>6
<1> DEFINE T == {k \in Nat : k <= n => /\ Ordered(sorted[k])
                                       /\ \A i : Covers(sorted[k], i) <=>
                                                   \E j \in 1..k : Over(list[j], i)}
<1> HIDE DEF n, S
<1>8. 0 \in T
  <2>1. sorted[0] = <<>> /\ 1..0 = {}
    BY <1>1, <1>7
  <2>2. QED
    BY <2>1, NoSpans
<1>9. ASSUME NEW k \in Nat, k \in T PROVE k + 1 \in T
  <2> SUFFICES ASSUME k + 1 <= n
               PROVE  /\ Ordered(sorted[k + 1])
                      /\ \A i : Covers(sorted[k + 1], i) <=>
                                  \E j \in 1..(k + 1) : Over(list[j], i)
    OBVIOUS
  <2>1. k + 1 \in 0..n /\ k + 1 \in 1..n /\ k + 1 # 0 /\ (k + 1) - 1 = k /\ k <= n
    BY <1>1
  <2>2. sorted[k + 1] = Insert(sorted[k], list[k + 1])
    BY <1>7, <2>1
  <2>3. Ordered(sorted[k]) /\ list[k + 1] \in Stretch
    BY <1>1, <1>9, <2>1
  <2>4. /\ Ordered(sorted[k + 1])
        /\ \A i : Covers(sorted[k + 1], i) <=> Covers(sorted[k], i) \/ Over(list[k + 1], i)
    BY <2>2, <2>3, InsertKeeps
  <2>5. \A j : j \in 1..(k + 1) <=> j \in 1..k \/ j = k + 1
    OBVIOUS
  <2>6. \A i : Covers(sorted[k], i) <=> \E j \in 1..k : Over(list[j], i)
    BY <1>9, <2>1
  <2>7. QED
    BY <2>4, <2>5, <2>6
<1> HIDE DEF T
<1>10. Nat \subseteq T
  BY <1>8, <1>9, Induct
<1>11. /\ Ordered(sorted[n])
       /\ \A i : Covers(sorted[n], i) <=> \E j \in 1..n : Over(list[j], i)
  <2>1. n \in T
    BY <1>1, <1>10
  <2>2. n <= n
    BY <1>1
  <2>3. QED
    BY <2>1, <2>2 DEF T
<1>12. QED
  BY <1>1, <1>5, <1>11 DEF Covers

LEMMA LastIs ==
    ASSUME NEW spans \in Seq(Stretch), spans # <<>>
    PROVE  /\ Len(spans) \in Nat \ {0} /\ Len(spans) \in 1..Len(spans)
           /\ Last(spans) = spans[Len(spans)] /\ Last(spans) \in Stretch
<1> DEFINE n == Len(spans)
<1>1. n \in Nat /\ n # 0
  BY EmptySeq, LenProperties
<1> HIDE DEF n
<1>2. n \in 1..n
  BY <1>1
<1>3. Last(spans) = spans[n]
  BY DEF Last, n
<1>4. spans[n] \in Stretch
  BY <1>2, ElementOfSeq DEF n
<1>5. QED
  BY <1>1, <1>2, <1>3, <1>4 DEF n

LEMMA MaxOfTwo ==
    ASSUME NEW a \in Nat, NEW b \in Nat
    PROVE  Max({a, b}) = IF a < b THEN b ELSE a
<1> DEFINE S == {a, b}
           n == a + b
<1>1. n \in Nat /\ S \subseteq 0..n /\ S # {}
  OBVIOUS
<1>2. Max(S) \in S /\ \A k \in S : k <= Max(S)
  <2> HIDE DEF S, n
  <2>1. QED
    BY <1>1, Ends
<1> DEFINE m == Max(S)
<1>3. m \in {a, b} /\ a <= m /\ b <= m
  BY <1>2
<1> HIDE DEF m, S
<1>4. m = IF a < b THEN b ELSE a
  BY <1>3
<1>5. QED
  BY <1>4 DEF m, S

(* One more stretch, which starts no earlier than the last did. *)
LEMMA JoinedKeeps ==
    ASSUME NEW spans, Tidy(spans), NEW x \in Stretch,
           spans # <<>> => Last(spans)[1] <= x[1]
    PROVE  /\ Tidy(Joined(spans, x))
           /\ \A i \in Int : Covers(Joined(spans, x), i) <=> Covers(spans, i) \/ Over(x, i)
           /\ Joined(spans, x) # <<>> /\ Last(Joined(spans, x))[1] <= x[1]
<1>1. spans \in Seq(Stretch) /\ x[1] \in Nat /\ x[2] \in Nat /\ x[1] < x[2]
  BY StretchIs DEF Tidy
<1>2. CASE ~(spans # <<>> /\ x[1] <= Last(spans)[2])
  <2>1. Joined(spans, x) = Append(spans, x)
    BY <1>2 DEF Joined
  <2>2. spans # <<>> => Last(spans)[2] <= x[1]
    <3>1. spans # <<>> => Last(spans)[2] \in Nat
      BY <1>1, LastIs, StretchIs
    <3> DEFINE e == Last(spans)[2]
    <3>2. spans # <<>> => e \in Nat /\ ~(x[1] <= e)
      BY <1>2, <3>1
    <3> HIDE DEF e
    <3>3. spans # <<>> => e <= x[1]
      BY <1>1, <3>2
    <3>4. QED
      BY <3>3 DEF e
  <2>3. x[1] <= x[1]
    BY <1>1
  <2>4. QED
    BY <2>1, <2>2, <2>3, TidyAppend
<1>3. CASE spans # <<>> /\ x[1] <= Last(spans)[2]
  <2> DEFINE n == Len(spans)
             l == spans[n]
             e == Max({l[2], x[2]})
             y == <<l[1], e>>
             new == [spans EXCEPT ![n] = y]
  <2>1. n \in Nat \ {0} /\ n \in 1..n /\ Last(spans) = l /\ l \in Stretch
    BY <1>1, <1>3, LastIs
  <2>2. l[1] \in Nat /\ l[2] \in Nat /\ l[1] < l[2] /\ l[1] <= x[1] /\ x[1] <= l[2]
    BY <1>3, <2>1, StretchIs
  <2>3. Joined(spans, x) = new
    BY <1>3, <2>1 DEF Joined
  <2>4. e = IF l[2] < x[2] THEN x[2] ELSE l[2]
    BY <1>1, <2>2, MaxOfTwo
  <2> DEFINE a == l[1]
             b == l[2]
  <2>5. /\ a \in Nat /\ b \in Nat /\ a < b /\ a <= x[1] /\ x[1] <= b
        /\ e = IF b < x[2] THEN x[2] ELSE b
    BY <2>2, <2>4
  <2> HIDE DEF e
  <2>6. y[1] = a /\ y[2] = e
    OBVIOUS
  <2> HIDE DEF a, b
  <2>7. e \in Nat /\ a < e
    BY <1>1, <2>5
  <2>8. y \in Stretch
    <3>1. l[1] \in Nat /\ l[1] < e
      BY <2>2, <2>7 DEF a
    <3>2. QED
      BY <2>7, <3>1, StretchIs
  <2> HIDE DEF y
  <2>9. /\ new \in Seq(Stretch) /\ Len(new) = n
        /\ \A j \in 1..n : new[j] = IF j = n THEN y ELSE spans[j]
    BY <1>1, <2>1, <2>8, ExceptSeq
  <2> HIDE DEF new
  <2>10. DOMAIN new = 1..n /\ DOMAIN spans = 1..n
    BY <1>1, <2>9, LenProperties
  <2>11. \A k \in 2..n : spans[k - 1][2] <= spans[k][1]
    BY DEF Tidy
  <2>12. spans[n] = l /\ new[n] = y
    BY <2>1, <2>9
  <2> HIDE DEF n
  <2>13. ASSUME NEW k \in 2..n PROVE new[k - 1][2] <= new[k][1]
    <3>1. k - 1 \in 1..n /\ k - 1 # n /\ k \in 1..n
      BY <2>1
    <3>2. new[k - 1] = spans[k - 1]
      BY <2>9, <3>1
    <3>3. new[k][1] = spans[k][1]
      BY <2>6, <2>9, <2>12, <3>1 DEF a
    <3>4. QED
      BY <2>11, <3>2, <3>3
  <2>14. Tidy(new)
    BY <2>9, <2>13 DEF Tidy
  <2>15. \A i \in Int : Over(y, i) <=> Over(l, i) \/ Over(x, i)
    <3>1. \A i \in Int : Over(l, i) <=> a <= i /\ i < b
      BY DEF Over, a, b
    <3> HIDE DEF l
    <3>2. QED
      BY <1>1, <2>5, <2>6, <2>7, <3>1 DEF Over
  <2>16. ASSUME NEW i \in Int PROVE Covers(new, i) <=> Covers(spans, i) \/ Over(x, i)
    <3>1. \A j \in 1..n : j # n => new[j] = spans[j]
      BY <2>9
    <3>2. Covers(new, i) <=> Over(y, i) \/ \E j \in 1..n : j # n /\ Over(spans[j], i)
      BY <2>1, <2>10, <2>12, <3>1 DEF Covers
    <3>3. Covers(spans, i) <=> Over(l, i) \/ \E j \in 1..n : j # n /\ Over(spans[j], i)
      BY <2>1, <2>10, <2>12 DEF Covers
    <3>4. QED
      BY <2>15, <3>2, <3>3
  <2>17. new # <<>> /\ Last(new)[1] <= x[1]
    <3>1. new # <<>>
      BY <2>1, <2>10
    <3>2. Last(new) = new[n]
      BY <2>9, <3>1, LastIs
    <3>3. QED
      BY <2>5, <2>6, <2>12, <3>1, <3>2
  <2>18. QED
    BY <2>3, <2>14, <2>16, <2>17
<1>4. QED
  BY <1>2, <1>3

(* merge_spans(): what either covers, each place once. *)
LEMMA MergedIs ==
    ASSUME NEW left, Tidy(left), NEW right, Tidy(right)
    PROVE  /\ Tidy(MergeSpans(left, right))
           /\ \A i \in Int : Covers(MergeSpans(left, right), i) <=>
                               Covers(left, i) \/ Covers(right, i)
<1> DEFINE both == left \o right
           all == Sorted(both)
           n == Len(all)
           S == Seq(Stretch)
<1>1. left \in Seq(Stretch) /\ right \in Seq(Stretch)
  BY DEF Tidy
<1>2. /\ both \in Seq(Stretch)
      /\ \A i : Covers(both, i) <=> Covers(left, i) \/ Covers(right, i)
  <2> DEFINE p == Len(left)
             q == Len(right)
  <2>1. /\ both \in Seq(Stretch) /\ Len(both) = p + q
        /\ \A i \in 1..(p + q) : both[i] = IF i <= p THEN left[i] ELSE right[i - p]
    BY <1>1, ConcatProperties
  <2>2. /\ p \in Nat /\ q \in Nat /\ DOMAIN left = 1..p /\ DOMAIN right = 1..q
    BY <1>1, LenProperties
  <2> HIDE DEF both
  <2>3. DOMAIN both = 1..(p + q)
    BY <2>1, LenProperties
  <2> HIDE DEF p, q
  <2>4. \A j \in 1..p : j \in 1..(p + q) /\ both[j] = left[j]
    <3>1. \A j \in 1..p : j \in 1..(p + q) /\ j <= p
      BY <2>2
    <3>2. QED
      BY <2>1, <3>1
  <2>5. \A j \in 1..q : j + p \in 1..(p + q) /\ both[j + p] = right[j]
    <3>1. \A j \in 1..q : j + p \in 1..(p + q) /\ ~(j + p <= p) /\ (j + p) - p = j
      BY <2>2
    <3>2. QED
      BY <2>1, <3>1
  <2>6. \A j \in 1..(p + q) : j \in 1..p \/ (j - p \in 1..q /\ ~(j <= p))
    BY <2>2
  <2>7. ASSUME NEW i PROVE Covers(both, i) <=> Covers(left, i) \/ Covers(right, i)
    <3>1. ASSUME NEW j \in 1..(p + q), Over(both[j], i) PROVE Covers(left, i) \/ Covers(right, i)
      <4>1. CASE j \in 1..p
        BY <2>2, <2>4, <3>1, <4>1 DEF Covers
      <4>2. CASE j - p \in 1..q /\ ~(j <= p)
        <5>1. both[j] = right[j - p]
          BY <2>1, <4>2
        <5>2. QED
          BY <2>2, <3>1, <4>2, <5>1 DEF Covers
      <4>3. QED
        BY <2>6, <4>1, <4>2
    <3>2. ASSUME Covers(left, i) PROVE Covers(both, i)
      BY <2>2, <2>3, <2>4, <3>2 DEF Covers
    <3>3. ASSUME Covers(right, i) PROVE Covers(both, i)
      BY <2>2, <2>3, <2>5, <3>3 DEF Covers
    <3>4. QED
      BY <2>3, <3>1, <3>2, <3>3 DEF Covers
  <2>8. QED
    BY <2>1, <2>7
<1> HIDE DEF both
<1>3. Ordered(all) /\ \A i : Covers(all, i) <=> Covers(both, i)
  BY <1>2, SortedIs
<1> HIDE DEF all
<1>4. n \in Nat /\ DOMAIN all = 1..n /\ \A i \in 1..n : all[i] \in Stretch
  BY <1>3, LenProperties, ElementOfSeq DEF Ordered
<1>5. \A s \in S, i \in 1..n : Joined(s, all[i]) \in S
  <2>1. ASSUME NEW s \in Seq(Stretch), NEW x \in Stretch PROVE Joined(s, x) \in Seq(Stretch)
    <3>1. CASE ~(s # <<>> /\ x[1] <= Last(s)[2])
      <4>1. Joined(s, x) = Append(s, x)
        BY <3>1 DEF Joined
      <4>2. QED
        BY <4>1, AppendProperties
    <3>2. CASE s # <<>> /\ x[1] <= Last(s)[2]
      <4> DEFINE k == Len(s)
                 l == s[k]
                 e == Max({l[2], x[2]})
                 y == <<l[1], e>>
      <4>1. k \in 1..k /\ l \in Stretch
        BY <3>2, LastIs
      <4>2. l[1] \in Nat /\ l[2] \in Nat /\ l[1] < l[2] /\ x[2] \in Nat
        BY <4>1, StretchIs
      <4>3. e = IF l[2] < x[2] THEN x[2] ELSE l[2]
        BY <4>2, MaxOfTwo
      <4> HIDE DEF e
      <4>4. e \in Nat /\ l[1] < e
        BY <4>2, <4>3
      <4>5. y \in Stretch
        BY <4>2, <4>4, StretchIs
      <4>6. Joined(s, x) = [s EXCEPT ![k] = y]
        BY <3>2 DEF Joined, e
      <4> HIDE DEF y
      <4>7. QED
        BY <4>1, <4>5, <4>6, ExceptSeq
    <3>3. QED
      BY <3>1, <3>2
  <2>2. QED
    BY <1>4, <2>1
<1>6. <<>> \in S
  BY EmptySeq
<1> DEFINE merged == CHOOSE f : f = [i \in 0..n |->
                        IF i = 0 THEN <<>> ELSE Joined(f[i - 1], all[i])]
<1>7. \E f : f = [i \in 0..n |-> IF i = 0 THEN <<>> ELSE Joined(f[i - 1], all[i])]
  <2> DEFINE g == [p \in S \X (1..n) |-> Joined(p[1], all[p[2]])]
             none == <<>>
  <2>1. g \in Rules(S, n)
    <3> HIDE DEF S, n
    <3>1. QED
      BY <1>5 DEF Rules
  <2>2. \A s \in S, i \in 1..n : g[<<s, i>>] = Joined(s, all[i])
    <3> HIDE DEF S, n
    <3>1. QED
      OBVIOUS
  <2> HIDE DEF S, g, n, none
  <2>3. PICK f : Follows(f, g, S, none, n)
    <3>1. none \in S
      BY <1>6 DEF none
    <3>2. QED
      BY <1>4, <2>1, <3>1, Stepwise
  <2>4. /\ f \in [0..n -> S] /\ f[0] = none
        /\ \A i \in 1..n : f[i] = g[<<f[i - 1], i>>]
    BY <2>3 DEF Follows
  <2>5. ASSUME NEW i \in 0..n PROVE f[i] = IF i = 0 THEN <<>> ELSE Joined(f[i - 1], all[i])
    <3>1. i # 0 => i \in 1..n /\ i - 1 \in 0..n
      BY <1>4
    <3>2. i # 0 => f[i - 1] \in S
      BY <2>4, <3>1
    <3>3. QED
      BY <2>2, <2>4, <3>1, <3>2 DEF none
  <2>6. f = [i \in 0..n |-> IF i = 0 THEN <<>> ELSE Joined(f[i - 1], all[i])]
    BY <2>4, <2>5
  <2>7. QED
    BY <2>6
<1>8. MergeSpans(left, right) =
        IF left = <<>> THEN right ELSE IF right = <<>> THEN left ELSE merged[n]
  BY DEF MergeSpans, all, both
<1>9. merged = [i \in 0..n |-> IF i = 0 THEN <<>> ELSE Joined(merged[i - 1], all[i])]
  BY <1>7
<1> HIDE DEF merged
<1>10. \A i \in 0..n : merged[i] = IF i = 0 THEN <<>> ELSE Joined(merged[i - 1], all[i])
  BY <1>9
<1> DEFINE T == {k \in Nat : k <= n =>
                    /\ Tidy(merged[k])
                    /\ \A i \in Int : Covers(merged[k], i) <=> \E j \in 1..k : Over(all[j], i)
                    /\ k = 0 => merged[k] = <<>>
                    /\ k # 0 => merged[k] # <<>> /\ Last(merged[k])[1] <= all[k][1]}
<1>11. \A i, j \in 1..n : i <= j => all[i][1] <= all[j][1]
  BY <1>3, <1>4 DEF Ordered
<1> HIDE DEF n, S
<1>12. 0 \in T
  <2>1. merged[0] = <<>> /\ 1..0 = {}
    BY <1>4, <1>10
  <2>2. QED
    BY <2>1, NoSpans
<1>13. ASSUME NEW k \in Nat, k \in T PROVE k + 1 \in T
  <2> DEFINE x == all[k + 1]
             m == merged[k + 1]
  <2> SUFFICES ASSUME k + 1 <= n
               PROVE  /\ Tidy(m)
                      /\ \A i \in Int : Covers(m, i) <=> \E j \in 1..(k + 1) : Over(all[j], i)
                      /\ m # <<>> /\ Last(m)[1] <= x[1]
    <3> HIDE DEF T
    <3>1. k + 1 # 0 /\ k + 1 \in Nat
      OBVIOUS
    <3>2. QED
      BY <3>1 DEF T
  <2>1. k + 1 \in 0..n /\ k + 1 \in 1..n /\ k + 1 # 0 /\ (k + 1) - 1 = k /\ k <= n
    BY <1>4
  <2>2. m = Joined(merged[k], x) /\ x \in Stretch
    BY <1>4, <1>10, <2>1
  <2>3. /\ Tidy(merged[k])
        /\ \A i \in Int : Covers(merged[k], i) <=> \E j \in 1..k : Over(all[j], i)
        /\ k = 0 => merged[k] = <<>>
        /\ k # 0 => merged[k] # <<>> /\ Last(merged[k])[1] <= all[k][1]
    BY <1>13, <2>1
  <2>4. merged[k] # <<>> => Last(merged[k])[1] <= x[1]
    <3> SUFFICES ASSUME merged[k] # <<>> PROVE Last(merged[k])[1] <= x[1]
      OBVIOUS
    <3>1. k # 0 /\ k \in 1..n /\ k <= k + 1
      BY <1>4, <2>1, <2>3
    <3>2. all[k][1] <= x[1]
      BY <1>11, <2>1, <3>1
    <3>3. Last(merged[k]) \in Stretch
      BY <2>3, LastIs DEF Tidy
    <3>4. Last(merged[k])[1] \in Nat /\ all[k][1] \in Nat /\ x[1] \in Nat
      BY <1>4, <2>2, <3>1, <3>3, StretchIs
    <3>5. Last(merged[k])[1] <= all[k][1]
      BY <2>3, <3>1
    <3> DEFINE a == Last(merged[k])[1]
               b == all[k][1]
               c == x[1]
    <3> HIDE DEF a, b, c
    <3>6. a \in Nat /\ b \in Nat /\ c \in Nat /\ a <= b /\ b <= c
      BY <3>2, <3>4, <3>5 DEF a, b, c
    <3>7. a <= c
      BY <3>6
    <3>8. QED
      BY <3>7 DEF a, c
  <2> HIDE DEF x, m
  <2>5. /\ Tidy(m) /\ m # <<>> /\ Last(m)[1] <= x[1]
        /\ \A i \in Int : Covers(m, i) <=> Covers(merged[k], i) \/ Over(x, i)
    BY <2>2, <2>3, <2>4, JoinedKeeps
  <2>6. \A j : j \in 1..(k + 1) <=> j \in 1..k \/ j = k + 1
    OBVIOUS
  <2>7. ASSUME NEW i \in Int
        PROVE  Covers(m, i) <=> \E j \in 1..(k + 1) : Over(all[j], i)
    BY <2>3, <2>5, <2>6 DEF x
  <2>8. QED
    BY <2>5, <2>7
<1> HIDE DEF T
<1>14. Nat \subseteq T
  BY <1>12, <1>13, Induct
<1>15. /\ Tidy(merged[n])
       /\ \A i \in Int : Covers(merged[n], i) <=> \E j \in 1..n : Over(all[j], i)
  <2>1. n \in T /\ n <= n
    BY <1>4, <1>14
  <2>2. QED
    BY <2>1 DEF T
<1>16. \A i \in Int : Covers(merged[n], i) <=> Covers(left, i) \/ Covers(right, i)
  <2>1. \A i : Covers(all, i) <=> \E j \in 1..n : Over(all[j], i)
    BY <1>4 DEF Covers
  <2>2. QED
    BY <1>2, <1>3, <1>15, <2>1
<1>17. QED
  BY <1>8, <1>15, <1>16, NoSpans

(* What is painted has been read, and is of texts. *)
Painted ==
    /\ Readable(drawn.filter)
    /\ drawn.mark.text \in Seq(STRING) /\ bar.mark.text \in Seq(STRING)

PaintInv == HeldInv /\ Painted

LEMMA NothingIsMarked == EmptyBar.mark = NoMark /\ NoMark.text \in Seq(STRING)
<1>1. <<>> \in Seq(STRING)
  BY EmptySeq
<1>2. QED
  BY <1>1 DEF EmptyBar, NoMark

LEMMA InitPainted == Init => Painted
<1> SUFFICES ASSUME Init PROVE Painted
  OBVIOUS
<1>1. bar = EmptyBar /\ drawn = [filter |-> NoFilter, mark |-> NoMark]
  BY DEF Init
<1>2. QED
  BY <1>1, NothingIsReadable, NothingIsMarked DEF Painted

LEMMA NextPainted == ASSUME PaintInv, [Next]_vars PROVE Painted'
<1>1. /\ bar = [terms |-> bar.terms, mark |-> bar.mark]
      /\ drawn = [filter |-> drawn.filter, mark |-> drawn.mark]
      /\ Shaped(bar.terms) /\ Painted
  BY DEF PaintInv, HeldInv, BarInv, ShapeInv, Entered
<1>2. Valid(bar) => Readable(Current(bar))
  BY <1>1, CurrentIsReadable
<1>3. ASSUME UNCHANGED <<bar, drawn>> PROVE Painted'
  BY <1>1, <1>3 DEF Painted
<1>4. ASSUME UNCHANGED drawn, bar'.mark = bar.mark PROVE Painted'
  BY <1>1, <1>4 DEF Painted
<1>5. CASE ApplyFilter
  <2>1. CASE Valid(bar)
    <3>1. bar' = bar /\ drawn' = [drawn EXCEPT !.filter = Current(bar)]
      BY <1>5, <2>1 DEF ApplyFilter
    <3>2. drawn'.filter = Current(bar) /\ drawn'.mark = drawn.mark
      BY <1>1, <3>1
    <3>3. QED
      BY <1>1, <1>2, <2>1, <3>1, <3>2 DEF Painted
  <2>2. CASE ~Valid(bar)
    BY <1>3, <1>5, <2>2 DEF ApplyFilter
  <2>3. QED
    BY <2>1, <2>2
<1>6. CASE ApplyHighlight
  <2>1. bar' = bar /\ drawn' = (IF ValidMark(bar) THEN [drawn EXCEPT !.mark = bar.mark] ELSE drawn)
    BY <1>6 DEF ApplyHighlight
  <2>2. drawn'.filter = drawn.filter /\ drawn'.mark \in {drawn.mark, bar.mark}
    BY <1>1, <2>1
  <2>3. drawn'.mark.text \in Seq(STRING)
    BY <1>1, <2>2 DEF Painted
  <2>4. QED
    BY <1>1, <2>1, <2>2, <2>3 DEF Painted
<1>7. CASE OpenDoor
  <2>1. /\ bar' = bar
        /\ drawn' = [filter |-> IF Valid(bar) THEN Current(bar) ELSE drawn.filter,
                     mark |-> IF ValidMark(bar) THEN bar.mark ELSE drawn.mark]
    BY <1>7 DEF OpenDoor
  <2>2. /\ drawn'.filter = IF Valid(bar) THEN Current(bar) ELSE drawn.filter
        /\ drawn'.mark \in {drawn.mark, bar.mark}
    BY <2>1
  <2>3. Readable(drawn'.filter)
    BY <1>1, <1>2, <2>2 DEF Painted
  <2>4. drawn'.mark.text \in Seq(STRING)
    BY <1>1, <2>2 DEF Painted
  <2>5. QED
    BY <1>1, <2>1, <2>3, <2>4 DEF Painted
<1>8. CASE CloseDoor
  <2>1. bar' = EmptyBar /\ drawn' = [drawn EXCEPT !.mark = NoMark]
    BY <1>8 DEF CloseDoor
  <2>2. drawn'.filter = drawn.filter /\ drawn'.mark = NoMark
    BY <1>1, <2>1
  <2>3. QED
    BY <1>1, <2>1, <2>2, NothingIsMarked DEF Painted
<1>9. CASE Relaunch
  <2>1. bar' = EmptyBar /\ drawn' = [filter |-> NoFilter, mark |-> NoMark]
    BY <1>9 DEF Relaunch
  <2>2. QED
    BY <2>1, NothingIsReadable, NothingIsMarked DEF Painted
<1>10. CASE EditHighlight
  <2>1. PICK mark \in [text : Searches, regex : BOOLEAN] : bar' = [bar EXCEPT !.mark = mark]
    BY <1>10 DEF EditHighlight
  <2>2. bar'.mark.text \in Seq(STRING) /\ drawn' = drawn
    <3>1. bar'.mark = mark /\ mark.text \in Searches
      BY <1>1, <2>1
    <3>2. QED
      BY <1>10, <3>1, TextsAssumption DEF EditHighlight
  <2>3. QED
    BY <1>1, <2>2 DEF Painted
<1>11. CASE Edit
  <2>1. PICK field : \E value : bar' = [bar EXCEPT !.terms[field] = value]
    BY <1>11 DEF Edit, Changed
  <2>2. bar'.mark = bar.mark /\ drawn' = drawn
    BY <1>1, <1>11, <2>1 DEF Edit
  <2>3. QED
    BY <1>4, <2>2
<1>12. CASE Choosing
  <2>1. (\E terms : bar' = [bar EXCEPT !.terms = terms])
        \/ (\E process : bar' = [bar EXCEPT !.terms.process = process])
    BY <1>12 DEF Choosing, SetFilter, Clear, FilterByProcess, Changed
  <2>2. bar'.mark = bar.mark
    BY <1>1, <2>1
  <2>3. drawn' = drawn
    BY <1>12 DEF Choosing, SetFilter, Clear, FilterByProcess
  <2>4. QED
    BY <1>4, <2>2, <2>3
<1>13. CASE UNCHANGED <<bar, drawn>>
  BY <1>3, <1>13
<1>14. QED
  BY <1>5, <1>6, <1>7, <1>8, <1>9, <1>10, <1>11, <1>12, <1>13
     DEF Next, Timers, Saving, RememberFilter, NameCurrentFilter, RenameSelected,
         OpenDialog, RemoveSelected, Choose, CloseDialog, CopyFilter, vars

(* Whatever is searched for and marked, by a text or by a pattern, the wash   *)
(* over every message covers what the one and the other cover and nothing     *)
(* else, and paints no place twice (_spans, merge_spans).                     *)
THEOREM WashStaysExact == Spec => []WashIsExact
<1>1. Init => PaintInv
  BY InitHeld, InitPainted DEF PaintInv
<1>2. PaintInv /\ [Next]_vars => PaintInv'
  BY NextHeld, NextPainted DEF PaintInv
<1>3. ASSUME PaintInv PROVE WashIsExact
  <2> SUFFICES ASSUME NEW message \in Messages
      PROVE LET search == Spans(drawn.filter.search, drawn.filter.regex, message)
                mark == Spans(drawn.mark.text, drawn.mark.regex, message)
                wash == MergeSpans(search, mark)
            IN  /\ \A k \in 2..Len(wash) : wash[k - 1][2] <= wash[k][1]
                /\ \A i \in DOMAIN message : Covers(wash, i) <=> Covers(search, i) \/ Covers(mark, i)
    BY DEF WashIsExact, Covers, Over
  <2> DEFINE search == Spans(drawn.filter.search, drawn.filter.regex, message)
             mark == Spans(drawn.mark.text, drawn.mark.regex, message)
             wash == MergeSpans(search, mark)
  <2>1. /\ drawn.filter.search \in Seq(STRING) /\ drawn.mark.text \in Seq(STRING)
        /\ message \in Seq(STRING)
    BY <1>3, TextsAssumption DEF PaintInv, Painted, Readable, Shaped
  <2>2. Tidy(search) /\ Tidy(mark)
    BY <2>1, SpansAreTidy
  <2>3. DOMAIN message \subseteq Int
    BY <2>1, LenProperties
  <2> HIDE DEF search, mark
  <2>4. /\ Tidy(wash)
        /\ \A i \in Int : Covers(wash, i) <=> Covers(search, i) \/ Covers(mark, i)
    BY <2>2, MergedIs
  <2> HIDE DEF wash
  <2>5. /\ \A k \in 2..Len(wash) : wash[k - 1][2] <= wash[k][1]
        /\ \A i \in DOMAIN message : Covers(wash, i) <=> Covers(search, i) \/ Covers(mark, i)
    BY <2>3, <2>4 DEF Tidy
  <2>6. QED
    BY <2>5 DEF search, mark, wash
<1>4. QED
  BY <1>1, <1>2, <1>3, PTL DEF Spec
=============================================================================
