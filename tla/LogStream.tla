------------------------------ MODULE LogStream ------------------------------
(***************************************************************************)
(* What every LogSource promises the code that iterates it                 *)
(* (sources/base.py, LogSource.stream): records and gaps in stream order,  *)
(* each record once, and a gap between two records whenever something      *)
(* between them was lost.  A record is named by its position in what the   *)
(* device said, so "nothing was lost between a and b" is b = a + 1.        *)
(***************************************************************************)
EXTENDS Naturals, Sequences

CONSTANT Times      \* positions on the device's clock; 0 is "before anything"

VARIABLES
    items,          \* what the iterator has yielded so far
    last,           \* position of the last record yielded, 0 before the first
    over            \* the iterator returned or raised

vars == <<items, last, over>>

Rec(t) == [type |-> "record", at |-> t]
GapFrom(s, e) == [type |-> "gap", start |-> s, end |-> e]

Records == {Rec(t) : t \in Times}
Gaps == {GapFrom(s, e) : s \in Times, e \in Times}

(* The stretch right after a gap is the only place where positions may skip. *)
AfterGap == items # <<>> /\ items[Len(items)].type = "gap"

Init == items = <<>> /\ last = 0 /\ over = FALSE

YieldRecord ==
    \E t \in Times :
        /\ ~over
        /\ t > last
        /\ items = <<>> \/ AfterGap \/ t = last + 1
        /\ items' = Append(items, Rec(t))
        /\ last' = t
        /\ UNCHANGED over

(* A gap starts where the records before it stopped. *)
YieldGap ==
    \E s, e \in Times :
        /\ ~over
        /\ s <= e
        /\ last # 0 => s = last
        /\ items' = Append(items, GapFrom(s, e))
        /\ UNCHANGED <<last, over>>

End == ~over /\ over' = TRUE /\ UNCHANGED <<items, last>>

Next == YieldRecord \/ YieldGap \/ End

Spec == Init /\ [][Next]_vars
=============================================================================
