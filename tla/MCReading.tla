----------------------------- MODULE MCReading -----------------------------
EXTENDS Reading

Line(at, level, process) ==
    [kind |-> "record", at |-> at, level |-> level, pid |-> 1, process |-> process,
     subsystem |-> <<>>, message |-> <<"b">>]

MCCapture ==
    <<Line(0, 70, <<"a">>), Line(1, 10, <<"a">>), [kind |-> "gap", at |-> 1],
      Line(2, 30, <<"a">>), Line(3, 60, <<"A">>)>>
MCFilters == {NoFilter, [NoFilter EXCEPT !.minimum_level = 30]}
MCJumps ==
    {[kind |-> "offset", sign |-> 1, parts |-> <<[amount |-> 1, unit |-> "s"]>>],
     [kind |-> "clock", day |-> <<>>, hour |-> 0, minute |-> 0, second |-> 1],
     [kind |-> "clock", day |-> <<0>>, hour |-> 24, minute |-> 0, second |-> 0],
     [kind |-> "junk"]}

(* The reader's place on the overview can always be seen, and starts no     *)
(* lower than the row it is about (_paint_marker).                          *)
ASSUME PlaceIsSeen ==
    \A total \in 1..9 : \A first \in 1..total : \A last \in first..total :
        LET place == ViewportMarker(first, last, total)
        IN  /\ 0 <= place.top /\ place.top <= ((first - 1) * Height) \div total
            /\ place.bottom - place.top >= MinMarker /\ place.bottom <= Height

(* Columns that do not fit give way without growing, down to a floor, and   *)
(* never the time or the level (fit_budgets).                               *)
ASSUME ColumnsGiveWay ==
    \A unit \in {1, 7}, shown \in SUBSET DOMAIN Characters :
        \A available \in {0, 30, 60, 90, 120, 200, 900} :
            LET wanted == Restrict(WantedWidths(unit, 5), shown)
                fitted == FitBudgets(wanted, unit, available)
            IN  \A c \in shown :
                    /\ fitted[c] <= wanted[c] /\ fitted[c] >= MinimumCharacters * unit
                    /\ c \in Untrimmable => fitted[c] = wanted[c]
=============================================================================
