--------------------------- MODULE MCSpoolReader ---------------------------
(* SpoolReader for TLC: three short lines, one of them not a record.        *)
EXTENDS SpoolReader

ThreeLines == <<<<"{", "a", "}">>, <<"{", "}">>, <<"{", "u", "}">>>>
NotARecord == {<<"{", "}">>}
NoWide == {}
WideU == {"u"}
=============================================================================
