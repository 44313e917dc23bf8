--------------------------- MODULE MCOsTraceSource ---------------------------
(* OsTraceSource for TLC: where a stop of another task may land, and what    *)
(* the device says.                                                          *)
EXTENDS OsTraceSource

(* Anywhere but inside the two handshakes. *)
StopOutsideHandshake ==
    {"ready", "retry_sleep", "identifying", "at_gap", "entering", "reading",
     "at_record", "leaving_service", "leaving_lockdown", "delay"}

(* While stream() is inside a handshake, which is where _connect() looked    *)
(* at the stop flag for the last time.                                       *)
StopInHandshake == {"opening"}

(* No two of the four records say the same, and the clock stays where it is. *)
Plain == [content |-> <<1, 2, 3, 4>>, offset |-> <<0, 0, 0, 0>>]

(* The second and the third record are doubles. *)
Doubles == [content |-> <<1, 2, 2, 3>>, offset |-> <<0, 0, 0, 0>>]

(* The same, and the offset moves before the last handshake. *)
Moving == [content |-> <<1, 2, 2, 3>>, offset |-> <<0, 0, 0, 1>>]

AnyDevice == {Plain, Moving}
DoublesOnly == {Doubles}
MovingOnly == {Moving}
=============================================================================
