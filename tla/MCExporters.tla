---------------------------- MODULE MCExporters -----------------------------
EXTENDS Exporters

Line1(at, error, process, template, size) ==
    [kind |-> "record", at |-> at, minute |-> at \div 2, error |-> error, process |-> process,
     subsystem |-> process, template |-> template, size |-> size]

Notice == Line1(2, FALSE, "p", "t", 1)
Late == Line1(1, FALSE, "q", "u", 2)
Error == Line1(3, TRUE, "p", "t", 1)
Gap == [kind |-> "gap"]
Damaged == [kind |-> "damaged"]

(* Every short capture of anything, and longer ones of notices and errors. *)
MCCaptures ==
    SeqOf({Notice, Late, Error, Gap, Damaged}, 3) \cup [1..5 -> {Notice, Error}]
MCLive == SeqOf({Notice, Error, Damaged}, 2)
=============================================================================
