---------------------------- MODULE SpoolReader ----------------------------
(***************************************************************************)
(* SpoolReader (storage/spool.py): one or more passes over a spool that    *)
(* may be growing, unclosed, cut in the middle of a line or damaged.       *)
(*                                                                         *)
(* The file is Lines, each followed by a newline, in UTF-8: a character of *)
(* Wide takes two bytes, any other one.  A chunk read from the file        *)
(* decompresses to some run of those bytes, and nothing ties the end of    *)
(* the run to the end of a line or of a character.                         *)
(***************************************************************************)
EXTENDS Integers, Sequences, SequencesExt

CONSTANTS
    Lines,          \* what the writer wrote, a sequence of sequences of characters
    Wide,           \* characters of two bytes
    Undecodable,    \* lines that are JSON and neither a record nor a gap
    Passes          \* bound: passes over the file

Newline == "newline"
Bad == "bad"        \* U+FFFD
Open == "{"
Close == "}"

VARIABLES
    pc,             \* "idle", "reading" or "done"
    size,           \* bytes of the text a reader can decompress now
    closed,         \* the trailer is on disk
    damageAt,       \* the first byte that does not decompress
    pos,            \* bytes decompressed in this pass
    buffer,         \* local `buffer` of lines(), in characters
    out,            \* items yielded in this pass
    malformed,      \* self.malformed
    truncated,      \* self._truncated: "unasked", "cut" or "whole"
    pass            \* passes started

vars == <<pc, size, closed, damageAt, pos, buffer, out, malformed, truncated, pass>>

-----------------------------------------------------------------------------
(* The bytes of a text, each naming its character and its place in it. *)
Encode(text) ==
    FlattenSeq([i \in DOMAIN text |->
        IF text[i] \in Wide
        THEN <<[char |-> text[i], first |-> TRUE, last |-> FALSE],
               [char |-> text[i], first |-> FALSE, last |-> TRUE]>>
        ELSE <<[char |-> text[i], first |-> TRUE, last |-> TRUE]>>])

(* What the writer has put down once it has written some lines. *)
Written(lines) == FlattenSeq([i \in DOMAIN lines |-> Append(lines[i], Newline)])

Bytes == Encode(Written(Lines))

(* decode("utf-8", "replace") of one run of bytes taken alone. *)
Decode(run) ==
    FlattenSeq([i \in DOMAIN run |->
        IF run[i].first /\ run[i].last THEN <<run[i].char>>
        ELSE IF run[i].first
             THEN IF i < Len(run) THEN <<run[i].char>> ELSE <<Bad>>
             ELSE IF i > 1 THEN <<>> ELSE <<Bad>>])

(* str.split("\n"), character by character: the complete lines, and what *)
(* follows the last newline.                                             *)
NoLines == [complete |-> <<>>, rest |-> <<>>]
SplitOnce(lines, c) ==
    IF c = Newline
    THEN [complete |-> Append(lines.complete, lines.rest), rest |-> <<>>]
    ELSE [lines EXCEPT !.rest = Append(@, c)]
Split(text) ==
    LET split[i \in 0..Len(text)] ==
            IF i = 0 THEN NoLines ELSE SplitOnce(split[i - 1], text[i])
    IN  split[Len(text)]

(* json.loads() accepts a line that is whole; decode() may still refuse it. *)
Parses(line) == Len(line) >= 2 /\ line[1] = Open /\ line[Len(line)] = Close
Decodes(line) == Parses(line) /\ line \notin Undecodable

(* The lines of some that decode, in order. *)
Taken(lines) ==
    FlattenSeq([i \in DOMAIN lines |-> IF Decodes(lines[i]) THEN <<lines[i]>> ELSE <<>>])
Rejected(lines) == Len(lines) - Len(Taken(lines))

(* items(): what decodes is yielded, everything else is counted. *)
Yield(lines) ==
    /\ out' = out \o Taken(lines)
    /\ malformed' = malformed + Rejected(lines)

(* _write_obj: a line is one JSON object, whose newlines are escaped; cut    *)
(* anywhere before its end it is none.  A newline is one byte.               *)
ASSUME LinesAssumption ==
    /\ Newline \notin Wide
    /\ Lines \in Seq(Seq(STRING))
    /\ \A i \in DOMAIN Lines :
          /\ Lines[i] # <<>> /\ Newline \notin ToSet(Lines[i])
          /\ \A k \in 1..(Len(Lines[i]) - 1) : ~Parses(SubSeq(Lines[i], 1, k))

Init ==
    /\ pc = "idle" /\ pass = 0
    /\ size \in 0..Len(Bytes)
    /\ closed \in {FALSE, size = Len(Bytes)}
    /\ damageAt \in 1..(Len(Bytes) + 1)
    /\ pos = 0 /\ buffer = <<>> /\ out = <<>> /\ malformed = 0
    /\ truncated = "unasked"

(* What `truncated` is told: damage, or no trailer yet. *)
Verdict(damaged) == IF damaged \/ ~closed THEN "cut" ELSE "whole"

(* Mutation of StartPass: the counter belongs to the reader, not to the pass. *)
StartPassCounting ==
    /\ pc # "reading" /\ pass < Passes
    /\ pass' = pass + 1
    /\ pc' = "reading"
    /\ pos' = 0 /\ buffer' = <<>> /\ out' = <<>>
    /\ UNCHANGED <<size, closed, damageAt, malformed, truncated>>

StartPass ==
    /\ pc # "reading" /\ pass < Passes
    /\ pass' = pass + 1
    /\ pc' = "reading"
    /\ pos' = 0 /\ buffer' = <<>> /\ out' = <<>> /\ malformed' = 0
    /\ UNCHANGED <<size, closed, damageAt, truncated>>

(* A chunk that decompresses: decoded by itself, split, and its complete *)
(* lines yielded.                                                        *)
ReadChunk ==
    /\ pc = "reading"
    /\ \E n \in 1..(size - pos) :
        /\ pos + n < damageAt
        /\ pos' = pos + n
        /\ LET text == buffer \o Decode(SubSeq(Bytes, pos + 1, pos + n))
           IN  /\ Yield(Split(text).complete)
               /\ buffer' = Split(text).rest
    /\ UNCHANGED <<pc, size, closed, damageAt, truncated, pass>>

(* Mutation of Finish: truncation is noticed before the tail is yielded. *)
FinishDroppingTail(damaged) ==
    /\ truncated' = Verdict(damaged)
    /\ IF buffer = <<>> \/ truncated' = "cut" THEN UNCHANGED <<out, malformed>> ELSE Yield(<<buffer>>)
    /\ pc' = "done"
    /\ UNCHANGED <<size, closed, damageAt, pos, buffer, pass>>

(* The end of the pass: whatever follows the last newline is yielded too. *)
Finish(damaged) ==
    /\ truncated' = Verdict(damaged)
    /\ IF buffer = <<>> THEN UNCHANGED <<out, malformed>> ELSE Yield(<<buffer>>)
    /\ pc' = "done"
    /\ UNCHANGED <<size, closed, damageAt, pos, buffer, pass>>

(* Mutation of EndOfFile: a pass that reaches the end takes the file for closed. *)
EndOfFileTrusting ==
    /\ pc = "reading" /\ pos = size /\ damageAt > size
    /\ IF buffer = <<>> THEN UNCHANGED <<out, malformed>> ELSE Yield(<<buffer>>)
    /\ truncated' = "whole"
    /\ pc' = "done"
    /\ UNCHANGED <<size, closed, damageAt, pos, buffer, pass>>

EndOfFile ==
    /\ pc = "reading" /\ pos = size
    /\ Finish(FALSE)

(* zlib.error: the chunk that holds the damage gives nothing. *)
HitDamage ==
    /\ pc = "reading"
    /\ damageAt <= size
    /\ Finish(TRUE)

(* `truncated`, asked before any pass is over: the file is decompressed and *)
(* not parsed.                                                              *)
Probe ==
    /\ truncated = "unasked"
    /\ truncated' = Verdict(damageAt <= size)
    /\ UNCHANGED <<pc, size, closed, damageAt, pos, buffer, out, malformed, pass>>

(* The capture being read goes on writing, and closes its spool. *)
Grow ==
    /\ ~closed
    /\ \/ /\ size < Len(Bytes)
          /\ size' \in (size + 1)..Len(Bytes)
          /\ UNCHANGED closed
       \/ /\ size = Len(Bytes)
          /\ closed' = TRUE
          /\ UNCHANGED size
    /\ UNCHANGED <<pc, damageAt, pos, buffer, out, malformed, truncated, pass>>

Next == StartPass \/ ReadChunk \/ EndOfFile \/ HitDamage \/ Probe \/ Grow

Spec == Init /\ [][Next]_vars

-----------------------------------------------------------------------------
(* Where line i ends, its newline included. *)
End(i) == Len(Encode(Written(SubSeq(Lines, 1, i))))

(* The lines wholly inside the first n bytes, newline or not. *)
WholeLines(n) == SubSeq(Lines, 1, Max({0} \cup {i \in DOMAIN Lines : End(i) - 1 <= n}))

(* The bytes after the last whole line make one more, partial line. *)
Partial(n) ==
    \E i \in DOMAIN Lines : End(i - 1) < n /\ n < End(i) - 1

(* Every variable stays in its range, and a pass never yields or counts more *)
(* lines than were written (items, _objects).                                *)
TypeOK ==
    /\ pc \in {"idle", "reading", "done"}
    /\ size \in 0..Len(Bytes) /\ pos \in 0..size
    /\ closed \in BOOLEAN /\ truncated \in {"unasked", "cut", "whole"}
    /\ damageAt \in 1..(Len(Bytes) + 1)
    /\ malformed \in 0..Len(Lines)
    /\ Len(out) <= Len(Lines)
    /\ pass \in 0..Passes

(* A pass yields every line it could decompress whole, the last one of an    *)
(* unclosed file included, as it was written, however the file was chunked.  *)
ReadsEveryWholeLine ==
    pc = "done" => out = Taken(WholeLines(pos))

(* Damage is counted once per line, and by every pass anew (_objects resets *)
(* the counter).                                                            *)
CountsTheDamage ==
    pc = "done" =>
        malformed = Rejected(WholeLines(pos)) + (IF Partial(pos) THEN 1 ELSE 0)

(* Whoever asks, before a pass or after one, is told "whole" of a file that *)
(* is: closed, undamaged, and read to its end by the pass (truncated, lines). *)
TruncatedIsHonest ==
    truncated = "whole" =>
        closed /\ damageAt > size /\ (pc = "done" => pos = Len(Bytes))
=============================================================================
