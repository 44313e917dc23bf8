--------------------------- MODULE CaptureSession ---------------------------
(***************************************************************************)
(* capture() (capture.py) reading a LogStream into a session directory     *)
(* (storage/session.py, storage/spool.py), in a process that may be killed *)
(* at any step, and the next capture() that is given the same destination. *)
(*                                                                         *)
(* The spool is a sequence of lines, one per item.  `disk` is what a       *)
(* reader can decompress now; `buffer` is what the writer has accepted     *)
(* and zlib or the operating system still holds; `torn` says that part of  *)
(* the first buffered line has reached the disk as well.                   *)
(***************************************************************************)
EXTENDS Naturals, Sequences, FiniteSets, SequencesExt

CONSTANTS
    FlushEvery,     \* SpoolWriter.flush_every
    MaxRecords,     \* capture(max_records=...), or NoLimit
    Duration,       \* TRUE when capture(duration=...) was given
    Times,          \* positions in the stream, see LogStream
    MaxItems,       \* bound: items the source yields
    MaxCaptures     \* bound: capture() calls on this destination

NoLimit == 0

ASSUME FlushAssumption == FlushEvery \in Nat \ {0}
ASSUME LimitAssumption == MaxRecords \in Nat /\ Duration \in BOOLEAN
ASSUME TimesAssumption == Times \subseteq Nat
ASSUME BoundsAssumption == MaxItems \in Nat /\ MaxCaptures \in Nat \ {0}

VARIABLES
    pc,             \* where capture() is
    outcome,        \* how the stream came to its end
    source,         \* "idle", "entered", "closed" by aclose(), or "cut":
                    \* aclose() was cancelled before it had closed everything
    items, last, over,      \* the source's LogStream
    shown,          \* items given to on_item
    spool,          \* the spool file exists
    buffer, disk, torn,     \* its lines
    trailer,        \* the gzip trailer is on disk
    sinceFlush,     \* SpoolWriter._since_flush
    records, gaps,  \* SpoolWriter._records, _gaps
    meta,           \* the sidecar on disk
    captures        \* capture() calls so far

stream == <<items, last, over>>
file == <<spool, buffer, disk, torn, trailer, sinceFlush, records, gaps>>
vars == <<pc, outcome, source, stream, shown, file, meta, captures>>

Source == INSTANCE LogStream

NoMeta == [state |-> "absent", ended |-> FALSE, records |-> 0, gaps |-> 0]
Torn == [state |-> "torn", ended |-> FALSE, records |-> 0, gaps |-> 0]
MetaAt(ended, r, g) ==
    [state |-> "whole", ended |-> ended, records |-> r, gaps |-> g]

IsRecord(item) == item.type = "record"
IsGap(item) == item.type = "gap"

Finished == {"done", "failed", "refused", "killed"}

Init ==
    /\ pc = "idle" /\ outcome = "none" /\ source = "idle"
    /\ Source!Init
    /\ shown = 0
    /\ spool = FALSE /\ buffer = <<>> /\ disk = <<>> /\ torn = FALSE
    /\ trailer = FALSE /\ sinceFlush = 0 /\ records = 0 /\ gaps = 0
    /\ meta = NoMeta
    /\ captures = 1

-----------------------------------------------------------------------------
(* device_info() raised: no session, and the source was never entered. *)
IdentifyFails ==
    /\ pc = "idle"
    /\ pc' = "failed"
    /\ UNCHANGED <<outcome, source, stream, shown, file, meta, captures>>

(* Mutation of CreateSpool: gzip.open(..., "wb") on whatever is there. *)
CreateSpoolOver ==
    /\ pc = "idle"
    /\ pc' = "opening"
    /\ spool' = TRUE
    /\ disk' = <<>> /\ buffer' = <<>> /\ torn' = FALSE /\ trailer' = FALSE
    /\ sinceFlush' = 0 /\ records' = 0 /\ gaps' = 0
    /\ UNCHANGED <<outcome, source, stream, shown, meta, captures>>

(* SessionWriter(): a destination that already holds a spool is refused. *)
CreateSpool ==
    /\ pc = "idle"
    /\ IF spool
       THEN pc' = "refused" /\ UNCHANGED file
       ELSE /\ pc' = "opening"
            /\ spool' = TRUE
            /\ sinceFlush' = 0 /\ records' = 0 /\ gaps' = 0
            /\ UNCHANGED <<buffer, disk, torn, trailer>>
    /\ UNCHANGED <<outcome, source, stream, shown, meta, captures>>

(* _write_meta(): write_text() truncates the sidecar before it writes it. *)
TruncateMeta ==
    \/ /\ pc = "opening" /\ pc' = "opening_meta"
       /\ meta' = Torn
       /\ UNCHANGED <<outcome, source, stream, shown, file, captures>>
    \/ /\ pc = "spool_closed" /\ pc' = "closing_meta"
       /\ meta' = Torn
       /\ UNCHANGED <<outcome, source, stream, shown, file, captures>>

WriteFirstMeta ==
    /\ pc = "opening_meta"
    /\ pc' = "ready"
    /\ meta' = MetaAt(FALSE, 0, 0)
    /\ UNCHANGED <<outcome, source, stream, shown, file, captures>>

EnterSource ==
    /\ pc = "ready"
    /\ pc' = "pulling"
    /\ source' = "entered"
    /\ UNCHANGED <<outcome, stream, shown, file, meta, captures>>

(* Mutation of Pull: on_item is called on arrival and again for the write. *)
PullShownTwice ==
    /\ pc = "pulling"
    /\ Len(items) < MaxItems
    /\ Source!YieldRecord \/ Source!YieldGap
    /\ pc' = "got"
    /\ shown' = shown + 2
    /\ UNCHANGED <<outcome, source, file, meta, captures>>

(* The next item arrives, and on_item sees it before the file does. *)
Pull ==
    /\ pc = "pulling"
    /\ Len(items) < MaxItems
    /\ Source!YieldRecord \/ Source!YieldGap
    /\ pc' = "got"
    /\ shown' = shown + 1
    /\ UNCHANGED <<outcome, source, file, meta, captures>>

(* The stream returned, or raised. *)
StreamOver(how) ==
    /\ pc = "pulling"
    /\ Source!End
    /\ pc' = "leaving"
    /\ outcome' = how
    /\ UNCHANGED <<source, shown, file, meta, captures>>

(* Mutation of DurationOver: the limit is looked at when an item arrives. *)
DurationOverOnItem ==
    /\ pc = "got"
    /\ Duration
    /\ pc' = "leaving"
    /\ outcome' = "early"
    /\ UNCHANGED <<source, stream, shown, file, meta, captures>>

(* asyncio.timeout() fires from a timer, whatever the device is doing. *)
DurationOver ==
    /\ pc = "pulling"
    /\ Duration
    /\ pc' = "leaving"
    /\ outcome' = "early"
    /\ UNCHANGED <<source, stream, shown, file, meta, captures>>

(* The task is cancelled; only an await can notice. *)
Cancel ==
    /\ pc = "pulling"
    /\ pc' = "leaving"
    /\ outcome' = "cancelled"
    /\ UNCHANGED <<source, stream, shown, file, meta, captures>>

-----------------------------------------------------------------------------
(* SpoolWriter.flush(): Z_SYNC_FLUSH makes everything accepted readable. *)
Flushed(lines) ==
    /\ disk' = disk \o lines
    /\ buffer' = <<>>
    /\ torn' = FALSE
    /\ sinceFlush' = 0

Buffered(lines) ==
    /\ buffer' = lines
    /\ sinceFlush' = sinceFlush + 1
    /\ UNCHANGED <<disk, torn>>

(* Mutations of WriteLine: a gap overtakes the buffered lines; it is left in  *)
(* the buffer like any line; the count is compared the wrong way round.       *)
WriteLineGapFirst(item) ==
    IF IsGap(item)
    THEN disk' = Append(disk, item) /\ UNCHANGED <<buffer, torn, sinceFlush>>
    ELSE IF sinceFlush + 1 >= FlushEvery
         THEN Flushed(Append(buffer, item))
         ELSE Buffered(Append(buffer, item))
WriteLineGapBuffered(item) ==
    IF sinceFlush + 1 >= FlushEvery
    THEN Flushed(Append(buffer, item))
    ELSE Buffered(Append(buffer, item))
WriteLineOneLate(item) ==
    IF IsGap(item) \/ sinceFlush + 1 > FlushEvery
    THEN Flushed(Append(buffer, item))
    ELSE Buffered(Append(buffer, item))

(* _write_obj() flushes every flush_every lines; write_gap() always does. *)
WriteLine(item) ==
    IF IsGap(item) \/ sinceFlush + 1 >= FlushEvery
    THEN Flushed(Append(buffer, item))
    ELSE Buffered(Append(buffer, item))

AtLimit(n) == MaxRecords # NoLimit /\ n >= MaxRecords

(* Mutation of Write: the limit is looked at before the item is stored. *)
WriteUnlessAtLimit ==
    /\ pc = "got"
    /\ LET item == items[Len(items)]
           n == records + (IF IsRecord(item) THEN 1 ELSE 0)
       IN  IF AtLimit(n)
           THEN pc' = "leaving" /\ outcome' = "early" /\ UNCHANGED file
           ELSE /\ WriteLine(item)
                /\ records' = n
                /\ gaps' = IF IsGap(item) THEN gaps + 1 ELSE gaps
                /\ pc' = "pulling"
                /\ UNCHANGED <<outcome, spool, trailer>>
    /\ UNCHANGED <<source, stream, shown, meta, captures>>

(* One turn of the loop after on_item: write the item, count it, and stop at *)
(* the record limit.                                                         *)
Write ==
    /\ pc = "got"
    /\ LET item == items[Len(items)]
           n == records + (IF IsRecord(item) THEN 1 ELSE 0)
       IN  /\ WriteLine(item)
           /\ records' = n
           /\ gaps' = IF IsGap(item) THEN gaps + 1 ELSE gaps
           /\ IF AtLimit(n)
              THEN pc' = "leaving" /\ outcome' = "early"
              ELSE pc' = "pulling" /\ UNCHANGED outcome
    /\ UNCHANGED <<source, stream, shown, spool, trailer, meta, captures>>

(* The disk is full, or gone: the item is shown and perhaps not stored.  When *)
(* it is the flush that fails, the line stays in the buffer and a record is   *)
(* not counted; a gap is counted before the flush of its own.                 *)
WriteFails ==
    /\ pc = "got"
    /\ pc' = "leaving"
    /\ outcome' = "unwritten"
    /\ LET item == items[Len(items)]
       IN  \/ UNCHANGED file
          \/ /\ Buffered(Append(buffer, item))
             /\ gaps' \in IF IsGap(item) THEN {gaps, gaps + 1} ELSE {gaps}
             /\ UNCHANGED <<spool, trailer, records>>
    /\ UNCHANGED <<source, stream, shown, meta, captures>>

(* Mutation of CloseStream: the source is left to the garbage collector. *)
CloseStreamOnly ==
    /\ pc = "leaving"
    /\ pc' = "finalising"
    /\ over' = TRUE
    /\ UNCHANGED <<outcome, source, items, last, shown, file, meta, captures>>

(* Leaving `async with source, aclosing(stream)`: the generator is closed, *)
(* then the source.                                                        *)
CloseStream ==
    /\ pc = "leaving"
    /\ pc' = "releasing"
    /\ over' = TRUE
    /\ UNCHANGED <<outcome, source, items, last, shown, file, meta, captures>>

ReleaseSource ==
    /\ pc = "releasing"
    /\ pc' = "finalising"
    /\ source' = "closed"
    /\ UNCHANGED <<outcome, stream, shown, file, meta, captures>>

(* The exits are awaits too, and a Disconnect may come as late as this: one *)
(* that lands while the stream is being closed leaves aclose() to run, one   *)
(* that lands in aclose() cuts it short (only an Exception is suppressed     *)
(* there).  Either way the finally still runs, and nothing is returned.      *)
CancelExit ==
    /\ \/ /\ pc = "leaving" /\ ~over
          /\ pc' = "releasing"
          /\ over' = TRUE
          /\ UNCHANGED source
       \/ /\ pc = "releasing"
          /\ pc' = "finalising"
          /\ source' = "cut"
          /\ UNCHANGED over
    /\ outcome' = IF outcome = "unwritten" THEN outcome ELSE "cancelled"
    /\ UNCHANGED <<items, last, shown, file, meta, captures>>

(* Mutation of CloseSpool: the sidecar is finalised first. *)
CloseMetaFirst ==
    /\ pc = "finalising"
    /\ pc' = "spool_closed"
    /\ meta' = MetaAt(TRUE, records, gaps)
    /\ UNCHANGED <<outcome, source, stream, shown, file, captures>>

(* writer.close() in the finally: the spool first ... *)
CloseSpool ==
    /\ pc = "finalising"
    /\ pc' = "spool_closed"
    /\ Flushed(buffer)
    /\ trailer' = TRUE
    /\ UNCHANGED <<outcome, source, stream, shown, spool, records, gaps, meta,
                   captures>>

(* ... which may fail, and then the sidecar keeps what it said at open ... *)
CloseSpoolFails ==
    /\ pc = "finalising"
    /\ pc' = "failed"
    /\ UNCHANGED <<outcome, source, stream, shown, file, meta, captures>>

(* Writing the sidecar fails, at either end of the capture. *)
WriteMetaFails ==
    /\ pc \in {"opening", "opening_meta", "spool_closed", "closing_meta"}
    /\ pc' = "failed"
    /\ UNCHANGED <<outcome, source, stream, shown, file, meta, captures>>

(* ... and then the sidecar, with the end and the counts. *)
WriteLastMeta ==
    /\ pc = "closing_meta"
    /\ meta' = MetaAt(TRUE, records, gaps)
    /\ pc' = IF outcome \in {"exhausted", "early"} THEN "done" ELSE "failed"
    /\ UNCHANGED <<outcome, source, stream, shown, file, captures>>

-----------------------------------------------------------------------------
(* zlib and the operating system may write out earlier than they are asked, *)
(* and not at a line's end.                                                 *)
Spill ==
    /\ pc \notin Finished \cup {"idle"}
    /\ buffer # <<>>
    /\ \E n \in 0..Len(buffer), part \in BOOLEAN :
        /\ n > 0 \/ (part /\ ~torn)
        /\ part => n < Len(buffer)
        /\ disk' = disk \o SubSeq(buffer, 1, n)
        /\ buffer' = SubSeq(buffer, n + 1, Len(buffer))
        /\ torn' = (part \/ (torn /\ n = 0))
    /\ UNCHANGED <<pc, outcome, source, stream, shown, spool, trailer,
                   sinceFlush, records, gaps, meta, captures>>

(* The process is killed: what the disk has is all there will be. *)
Kill ==
    /\ pc \notin Finished
    /\ pc' = "killed"
    /\ buffer' = <<>>
    /\ UNCHANGED <<outcome, source, stream, shown, spool, disk, torn, trailer,
                   sinceFlush, records, gaps, meta, captures>>

(* The same destination is given to a new capture(), over a new source. *)
CaptureAgain ==
    /\ pc \in Finished
    /\ captures < MaxCaptures
    /\ captures' = captures + 1
    /\ pc' = "idle" /\ source' = "idle"
    /\ UNCHANGED <<outcome, stream, shown, file, meta>>

Done == pc \in Finished /\ UNCHANGED vars

(* Steps the program takes by itself once it may. *)
Step ==
    \/ CreateSpool \/ TruncateMeta \/ WriteFirstMeta \/ EnterSource \/ Write
    \/ CloseStream \/ ReleaseSource \/ CloseSpool \/ WriteLastMeta

Next ==
    \/ Step \/ IdentifyFails \/ Pull
    \/ \E how \in {"exhausted", "raised"} : StreamOver(how)
    \/ DurationOver \/ Cancel \/ CancelExit \/ WriteFails \/ CloseSpoolFails \/ WriteMetaFails
    \/ Spill \/ Kill \/ CaptureAgain \/ Done

Spec == Init /\ [][Next]_vars

(* The event loop runs, and its timer fires however busy or silent the device *)
(* is: a stream that never rests still awaits between two items.              *)
FairSpec == Spec /\ WF_vars(Step) /\ SF_vars(DurationOver)

-----------------------------------------------------------------------------
Metas == {NoMeta, Torn} \cup
    [state : {"whole"}, ended : BOOLEAN, records : 0..MaxItems, gaps : 0..MaxItems]

(* Every variable stays in its type, and an item is shown at most once     *)
(* (capture).                                                              *)
TypeOK ==
    /\ pc \in {"idle", "opening", "opening_meta", "ready", "pulling", "got",
               "leaving", "releasing", "finalising", "spool_closed",
               "closing_meta"} \cup Finished
    /\ outcome \in {"none", "exhausted", "raised", "early", "cancelled",
                    "unwritten"}
    /\ source \in {"idle", "entered", "closed", "cut"}
    /\ items \in Seq(Source!Records \cup Source!Gaps)
    /\ last \in Nat /\ over \in BOOLEAN
    /\ shown \in 0..MaxItems
    /\ spool \in BOOLEAN /\ torn \in BOOLEAN /\ trailer \in BOOLEAN
    /\ disk \in Seq(Source!Records \cup Source!Gaps)
    /\ buffer \in Seq(Source!Records \cup Source!Gaps)
    /\ sinceFlush \in Nat /\ records \in Nat /\ gaps \in Nat
    /\ meta \in Metas
    /\ captures \in 1..MaxCaptures

(* What a reader finds is what the source said, from the start and in order, *)
(* whatever moment it reads at and whatever killed the capture (SpoolWriter). *)
ReadsAPrefix == IsPrefix(disk, items)

(* A gap is readable by the time the next item is asked for: the failure     *)
(* that follows an outage does not take the outage's mark with it, unless it *)
(* is the disk that fails (write_gap).                                       *)
GapsAreDurable ==
    outcome # "unwritten" => \A i \in DOMAIN buffer : ~IsGap(buffer[i])

(* A kill costs fewer than flush_every lines (_write_obj). *)
LossIsBounded == outcome # "unwritten" => Len(buffer) < FlushEvery

OnDisk(type) == {i \in DOMAIN disk : disk[i].type = type}

(* A sidecar that says the capture ended describes a finished spool: every   *)
(* item is readable, the trailer is there, and the counts are the file's, or *)
(* one short of it when the disk refused the last line (SessionWriter.close). *)
EndedMeansComplete ==
    meta.ended =>
        /\ trailer /\ buffer = <<>> /\ ~torn
        /\ LET short == Len(disk) - (meta.records + meta.gaps)
           IN  short = 0 \/ (short = 1 /\ outcome = "unwritten")
        /\ meta.records <= Cardinality(OnDisk("record"))
        /\ meta.gaps <= Cardinality(OnDisk("gap"))

(* A stop loses nothing: on every way out but a write error, cancellation    *)
(* included, a finalised session holds every item that was shown (capture).  *)
StoppedMeansStored ==
    meta.ended /\ outcome # "unwritten" => disk = items /\ shown = Len(disk)

AfterExits == {"finalising", "spool_closed", "closing_meta", "done"}
CutExit == source = "cut" /\ outcome \in {"cancelled", "unwritten"}

(* The session is finalised only after the device has been let go of, and a  *)
(* capture that returns its result holds it no longer: nothing but a         *)
(* cancellation that lands in the exit itself leaves it half closed, and     *)
(* then the caller is told of no success (capture's `async with`).           *)
DeviceReleased ==
    /\ pc \in AfterExits => over /\ (source = "closed" \/ CutExit)
    /\ pc = "done" => source = "closed"
    /\ pc = "failed" => source # "entered"

(* What capture's docstring promises of every exit path, cancellation        *)
(* included: the source is closed.                                           *)
AlwaysReleased == pc \in AfterExits => source = "closed"

(* No later capture takes a line away from an earlier one (SessionWriter's   *)
(* refusal of a destination in use).                                         *)
NeverOverwritten == [][IsPrefix(disk, disk')]_vars

(* A time limit ends a capture of a silent device too (asyncio.timeout).     *)
DurationEnds == (pc = "pulling" /\ Duration) ~> (pc \in Finished)
=============================================================================
