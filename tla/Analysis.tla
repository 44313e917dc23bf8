------------------------------ MODULE Analysis ------------------------------
(***************************************************************************)
(* What an export works out about a capture while it passes through it     *)
(* (analysis/scan.py, analysis/trace.py).  Both are accumulators: one      *)
(* operator folds one item in.  A record is the minute and second it was   *)
(* sent at, whether it is an error, its process and subsystem, and the     *)
(* message: a template and a value, of which normalise() keeps the         *)
(* template.                                                               *)
(***************************************************************************)
EXTENDS Integers, Sequences, SequencesExt, TLC

CONSTANTS
    MaxTemplates,      \* templates a scan learns before it stops
    ExcerptBefore,     \* records kept before the first error ...
    ExcerptAfter,      \* ... and after it
    WindowBefore,      \* the same of a trace's windows
    WindowAfter,
    MaxWindows,        \* windows a trace opens
    MaxWindowRecords   \* records a window holds

ASSUME LimitsAreNatural ==
    /\ MaxTemplates \in Nat /\ ExcerptBefore \in Nat /\ ExcerptAfter \in Nat
    /\ WindowBefore \in Nat /\ WindowAfter \in Nat \ {0}
    /\ MaxWindows \in Nat /\ MaxWindowRecords \in Nat \ {0}

Normalise(record) == record.template
Key(record) == <<record.error, record.process, record.subsystem, Normalise(record)>>
IsRecord(item) == item.kind = "record"
RecordsOf(seq) == SelectSeq(seq, IsRecord)

(* A deque of at most n. *)
Keep(seq, item, n) ==
    LET longer == Append(seq, item)
    IN  IF Len(longer) > n THEN SubSeq(longer, Len(longer) - n + 1, Len(longer)) ELSE longer

-----------------------------------------------------------------------------
(* ScanResult.                                                             *)

NoRecord == [kind |-> "none", error |-> FALSE]

NewScan ==
    [records |-> 0, errors |-> 0, processes |-> <<>>, subsystems |-> <<>>,
     minutes |-> <<>>, templates |-> <<>>, templates_dropped |-> 0, first |-> 0, last |-> 0, gaps |-> <<>>,
     sample |-> NoRecord, sample_line |-> 0, excerpt |-> <<>>, excerpt_line |-> 0,
     preceding |-> <<>>, remaining |-> 0]

(* A dictionary of counts, in the order its keys were first seen. *)
Knows(dict, key) == \E i \in DOMAIN dict : dict[i].key = key
Bump(dict, key, record, line) ==
    LET one == IF record.error THEN 1 ELSE 0
    IN  IF Knows(dict, key)
        THEN [i \in DOMAIN dict |->
                IF dict[i].key = key
                THEN [dict[i] EXCEPT !.count = @ + 1, !.errors = @ + one]
                ELSE dict[i]]
        ELSE Append(dict, [key |-> key, count |-> 1, errors |-> one,
                           first_line |-> line, example |-> record])

(* sorted(..., key=-count): stable. *)
MostFrequent(dict) ==
    LET order == SetToSortSeq(DOMAIN dict, LAMBDA i, j :
                    \/ dict[i].count > dict[j].count
                    \/ dict[i].count = dict[j].count /\ i < j)
    IN  [i \in DOMAIN order |-> dict[order[i]]]

TopErrorTemplates(scan, limit) ==
    LET errors == SelectSeq(MostFrequent(scan.templates), LAMBDA entry : entry.errors > 0)
    IN  SubSeq(errors, 1, IF Len(errors) < limit THEN Len(errors) ELSE limit)

(* _collect_excerpt(): round the first error. *)
CollectExcerpt(scan, record, line) ==
    IF scan.remaining > 0
    THEN [scan EXCEPT !.excerpt = Append(@, record), !.remaining = @ - 1]
    ELSE IF scan.excerpt # <<>> THEN scan
    ELSE IF record.error
    THEN [scan EXCEPT !.excerpt = Append(scan.preceding, record),
                      !.excerpt_line = line - Len(scan.preceding),
                      !.remaining = ExcerptAfter,
                      !.preceding = <<>>]
    ELSE [scan EXCEPT !.preceding = Keep(@, record, ExcerptBefore)]

LearnTemplate(scan, record, line) ==
    IF Knows(scan.templates, Key(record)) \/ Len(scan.templates) < MaxTemplates
    THEN [scan EXCEPT !.templates = Bump(@, Key(record), record, line)]
    ELSE [scan EXCEPT !.templates_dropped = @ + 1]

(* add(), at the line the record has in session.log. *)
Add(scan, record, line) ==
    LET counts == [scan EXCEPT
            !.records = @ + 1,
            !.errors = IF record.error THEN @ + 1 ELSE @,
            !.processes = Bump(@, record.process, record, line),
            !.subsystems = Bump(@, record.subsystem, record, line),
            !.first = IF scan.records = 0 \/ record.at < @ THEN record.at ELSE @,
            !.last = IF scan.records = 0 \/ record.at > @ THEN record.at ELSE @,
            !.minutes = Bump(@, record.minute, record, line)]
        learned == LearnTemplate(counts, record, line)
        shown == IF scan.sample = NoRecord \/ (record.error /\ ~scan.sample.error)
                 THEN [learned EXCEPT !.sample = record, !.sample_line = line] ELSE learned
    IN  CollectExcerpt(shown, record, line)

AddGap(scan, gap) == [scan EXCEPT !.gaps = Append(@, gap)]

(* Mutation of Counted: a gap takes a line. *)
CountedWithGaps(scan, item) ==
    IF IsRecord(item) THEN Add(scan, item, scan.records + Len(scan.gaps) + 1)
    ELSE AddGap(scan, item)

(* counted(): numbered by the records before it. *)
Counted(scan, item) ==
    IF IsRecord(item) THEN Add(scan, item, scan.records + 1) ELSE AddGap(scan, item)

-----------------------------------------------------------------------------
(* trace(): windows of records round the errors.                           *)

NewTrace ==
    [scanned |-> 0, seen |-> 0, covered |-> 0, windows |-> <<>>,
     preceding |-> <<>>, open |-> FALSE, remaining |-> 0,
     current |-> [records |-> <<>>, anchors |-> <<>>, first_line |-> 0, truncated |-> FALSE]]

AnchorsMissed(traced) == traced.seen - traced.covered

CloseWindow(traced, truncated) ==
    [traced EXCEPT !.open = FALSE,
                   !.windows = Append(@, [traced.current EXCEPT !.truncated = truncated])]

Extend(traced, record) ==
    LET longer == [traced EXCEPT
            !.current.records = Append(@, record),
            !.current.anchors = IF record.error
                                THEN Append(@, Len(traced.current.records) + 1) ELSE @,
            !.covered = IF record.error THEN @ + 1 ELSE @,
            !.remaining = IF record.error THEN WindowAfter ELSE @ - 1]
    IN  IF Len(longer.current.records) >= MaxWindowRecords THEN CloseWindow(longer, TRUE)
        ELSE IF longer.remaining = 0 THEN CloseWindow(longer, FALSE)
        ELSE longer

OpenWindow(traced, record) ==
    [traced EXCEPT
        !.covered = @ + 1,
        !.open = TRUE,
        !.current = [records |-> Append(traced.preceding, record),
                     anchors |-> <<Len(traced.preceding) + 1>>,
                     first_line |-> traced.scanned - Len(traced.preceding),
                     truncated |-> FALSE],
        !.remaining = WindowAfter,
        !.preceding = <<>>]

(* Mutation of TraceRecord: an error past the last window is not one it has seen. *)
TraceRecordWanted(traced, record) ==
    LET wanted == record.error /\ (traced.open \/ Len(traced.windows) < MaxWindows)
        met == [traced EXCEPT !.scanned = @ + 1, !.seen = IF wanted THEN @ + 1 ELSE @]
    IN  IF traced.open THEN Extend(met, record)
        ELSE IF wanted THEN OpenWindow(met, record)
        ELSE [met EXCEPT !.preceding = Keep(@, record, WindowBefore)]

TraceRecord(traced, record) ==
    LET met == [traced EXCEPT !.scanned = @ + 1,
                              !.seen = IF record.error THEN @ + 1 ELSE @]
    IN  IF traced.open THEN Extend(met, record)
        ELSE IF record.error /\ Len(traced.windows) < MaxWindows THEN OpenWindow(met, record)
        ELSE [met EXCEPT !.preceding = Keep(@, record, WindowBefore)]

Traced(traced, item) == IF IsRecord(item) THEN TraceRecord(traced, item) ELSE traced

(* The stream ended inside a window: it is kept as it stands. *)
TraceEnds(traced) ==
    IF traced.open THEN [traced EXCEPT !.open = FALSE, !.windows = Append(@, traced.current)]
    ELSE traced
=============================================================================
