----------------------------- MODULE Exporters ------------------------------
(***************************************************************************)
(* An export: a capture read once, from disk, into the files of a format   *)
(* (exporters/), asked for by the command line (cli._export) or by the     *)
(* export dialog (gui/widgets/export_dialog.py), which does it on a        *)
(* thread.  The capture may still be recorded meanwhile, hold gaps and     *)
(* damaged lines, or have lost its end; a read or a write may fail at any  *)
(* point.  A document is the facts it states, not its wording.             *)
(***************************************************************************)
EXTENDS Analysis, FiniteSets

CONSTANTS
    Captures,       \* what a device may have sent, damaged lines included
    Live,           \* what one may be sending still
    Formats,        \* the formats asked for
    Forms,          \* of a capture: TRUE, a session directory; FALSE, a bare spool
    Destinations,   \* written to: "beside" the capture, its "session" path, its "spool"
    Budgets,        \* budgets of a report, NoLimit among them
    NoLimit,
    HeadSize,       \* what a report's head takes of its budget
    Reserve,        \* what it keeps for its last section
    ProcessRows,    \* processes a report names
    GapRows,        \* gaps it lists
    PatternRows,    \* error patterns CLAUDE.md names
    MaxExports      \* bound: exports asked for

VARIABLES
    sent,       \* what the device sends
    spool,      \* flushed: items on disk; state: recording, ended, killed or
                \* overwritten; its form
    dialog,     \* the dialog: shown, snapshot, format, destination, and whether its
                \* reader knows the trailer is missing ("unknown", "cut", "whole")
    job,        \* the export under way; held: history, what was on disk when asked for
    scan,       \* its scan
    traced,     \* its trace
    files,      \* what lies beside the capture, by name
    outcome,    \* what the last export said
    exports     \* exports so far

vars == <<sent, spool, dialog, job, scan, traced, files, outcome, exports>>

Bundle == <<"session.log", "errors.log", "patterns.tsv", "processes.tsv", "subsystems.tsv",
            "timeline.tsv", "gaps.tsv", "CLAUDE.md">>
Names == ToSet(Bundle) \cup {"jsonl", "text", "markdown", "trace", "ai-report", ".part"}
Absent == [pass |-> 0, whole |-> FALSE, holds |-> <<>>]
Empty == [pass |-> exports, whole |-> FALSE, holds |-> <<>>]
Written(holds) == [pass |-> exports, whole |-> TRUE, holds |-> holds]

(* The files a format streams into, and those it writes when it has read all. *)
Streams(format) ==
    CASE format = "agent-bundle" -> {"session.log", "errors.log"}
      [] format \in {"jsonl", "text"} -> {format}
      [] format = "markdown" -> {".part"}
      [] OTHER -> {}
Summaries(format) ==
    CASE format = "agent-bundle" -> SubSeq(Bundle, 3, 8)
      [] format \in {"jsonl", "text"} -> <<>>
      [] OTHER -> <<format>>
Result(format) == IF format = "agent-bundle" THEN ToSet(Bundle) ELSE {format}

NoJob == [phase |-> "idle", asker |-> "nobody", format |-> "", destination |-> "beside",
          budget |-> NoLimit, truncated |-> FALSE, held |-> 0, read |-> 0, malformed |-> 0, left |-> <<>>]
NoDialog == [shown |-> FALSE, snapshot |-> FALSE, truncated |-> "unknown",
             format |-> "agent-bundle", destination |-> "beside"]
NoOutcome == [kind |-> "none", notes |-> {}, held |-> 0, read |-> 0, malformed |-> 0,
              asker |-> "nobody", format |-> "", destination |-> "beside", ended |-> FALSE]

Init ==
    /\ \/ /\ sent \in Captures
          /\ spool \in [flushed : {Len(sent)}, state : {"ended", "killed"}, directory : Forms]
       \/ /\ sent \in Live
          /\ spool \in [flushed : {0}, state : {"recording"}, directory : Forms]
    /\ dialog = NoDialog
    /\ job = NoJob
    /\ scan = NewScan
    /\ traced = NewTrace
    /\ files = [name \in Names |-> Absent]
    /\ outcome = NoOutcome
    /\ exports = 0

-----------------------------------------------------------------------------
(* The capture, as the spool's writer leaves it.                           *)

Flush ==
    /\ spool.state = "recording" /\ spool.flushed < Len(sent)
    /\ spool' = [spool EXCEPT !.flushed = @ + 1]
    /\ UNCHANGED <<sent, dialog, job, scan, traced, files, outcome, exports>>

StopRecording ==
    /\ spool.state = "recording"
    /\ \E state \in {"ended", "killed"} : spool' = [spool EXCEPT !.state = state]
    /\ UNCHANGED <<sent, dialog, job, scan, traced, files, outcome, exports>>

(* SpoolReader._probe(): no trailer, or no gzip file at all. *)
Truncated == spool.state # "ended"

-----------------------------------------------------------------------------
(* Documents.                                                              *)

(* _statistics(), _identity(), _preamble(): what a capture was. *)
Statistics(s) ==
    [records |-> s.records, errors |-> s.errors, first |-> s.first, last |-> s.last,
     templates |-> Len(s.templates), missing |-> s.templates_dropped, gaps |-> Len(s.gaps),
     busiest |-> MostFrequent(s.processes)]
Preamble(s) == [records |-> s.records, errors |-> s.errors, first |-> s.first,
                last |-> s.last, gaps |-> Len(s.gaps)]
ErrorPatterns(s) == TopErrorTemplates(s, PatternRows)

(* _documentation(): CLAUDE.md. *)
Documentation(s) ==
    [statistics |-> Statistics(s), sample |-> s.sample, sample_line |-> s.sample_line,
     top |-> ErrorPatterns(s)]

(* A window, and what is said of how it ends. *)
WindowText(w) ==
    [records |-> w.records, first |-> w.first_line, last |-> w.first_line + Len(w.records) - 1,
     anchors |-> w.anchors, cut |-> w.truncated,
     ends |-> ~w.truncated /\ Last(w.anchors) + WindowAfter > Len(w.records)]
TraceText(t, s) ==
    [scanned |-> t.scanned, missed |-> AnchorsMissed(t), gaps |-> Len(s.gaps),
     windows |-> [i \in DOMAIN t.windows |-> WindowText(t.windows[i])]]

AtLeast(a, b) == IF a < b THEN b ELSE a
AtMost(a, b) == IF a > b THEN b ELSE a

(* The stop at the first entry that does not fit. *)
Size(entries) == FoldLeft(LAMBDA spent, entry : spent + entry.size, 0, entries)
Fitting(entries, budget) ==
    IF budget = NoLimit THEN entries
    ELSE SubSeq(entries, 1, CHOOSE n \in 0..Len(entries) :
            /\ Size(SubSeq(entries, 1, n)) <= budget
            /\ n < Len(entries) => Size(SubSeq(entries, 1, n + 1)) > budget)
Sized(dict) ==
    [i \in DOMAIN dict |-> [entry |-> dict[i], size |-> dict[i].example.size]]

(* _share() *)
Share(budget, spent, percent) ==
    IF budget = NoLimit THEN NoLimit
    ELSE AtLeast(((budget - spent) * percent) \div 100, 0)

(* Mutation of Section: an entry that does not fit is left out unsaid. *)
SectionUnsaid(entries, budget) == [shown |-> Fitting(entries, budget), dropped |-> 0]

(* What of a section is shown, and how many of its lines are said not to fit. *)
Section(entries, budget) ==
    LET shown == Fitting(entries, budget)
    IN  [shown |-> shown, dropped |-> Len(entries) - Len(shown)]

ErrorsSection(s, budget) ==
    Section(Sized(TopErrorTemplates(s, Len(s.templates))), Share(budget, HeadSize, 45))
PatternsSection(s, budget, spent) ==
    Section(Sized(MostFrequent(s.templates)), Share(budget, spent, 75))
ExcerptSection(s, budget, spent) ==
    Section(s.excerpt, IF budget = NoLimit THEN NoLimit ELSE AtLeast(budget - spent - Reserve, 0))

(* _guidance() and _distribution() *)
Listed(s) == SubSeq(s.gaps, 1, AtMost(Len(s.gaps), GapRows))
Distribution(s) ==
    LET rows == SubSeq(MostFrequent(s.processes), 1, AtMost(Len(s.processes), ProcessRows))
    IN  [rows |-> rows, further |-> Len(s.processes) - Len(rows)]

(* _omissions(): that nothing was dropped, or that a section was, and that the gaps are listed. *)
Omissions(s, sections) ==
    [nothing |-> \A section \in sections : section.dropped = 0, gaps |-> Len(s.gaps)]

(* render() *)
Report(s, budget) ==
    LET errors == ErrorsSection(s, budget)
        spent == HeadSize + Size(errors.shown)
        patterns == PatternsSection(s, budget, spent)
        excerpt == ExcerptSection(s, budget, spent + Size(patterns.shown))
    IN  [statistics |-> Statistics(s), gaps |-> Listed(s), distribution |-> Distribution(s),
         errors |-> errors, patterns |-> patterns, missing |-> s.templates_dropped,
         excerpt |-> excerpt, starting |-> s.excerpt_line,
         omissions |-> Omissions(s, {errors, patterns, excerpt})]

-----------------------------------------------------------------------------
(* The files.                                                              *)

Holds(name) ==
    CASE name = "patterns.tsv" -> MostFrequent(scan.templates)
      [] name = "processes.tsv" -> MostFrequent(scan.processes)
      [] name = "subsystems.tsv" -> MostFrequent(scan.subsystems)
      [] name = "timeline.tsv" -> scan.minutes
      [] name = "gaps.tsv" -> scan.gaps
      [] name = "CLAUDE.md" -> Documentation(scan)
      [] name = "markdown" -> [preamble |-> Preamble(scan), body |-> files[".part"].holds]
      [] name = "trace" -> TraceText(TraceEnds(traced), scan)
      [] name = "ai-report" -> Report(scan, job.budget)

(* What one item adds to the files it is streamed into. *)
Line(name, item, line) ==
    CASE name = "session.log" -> IF IsRecord(item) THEN <<item>> ELSE <<>>
      [] name = "errors.log" -> IF IsRecord(item) /\ item.error
                                THEN <<[line |-> line, item |-> item]>> ELSE <<>>
      [] OTHER -> <<item>>

-----------------------------------------------------------------------------
(* What an export is told to say.                                          *)

(* export_notes() *)
ExportNotes(s, truncated, malformed, running) ==
    (IF running THEN {"snapshot"} ELSE IF truncated THEN {"truncated"} ELSE {})
    \cup (IF malformed > 0 THEN {"malformed"} ELSE {})
    \cup (IF s.gaps # <<>> THEN {"gaps"} ELSE {})
    \cup (IF s.templates_dropped > 0 THEN {"templates"} ELSE {})
    \cup (IF s.records = 0 THEN {"empty"} ELSE {})

(* check_export_destination(): resolved paths are compared.  The spool in a *)
(* session directory is not the path of the session.                       *)
CheckExportDestination(destination) ==
    destination = "beside" \/ (destination = "spool" /\ spool.directory)

(* export_path(): beside the capture, and named after it.  A bare capture   *)
(* that ends in .jsonl has the name its export in that format would have.   *)
ExportPath(format) == IF format = "jsonl" /\ ~spool.directory THEN "session" ELSE "beside"

-----------------------------------------------------------------------------
(* Who asks.                                                               *)

Start(asker, format, destination, budget) ==
    /\ exports' = exports + 1
    /\ scan' = NewScan /\ traced' = NewTrace
    /\ IF CheckExportDestination(destination)
       THEN /\ job' = [NoJob EXCEPT !.phase = "opening", !.asker = asker, !.format = format,
                                    !.destination = destination, !.budget = budget,
                                    !.truncated = Truncated,
                                    !.held = spool.flushed, !.left = Summaries(format)]
            /\ outcome' = NoOutcome
       ELSE /\ job' = NoJob
            /\ outcome' = [NoOutcome EXCEPT !.kind = "refused"]

BudgetsOf(format) == IF format = "ai-report" THEN Budgets ELSE {NoLimit}

(* cli._export(); bound: with no dialog on screen. *)
CliExport ==
    /\ job.phase = "idle" /\ exports < MaxExports /\ spool.flushed > 0 /\ ~dialog.shown
    /\ \E format \in Formats :
        \E destination \in Destinations \cup {ExportPath(format)}, budget \in BudgetsOf(format) :
            Start("cli", format, destination, budget)
    /\ UNCHANGED <<sent, spool, dialog, files>>

(* What the window's reader of an opened capture may have found by now: it   *)
(* keeps the first answer, and has none when its load was cancelled.         *)
Found == {"unknown", "cut"} \cup (IF Truncated THEN {} ELSE {"whole"})

(* export_dialog(): the window's own capture, while it is recorded, is read  *)
(* anew and offered as a snapshot; anything else is the capture it opened.   *)
OpenDialog ==
    /\ ~dialog.shown /\ spool.flushed > 0 /\ exports < MaxExports /\ job = NoJob
    /\ \/ /\ spool.directory /\ spool.state = "recording"
          /\ dialog' = [NoDialog EXCEPT !.shown = TRUE, !.snapshot = TRUE]
       \/ \E found \in Found :
            dialog' = [NoDialog EXCEPT !.shown = TRUE, !.truncated = found]
    /\ UNCHANGED <<sent, spool, job, scan, traced, files, outcome, exports>>

(* _on_format_changed(): the destination is the format's again. *)
ChooseFormat ==
    /\ dialog.shown /\ job.phase = "idle"
    /\ \E format \in Formats \ {dialog.format} :
        dialog' = [dialog EXCEPT !.format = format, !.destination = ExportPath(format)]
    /\ UNCHANGED <<sent, spool, job, scan, traced, files, outcome, exports>>

ChooseDestination ==
    /\ dialog.shown /\ job.phase = "idle"
    /\ \E destination \in Destinations \ {dialog.destination} :
        dialog' = [dialog EXCEPT !.destination = destination]
    /\ UNCHANGED <<sent, spool, job, scan, traced, files, outcome, exports>>

(* run_export() *)
RunExport ==
    /\ dialog.shown /\ job.phase = "idle" /\ exports < MaxExports /\ dialog.format \in Formats
    /\ \E budget \in BudgetsOf(dialog.format) :
        Start("dialog", dialog.format, dialog.destination, budget)
    /\ UNCHANGED <<sent, spool, dialog, files>>

(* The dialog is put away: an export of its own goes on. *)
Reject ==
    /\ dialog.shown
    /\ dialog' = IF job = NoJob THEN NoDialog ELSE [dialog EXCEPT !.shown = FALSE]
    /\ UNCHANGED <<sent, spool, job, scan, traced, files, outcome, exports>>

-----------------------------------------------------------------------------
(* export(), of every format.                                              *)

(* Opening a file for writing empties it; over the spool, the capture. *)
Lost == IF job.destination = "beside" \/ (job.destination = "session" /\ spool.directory)
        THEN spool ELSE [spool EXCEPT !.flushed = 0, !.state = "overwritten"]

(* A bundle makes a directory, which a file in its place refuses. *)
Open ==
    /\ job.phase = "opening"
    /\ ~(job.format = "agent-bundle" /\ job.destination = "spool")
    /\ job' = [job EXCEPT !.phase = "reading"]
    /\ files' = [name \in Names |-> IF name \in Streams(job.format) THEN Empty ELSE files[name]]
    /\ spool' = IF job.format \in {"jsonl", "text"} THEN Lost ELSE spool
    /\ UNCHANGED <<sent, dialog, scan, traced, outcome, exports>>

Read ==
    /\ job.phase = "reading" /\ job.read < spool.flushed
    /\ LET item == sent[job.read + 1]
           damaged == item.kind = "damaged"
           next == Counted(scan, item)
       IN  /\ job' = [job EXCEPT !.read = @ + 1, !.malformed = IF damaged THEN @ + 1 ELSE @]
           /\ scan' = IF damaged THEN scan ELSE next
           /\ traced' = IF damaged \/ job.format # "trace" THEN traced ELSE Traced(traced, item)
           /\ files' = [name \in Names |->
                IF damaged \/ name \notin Streams(job.format) THEN files[name]
                ELSE [files[name] EXCEPT !.holds = @ \o Line(name, item, next.records)]]
    /\ UNCHANGED <<sent, spool, dialog, outcome, exports>>

ReadAll ==
    /\ job.phase = "reading" /\ job.read >= spool.flushed
    /\ job' = [job EXCEPT !.phase = "writing"]
    /\ files' = [name \in Names |-> IF name \in Streams(job.format)
                                    THEN [files[name] EXCEPT !.whole = TRUE] ELSE files[name]]
    /\ UNCHANGED <<sent, spool, dialog, scan, traced, outcome, exports>>

WriteFile ==
    /\ job.phase = "writing" /\ job.left # <<>>
    /\ files' = [files EXCEPT ![Head(job.left)] = Written(Holds(Head(job.left)))]
    /\ job' = [job EXCEPT !.left = Tail(@)]
    /\ spool' = IF job.format = "agent-bundle" THEN spool ELSE Lost
    /\ UNCHANGED <<sent, dialog, scan, traced, outcome, exports>>

(* finally: body.unlink() *)
PutAway ==
    IF job.format = "markdown" THEN [files EXCEPT ![".part"] = Absent] ELSE files

Finish ==
    /\ job.phase = "writing" /\ job.left = <<>>
    /\ files' = PutAway
    /\ job' = [job EXCEPT !.phase = "landed"]
    /\ UNCHANGED <<sent, spool, dialog, scan, traced, outcome, exports>>

(* A read or a write that fails; a file being written may have been emptied. *)
Fail ==
    /\ job.phase \in {"opening", "reading", "writing"}
    /\ \/ files' = PutAway
       \/ /\ job.phase = "writing" /\ job.left # <<>>
          /\ files' = [PutAway EXCEPT ![Head(job.left)] = Empty]
    /\ job' = NoJob
    /\ outcome' = [NoOutcome EXCEPT !.kind = "failed"]
    /\ UNCHANGED <<sent, spool, dialog, scan, traced, exports>>

-----------------------------------------------------------------------------
(* What is said of it.                                                     *)

(* Mutation of CliNotes: the damaged lines are asked for before any is read. *)
CliNotesEarly == ExportNotes(scan, job.truncated, 0, FALSE)

(* The command line: truncated as it was, malformed as it is. *)
CliNotes == ExportNotes(scan, job.truncated, job.malformed, FALSE)

(* SpoolReader.truncated: the file is looked at when it is first asked for. *)
Asked == IF dialog.truncated # "unknown" THEN dialog.truncated
         ELSE IF Truncated THEN "cut" ELSE "whole"

(* _on_done(): of the dialog's own reader, which is asked when the worker's  *)
(* pass is over and has counted no damage itself.                            *)
DialogNotes == ExportNotes(scan, Asked = "cut", 0, dialog.snapshot)

Said(notes) ==
    /\ outcome' = [kind |-> "done", notes |-> notes, held |-> job.held, read |-> job.read,
                   malformed |-> job.malformed, asker |-> job.asker, format |-> job.format,
                   destination |-> job.destination, ended |-> job.truncated /\ ~Truncated]
    /\ job' = NoJob
    /\ UNCHANGED <<sent, spool, scan, traced, files, exports>>

CliDone ==
    /\ job.phase = "landed" /\ job.asker = "cli"
    /\ Said(CliNotes)
    /\ UNCHANGED dialog
OnDone ==
    /\ job.phase = "landed" /\ job.asker = "dialog"
    /\ Said(DialogNotes)
    /\ dialog' = [dialog EXCEPT !.truncated = Asked]

Next ==
    \/ Flush \/ StopRecording
    \/ CliExport \/ OpenDialog \/ ChooseFormat \/ ChooseDestination \/ RunExport \/ Reject
    \/ Open \/ Read \/ ReadAll \/ WriteFile \/ Finish \/ Fail
    \/ CliDone \/ OnDone

Spec == Init /\ [][Next]_vars

-----------------------------------------------------------------------------
(* Properties.                                                             *)

Done(format) == outcome.kind = "done" /\ outcome.format = format
Seen == RecordsOf(SubSeq(sent, 1, outcome.read))
Where(Test(_)) == {line \in DOMAIN Seen : Test(Seen[line])}
FirstOf(lines) == CHOOSE line \in lines : \A other \in lines : line <= other

(* A count, its errors and its first line, as session.log would give them. *)
CountedIn(entry, lines) ==
    /\ lines # {} /\ entry.first_line = FirstOf(lines)
    /\ entry.count = Cardinality(lines)
    /\ entry.errors = Cardinality({line \in lines : Seen[line].error})
Tallies(dict, KeyOf(_)) ==
    \A i \in DOMAIN dict : CountedIn(dict[i], Where(LAMBDA r : KeyOf(r) = dict[i].key))
Total(dict) == FoldLeft(LAMBDA n, entry : n + entry.count, 0, dict)

(* PointersResolve: a bundle that is done is of one pass, every file whole; *)
(* every line number in it leads, in its session.log, to what it was given *)
(* for, and every count is the count of that file (agent_bundle.py,        *)
(* scan.counted): gaps, damaged lines, stamps out of order and templates   *)
(* over the limit included.                                                *)
PointersResolve ==
    Done("agent-bundle") =>
        LET errors == files["errors.log"].holds
            patterns == files["patterns.tsv"].holds
            about == files["CLAUDE.md"].holds
        IN  /\ \A name \in ToSet(Bundle) : files[name].pass = exports /\ files[name].whole
            /\ files["session.log"].holds = Seen
            /\ {errors[i].line : i \in DOMAIN errors} = Where(LAMBDA r : r.error)
            /\ \A i \in DOMAIN errors : errors[i].item = Seen[errors[i].line]
            /\ Tallies(patterns, Key)
            /\ Total(patterns) + about.statistics.missing = Len(Seen)
            /\ Tallies(files["timeline.tsv"].holds, LAMBDA r : r.minute)
            /\ Total(files["timeline.tsv"].holds) = Len(Seen)
            /\ Tallies(files["processes.tsv"].holds, LAMBDA r : r.process)
            /\ about.statistics.records = Len(Seen)
            /\ Seen # <<>> => /\ about.sample = Seen[about.sample_line]
                              /\ about.statistics.first = Min({r.at : r \in ToSet(Seen)})
                              /\ about.statistics.last = Max({r.at : r \in ToSet(Seen)})

(* TraceIsVerbatim: the windows of a trace are stretches of the capture     *)
(* that do not overlap; their marks are its errors; each has the context   *)
(* it was promised unless it says that it was cut or that the capture ends *)
(* there, as it then does, or the capture began there, or a window before  *)
(* took it; and the errors in no window are counted, and come after all    *)
(* the windows (analysis/trace.py, exporters/trace.py).                    *)
TraceIsVerbatim ==
    Done("trace") =>
        LET t == files["trace"].holds
            windows == t.windows
            errors == Where(LAMBDA r : r.error)
            shown == UNION {w.first..w.last : w \in ToSet(windows)}
        IN  /\ \A w \in ToSet(windows) :
                /\ w.records = SubSeq(Seen, w.first, w.last)
                /\ {w.first + a - 1 : a \in ToSet(w.anchors)} = errors \cap (w.first..w.last)
                /\ w.ends => w.last = Len(Seen)
                /\ w.cut \/ w.ends \/ Last(w.anchors) + WindowAfter = Len(w.records)
                /\ Head(w.anchors) = WindowBefore + 1 \/ (w.first - 1) \in shown \cup {0}
            /\ \A i, j \in DOMAIN windows : i < j => windows[i].last < windows[j].first
            /\ t.missed = Cardinality(errors \ shown)
            /\ \A line \in errors \ shown, other \in shown : line > other

(* ReportIsHonest: a report that names no omission has left nothing out:    *)
(* every record is counted under a pattern it shows, at its line, and the  *)
(* stretch round the first error is whole and numbered from where it says  *)
(* (ai_report.py, scan._collect_excerpt).                                  *)
ReportIsHonest ==
    Done("ai-report") =>
        LET r == files["ai-report"].holds
            named == Len(r.distribution.rows) + r.distribution.further
            rows == [i \in DOMAIN r.patterns.shown |-> r.patterns.shown[i].entry]
            errors == Where(LAMBDA record : record.error)
        IN  /\ Tallies(rows, Key)
            /\ (r.omissions.nothing /\ r.missing = 0) => Total(rows) = Len(Seen)
            /\ named = Cardinality({record.process : record \in ToSet(Seen)})
            /\ (r.errors.dropped = 0 /\ r.missing = 0) =>
                Total([i \in DOMAIN r.errors.shown |-> r.errors.shown[i].entry])
                    = Cardinality(errors)
            /\ errors # {} =>
                LET first == FirstOf(errors)
                    from == Max({1, first - ExcerptBefore})
                    to == Min({Len(Seen), first + ExcerptAfter})
                IN  /\ r.starting = from
                    /\ IsPrefix(r.excerpt.shown, SubSeq(Seen, from, to))
                    /\ r.excerpt.dropped + Len(r.excerpt.shown) = to - from + 1

Short == spool.flushed > outcome.read
TailIsTold == outcome.notes \cap {"snapshot", "truncated"} # {}

(* MissingIsTold: an export has read all that was on disk when it was asked *)
(* for, or was written over it and says that it is empty; and what it lacks *)
(* of the rest is said: a tail not there yet or lost -- unless the dialog,  *)
(* which asks after the pass, finds that the capture ended during it --, an *)
(* outage, a template over the limit, and on the command line a damaged     *)
(* line (check_export_destination, export_notes, SpoolReader.truncated).    *)
MissingIsTold ==
    outcome.kind = "done" =>
        /\ \/ outcome.read >= outcome.held
           \/ outcome.destination = "spool" /\ "empty" \in outcome.notes
        /\ Short \/ spool.state \in {"recording", "killed"} =>
            TailIsTold \/ (outcome.asker = "dialog" /\ outcome.ended)
        /\ scan.gaps # <<>> => "gaps" \in outcome.notes
        /\ Len(Seen) > Total(scan.templates) => "templates" \in outcome.notes
        /\ (outcome.malformed > 0 /\ outcome.asker = "cli") => "malformed" \in outcome.notes

(* TailAlwaysTold: an export that stops short of what is on disk says so    *)
(* (exporters/notes.py, of its notes: "Everything about this export a       *)
(* reader would otherwise assume away").                                    *)
TailAlwaysTold == outcome.kind = "done" /\ Short => TailIsTold

(* CaptureIsKept: no export takes from the capture it reads (paths.py, of   *)
(* check_export_destination: "Refuse an export that would be written over   *)
(* the capture it is reading").                                             *)
CaptureIsKept == [][spool'.flushed >= spool.flushed]_vars

(* DamageIsTold: whoever asked, damaged lines missing from an export are    *)
(* told (exporters/notes.py: "the reader is told the same truth whichever  *)
(* way they asked").                                                       *)
DamageIsTold ==
    (outcome.kind = "done" /\ outcome.malformed > 0) => "malformed" \in outcome.notes
=============================================================================
