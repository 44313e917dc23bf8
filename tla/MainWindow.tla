----------------------------- MODULE MainWindow -----------------------------
(***************************************************************************)
(* What the window holds (gui/windows/main.py): the capture on screen, its *)
(* rows and marks, the load that fills the table (gui/loader.py), the one  *)
(* notice of the banner (gui/widgets/banner.py) and the marks the settings *)
(* keep per capture (gui/settings.py).                                     *)
(*                                                                         *)
(* A handler runs to its end on the interface thread, so it is one action. *)
(* Handlers call each other (opening a file stops the capture, stopping    *)
(* one adopts its session, ...): each is an operator from a window to the  *)
(* window it leaves, or to the set of those it may leave.  The controller  *)
(* and the capture thread appear only through what the window asks of them *)
(* and is told; CaptureController models them.                             *)
(***************************************************************************)
EXTENDS Naturals, Sequences, FiniteSets, SequencesExt

CONSTANTS
    Files,            \* captures on disk
    Sessions,         \* the names sessions are recorded under
    Nothing,          \* no capture
    Damaged,          \* those whose last line cannot be read
    Truncated,        \* those without a gzip trailer
    Length,           \* items in a capture
    BatchSize,        \* CaptureLoader.batch_size
    MarkedCaptures,   \* MARKED_CAPTURES
    MaxOpens,         \* bound: files opened
    MaxNotes          \* bound: marks set or cleared

ASSUME NamesAssumption == Files \cap Sessions = {} /\ Nothing \notin Files \cup Sessions
ASSUME KindsAssumption == Damaged \subseteq Files /\ Truncated \subseteq Files
ASSUME SizesAssumption == {Length, BatchSize, MarkedCaptures} \subseteq Nat \ {0}
ASSUME LimitsAssumption == {MaxOpens, MaxNotes} \subseteq Nat

VARIABLES
    win,              \* the window
    thread,           \* its capture thread: items sent, session opened, over
    events,           \* signals of the thread, queued for the interface
    reader,           \* what the reader has done: files opened, captures
                      \* started, marks made, and whether one was taken up
                      \* while another still spoke (mixed), or put down,
                      \* taken up or unmarked before its marks were back (hasty)
    notes             \* the rows the reader has marked, of every capture

vars == <<win, thread, events, reader, notes>>

Captures == Files \cup Sessions
Rows(c, n) == {<<c, k>> : k \in 1..n}
Of(c, rows) == {row \in rows : row[1] = c}

Notices == {"none", "RECONNECTING", "PAUSED", "FILTER_HIDES_EVERYTHING",
            "LOADING", "STILL_RUNNING", "PLAIN"}

NoLoader == [of |-> Nothing, loaded |-> 0, timer |-> FALSE]
NotStarted == [sent |-> 0, path |-> FALSE, over |-> FALSE]

(* A window just built, over what the settings hold.  `back` is history:   *)
(* the marks stored of the capture on screen have been put back on it.     *)
Fresh(stored) ==
    [capture |-> Nothing, rows |-> {}, marks |-> {}, back |-> FALSE, loader |-> NoLoader,
     banner |-> "none", hides |-> FALSE, paused |-> FALSE, live |-> Nothing,
     parked |-> {}, closed |-> FALSE, stored |-> stored]

Init ==
    /\ win = Fresh(<<>>)
    /\ thread = NotStarted /\ events = <<>>
    /\ reader = [opens |-> 0, captures |-> {}, notes |-> 0,
                 mixed |-> FALSE, hasty |-> FALSE]
    /\ notes = {}

-----------------------------------------------------------------------------
(* The banner and the table.                                               *)

Show(w, notice) == [w EXCEPT !.banner = notice]
HideOnly(w, notice) == IF w.banner = notice THEN Show(w, "none") ELSE w

(* is_running. *)
Running(w) == w.live # Nothing

(* A running pump gives the model what its thread has sent. *)
Drain(w) == [w EXCEPT !.rows = @ \cup Rows(w.live, thread.sent)]

(* set_paused, reached by `toggled`: only a change of the item calls it. *)
SetPaused(w, on) ==
    IF w.paused = on THEN w
    ELSE IF on THEN Show([w EXCEPT !.paused = TRUE], "PAUSED")
    ELSE HideOnly([Drain(w) EXCEPT !.paused = FALSE], "PAUSED")

UpdateBanner(w) ==
    IF w.hides /\ w.rows # {} THEN Show(w, "FILTER_HIDES_EVERYTHING")
    ELSE LET down == HideOnly(w, "FILTER_HIDES_EVERYTHING")
         IN  IF w.capture # Nothing /\ w.rows = {} THEN Show(down, "PLAIN")
             ELSE down

(* _replace_model(keep_filter): clears the filter when it does not keep it. *)
ReplaceModel(w, keep) ==
    [w EXCEPT !.rows = {}, !.marks = {}, !.back = FALSE, !.hides = keep /\ @]

-----------------------------------------------------------------------------
(* The marks in the settings: newest capture first, none without marks.    *)

ReadMarks(stored, c) ==
    UNION {stored[i].marks : i \in {j \in DOMAIN stored : stored[j].capture = c}}

(* The entries of other captures: there is at most one of each. *)
Others(stored, c) ==
    LET own == {i \in DOMAIN stored : stored[i].capture = c}
    IN  IF own = {} THEN stored ELSE RemoveAt(stored, CHOOSE i \in own : TRUE)

WriteMarks(stored, c, marks) ==
    LET mine == IF marks = {} THEN <<>> ELSE <<[capture |-> c, marks |-> marks]>>
        all == mine \o Others(stored, c)
    IN  IF Len(all) > MarkedCaptures THEN SubSeq(all, 1, MarkedCaptures) ELSE all

(* Mutation of SaveMarks: the capture being taken up is the one named. *)
SaveMarksUnder(w, taken) ==
    IF taken = Nothing THEN w
    ELSE [w EXCEPT !.stored = WriteMarks(@, taken, w.marks)]

(* _save_marks(): `taken` is what the door takes up next. *)
SaveMarks(w, taken) ==
    IF w.capture = Nothing THEN w
    ELSE [w EXCEPT !.stored = WriteMarks(@, w.capture, w.marks)]

(* Marks come back on rows that are held. *)
RestoreMarks(w) ==
    [w EXCEPT !.marks = @ \cup (ReadMarks(w.stored, w.capture) \cap w.rows),
              !.back = TRUE]

-----------------------------------------------------------------------------
(* Stopping a capture.                                                     *)

(* _adopt_session: the session may be one that cannot be reopened. *)
AdoptSession(w, session) ==
    {[w EXCEPT !.capture = session], Show(w, "PLAIN")}

(* Mutation of StopCapture: the pause outlives the capture. *)
StopStaysPaused(w) ==
    IF ~Running(w) THEN {w}
    ELSE LET ended == [Drain(w) EXCEPT !.live = Nothing]
         IN  IF thread.path THEN AdoptSession(ended, w.live) ELSE {ended}

(* stop_capture: the lifecycle handler unticks Pause; then either the      *)
(* thread ends in time, or it is parked and says `more` before it ends.    *)
StopCapture(w) ==
    IF ~Running(w) THEN {w}
    ELSE LET quiet == SetPaused(w, FALSE)
             ended == [Drain(quiet) EXCEPT !.live = Nothing]
             late(n) == Rows(w.live, n) \ quiet.rows
         IN  (IF thread.path THEN AdoptSession(ended, w.live) ELSE {ended})
             \cup {Show([quiet EXCEPT !.live = Nothing,
                                      !.parked = @ \cup {late(n)}], "PLAIN") :
                      n \in {thread.sent, Length}}

(* A capture that stops with its session adopted is one with notes. *)
Noted(w) ==
    notes \cup IF w.capture \in Sessions THEN Of(w.capture, w.marks) ELSE {}

-----------------------------------------------------------------------------
(* The doors: what puts one capture down and takes another up.             *)

(* Putting a file down, or taking a mark off it, before its marks are back, *)
(* or a capture down that has no name to keep them under (see NotesKept).   *)
MarksAreBack ==
    \/ win.capture \notin Files
    \/ win.back
    \/ ReadMarks(win.stored, win.capture) = {}

Hasty == ~MarksAreBack \/ win.parked # {} \/ Running(win)

(* Mutation of OpenCapture: the loader of the last capture reads on. *)
OpenKeepsLoading(c) ==
    /\ ~win.closed /\ reader.opens < MaxOpens
    /\ reader' = [reader EXCEPT !.opens = @ + 1, !.hasty = @ \/ Hasty,
                                !.mixed = @ \/ win.parked # {} \/ Running(win)]
    /\ \E idle \in StopCapture(SaveMarks(win, c)) :
          win' = Show([ReplaceModel(idle, TRUE)
                         EXCEPT !.capture = c,
                                !.loader = IF @.timer THEN @
                                           ELSE [NoLoader EXCEPT !.of = c, !.timer = TRUE]],
                      "LOADING")
    /\ UNCHANGED <<thread, events, notes>>

(* open_capture: the marks are saved and the last load is dropped first;   *)
(* then the file opens, or a notice offers another and nothing else moves. *)
OpenCapture(c) ==
    /\ ~win.closed /\ reader.opens < MaxOpens
    /\ LET put == [SaveMarks(win, c) EXCEPT !.loader = NoLoader]
           load == [NoLoader EXCEPT !.of = c, !.timer = TRUE]
       IN  \/ win' = Show(put, "PLAIN") /\ notes' = notes
           \/ \E idle \in StopCapture(put) :
                 /\ win' = Show([ReplaceModel(idle, TRUE)
                                   EXCEPT !.capture = c, !.loader = load], "LOADING")
                 /\ notes' = notes
    /\ reader' = [reader EXCEPT !.opens = @ + 1, !.hasty = @ \/ Hasty,
                                !.mixed = @ \/ win'.parked # {}]
    /\ UNCHANGED <<thread, events>>

(* start_capture, which Capture offers while nothing runs.  Neither the     *)
(* marks nor a load that is still going are looked at.                      *)
StartCapture ==
    /\ ~win.closed /\ ~Running(win)
    /\ \E s \in Sessions \ reader.captures :
          /\ reader' = [reader EXCEPT !.captures = @ \cup {s},
                          !.mixed = @ \/ win.loader.timer \/ win.parked # {},
                          !.hasty = @ \/ win.loader.timer \/ win.parked # {}
                                      \/ win.capture # Nothing]
          /\ win' = [ReplaceModel(win, TRUE) EXCEPT !.capture = Nothing, !.live = s]
    /\ thread' = NotStarted
    /\ UNCHANGED <<events, notes>>

(* close_capture: refused while a capture runs. *)
CloseCapture ==
    /\ ~win.closed
    /\ IF Running(win)
       THEN win' = Show(win, "STILL_RUNNING") /\ UNCHANGED reader
       ELSE /\ win' = Show([ReplaceModel(SaveMarks(win, Nothing), FALSE) EXCEPT
                              !.capture = Nothing, !.loader = NoLoader], "none")
            /\ reader' = [reader EXCEPT !.hasty = @ \/ Hasty]
    /\ UNCHANGED <<thread, events, notes>>

(* closeEvent: shutdown(), then the marks of whatever it left on screen. *)
CloseWindow ==
    /\ ~win.closed
    /\ \E idle \in StopCapture(win) :
          /\ notes' = Noted(idle)
          /\ win' = [Fresh(SaveMarks(idle, Nothing).stored) EXCEPT !.closed = TRUE]
    /\ events' = <<>> /\ thread' = NotStarted
    /\ reader' = [reader EXCEPT !.hasty = @ \/ ~MarksAreBack]

(* The next session of the program: only the settings are left. *)
Relaunch ==
    /\ win.closed
    /\ win' = Fresh(win.stored)
    /\ UNCHANGED <<thread, events, reader, notes>>

-----------------------------------------------------------------------------
(* The load: one batch for each timeout of its timer.                      *)

Left == Length - win.loader.loaded

Loaded(w, n, on) ==
    LET l == w.loader
        read == Rows(l.of, l.loaded + n) \ Rows(l.of, l.loaded)
    IN  [w EXCEPT !.rows = @ \cup read,
                  !.loader = [l EXCEPT !.loaded = @ + n, !.timer = on]]

LoadStep ==
    /\ win.loader.timer /\ Left >= BatchSize
    /\ win.loader.of \in Damaged => Left > BatchSize
    /\ win' = Loaded(win, BatchSize, TRUE)
    /\ UNCHANGED <<thread, events, reader, notes>>

(* Mutation of LoadEnds: the notice is left for the reader to dismiss. *)
LoadEndsQuietly ==
    /\ win.loader.timer /\ Left < BatchSize /\ win.loader.of \notin Damaged
    /\ win' = RestoreMarks(Loaded(win, Left, FALSE))
    /\ UNCHANGED <<thread, events, reader, notes>>

(* The items run out, and _on_loaded. *)
LoadEnds ==
    /\ win.loader.timer /\ Left < BatchSize /\ win.loader.of \notin Damaged
    /\ LET down == HideOnly(Loaded(win, Left, FALSE), "LOADING")
           said == IF down.capture \in Truncated THEN Show(down, "PLAIN") ELSE down
       IN  win' = UpdateBanner(RestoreMarks(said))
    /\ UNCHANGED <<thread, events, reader, notes>>

(* The last line raises, and _on_load_failed. *)
LoadFails ==
    /\ win.loader.timer /\ Left <= BatchSize /\ win.loader.of \in Damaged
    /\ win' = Show(Loaded(win, Left - 1, FALSE), "PLAIN")
    /\ UNCHANGED <<thread, events, reader, notes>>

-----------------------------------------------------------------------------
(* The capture thread, and its signals on the interface thread.            *)

Capturing == Running(win) /\ ~thread.over

Send ==
    /\ Capturing /\ thread.sent < Length
    /\ thread' = [thread EXCEPT !.sent = @ + 1, !.path = TRUE]
    /\ UNCHANGED <<win, events, reader, notes>>

(* The device went, or came back. *)
ReportLink(link) ==
    /\ Capturing /\ Len(events) < 1
    /\ events' = Append(events, link)
    /\ UNCHANGED <<win, thread, reader, notes>>

EndItself(how) ==
    /\ Capturing /\ Len(events) < 1
    /\ thread' = [thread EXCEPT !.over = TRUE]
    /\ events' = Append(events, how)
    /\ UNCHANGED <<win, reader, notes>>

(* The pump's timer: a paused pump keeps what it has. *)
Tick ==
    /\ Running(win) /\ ~win.paused
    /\ win' = Drain(win)
    /\ UNCHANGED <<thread, events, reader, notes>>

(* pause_limit was passed: the notice says so, over whatever was there. *)
PauseOverflows ==
    /\ Running(win) /\ win.paused /\ thread.sent = Length
    /\ win' = Show(win, "PLAIN")
    /\ UNCHANGED <<thread, events, reader, notes>>

Next1(kind) ==
    /\ events # <<>> /\ Head(events) = kind /\ ~win.closed
    /\ events' = Tail(events)
    /\ UNCHANGED <<thread, reader>>

(* _on_capture_state. *)
OnReconnecting ==
    /\ Next1("reconnecting")
    /\ win' = Show(win, "RECONNECTING")
    /\ UNCHANGED notes

OnStreaming ==
    /\ Next1("streaming")
    /\ win' = HideOnly(win, "RECONNECTING")
    /\ UNCHANGED notes

(* _on_capture_failed and _on_capture_finished, after the wind-down. *)
OnEnded ==
    /\ Next1("ended")
    /\ \E idle \in StopCapture(win) :
          win' = Show(idle, "PLAIN") /\ notes' = Noted(idle)

Reap ==
    /\ \E late \in win.parked :
          win' = [win EXCEPT !.parked = @ \ {late}, !.rows = @ \cup late]
    /\ UNCHANGED <<thread, events, reader, notes>>

-----------------------------------------------------------------------------
(* The reader.                                                             *)

Disconnect ==
    /\ Running(win)
    /\ \E idle \in StopCapture(win) : win' = idle /\ notes' = Noted(idle)
    /\ UNCHANGED <<thread, events, reader>>

TogglePause ==
    /\ Running(win)
    /\ win' = SetPaused(win, ~win.paused)
    /\ UNCHANGED <<thread, events, reader, notes>>

(* _apply_filter, with a filter that keeps some row or none. *)
ApplyFilter(hides) ==
    /\ ~win.closed
    /\ win' = UpdateBanner([win EXCEPT !.hides = hides])
    /\ UNCHANGED <<thread, events, reader, notes>>

(* toggle_mark on a row that is shown. *)
ToggleMark(row) ==
    /\ ~win.closed /\ ~win.hides
    /\ reader.notes < MaxNotes
    /\ reader' = [reader EXCEPT !.notes = @ + 1,
                                !.hasty = @ \/ (row \in win.marks /\ ~MarksAreBack)]
    /\ LET now == IF row \in win.marks THEN win.marks \ {row}
                                       ELSE win.marks \cup {row}
       IN  /\ win' = [win EXCEPT !.marks = now]
           /\ notes' = IF win.capture = row[1]
                       THEN (notes \ {row}) \cup (now \cap {row}) ELSE notes
    /\ UNCHANGED <<thread, events>>

(* cancel_loading: what was read stays, and a notice says it is not all. *)
CancelLoading(w) == Show([w EXCEPT !.loader.timer = FALSE], "PLAIN")

(* The banner's button: hide, then the handler of the notice. *)
Act ==
    LET taken == Show(win, "none")
        idle == CASE win.banner \in {"RECONNECTING", "STILL_RUNNING"} -> StopCapture(taken)
                  [] win.banner = "PAUSED" -> {SetPaused(taken, FALSE)}
                  [] win.banner = "LOADING" -> {CancelLoading(taken)}
                  [] win.banner = "FILTER_HIDES_EVERYTHING" ->
                        {UpdateBanner([taken EXCEPT !.hides = FALSE])}
                  [] OTHER -> {taken}
    IN  /\ win.banner # "none" /\ ~win.closed
        /\ win' \in idle /\ notes' = Noted(win')
        /\ UNCHANGED <<thread, events, reader>>

Signals == OnReconnecting \/ OnStreaming \/ OnEnded \/ Reap
Loads == LoadStep \/ LoadEnds \/ LoadFails
Device == Send \/ EndItself("ended") \/ \E l \in {"reconnecting", "streaming"} : ReportLink(l)
Doors == StartCapture \/ CloseCapture \/ CloseWindow \/ Relaunch \/ \E c \in Files : OpenCapture(c)
Reader == Disconnect \/ TogglePause \/ Act
          \/ (\E hides \in BOOLEAN : ApplyFilter(hides))
          \/ (\E row \in win.rows : ToggleMark(row))

Next == Signals \/ Loads \/ Device \/ Doors \/ Reader \/ Tick \/ PauseOverflows

(* The zero-delay timer of a load fires as long as it is on. *)
Spec == Init /\ [][Next]_vars /\ WF_vars(Loads)

-----------------------------------------------------------------------------
TypeOK ==
    /\ win.capture \in Captures \cup {Nothing} /\ win.live \in Sessions \cup {Nothing}
    /\ win.rows \subseteq Captures \X (1..Length)
    /\ win.marks \subseteq win.rows /\ notes \subseteq Captures \X (1..Length)
    /\ win.banner \in Notices /\ Len(events) <= 2
    /\ {win.hides, win.paused, win.closed, win.loader.timer} \subseteq BOOLEAN
    /\ thread.sent \in 0..Length /\ Len(win.stored) <= MarkedCaptures

(* The table shows one timeline: never the rows of two captures, and those  *)
(* of a file only under its own name (open_capture).  Starting a capture    *)
(* during a load, or while a parked one may still speak, breaks it.         *)
OneTimeline ==
    ~reader.mixed =>
        /\ Cardinality({row[1] : row \in win.rows}) <= 1
        /\ win.capture \in Files => win.rows = Of(win.capture, win.rows)

(* The reader's notes outlive the capture they are about being put down:    *)
(* what is marked, and no more, is stored under its name, or on screen once *)
(* it has been read (_save_marks, _restore_marks, write_marks).             *)
NotesSurvive ==
    \A c \in Captures :
        IF c = win.capture
        THEN win.back \/ c \in Sessions => Of(c, notes) = win.marks
        ELSE Of(c, notes) = ReadMarks(win.stored, c)

NotesKept == ~reader.hasty => NotesSurvive

(* The notices that offer a way out are up over the state they are about:   *)
(* paused over a paused capture, reading over a load that goes on           *)
(* (banner.py: what is there, rather than what had been raised).            *)
NoticesAreTrue ==
    /\ win.banner = "PAUSED" => win.paused /\ Running(win)
    /\ win.banner = "LOADING" => win.loader.timer

(* Pausing is something a running capture is: no door and no end leaves the *)
(* item ticked for the next one (_set_capturing).                           *)
PauseEndsWithCapture == win.paused => Running(win)

(* A view that is frozen says why (the first of banner.py's two states). *)
FrozenViewSaysSo == win.paused => win.banner # "none"

(* The notice that offers to stop a load comes down, whatever else comes up. *)
LoadingComesDown == win.banner = "LOADING" ~> win.banner # "LOADING"
=============================================================================
