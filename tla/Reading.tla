------------------------------- MODULE Reading -------------------------------
(***************************************************************************)
(* A reader in front of a live capture: the view of gui/windows/main.py    *)
(* over gui/models.py, with gui/follow.py keeping it on the newest records *)
(* and gui/widgets/marks_panel.py listing what is marked.                  *)
(*                                                                         *)
(* Rows arrive, leave at the top and change place under the reader's       *)
(* feet; the selection is Qt's persistent index, the scroll bar a pixel    *)
(* offset (here rows, their height being fixed) whose range is worked out  *)
(* at the next layout.                                                     *)
(***************************************************************************)
EXTENDS Table

CONSTANTS
    Capture,        \* what the device sends: records and gaps
    Wanted,         \* what a reader narrows to
    Jumps,          \* what a reader types into Go to Time
    RowCap, TrimAt, \* row_cap, and that with TRIM_MARGIN
    Page,           \* rows the viewport holds
    MaxBatch,       \* bound: items of one tick
    MaxActs         \* bound: things the reader does

ASSUME ViewAssumption ==
    /\ RowCap \in Nat \ {0} /\ TrimAt \in Nat /\ TrimAt >= RowCap
    /\ Page \in Nat \ {0} /\ MaxBatch \in Nat /\ MaxActs \in Nat
    /\ NoFilter \in Wanted

VARIABLES
    rows,       \* what the model retains: n for item n, -n for a notice through it
    fed,        \* items the device has sent
    filter,     \* the model's filter
    marks,      \* the marked rows, by source, with their names
    panel,      \* the list of marked rows: where each leads, and what it says
    current,    \* the selected row of the view, 0 for none
    detail,     \* the row the detail pane shows
    scroll,     \* top: the first row shown; laid: the rows the range was worked out for
    follow,     \* at_bottom, user_scrolled, rested: the throttle has run out
    running,    \* a capture feeds the view
    acts,       \* things the reader has done
    moved       \* history: rows have moved since the panel was built

vars == <<rows, fed, filter, marks, panel, current, detail, scroll, follow, running, acts, moved>>

Nothing == 0

-----------------------------------------------------------------------------
(* The model: its rows, what they say, what the filter leaves of them.     *)

IsNotice(n) == n < 0
RowOf(n) == IF IsNotice(n) THEN [kind |-> "eviction", at |-> Capture[-n].at] ELSE Capture[n]
Contents(r) == [s \in DOMAIN r |-> RowOf(r[s])]

(* What each filter shows of the capture; a notice is always shown. *)
Passing == [f \in Wanted |-> ToSet(Visible(Capture, f))]
Passes(n, f) == IsNotice(n) \/ n \in Passing[f]
VisibleIn(r, f) == SelectSeq([s \in DOMAIN r |-> s], LAMBDA s : Passes(r[s], f))
ViewIn(r, f) == Contents(SelectSeq(r, LAMBDA n : Passes(n, f)))
View == ViewIn(rows, filter)
Count == Len(VisibleIn(rows, filter))

(* row_at(): the item at a row of the view. *)
ItemAt(r, f, v) ==
    LET visible == VisibleIn(r, f)
    IN  IF v \in DOMAIN visible THEN r[visible[v]] ELSE Nothing

(* plan_trim(), as it moves the rows: gone is what Qt is told. *)
Plan(r, f) ==
    LET drop == Len(r) - RowCap
        records == {s \in 1..drop : ~IsNotice(r[s]) /\ IsRecord(RowOf(r[s]))}
        replacing == IsNotice(r[1])
        hidden == Bisect(VisibleIn(r, f), drop + 1) - 1
        notice == records # {}
    IN  [drop |-> drop, notice |-> notice, replacing |-> replacing,
         offset |-> IF notice THEN drop - 1 ELSE drop,
         gone |-> IF notice /\ replacing THEN hidden - 1 ELSE hidden,
         rows |-> (IF notice THEN <<-r[Max(records)]>> ELSE <<>>) \o SubSeq(r, drop + 1, Len(r))]

(* Where marks go when sources move by offset and those up to drop leave. *)
MarksMoved(drop, offset) ==
    [s \in {m - offset : m \in {k \in DOMAIN marks : k > drop}} |-> marks[s + offset]]

(* Qt's persistent index, over beginRemoveRows(0, gone - 1): the selected   *)
(* row moves up, and one that leaves hands over to the first that stays.    *)
CurrentAfter(gone, total) ==
    IF current = 0 \/ gone = 0 THEN current
    ELSE IF current > gone THEN current - gone
    ELSE IF total > gone THEN 1 ELSE 0

-----------------------------------------------------------------------------
(* The scroll bar.                                                         *)

LastTop(total) == AtLeast(total - Page + 1, 1)
AtBottom(top, laid) == top >= LastTop(laid)
Centred(v, total) == AtMost(AtLeast(v - Page \div 2, 1), LastTop(total))

(* visible_rows(), and the rows below it. *)
Bottom(top, total) == AtMost(top + Page - 1, total)
Behind(top, total) == AtLeast(total - Bottom(top, total), 0)

Following(cur, total, bottom) == ~(cur # 0 /\ cur < total) /\ bottom

(* Mutation of Pulls: the tail is only gone to when rows have come. *)
PullsWhenGrown(cur, total, bottom) ==
    total > scroll.laid /\ Following(cur, total, bottom) /\ follow.rested

(* Whether a tick goes to the newest row: not more often than the throttle  *)
(* lets it.                                                                 *)
Pulls(cur, total, bottom) == total > 0 /\ Following(cur, total, bottom) /\ follow.rested

(* Mutation of Ticked: where the bottom is is read on every tick. *)
TickedReadingEveryTime(cur, total, top) ==
    LET bottom == AtBottom(top, total)
        pull == Pulls(cur, total, bottom)
    IN  /\ follow' = [bottom |-> bottom, scrolled |-> FALSE, rested |-> follow.rested /\ ~pull]
        /\ scroll' = IF pull THEN [top |-> LastTop(total), laid |-> total]
                             ELSE [scroll EXCEPT !.top = top]

(* FollowController.tick(), after the rows of the tick have moved. *)
Ticked(cur, total, top) ==
    LET bottom == IF follow.scrolled THEN AtBottom(top, scroll.laid) ELSE follow.bottom
        pull == Pulls(cur, total, bottom)
    IN  /\ follow' = [bottom |-> bottom, scrolled |-> FALSE, rested |-> follow.rested /\ ~pull]
        /\ scroll' = IF pull THEN [top |-> LastTop(total), laid |-> total]
                             ELSE [scroll EXCEPT !.top = top]

-----------------------------------------------------------------------------
(* The panel.                                                              *)

(* _describe(): its name, or else what the row says. *)
Describe(view, v, name) ==
    IF name # <<>> THEN <<When(view[v]), name>>
    ELSE <<When(view[v]), CellText(view[v], "process"), CellText(view[v], "message")>>

(* rebuild(), from marked_view_rows(). *)
Listed(r, f, m) ==
    LET visible == VisibleIn(r, f)
        view == ViewIn(r, f)
        marked == SelectSeq([v \in DOMAIN visible |-> v], LAMBDA v : visible[v] \in DOMAIN m)
    IN  [i \in DOMAIN marked |->
            [row |-> marked[i], says |-> Describe(view, marked[i], m[visible[marked[i]]])]]

Relisted(r, f, m) == panel' = Listed(r, f, m) /\ moved' = FALSE

Init ==
    /\ rows = <<>> /\ fed = 0 /\ filter = NoFilter /\ marks = <<>> /\ panel = <<>>
    /\ current = 0 /\ detail = Nothing
    /\ scroll = [top |-> 1, laid |-> 0]
    /\ follow = [bottom |-> TRUE, scrolled |-> FALSE, rested |-> TRUE]
    /\ running = TRUE /\ acts = 0 /\ moved = FALSE

-----------------------------------------------------------------------------
(* What arrives: a tick of the pump, and then the follow controller's.     *)

(* Qt hands over in the middle of a trim: the pane is shown what the row    *)
(* below the last that leaves is before the rows have moved, and the view   *)
(* goes to it.                                                              *)
HandsOver(plan) == current \in 1..plan.gone

(* append(), _trim() and _keep_place(). *)
Arrive(k) ==
    LET batch == [i \in 1..k |-> fed + i]
        grown == rows \o batch
        before == Len(VisibleIn(grown, filter))
        plan == Plan(grown, filter)
        after == Len(VisibleIn(plan.rows, filter))
        handed == IF HandsOver(plan) /\ before > plan.gone THEN plan.gone + 1 ELSE 0
        kept == IF handed # 0 THEN AtMost(scroll.top, handed) ELSE scroll.top
    IN  IF k = 0 \/ Len(grown) <= TrimAt
        THEN /\ rows' = grown
             /\ Ticked(current, before, scroll.top)
             /\ UNCHANGED <<marks, current, detail, moved>>
        ELSE /\ rows' = plan.rows
             /\ marks' = MarksMoved(plan.drop, plan.offset)
             /\ current' = IF plan.gone = 0 /\ plan.notice /\ ~plan.replacing /\ current # 0
                           THEN current + 1 ELSE CurrentAfter(plan.gone, before)
             /\ detail' = IF HandsOver(plan) THEN ItemAt(grown, filter, handed) ELSE detail
             /\ moved' = TRUE
             /\ Ticked(current', after, AtLeast(kept - (before - after), 1))

Tick ==
    /\ running
    /\ UNCHANGED <<filter, panel, running, acts>>
    /\ \E k \in 0..AtMost(MaxBatch, Len(Capture) - fed) : fed' = fed + k /\ Arrive(k)

(* The capture ends: stop() drains once more. *)
Stop ==
    /\ running /\ running' = FALSE
    /\ \E k \in 0..AtMost(MaxBatch, Len(Capture) - fed) : fed' = fed + k /\ Arrive(k)
    /\ UNCHANGED <<filter, panel, acts>>

(* note_eviction(): what a long pause drops is said at the top. *)
NoteEviction ==
    /\ running
    /\ \E k \in 1..AtMost(MaxBatch, Len(Capture) - fed) :
          LET records == {n \in (fed + 1)..(fed + k) : IsRecord(Capture[n])}
              replacing == rows # <<>> /\ IsNotice(rows[1])
          IN  /\ fed' = fed + k /\ records # {}
              /\ rows' = <<-Max(records)>> \o (IF replacing THEN Tail(rows) ELSE rows)
              /\ marks' = IF replacing THEN marks ELSE MarksMoved(0, -1)
              /\ current' = IF replacing \/ current = 0 THEN current ELSE current + 1
              /\ moved' = TRUE
    /\ UNCHANGED <<filter, panel, detail, scroll, follow, running, acts>>

(* The layout works the range out again. *)
Layout ==
    /\ scroll.laid # Count
    /\ scroll' = [top |-> AtMost(scroll.top, LastTop(Count)), laid |-> Count]
    /\ UNCHANGED <<rows, fed, filter, marks, panel, current, detail, follow, running, acts, moved>>

(* FOLLOW_MIN_MS run out. *)
Rest ==
    /\ ~follow.rested /\ follow' = [follow EXCEPT !.rested = TRUE]
    /\ UNCHANGED <<rows, fed, filter, marks, panel, current, detail, scroll, running, acts, moved>>

-----------------------------------------------------------------------------
(* What the reader does.                                                   *)

Reader == acts < MaxActs /\ acts' = acts + 1

(* go_to(): selects a row and centres it; elsewhere than in the view, no.  *)
(* Selecting lays the table out.                                           *)
GoTo(v) ==
    IF v \notin DOMAIN View THEN UNCHANGED <<current, detail, scroll>>
    ELSE /\ current' = v /\ detail' = ItemAt(rows, filter, v)
         /\ scroll' = [top |-> Centred(v, Count), laid |-> Count]

(* set_following() *)
SetFollowing(on) ==
    /\ follow' = [follow EXCEPT !.bottom = on, !.scrolled = FALSE]
    /\ IF on THEN /\ current' = 0 /\ detail' = Nothing
                  /\ scroll' = [top |-> LastTop(Count), laid |-> Count]
             ELSE UNCHANGED <<current, detail, scroll>>

Scroll ==
    /\ Reader
    /\ \E top \in 1..LastTop(scroll.laid) : top # scroll.top /\ scroll' = [scroll EXCEPT !.top = top]
    /\ follow' = [follow EXCEPT !.scrolled = TRUE]
    /\ UNCHANGED <<rows, fed, filter, marks, panel, current, detail, running, moved>>

Click ==
    /\ Reader
    /\ \E v \in scroll.top..Bottom(scroll.top, Count) :
          v # current /\ current' = v /\ detail' = ItemAt(rows, filter, v)
    /\ UNCHANGED <<rows, fed, filter, marks, panel, scroll, follow, running, moved>>

Go(v) == Reader /\ GoTo(v) /\ UNCHANGED <<rows, fed, filter, marks, panel, follow, running, moved>>

(* step_row() *)
StepRow(delta) == IF current = 0 THEN 1 ELSE AtLeast(AtMost(current + delta, Count), 1)

(* find_next() *)
Matching(kind) ==
    LET view == View
        visible == VisibleIn(rows, filter)
    IN  {v \in DOMAIN view : Matcher(kind, view[v], visible[v] \in DOMAIN marks)}
FindNext(kind, backwards) ==
    LET start == IF current # 0 THEN current ELSE IF backwards THEN 1 ELSE 0
    IN  Find(Matching(kind), Count, start, IF backwards THEN -1 ELSE 1)

(* go_to_time(), from the selected row or the first one shown. *)
TimeAnchor == When(View[IF current # 0 THEN current ELSE AtMost(scroll.top, Count)])
GoToTime(text) ==
    LET moment == ParseJump(text, TimeAnchor)
    IN  IF moment = Refused THEN 0 ELSE RowAtTime(View, moment[1])

(* The overview: an arrow, a page of bands. *)
StepBands(bands) == SteppedRow(AtMost(scroll.top, Count), bands, BandCount, Count)

(* Where a key, a search, a time typed, the overview and the panel lead. *)
Destinations ==
    LET total == Count
    IN
    {StepRow(delta) : delta \in {-1, 1}}
    \cup UNION {{FindNext(kind, TRUE), FindNext(kind, FALSE)} : kind \in Kinds}
    \cup {GoToTime(text) : text \in Jumps}
    \cup {ClickedRow(y, total) : y \in 0..Height}
    \cup {StepBands(bands) : bands \in {-PageBands, -1, 1, PageBands}}
    \cup {panel[i].row : i \in DOMAIN panel}

FollowClicked ==
    /\ Reader /\ running
    /\ SetFollowing(~Following(current, Count, follow.bottom))
    /\ UNCHANGED <<rows, fed, filter, marks, panel, running, moved>>

(* go_to_bottom(): asked for at the last row it follows. *)
GoToBottom ==
    /\ Count > 0
    /\ IF current # Count THEN Go(Count)
       ELSE Reader /\ SetFollowing(TRUE) /\ UNCHANGED <<rows, fed, filter, marks, panel, running, moved>>

Deselect ==
    /\ Reader /\ current # 0 /\ current' = 0 /\ detail' = Nothing
    /\ UNCHANGED <<rows, fed, filter, marks, panel, scroll, follow, running, moved>>

(* toggle_mark() and set_mark_name(): the row that is selected. *)
Marked(m) ==
    /\ Reader /\ m # marks /\ marks' = m
    /\ Relisted(rows, filter, m)
    /\ UNCHANGED <<rows, fed, filter, current, detail, scroll, follow, running>>

Selected == VisibleIn(rows, filter)[current]
ToggleMark ==
    /\ current # 0
    /\ Marked(IF Selected \in DOMAIN marks THEN Restrict(marks, DOMAIN marks \ {Selected})
              ELSE (Selected :> <<>>) @@ marks)
SetMarkName(name) == current # 0 /\ Marked((Selected :> Strip(name)) @@ marks)
ClearMarks == Marked(<<>>)

(* Mutation of Restore: the row of the view stays. *)
RestoreRow(anchor, r, f, old) == AtMost(old, Len(VisibleIn(r, f)))

(* _restore(), from what _anchor() remembers. *)
Restore(anchor, r, f, old) == NearestViewRow(VisibleIn(r, f), anchor)

(* Mutation of ApplyFilter: the panel is left as it was. *)
ApplyFilterLeavingPanel(f) ==
    LET total == Len(VisibleIn(rows, f))
        v == IF current = 0 THEN 0 ELSE Restore(Selected, rows, f, current)
    IN  /\ Reader /\ f # filter /\ filter' = f /\ current' = v
        /\ detail' = IF v = 0 THEN detail ELSE ItemAt(rows, f, v)
        /\ scroll' = IF v = 0 THEN scroll ELSE [top |-> Centred(v, total), laid |-> total]
        /\ UNCHANGED <<rows, fed, marks, panel, follow, running, moved>>

(* _apply_filter(): a reset, and the selection put back where it was. *)
ApplyFilter(f) ==
    LET total == Len(VisibleIn(rows, f))
        v == IF current = 0 THEN 0 ELSE Restore(Selected, rows, f, current)
    IN  /\ Reader /\ f # filter /\ filter' = f
        /\ current' = v
        /\ detail' = IF v = 0 THEN detail ELSE ItemAt(rows, f, v)
        /\ scroll' = IF v = 0 THEN scroll ELSE [top |-> Centred(v, total), laid |-> total]
        /\ Relisted(rows, f, marks)
        /\ UNCHANGED <<rows, fed, marks, follow, running>>

(* start_capture: the model is emptied, and the tail goes back on. *)
NewCapture ==
    /\ Reader /\ ~running /\ running' = TRUE
    /\ rows' = <<>> /\ fed' = 0 /\ marks' = <<>> /\ Relisted(<<>>, filter, <<>>)
    /\ current' = 0 /\ detail' = Nothing
    /\ follow' = [follow EXCEPT !.bottom = TRUE]
    /\ UNCHANGED <<filter, scroll>>

Moves == \/ Count > 0 /\ \E v \in Destinations : Go(v)
         \/ GoToBottom \/ Click \/ Scroll \/ Deselect
Marking == ToggleMark \/ SetMarkName(<<"a", " ">>) \/ ClearMarks
Policies == FollowClicked \/ (\E f \in Wanted : ApplyFilter(f)) \/ NewCapture
Arrivals == Tick \/ NoteEviction \/ Stop

Next == Arrivals \/ Layout \/ Rest \/ Moves \/ Marking \/ Policies

(* The pump's timer and the clock run on; nobody has to scroll.  The first *)
(* conjunct is WF_vars(Tick), with what enables a tick that changes         *)
(* anything written out.                                                    *)
TickDue == running /\ (fed < Len(Capture) \/ follow.scrolled
                       \/ Pulls(current, Count, follow.bottom))
Fairness == ([]<>~TickDue \/ []<><<Tick>>_vars) /\ WF_vars(Rest)

Spec == Init /\ [][Next]_vars /\ Fairness

-----------------------------------------------------------------------------
(* Properties.                                                             *)

(* The first trim that heads the view with a notice tells Qt of one row     *)
(* too many, and the selection with it slips up a row: see RecordModel's    *)
(* ViewIsToldTheTruth.                                                      *)
Misreported ==
    /\ rows' # <<>> /\ IsNotice(rows'[1]) /\ ~(rows # <<>> /\ IsNotice(rows[1]))
    /\ Len(rows') = RowCap + 1

Same(a, b) == a = b \/ (IsNotice(a) /\ IsNotice(b))
SelectedItem == ItemAt(rows, filter, current)
ItemsShown(r, f) == {r[s] : s \in ToSet(VisibleIn(r, f))}

(* The selection stays on the record it was made on while that is shown,    *)
(* whatever arrives, leaves or is narrowed away around it (_trim,           *)
(* note_eviction, _anchor and _restore).                                    *)
SelectionHolds ==
    [][(/\ current # 0 /\ (acts' = acts \/ filter' # filter) /\ ~Misreported
        /\ SelectedItem \in ItemsShown(rows', filter'))
       => Same(SelectedItem, SelectedItem')]_vars

(* A tick takes nobody's place: a reader away from the tail keeps the       *)
(* record at the top of the view, and one who follows with nothing selected *)
(* and has not scrolled goes on following (_keep_place, tick).              *)
PlaceIsTheReaders ==
    [][(acts' = acts /\ running' /\ (rows' # rows \/ follow' # follow) /\ Tick) =>
          LET first == ItemAt(rows, filter, scroll.top)
              away == /\ ~Following(current', Count', follow'.bottom)
                      /\ current = 0 \/ SelectedItem \in ItemsShown(rows', filter')
              tailing == Following(current, Count, follow.bottom) /\ current = 0 /\ ~follow.scrolled
          IN  /\ (away /\ first \in ItemsShown(rows', filter'))
                    => Same(first, ItemAt(rows', filter', scroll'.top))
              /\ tailing => Following(current', Count', follow'.bottom)]_vars

(* While a capture runs and the view follows, the newest row is reached,    *)
(* however the throttle falls (FOLLOW_MIN_MS).                              *)
TailIsReached ==
    (running /\ Following(current, Count, follow.bottom)) ~>
        (~running \/ ~Following(current, Count, follow.bottom) \/ Behind(scroll.top, Count) = 0)

(* What the window says of its rows is so: the panel leads to the rows that *)
(* it describes as long as none has moved since it was built, a ditto reads *)
(* upward to the value it stands for, the overview has every error, marker  *)
(* and mark, and a click on a stripe leads to within a band of it.          *)
PanelLeadsThere == moved \/ panel = Listed(rows, filter, marks)

DittoReadsTrue ==
    LET view == View
    IN  \A v \in DOMAIN view, column \in Collapsing :
            Display(view, v, column) = Repeat =>
                \E above \in 1..(v - 1) :
                    /\ Display(view, above, column) = CellText(view[v], column)
                    /\ \A between \in (above + 1)..v : Display(view, between, column) = Repeat

OverviewReadsTrue ==
    LET view == View
        total == Len(view)
        visible == VisibleIn(rows, filter)
        bands == Overview(Contents(rows), visible, DOMAIN marks, BandCount)
        of(v) == BandOf(visible, visible[v], BandCount)
        bandRows == total \div BandCount + 1
        landed(band) == ClickedRow(StripeTop(band, BandCount), total)
        near(v, w, rowsApart) == v - w <= rowsApart /\ w - v <= rowsApart
    IN  /\ \A v \in DOMAIN view :
              /\ IsErrorRow(view[v]) => of(v) \in bands.error
              /\ ~IsRecord(view[v]) => of(v) \in bands.marker /\ near(v, landed(of(v)), bandRows)
              /\ visible[v] \in DOMAIN marks =>
                    of(v) \in bands.mark /\ near(v, landed(of(v)), bandRows)
        /\ \A band \in bands.error : \E v \in DOMAIN view :
              IsErrorRow(view[v]) /\ near(v, landed(band), bandRows + BucketRows)

WindowReadsTrue == PanelLeadsThere /\ DittoReadsTrue /\ OverviewReadsTrue

(* A mark in the panel leads to the row it describes. *)
PanelAlwaysLeadsThere == panel = Listed(rows, filter, marks)

(* The pane shows the row that is selected. *)
DetailIsSelected == current # 0 => Same(detail, SelectedItem)
=============================================================================
