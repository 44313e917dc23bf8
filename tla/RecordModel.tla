---------------------------- MODULE RecordModel ----------------------------
(***************************************************************************)
(* The table's model (gui/models.py, gui/markers.py) fed with one capture, *)
(* by a loader or by a pump that drops what a long pause piled up.         *)
(*                                                                         *)
(* An item is named by its place in the capture.  The rows the model       *)
(* retains are a sequence; everything it holds by source index -- what the *)
(* filter shows, the marks, the highlight's hits, the overview -- has to   *)
(* move with the rows when a prefix of them leaves or a notice takes the   *)
(* place at the top.  `_visible` is an ascending list in the code and a    *)
(* set here: a row of the view is the rank of its source in that set.      *)
(***************************************************************************)
EXTENDS Integers, Sequences, FiniteSets, FiniteSetsExt

CONSTANTS
    RowCap,         \* row_cap
    TrimAt,         \* int(row_cap * (1 + TRIM_MARGIN))
    BucketRows,     \* BUCKET_ROWS
    Texts,          \* what a record's message may read
    Errors,         \* the texts of records that are errors
    Filters,        \* the filters a user sets, each the set of texts it passes
    Highlights,     \* the terms a user marks, each the set of texts it hits
    NoFilter,       \* Filter(): passes every text
    MaxItems,       \* bound: items of the capture
    MaxBatch,       \* bound: items handed over at once
    MaxMarks,       \* bound: marks at one time
    MaxLoads        \* bound: times the capture is opened again

ASSUME CapAssumption == RowCap \in Nat \ {0} /\ TrimAt \in Nat /\ TrimAt >= RowCap
ASSUME BucketAssumption == BucketRows \in Nat \ {0}
ASSUME TextAssumption ==
    /\ "gap" \notin Texts /\ Errors \subseteq Texts
    /\ Texts \subseteq NoFilter /\ NoFilter \in Filters
    /\ {} \in Highlights
ASSUME BoundsAssumption ==
    \A bound \in {MaxItems, MaxBatch, MaxMarks, MaxLoads} : bound \in Nat

VARIABLES
    capture,        \* the text of each item, "gap" for a gap
    fed,            \* items that have reached the model or been dropped
    model,          \* the model, see Empty
    filter, highlight,
    told,           \* rows of the view, by the brackets Qt was given
    marked,         \* the items that the user has marked
    saved,          \* the marks settings keep for this capture
    loads,          \* times the capture was opened again
    restored        \* restore_marks has run since then

vars == <<capture, fed, model, filter, highlight, told, marked, saved, loads,
          restored>>

-----------------------------------------------------------------------------
(* Rows.                                                                   *)

Item(n) == [kind |-> "item", n |-> n]
(* Eviction(count, through), with `through` named by its item. *)
Notice(count, through) == [kind |-> "eviction", n |-> count, through |-> through]
IsNotice(row) == row.kind = "eviction"

IsGap(n) == capture[n] = "gap"
Records(S) == {n \in S : ~IsGap(n)}

(* The instant of an item: a gap starts where the last record before it was. *)
At(n) == IF IsGap(n) /\ Records(1..n) # {} THEN Max(Records(1..n)) ELSE n

(* when() *)
When(row) == IF IsNotice(row) THEN At(row.through) ELSE At(row.n)

(* _text_of(): a notice's sentence changes with its count. *)
TextOf(row) ==
    IF IsNotice(row) THEN IF row.n % 2 = 0 THEN "even" ELSE "odd"
                     ELSE capture[row.n]

(* _passes(): only records are asked. *)
Passes(row, f) == IsNotice(row) \/ IsGap(row.n) \/ capture[row.n] \in f

IsError(row) == ~IsNotice(row) /\ capture[row.n] \in Errors
IsMarker(row) == IsNotice(row) \/ IsGap(row.n)

-----------------------------------------------------------------------------
(* What the model derives from its rows, computed from nothing.            *)

VisibleOf(rows, f) == {s \in DOMAIN rows : Passes(rows[s], f)}
HitsOf(rows, visible, h) == {s \in visible : TextOf(rows[s]) \in h}
MarkersOf(rows, visible) == {s \in visible : IsMarker(rows[s])}
GapsOf(rows) == Cardinality({s \in DOMAIN rows : ~IsNotice(rows[s]) /\ IsGap(rows[s].n)})

(* bisect_left(visible, s): the row of the view that shows source s. *)
ViewRow(visible, s) == Cardinality({v \in visible : v < s})
Bucket(visible, s) == ViewRow(visible, s) \div BucketRows

(* The buckets of an overview that hold an error. *)
ErrorBuckets(rows, visible, S) == {Bucket(visible, s) : s \in {e \in S : IsError(rows[e])}}

(* An empty model: its rows, what is visible, the marks and hits by source *)
(* index, the overview, and two counters.                                  *)
Empty ==
    [rows |-> <<>>, visible |-> {}, marks |-> {}, hits |-> {},
     buckets |-> {}, markers |-> {}, evicted |-> 0, gaps |-> 0]

(* _rebuild_buckets() *)
WithBuckets(m) ==
    [m EXCEPT !.buckets = ErrorBuckets(m.rows, m.visible, m.visible),
              !.markers = MarkersOf(m.rows, m.visible)]

(* _test_hit(): one row, in both directions. *)
WithHit(m, s) ==
    [m EXCEPT !.hits = IF TextOf(m.rows[s]) \in highlight THEN @ \cup {s} ELSE @ \ {s}]

-----------------------------------------------------------------------------
(* Mutation of Exceeded: the cap counts the rows shown. *)
ShownExceeds(m) == Cardinality(m.visible) > TrimAt

Exceeded(m) == Len(m.rows) > TrimAt

(* plan_trim(): what one trim does, worked out before anything moves. *)
NoPlan == [drop |-> 0]
PlanTrim(m) ==
    LET drop == Len(m.rows) - RowCap
        items == {m.rows[s].n : s \in {d \in 1..drop : ~IsNotice(m.rows[d])}}
        records == Records(items)
        notice == records # {}
        replacing == IsNotice(m.rows[1])
        hidden == ViewRow(m.visible, drop + 1)
    IN  IF ~Exceeded(m) THEN NoPlan
        ELSE [drop |-> drop,
              offset |-> IF notice THEN drop - 1 ELSE drop,
              gone |-> IF notice /\ replacing THEN hidden - 1 ELSE hidden,
              notice |-> notice, replacing |-> replacing,
              through |-> IF notice THEN Max(records) ELSE 0,
              records |-> Cardinality(records),
              gaps |-> Cardinality(items \ records)]

(* Mutation of Moved: the arithmetic of a trim that adds no notice. *)
MovedByDrop(S, plan) == {s - plan.drop : s \in {t \in S : t > plan.drop}}

(* Where source indices go when the rows of a plan leave. *)
Moved(S, plan) == {s - plan.offset : s \in {t \in S : t > plan.drop}}

(* _trim(), up to the bracket the view is given. *)
Trimmed(m) ==
    LET plan == PlanTrim(m)
        kept == SubSeq(m.rows, plan.drop + 1, Len(m.rows))
        rest == [m EXCEPT !.rows = kept,
                          !.visible = Moved(@, plan),
                          !.marks = Moved(@, plan),
                          !.hits = Moved(@, plan),
                          !.gaps = @ - plan.gaps]
        headed == [rest EXCEPT !.rows = <<Notice(m.evicted + plan.records, plan.through)>> \o @,
                               !.visible = @ \cup {1},
                               !.evicted = @ + plan.records]
    IN  IF plan = NoPlan THEN m
        ELSE WithBuckets(IF plan.notice THEN WithHit(headed, 1) ELSE rest)

(* The rows that the bracket of a trim adds to the view. *)
Bracketed(m) ==
    LET plan == PlanTrim(m)
    IN  IF plan = NoPlan THEN 0
        ELSE IF plan.gone > 0 THEN -plan.gone
        ELSE IF plan.notice /\ ~plan.replacing THEN 1 ELSE 0

(* append(), before its trim: only the new rows are looked at. *)
Extended(m, batch) ==
    LET rows == m.rows \o batch
        new == {s \in (Len(m.rows) + 1)..Len(rows) : Passes(rows[s], filter)}
        visible == m.visible \cup new
    IN  [m EXCEPT !.rows = rows,
                  !.visible = visible,
                  !.hits = @ \cup HitsOf(rows, new, highlight),
                  !.buckets = @ \cup ErrorBuckets(rows, visible, new),
                  !.markers = @ \cup MarkersOf(rows, new),
                  !.gaps = @ + GapsOf(batch)]

(* The rows below a new notice move down by one. *)
Shifted(S) == {s + 1 : s \in S}

(* Mutations of Noted: a notice is added whatever is at the top; the marks  *)
(* stay where they are.                                                     *)
NotedTwice(m, count, through) ==
    WithBuckets(WithHit(
        [m EXCEPT !.rows = <<Notice(m.evicted + count, through)>> \o @,
                  !.visible = Shifted(@) \cup {1},
                  !.marks = Shifted(@), !.hits = Shifted(@),
                  !.evicted = @ + count], 1))
NotedUnderMarks(m, count, through) ==
    IF m.rows # <<>> /\ IsNotice(m.rows[1])
    THEN WithHit([m EXCEPT !.rows[1] = Notice(m.evicted + count, through),
                           !.evicted = @ + count], 1)
    ELSE [NotedTwice(m, count, through) EXCEPT !.marks = m.marks]

(* note_eviction(): one notice, updated. *)
Noted(m, count, through) ==
    LET notice == Notice(m.evicted + count, through)
        noted == [m EXCEPT !.evicted = @ + count]
    IN  IF m.rows # <<>> /\ IsNotice(m.rows[1])
        THEN WithHit([noted EXCEPT !.rows[1] = notice], 1)
        ELSE WithBuckets(WithHit(
                [noted EXCEPT !.rows = <<notice>> \o @,
                              !.visible = Shifted(@) \cup {1},
                              !.marks = Shifted(@), !.hits = Shifted(@)], 1))

-----------------------------------------------------------------------------
Init ==
    /\ capture \in [1..MaxItems -> Texts \cup {"gap"}]
    /\ fed = 0 /\ model = Empty
    /\ filter = NoFilter /\ highlight = {}
    /\ told = 0 /\ marked = {}
    /\ saved = {} /\ loads = 0 /\ restored = FALSE

Batch(k) == [i \in 1..k |-> Item(fed + i)]

AppendBatch(k) ==
    /\ k \in 1..MaxBatch /\ fed + k <= MaxItems
    /\ fed' = fed + k
    /\ LET longer == Extended(model, Batch(k))
       IN  /\ model' = Trimmed(longer)
           /\ told' = told + Cardinality(longer.visible) - Cardinality(model.visible)
                        + Bracketed(longer)
    /\ UNCHANGED <<capture, filter, highlight, marked, saved, loads, restored>>

(* Mutation of DropPaused: the records go, and nothing is said. *)
DropSilently(k) ==
    /\ loads = 0
    /\ k \in 1..MaxBatch /\ fed + k <= MaxItems
    /\ fed' = fed + k
    /\ UNCHANGED <<capture, model, filter, highlight, told, marked, saved, loads,
                   restored>>

(* Pump._enforce_pause_limit(): the oldest items of a paused queue go, and *)
(* the records among them are noted.                                       *)
DropPaused(k) ==
    /\ loads = 0
    /\ k \in 1..MaxBatch /\ fed + k <= MaxItems
    /\ fed' = fed + k
    /\ LET dropped == Records((fed + 1)..(fed + k))
       IN  IF dropped = {}
           THEN UNCHANGED <<model, told>>
           ELSE /\ model' = Noted(model, Cardinality(dropped), Max(dropped))
                /\ told' = told + Len(model'.rows) - Len(model.rows)
    /\ UNCHANGED <<capture, filter, highlight, marked, saved, loads, restored>>

SetFilter(f) ==
    /\ f # filter
    /\ filter' = f
    /\ LET visible == VisibleOf(model.rows, f)
       IN  /\ model' = WithBuckets(
                [model EXCEPT !.visible = visible,
                              !.hits = HitsOf(model.rows, visible, highlight)])
           /\ told' = Cardinality(visible)
    /\ UNCHANGED <<capture, fed, highlight, marked, saved, loads, restored>>

SetHighlight(h) ==
    /\ h # highlight
    /\ highlight' = h
    /\ model' = [model EXCEPT !.hits = HitsOf(model.rows, model.visible, h)]
    /\ UNCHANGED <<capture, fed, filter, told, marked, saved, loads, restored>>

MarkedItems(S) == {model.rows[s].n : s \in {t \in S : ~IsNotice(model.rows[t])}}

ToggleMark(s) ==
    /\ s \in model.visible
    /\ s \in model.marks \/ Cardinality(model.marks) < MaxMarks
    /\ LET one == {s}
       IN  IF s \in model.marks
           THEN model' = [model EXCEPT !.marks = @ \ one] /\ marked' = marked \ MarkedItems(one)
           ELSE model' = [model EXCEPT !.marks = @ \cup one] /\ marked' = marked \cup MarkedItems(one)
    /\ UNCHANGED <<capture, fed, filter, highlight, told, saved, loads, restored>>

ClearMarks ==
    /\ model.marks # {}
    /\ model' = [model EXCEPT !.marks = {}]
    /\ marked' = {}
    /\ UNCHANGED <<capture, fed, filter, highlight, told, saved, loads, restored>>

(* named_marks(): a mark is kept as an instant; `of` says what was marked. *)
NamedMarks == {[at |-> At(n), of |-> n] : n \in MarkedItems(model.marks)}

(* The window puts the capture down, saves its marks and opens it again:   *)
(* clear() keeps the filter and the highlight.                             *)
Reopen ==
    /\ loads < MaxLoads /\ fed = MaxItems
    /\ loads' = loads + 1
    /\ saved' = NamedMarks
    /\ fed' = 0 /\ model' = Empty /\ told' = 0 /\ marked' = {}
    /\ restored' = FALSE
    /\ UNCHANGED <<capture, filter, highlight>>

(* restore_marks(): the first row at a mark's instant takes the mark. *)
RestoreMarks ==
    /\ loads > 0 /\ fed = MaxItems /\ ~restored
    /\ restored' = TRUE
    /\ LET rows == model.rows
           first(at) == {s \in DOMAIN rows :
                            When(rows[s]) = at /\ \A r \in 1..(s - 1) : When(rows[r]) # at}
           landed == UNION {first(mark.at) : mark \in saved}
       IN  /\ model' = [model EXCEPT !.marks = @ \cup landed]
           /\ marked' = marked \cup MarkedItems(landed)
    /\ UNCHANGED <<capture, fed, filter, highlight, told, saved, loads>>

Next ==
    \/ \E k \in 1..MaxBatch : AppendBatch(k) \/ DropPaused(k)
    \/ \E f \in Filters : SetFilter(f)
    \/ \E h \in Highlights : SetHighlight(h)
    \/ \E s \in DOMAIN model.rows : ToggleMark(s)
    \/ ClearMarks \/ Reopen \/ RestoreMarks

Spec == Init /\ [][Next]_vars

-----------------------------------------------------------------------------
Places == DOMAIN model.rows

(* Every variable stays in its type; the rows are items that were fed, in   *)
(* the order of the capture, and never more than the margin allows.         *)
TypeOK ==
    /\ fed \in 0..MaxItems /\ loads \in 0..MaxLoads /\ restored \in BOOLEAN
    /\ filter \in Filters /\ highlight \in Highlights
    /\ told \in Int
    /\ marked \subseteq 1..MaxItems
    /\ saved \subseteq [at : 1..MaxItems, of : 1..MaxItems]
    /\ Len(model.rows) <= TrimAt + 1
    /\ model.visible \subseteq Places /\ model.marks \subseteq Places
    /\ \A s \in Places : ~IsNotice(model.rows[s]) => model.rows[s].n \in 1..fed
    /\ \A r, s \in Places :
          r < s /\ ~IsNotice(model.rows[r]) /\ ~IsNotice(model.rows[s])
            => model.rows[r].n < model.rows[s].n

(* What append, trim and notice maintain step by step -- the shown rows,    *)
(* the highlight's hits, the overview, the gap count -- is what computing   *)
(* them anew from the rows gives, after every operation (_trim,             *)
(* note_eviction, append).                                                  *)
DerivedIsExact ==
    LET m == model
        visible == VisibleOf(m.rows, filter)
    IN  /\ m.visible = visible
        /\ m.hits = HitsOf(m.rows, visible, highlight)
        /\ m.buckets = ErrorBuckets(m.rows, visible, visible)
        /\ m.markers = MarkersOf(m.rows, visible)
        /\ m.gaps = GapsOf(m.rows)

(* A mark stays on the item it was made on until that item leaves, however  *)
(* the rows are filtered, trimmed or headed by a notice (_trim).            *)
MarksFollowItems ==
    \A s \in Places : ~IsNotice(model.rows[s]) =>
        (s \in model.marks <=> model.rows[s].n \in marked)

(* Every record fed is a row or is counted as evicted: none disappears      *)
(* without the view knowing (note_eviction, plan_trim).                     *)
NothingUncounted ==
    Cardinality(Records(1..fed)) =
        model.evicted + Cardinality(Records({model.rows[s].n :
                            s \in {t \in Places : ~IsNotice(model.rows[t])}}))

(* There is at most one notice, at the top, and it carries the running      *)
(* total (Eviction, note_eviction).                                         *)
OneNotice ==
    \A s \in Places : IsNotice(model.rows[s]) =>
        s = 1 /\ model.rows[s].n = model.evicted

-----------------------------------------------------------------------------
(* top_shifted is documented as a number that cannot disagree with what the *)
(* view was told: the brackets of a trim add up to the rows there are.      *)
ViewIsToldTheTruth == told = Cardinality(model.visible)

(* restore_marks() is documented to put marks back on the rows they were    *)
(* made on.                                                                 *)
RestoresWhatWasMarked ==
    [][RestoreMarks => marked' \subseteq marked \cup {mark.of : mark \in saved}]_vars

(* An Eviction is documented to sit at the head of the view once anything   *)
(* has been evicted.                                                        *)
HeadSaysEvicted ==
    model.evicted > 0 => model.rows # <<>> /\ IsNotice(model.rows[1])

=============================================================================
