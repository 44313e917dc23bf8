-------------------------------- MODULE Table --------------------------------
(***************************************************************************)
(* What the table makes of its rows, as values: which rows a filter shows, *)
(* what a cell says, where a search lands, what the overview beside it     *)
(* paints and where a click on it leads, how wide a column is.             *)
(* gui/models.py, finding.py, timeinput.py, columns.py, widgets/minimap.py *)
(* A view is a sequence of rows and a row of it a position, from 1; the    *)
(* rows of `_visible` are positions of the model, in ascending order.      *)
(***************************************************************************)
EXTENDS Filters

CONSTANTS
    BucketRows,     \* BUCKET_ROWS
    Height          \* pixels of the overview

ASSUME TableAssumption == BucketRows \in Nat \ {0} /\ Height \in Nat \ {0}

Notice == 30
Error == 60
Fault == 70

IsRecord(row) == row.kind = "record"
When(row) == row.at
IsErrorRow(row) == IsRecord(row) /\ row.level >= Error

(* _rescan(): only records are asked. *)
Visible(rows, f) ==
    SelectSeq([s \in DOMAIN rows |-> s], LAMBDA s : IsRecord(rows[s]) => Matches(f, rows[s]))

(* bisect_left(visible, source), as a row of the view. *)
Bisect(visible, source) == Cardinality({v \in DOMAIN visible : visible[v] < source}) + 1
NearestViewRow(visible, source) ==
    IF visible = <<>> THEN 0
    ELSE IF Bisect(visible, source) > Len(visible) THEN Len(visible) ELSE Bisect(visible, source)

-----------------------------------------------------------------------------
(* Cells.                                                                  *)

Collapsing == {"process", "subsystem"}
Repeat == <<"\"">>

CellText(row, column) == IF IsRecord(row) THEN row[column] ELSE <<>>

(* _repeats_previous(): the row above it in the view, if that is a record. *)
RepeatsPrevious(view, v, column) ==
    /\ v > 1 /\ column \in Collapsing
    /\ IsRecord(view[v - 1]) /\ view[v - 1][column] = view[v][column]

(* _display() *)
Display(view, v, column) ==
    IF IsRecord(view[v]) /\ RepeatsPrevious(view, v, column) THEN Repeat
    ELSE CellText(view[v], column)

-----------------------------------------------------------------------------
(* Finding.                                                                *)

Kinds == {"error", "fault", "notice", "marker", "mark"}

(* MATCHERS *)
Matcher(kind, row, marked) ==
    CASE kind = "error" -> IsRecord(row) /\ row.level >= Error
      [] kind = "fault" -> IsRecord(row) /\ row.level >= Fault
      [] kind = "notice" -> IsRecord(row) /\ row.level >= Notice
      [] kind = "marker" -> ~IsRecord(row)
      [] kind = "mark" -> marked

(* find(): from the next row around to this one; 0 finds nothing. *)
Find(matching, total, start, step) ==
    LET row(offset) == ((start - 1 + step * offset) % total) + 1
        near == {offset \in 1..total : row(offset) \in matching}
    IN  IF near = {} THEN 0 ELSE row(Min(near))

(* row_at_time() *)
RowAtTime(view, moment) ==
    LET after == {v \in DOMAIN view : When(view[v]) >= moment}
    IN  IF after = {} THEN 0 ELSE Min(after)

Day == 86400
Unit == [s |-> 1, m |-> 60, h |-> 3600]

(* parse_jump(): an offset from where the reader is, or a clock on a day. *)
Refused == <<>>
ParseJump(text, anchor) ==
    CASE text.kind = "offset" -> <<anchor + text.sign * FoldLeft(
                LAMBDA sum, part : sum + part.amount * Unit[part.unit], 0, text.parts)>>
      [] text.kind = "clock" ->
            IF text.hour > 23 \/ text.minute > 59 \/ text.second > 59 THEN Refused
            ELSE <<(IF text.day = <<>> THEN anchor \div Day ELSE text.day[1]) * Day
                   + 3600 * text.hour + 60 * text.minute + text.second>>
      [] text.kind = "junk" -> Refused

-----------------------------------------------------------------------------
(* The overview: bands of the whole view, from 0 as the pixels are.        *)

MinStripe == 2
MinMarker == 3
PageBands == 10

BandCount == IF Height \div MinStripe > 1 THEN Height \div MinStripe ELSE 1
AtMost(n, limit) == IF n < limit THEN n ELSE limit
AtLeast(n, limit) == IF n > limit THEN n ELSE limit

(* _band_of() *)
BandOf(visible, source, bands) ==
    AtMost(((Bisect(visible, source) - 1) * bands) \div Len(visible), bands - 1)

(* overview(): an error colours the bands its bucket touches, a marker or a *)
(* mark its own band.                                                       *)
Overview(rows, visible, marks, bands) ==
    LET total == Len(visible)
        view(bucket) == (bucket * BucketRows + 1)..AtMost((bucket + 1) * BucketRows, total)
        buckets == {b \in 0..((total - 1) \div BucketRows) :
                        \E v \in view(b) : IsErrorRow(rows[visible[v]])}
        touched(b) == ((b * BucketRows * bands) \div total)
                      ..AtMost(bands - 1, (((b + 1) * BucketRows - 1) * bands) \div total)
        markers == {s \in ToSet(visible) : ~IsRecord(rows[s])}
        own(S) == {BandOf(visible, s, bands) : s \in S}
    IN  IF total = 0 THEN [error |-> {}, marker |-> {}, mark |-> {}]
        ELSE [error |-> UNION {touched(b) : b \in buckets},
              marker |-> own(markers), mark |-> own(marks)]

(* paintEvent(): the pixel a band's stripe starts at. *)
StripeTop(band, bands) == (band * Height) \div bands

(* _jump(): a click, as a row of the view. *)
ClickedRow(y, total) == AtMost((y * total) \div Height, total - 1) + 1

(* _step_bands() *)
SteppedRow(first, bands, count, total) ==
    AtMost(AtLeast(first - 1 + bands * AtLeast(total \div count, 1), 0), total - 1) + 1

(* _paint_marker(): where the reader is, tall enough to be seen. *)
ViewportMarker(first, last, total) ==
    LET top == AtMost(((first - 1) * Height) \div total, AtLeast(Height - MinMarker, 0))
    IN  [top |-> top, bottom |-> AtLeast((last * Height) \div total, top + MinMarker)]

-----------------------------------------------------------------------------
(* Columns, by name; the message takes what the others leave.              *)

Characters == [time |-> 13, level |-> 12, process |-> 22, subsystem |-> 26, category |-> 18]
Untrimmable == {"time", "level"}
MessageMinimum == 30
MinimumCharacters == 8

WantedWidths(unit, margins) == [c \in DOMAIN Characters |-> Characters[c] * unit + margins]

LOCAL Total(budgets, columns) == SumFunctionOnSet(budgets, columns \cap DOMAIN budgets)

(* fit_budgets(): the shortfall comes out of the identifiers. *)
FitBudgets(budgets, unit, available) ==
    LET room == available - MessageMinimum * unit
        flexible == DOMAIN budgets \ Untrimmable
        spare == room - Total(budgets, Untrimmable)
        asked == Total(budgets, flexible)
        floor == MinimumCharacters * unit
    IN  IF available <= 0 \/ Total(budgets, DOMAIN budgets) <= room \/ flexible = {}
           \/ spare < floor * Cardinality(flexible) THEN budgets
        ELSE [c \in DOMAIN budgets |-> IF c \in Untrimmable THEN budgets[c]
                                       ELSE AtLeast((budgets[c] * spare) \div asked, floor)]
=============================================================================
