-------------------------- MODULE MainWindow_proofs -------------------------
(***************************************************************************)
(* Theorems about the window, for every set of captures, length, batch and *)
(* number of doors gone through: the table shows one timeline, the marks   *)
(* the reader made are kept, the notices are true.                         *)
(***************************************************************************)
EXTENDS MainWindow, FiniteSetTheorems, SequenceTheorems, TLAPS

USE NamesAssumption, KindsAssumption, SizesAssumption, LimitsAssumption

Table == Captures \X (1 .. Length)

Entry == [capture : Captures, marks : SUBSET Table]

Loader == [of : Files \cup {Nothing}, loaded : 0 .. Length, timer : BOOLEAN]

Window ==
    [capture : Captures \cup {Nothing}, rows : SUBSET Table, marks : SUBSET Table,
     back : BOOLEAN, loader : Loader, banner : Notices, hides : BOOLEAN,
     paused : BOOLEAN, live : Sessions \cup {Nothing}, parked : SUBSET SUBSET Table,
     closed : BOOLEAN, stored : Seq(Entry)]

Thread == [sent : 0 .. Length, path : BOOLEAN, over : BOOLEAN]

History ==
    [opens : Nat, captures : SUBSET Sessions, notes : Nat, mixed : BOOLEAN, hasty : BOOLEAN]

Typed ==
    /\ win \in Window /\ thread \in Thread /\ reader \in History
    /\ events \in Seq({"reconnecting", "streaming", "ended"}) /\ Len(events) <= 1
    /\ notes \subseteq Table

-----------------------------------------------------------------------------
(* The invariants, each of a window, so that a handler can be followed     *)
(* through the windows between.                                            *)

(* Every capture has at most one entry in the settings, and they are no    *)
(* more than are kept.                                                     *)
OneEntryEach(stored) ==
    /\ \A i, j \in DOMAIN stored : stored[i].capture = stored[j].capture => i = j
    /\ Len(stored) <= MarkedCaptures

(* Rows are marked while they are held; a load is of a file, and one that  *)
(* cannot be read to its end never gets there; what is paused is a capture *)
(* that runs; a window that is closed has none.                            *)
Within(w) ==
    /\ w.marks \subseteq w.rows
    /\ w.loader.timer =>
        w.loader.of \in Files /\ (w.loader.of \in Damaged => w.loader.loaded < Length)
    /\ OneEntryEach(w.stored)
    /\ w.paused => Running(w)
    /\ w.closed => w.capture = Nothing /\ ~Running(w)

(* Every notice is over the state it is about.                             *)
Noticed(w) ==
    /\ w.banner = "PAUSED" => w.paused
    /\ w.banner = "LOADING" => w.loader.timer

(* One capture speaks at a time ...                                        *)
OneSpeaks(w) ==
    /\ Running(w) => w.capture = Nothing /\ ~w.loader.timer /\ w.parked = {}
    /\ w.loader.timer => w.capture = w.loader.of /\ w.capture \in Files
    /\ w.parked # {} => w.capture = Nothing

(* ... and every row, held or on its way, is of that one.                  *)
RowsAreOf(w, c) ==
    /\ \A row \in w.rows : row[1] = c
    /\ \A late \in w.parked : \A row \in late : row[1] = c
    /\ Running(w) => c = w.live
    /\ w.capture # Nothing => c = w.capture

Timeline(w) == OneSpeaks(w) /\ \E c : RowsAreOf(w, c)

(* The notes of a capture that is not on screen are those stored of it; of *)
(* one that is, those on its rows, and those still to come back.           *)
NotesAreOf(w, noted) ==
    /\ \A c \in Captures : c # w.capture => Of(c, noted) = ReadMarks(w.stored, c)
    /\ w.capture # Nothing =>
        Of(w.capture, noted) =
            IF w.back \/ w.capture \in Sessions THEN w.marks
            ELSE w.marks \cup ReadMarks(w.stored, w.capture)

(* What has been read of a load is in the table, and the stored marks come *)
(* back when it ends.                                                      *)
LoadIsHeld(w) ==
    w.loader.timer => ~w.back /\ Rows(w.loader.of, w.loader.loaded) \subseteq w.rows

(* A session that has not been put on screen has no notes.                 *)
NewHasNone(w, noted, started) ==
    /\ \A s \in Sessions \ started : Of(s, noted) = {}
    /\ w.capture \in Sessions => w.capture \in started
    /\ Running(w) => w.live \in started /\ Of(w.live, noted) = {}

Remembered(w, noted, started) ==
    NotesAreOf(w, noted) /\ LoadIsHeld(w) /\ NewHasNone(w, noted, started)

WindowInv ==
    /\ Typed /\ Within(win) /\ Noticed(win)
    /\ ~reader.mixed => Timeline(win)

(* Of the notes, where the settings keep an entry for every capture.       *)
NotesInv ==
    ~reader.hasty => ~reader.mixed /\ Remembered(win, notes, reader.captures)

(* Two windows that differ in what is said and hidden at most.             *)
Alike(w, v) ==
    /\ v.capture = w.capture /\ v.rows = w.rows /\ v.marks = w.marks /\ v.back = w.back
    /\ v.loader = w.loader /\ v.paused = w.paused /\ v.live = w.live
    /\ v.parked = w.parked /\ v.closed = w.closed /\ v.stored = w.stored

(* A handler may take one window to the other.                             *)
Keeps(w, v) ==
    /\ v \in Window /\ Within(v)
    /\ Timeline(w) => Timeline(v)
    /\ \A noted, started :
        Timeline(w) /\ Remembered(w, noted, started) => Remembered(v, noted, started)

-----------------------------------------------------------------------------
(* Rows, and windows that are alike.                                       *)

(* The rows of a capture are its own, and more of it holds the rest.       *)
LEMMA RowsFacts ==
    ASSUME NEW c \in Captures, NEW n \in 0 .. Length
    PROVE  /\ Rows(c, n) \subseteq Table
           /\ \A row \in Rows(c, n) : row[1] = c
           /\ \A m \in 0 .. n : Rows(c, m) \subseteq Rows(c, n)
<1>1. /\ 1 .. n \subseteq 1 .. Length
      /\ \A m \in 0 .. n : 1 .. m \subseteq 1 .. n
  OBVIOUS
<1>2. QED
  BY <1>1 DEF Rows, Table

(* What holds of a window holds of one that is alike.                      *)
LEMMA AlikeKeeps ==
    ASSUME NEW w \in Window, Within(w), NEW v \in Window, Alike(w, v)
    PROVE  Keeps(w, v)
<1>1. Within(v)
  BY DEF Alike, Within, Running
<1>2. Timeline(w) => Timeline(v)
  BY DEF Alike, Timeline, OneSpeaks, RowsAreOf, Running
<1>3. ASSUME NEW noted, NEW started, Remembered(w, noted, started)
      PROVE  Remembered(v, noted, started)
  BY <1>3 DEF Alike, Remembered, NotesAreOf, LoadIsHeld, NewHasNone, Running
<1>4. QED
  BY <1>1, <1>2, <1>3 DEF Keeps

(* One handler after another.                                              *)
LEMMA KeepsOn ==
    ASSUME NEW u, NEW v, NEW w, Keeps(u, v), Keeps(v, w)
    PROVE  Keeps(u, w)
BY DEF Keeps

(* Show and HideOnly: nothing but the notice changes.                      *)
LEMMA ShowKeeps ==
    ASSUME NEW w \in Window, Within(w), NEW n \in Notices
    PROVE  LET v == Show(w, n)
           IN  v \in Window /\ v.banner = n /\ Alike(w, v) /\ Keeps(w, v)
<1> DEFINE v == Show(w, n)
<1>1. v \in Window /\ v.banner = n /\ Alike(w, v)
  BY DEF Show, Window, Alike
<1>2. QED
  BY <1>1, AlikeKeeps

LEMMA HideKeeps ==
    ASSUME NEW w \in Window, Within(w), NEW n \in Notices
    PROVE  LET v == HideOnly(w, n)
           IN  /\ v \in Window /\ Alike(w, v) /\ Keeps(w, v)
               /\ v.banner \in {w.banner, "none"} /\ (n # "none" => v.banner # n)
<1>1. "none" \in Notices
  BY DEF Notices
<1>2. CASE w.banner = n
  BY <1>1, <1>2, ShowKeeps DEF HideOnly
<1>3. CASE w.banner # n
  <2>1. Alike(w, w) /\ HideOnly(w, n) = w
    BY <1>3 DEF Alike, HideOnly
  <2>2. QED
    BY <1>3, <2>1, AlikeKeeps
<1>4. QED
  BY <1>2, <1>3

(* _update_banner: so does it, and the notices stay true.                  *)
LEMMA UpdateKeeps ==
    ASSUME NEW w \in Window, Within(w)
    PROVE  LET v == UpdateBanner(w)
           IN  /\ v \in Window /\ Alike(w, v) /\ Keeps(w, v)
               /\ v.banner \in {w.banner, "none", "PLAIN", "FILTER_HIDES_EVERYTHING"}
<1> DEFINE hidden == "FILTER_HIDES_EVERYTHING"
           down == HideOnly(w, hidden)
<1>1. {hidden, "PLAIN"} \subseteq Notices
  BY DEF Notices
<1>2. CASE w.hides /\ w.rows # {}
  BY <1>1, <1>2, ShowKeeps DEF UpdateBanner
<1>3. CASE ~(w.hides /\ w.rows # {})
  <2>1. /\ down \in Window /\ Alike(w, down) /\ Within(down)
        /\ down.banner \in {w.banner, "none"}
    BY <1>1, HideKeeps DEF Keeps
  <2>2. UpdateBanner(w) \in {down, Show(down, "PLAIN")}
    BY <1>3 DEF UpdateBanner
  <2> HIDE DEF down
  <2>3. LET v == Show(down, "PLAIN")
        IN  v \in Window /\ v.banner = "PLAIN" /\ Alike(down, v)
    BY <1>1, <2>1, ShowKeeps
  <2>4. \A v : Alike(down, v) => Alike(w, v)
    BY <2>1 DEF Alike
  <2>5. QED
    BY <2>1, <2>2, <2>3, <2>4, AlikeKeeps
<1>4. QED
  BY <1>2, <1>3

-----------------------------------------------------------------------------
(* Pausing and stopping.                                                   *)

(* Drain: a capture that runs adds rows of its own.                        *)
LEMMA DrainKeeps ==
    ASSUME NEW w \in Window, Within(w), Running(w), thread \in Thread
    PROVE  LET v == Drain(w)
           IN  /\ v \in Window /\ Keeps(w, v)
               /\ v = [w EXCEPT !.rows = v.rows] /\ w.rows \subseteq v.rows
<1> DEFINE v == Drain(w)
           new == Rows(w.live, thread.sent)
<1>1. w.live \in Captures /\ thread.sent \in 0 .. Length
  BY DEF Window, Thread, Captures, Running
<1>2. new \subseteq Table /\ \A row \in new : row[1] = w.live
  BY <1>1, RowsFacts
<1> HIDE DEF new
<1>3. v = [w EXCEPT !.rows = w.rows \cup new]
  BY DEF Drain, new
<1>4. /\ v \in Window /\ v.rows = w.rows \cup new /\ v.marks = w.marks /\ v.loader = w.loader
      /\ v.stored = w.stored /\ v.live = w.live /\ v.capture = w.capture
      /\ v.parked = w.parked /\ v.back = w.back /\ v.paused = w.paused
      /\ v.closed = w.closed
  BY <1>2, <1>3 DEF Window
<1>5. v = [w EXCEPT !.rows = v.rows]
  BY <1>3, <1>4
<1> HIDE DEF v
<1>6. Within(v)
  BY <1>4 DEF Within, Running
<1>7. Timeline(w) => Timeline(v)
  <2>1. SUFFICES ASSUME OneSpeaks(w), NEW c, RowsAreOf(w, c)
                 PROVE  OneSpeaks(v) /\ RowsAreOf(v, c)
    BY DEF Timeline
  <2>2. OneSpeaks(v)
    BY <1>4, <2>1 DEF OneSpeaks, Running
  <2>3. c = w.live
    BY <2>1 DEF RowsAreOf
  <2>4. RowsAreOf(v, c)
    BY <1>2, <1>4, <2>1, <2>3 DEF RowsAreOf, Running
  <2>5. QED
    BY <2>2, <2>4
<1>8. ASSUME NEW noted, NEW started, Remembered(w, noted, started)
      PROVE  Remembered(v, noted, started)
  BY <1>4, <1>8 DEF Remembered, NotesAreOf, LoadIsHeld, NewHasNone, Running
<1>9. QED
  BY <1>4, <1>5, <1>6, <1>7, <1>8 DEF Keeps, v

(* set_paused: the rows held back come in, and the notice goes with it.    *)
LEMMA PauseKeeps ==
    ASSUME NEW w \in Window, Within(w), NEW on \in BOOLEAN, on => Running(w),
           thread \in Thread
    PROVE  LET v == SetPaused(w, on)
           IN  /\ v \in Window /\ Keeps(w, v) /\ w.rows \subseteq v.rows
               /\ v.paused = on /\ v.live = w.live /\ v.capture = w.capture
               /\ v.loader = w.loader /\ v.parked = w.parked /\ v.stored = w.stored
               /\ v.marks = w.marks /\ v.back = w.back
               /\ Noticed(w) => Noticed(v)
               /\ v.banner \in {w.banner, "none", "PAUSED"}
<1>1. {"none", "PAUSED"} \subseteq Notices
  BY DEF Notices
<1>2. CASE w.paused = on
  <2>1. Alike(w, w)
    BY DEF Alike
  <2>2. QED
    BY <1>2, <2>1, AlikeKeeps DEF SetPaused
<1>3. CASE w.paused # on /\ on
  <2> DEFINE u == [w EXCEPT !.paused = TRUE]
             v == Show(u, "PAUSED")
  <2>1. /\ u \in Window /\ u.paused = TRUE /\ u.live = w.live /\ u.capture = w.capture
        /\ u.loader = w.loader /\ u.parked = w.parked /\ u.stored = w.stored
        /\ u.marks = w.marks /\ u.back = w.back /\ u.rows = w.rows /\ u.banner = w.banner
        /\ u.closed = w.closed
    BY DEF Window
  <2>2. SetPaused(w, on) = v
    BY <1>3 DEF SetPaused
  <2> HIDE DEF u
  <2>3. Within(u)
    BY <1>3, <2>1 DEF Within, Running
  <2>4. Keeps(w, u)
    BY <2>1, <2>3 DEF Keeps, Timeline, OneSpeaks, RowsAreOf, Running, Remembered, NotesAreOf,
       LoadIsHeld, NewHasNone
  <2>5. v \in Window /\ v.banner = "PAUSED" /\ Alike(u, v) /\ Keeps(u, v)
    BY <1>1, <2>1, <2>3, ShowKeeps
  <2>6. Keeps(w, v)
    BY <2>4, <2>5, KeepsOn
  <2> HIDE DEF v
  <2>7. QED
    BY <1>3, <2>1, <2>2, <2>5, <2>6 DEF Alike, Noticed
<1>4. CASE w.paused # on /\ ~on
  <2> DEFINE d == Drain(w)
             u == [d EXCEPT !.paused = FALSE]
             v == HideOnly(u, "PAUSED")
  <2>1. w.paused = TRUE /\ Running(w) /\ on = FALSE
    BY <1>4 DEF Within, Window
  <2>2. /\ d \in Window /\ Keeps(w, d) /\ w.rows \subseteq d.rows
        /\ d = [w EXCEPT !.rows = d.rows]
    BY <2>1, DrainKeeps
  <2>3. SetPaused(w, on) = v
    BY <1>4 DEF SetPaused
  <2> HIDE DEF d
  <2>4. /\ d.live = w.live /\ d.capture = w.capture
        /\ d.loader = w.loader /\ d.parked = w.parked /\ d.stored = w.stored
        /\ d.marks = w.marks /\ d.back = w.back /\ d.banner = w.banner
    BY <2>2 DEF Window
  <2>5. /\ u \in Window /\ u.paused = FALSE /\ u.live = d.live /\ u.capture = d.capture
        /\ u.loader = d.loader /\ u.parked = d.parked /\ u.stored = d.stored
        /\ u.marks = d.marks /\ u.back = d.back /\ u.rows = d.rows /\ u.banner = d.banner
        /\ u.closed = d.closed
    BY <2>2 DEF Window
  <2> HIDE DEF u
  <2>6. Within(u)
    BY <2>2, <2>5 DEF Within, Keeps, Running
  <2>7. Keeps(d, u)
    BY <2>5, <2>6 DEF Keeps, Timeline, OneSpeaks, RowsAreOf, Running, Remembered, NotesAreOf,
       LoadIsHeld, NewHasNone
  <2>8. /\ v \in Window /\ Alike(u, v) /\ Keeps(u, v)
        /\ v.banner \in {u.banner, "none"} /\ v.banner # "PAUSED"
    BY <1>1, <2>5, <2>6, HideKeeps
  <2>9. Keeps(w, v)
    BY <2>2, <2>7, <2>8, KeepsOn
  <2> HIDE DEF v
  <2>10. QED
    BY ZenonT(40), <2>1, <2>2, <2>3, <2>4, <2>5, <2>8, <2>9 DEF Alike, Noticed
<1>5. QED
  BY <1>2, <1>3, <1>4

(* The end of a capture that runs and is not paused.                       *)
LEMMA EndKeeps ==
    ASSUME NEW d \in Window, Within(d), Running(d), d.paused = FALSE
    PROVE  LET e == [d EXCEPT !.live = Nothing]
           IN  e \in Window /\ Keeps(d, e) /\ ~Running(e)
<1> DEFINE e == [d EXCEPT !.live = Nothing]
<1>1. /\ e \in Window /\ e.live = Nothing /\ e.rows = d.rows /\ e.marks = d.marks
      /\ e.loader = d.loader /\ e.stored = d.stored /\ e.capture = d.capture
      /\ e.parked = d.parked /\ e.back = d.back /\ e.paused = d.paused
      /\ e.closed = d.closed
  BY DEF Window
<1> HIDE DEF e
<1>2. Within(e)
  BY <1>1 DEF Within
<1>3. Timeline(d) => Timeline(e)
  BY <1>1 DEF Timeline, OneSpeaks, RowsAreOf, Running
<1>4. \A noted, started : Remembered(d, noted, started) => Remembered(e, noted, started)
  BY <1>1 DEF Remembered, NotesAreOf, LoadIsHeld, NewHasNone, Running
<1>5. e \in Window /\ Keeps(d, e) /\ ~Running(e)
  BY <1>1, <1>2, <1>3, <1>4 DEF Keeps, Running
<1>6. QED
  BY <1>5 DEF e

(* _adopt_session: the session that ended is on screen, with its marks.    *)
LEMMA AdoptKeeps ==
    ASSUME NEW d \in Window, Within(d), Running(d), d.paused = FALSE
    PROVE  LET a == [[d EXCEPT !.live = Nothing] EXCEPT !.capture = d.live]
           IN  /\ a \in Window /\ Within(a)
               /\ Timeline(d) => Timeline(a)
               /\ \A noted, started :
                    Timeline(d) /\ Remembered(d, noted, started)
                        => Remembered(a, noted \cup Of(d.live, d.marks), started)
<1> DEFINE a == [[d EXCEPT !.live = Nothing] EXCEPT !.capture = d.live]
<1>0. d.live \in Sessions /\ d.live # Nothing /\ d.live \notin Files /\ d.marks \subseteq d.rows
  BY DEF Window, Running, Within
<1>1. /\ a \in Window /\ a.live = Nothing /\ a.rows = d.rows /\ a.marks = d.marks
      /\ a.loader = d.loader /\ a.stored = d.stored /\ a.capture = d.live
      /\ a.parked = d.parked /\ a.back = d.back /\ a.paused = d.paused
      /\ a.closed = d.closed
  BY <1>0 DEF Window, Captures
<1> HIDE DEF a
<1>2. Within(a)
  BY <1>1 DEF Within
<1>3. Timeline(d) => Timeline(a)
  <2>1. SUFFICES ASSUME OneSpeaks(d), NEW c, RowsAreOf(d, c)
                 PROVE  OneSpeaks(a) /\ RowsAreOf(a, c)
    BY DEF Timeline
  <2>2. QED
    BY <1>0, <1>1, <2>1 DEF OneSpeaks, RowsAreOf, Running
<1>4. ASSUME NEW noted, NEW started, Timeline(d), Remembered(d, noted, started)
      PROVE  Remembered(a, noted \cup Of(d.live, d.marks), started)
  <2> DEFINE more == noted \cup Of(d.live, d.marks)
  <2>1. \A mark \in d.marks : mark[1] = d.live
    BY <1>0, <1>4 DEF Timeline, RowsAreOf, Running
  <2>2. /\ Of(d.live, more) = Of(d.live, noted) \cup d.marks
        /\ \A c : c # d.live => Of(c, more) = Of(c, noted)
    BY <2>1 DEF Of
  <2>3. /\ d.capture = Nothing /\ ~d.loader.timer
        /\ d.live \in started /\ Of(d.live, noted) = {}
        /\ \A c \in Captures : Of(c, noted) = ReadMarks(d.stored, c)
        /\ \A s \in Sessions \ started : Of(s, noted) = {}
    BY <1>0, <1>4 DEF Timeline, OneSpeaks, Remembered, NewHasNone, NotesAreOf, Running, Captures
  <2> HIDE DEF more
  <2>4. NotesAreOf(a, more)
    BY <1>0, <1>1, <2>2, <2>3 DEF NotesAreOf
  <2>5. LoadIsHeld(a) /\ NewHasNone(a, more, started)
    BY <1>0, <1>1, <2>2, <2>3 DEF LoadIsHeld, NewHasNone, Running
  <2>6. QED
    BY <2>4, <2>5 DEF Remembered, more
<1>5. QED
  BY <1>1, <1>2, <1>3, <1>4 DEF a

(* A thread that does not end in time is parked, with what it still has.   *)
LEMMA ParkKeeps ==
    ASSUME NEW q \in Window, Within(q), Running(q), q.paused = FALSE, NEW n \in 0 .. Length
    PROVE  LET p == [q EXCEPT !.live = Nothing,
                              !.parked = @ \cup {Rows(q.live, n) \ q.rows}]
           IN  p \in Window /\ Keeps(q, p) /\ ~Running(p)
<1> DEFINE late == Rows(q.live, n) \ q.rows
           p == [q EXCEPT !.live = Nothing, !.parked = @ \cup {late}]
<1>0. q.live \in Captures /\ late \subseteq Table /\ \A row \in late : row[1] = q.live
  BY RowsFacts DEF Window, Running, Captures
<1> HIDE DEF late
<1> DEFINE held == q.parked \cup {late}
<1>7. held \in SUBSET SUBSET Table
  BY <1>0 DEF Window
<1>8. p = [q EXCEPT !.live = Nothing, !.parked = held]
  BY DEF Window
<1> HIDE DEF held, p
<1>9. p \in Window /\ p.parked = held
  BY <1>7, <1>8 DEF Window
<1>1. /\ p \in Window /\ p.live = Nothing /\ p.rows = q.rows /\ p.marks = q.marks
      /\ p.loader = q.loader /\ p.stored = q.stored /\ p.capture = q.capture
      /\ p.parked = q.parked \cup {late} /\ p.back = q.back /\ p.paused = q.paused
      /\ p.closed = q.closed
  BY <1>8, <1>9 DEF Window, held
<1>2. Within(p)
  BY <1>1 DEF Within
<1>3. Timeline(q) => Timeline(p)
  <2>1. SUFFICES ASSUME OneSpeaks(q), NEW c, RowsAreOf(q, c)
                 PROVE  OneSpeaks(p) /\ RowsAreOf(p, c)
    BY DEF Timeline
  <2>2. c = q.live
    BY <2>1 DEF RowsAreOf
  <2>3. QED
    BY <1>0, <1>1, <2>1, <2>2 DEF OneSpeaks, RowsAreOf, Running
<1>4. \A noted, started : Remembered(q, noted, started) => Remembered(p, noted, started)
  BY <1>1 DEF Remembered, NotesAreOf, LoadIsHeld, NewHasNone, Running
<1>5. p \in Window /\ Keeps(q, p) /\ ~Running(p)
  BY <1>1, <1>2, <1>3, <1>4 DEF Keeps, Running
<1>6. QED
  BY <1>5 DEF p, late

(* What stops leaves no file on screen that was not there.                 *)
LEMMA StopLeaves ==
    ASSUME NEW w \in Window, Within(w), thread \in Thread, NEW idle \in StopCapture(w),
           Running(w), w.capture = Nothing
    PROVE  idle.capture \notin Files
<1> DEFINE q == SetPaused(w, FALSE)
           e == [Drain(q) EXCEPT !.live = Nothing]
           P(n) == [q EXCEPT !.live = Nothing, !.parked = @ \cup {Rows(w.live, n) \ q.rows}]
<1>1. w.live \in Sessions
  BY DEF Window, Running
<1>2. q \in Window /\ q.capture = Nothing
  BY PauseKeeps
<1>3. idle \in {[e EXCEPT !.capture = w.live], Show(e, "PLAIN"), e}
         \/ \E n \in {thread.sent, Length} : idle = Show(P(n), "PLAIN")
  BY DEF StopCapture, AdoptSession
<1> HIDE DEF q
<1>4. /\ e = [q EXCEPT !.rows = q.rows \cup Rows(q.live, thread.sent), !.live = Nothing]
      /\ DOMAIN e = DOMAIN q /\ e.capture = Nothing
  BY <1>2 DEF Drain, Window
<1> HIDE DEF e
<1>5. CASE idle \in {[e EXCEPT !.capture = w.live], Show(e, "PLAIN"), e}
  <2>1. "capture" \in DOMAIN e
    BY <1>2, <1>4 DEF Window
  <2>2. idle.capture \in {Nothing, w.live}
    BY <1>4, <1>5, <2>1 DEF Show
  <2>3. QED
    BY <1>1, <2>2
<1>6. CASE \E n \in {thread.sent, Length} : idle = Show(P(n), "PLAIN")
  BY <1>2, <1>6 DEF Show, Window
<1>7. QED
  BY <1>3, <1>5, <1>6

(* Nor does it close the window.                                           *)
LEMMA StopStaysOpen ==
    ASSUME NEW w \in Window, Within(w), thread \in Thread, NEW idle \in StopCapture(w),
           w.closed = FALSE
    PROVE  idle.closed = FALSE
<1> DEFINE q == SetPaused(w, FALSE)
           e == [Drain(q) EXCEPT !.live = Nothing]
           P(n) == [q EXCEPT !.live = Nothing, !.parked = @ \cup {Rows(w.live, n) \ q.rows}]
<1>1. CASE ~Running(w)
  BY <1>1 DEF StopCapture
<1>2. CASE Running(w)
  <2>1. q \in Window /\ q.closed = FALSE
    <3>1. q \in Window
      BY PauseKeeps
    <3>2. q.closed = w.closed
      BY DEF SetPaused, HideOnly, Show, Drain, Window
    <3>3. QED
      BY <3>1, <3>2
  <2>2. idle \in {[e EXCEPT !.capture = w.live], Show(e, "PLAIN"), e}
           \/ \E n \in {thread.sent, Length} : idle = Show(P(n), "PLAIN")
    BY <1>2 DEF StopCapture, AdoptSession
  <2> HIDE DEF q
  <2>3. e.closed = FALSE
    BY <2>1 DEF Drain, Window
  <2>4. CASE idle \in {[e EXCEPT !.capture = w.live], Show(e, "PLAIN"), e}
    <3> HIDE DEF e
    <3>1. [e EXCEPT !.capture = w.live].closed = e.closed /\ Show(e, "PLAIN").closed = e.closed
      BY <2>1 DEF Show, Drain, Window, e
    <3>2. QED
      BY <2>3, <2>4, <3>1
  <2>5. CASE \E n \in {thread.sent, Length} : idle = Show(P(n), "PLAIN")
    BY <2>1, <2>5 DEF Show, Window
  <2>6. QED
    BY <2>2, <2>4, <2>5
<1>3. QED
  BY <1>1, <1>2

(* What is noted when a capture has stopped stays within the table.        *)
LEMMA NotedTyped ==
    ASSUME NEW w \in Window, notes \subseteq Table
    PROVE  Noted(w) \subseteq Table
BY DEF Noted, Of, Window

(* A window in which no capture ends notes nothing new.                    *)
LEMMA NotedAlready ==
    ASSUME NEW w, NEW started, Timeline(w), Within(w), Remembered(w, notes, started)
    PROVE  Noted(w) = notes
<1>1. CASE w.capture \in Sessions
  <2>1. w.capture # Nothing
    BY <1>1
  <2>2. Of(w.capture, notes) = w.marks
    BY <1>1, <2>1 DEF Remembered, NotesAreOf
  <2>3. QED
    BY <1>1, <2>2 DEF Noted, Of
<1>2. CASE w.capture \notin Sessions
  BY <1>2 DEF Noted
<1>3. QED
  BY <1>1, <1>2

(* stop_capture: nothing runs and nothing is paused, the timeline is one,  *)
(* and the notes of a session that is adopted are its marks.               *)
LEMMA StopKeeps ==
    ASSUME NEW w \in Window, Within(w), thread \in Thread, NEW idle \in StopCapture(w)
    PROVE  /\ idle \in Window /\ Within(idle) /\ ~Running(idle)
           /\ idle.loader = w.loader /\ idle.stored = w.stored
           /\ Timeline(w) => Timeline(idle)
           /\ \A started : Timeline(w) /\ Remembered(w, notes, started)
                              => Remembered(idle, Noted(idle), started)
           /\ Noticed(w) => Noticed(idle)
           /\ ~Running(w) => idle = w
<1>0. {"none", "PLAIN"} \subseteq Notices
  BY DEF Notices
<1>1. CASE ~Running(w)
  BY <1>1, NotedAlready DEF StopCapture
<1>2. CASE Running(w)
  <2> DEFINE q == SetPaused(w, FALSE)
             d == Drain(q)
             e == [d EXCEPT !.live = Nothing]
             a == [e EXCEPT !.capture = w.live]
             P(n) == [q EXCEPT !.live = Nothing, !.parked = @ \cup {Rows(w.live, n) \ q.rows}]
  <2>1. /\ q \in Window /\ Keeps(w, q) /\ q.paused = FALSE /\ q.live = w.live
        /\ q.capture = w.capture /\ q.loader = w.loader /\ q.stored = w.stored
        /\ Noticed(w) => Noticed(q)
    BY PauseKeeps
  <2>2. idle \in {a, Show(e, "PLAIN"), e} \/ \E n \in {thread.sent, Length} :
                                                 idle = Show(P(n), "PLAIN")
    BY <1>2 DEF StopCapture, AdoptSession
  <2> HIDE DEF q
  <2>3. Within(q) /\ Running(q)
    BY <1>2, <2>1 DEF Keeps, Running
  <2>4. d \in Window /\ Keeps(q, d) /\ d = [q EXCEPT !.rows = d.rows]
    BY <2>1, <2>3, DrainKeeps
  <2> HIDE DEF d
  <2>5. /\ d.live = q.live /\ d.capture = q.capture /\ d.loader = q.loader
        /\ d.stored = q.stored /\ d.paused = q.paused /\ d.marks = q.marks
        /\ d.banner = q.banner
    BY <2>1, <2>4 DEF Window
  <2>6. Within(d) /\ Running(d) /\ d.paused = FALSE /\ Keeps(w, d)
    BY <2>1, <2>3, <2>4, <2>5, KeepsOn DEF Keeps, Running
  <2>7. e \in Window /\ Keeps(d, e) /\ ~Running(e)
    BY <2>4, <2>6, EndKeeps
  <2>8. Keeps(w, e) /\ Within(e)
    BY <2>6, <2>7, KeepsOn DEF Keeps
  <2>9. /\ e.capture = w.capture /\ e.loader = w.loader /\ e.stored = w.stored
        /\ e.banner = q.banner
    BY <2>1, <2>4, <2>5 DEF Window
  <2>10. Noticed(w) => Noticed(e)
    BY <2>1, <2>4, <2>5, <2>9 DEF Noticed, Window
  <2> HIDE DEF e
  <2>11. ASSUME NEW v \in Window, Keeps(w, v), v.capture = w.capture
         PROVE  \A started : Timeline(w) /\ Remembered(w, notes, started)
                               => Remembered(v, Noted(v), started)
    <3>1. SUFFICES ASSUME NEW started, Timeline(w), Remembered(w, notes, started)
                   PROVE  Remembered(v, Noted(v), started)
      OBVIOUS
    <3>2. Timeline(v) /\ Remembered(v, notes, started) /\ Within(v)
      BY <2>11, <3>1 DEF Keeps
    <3>3. QED
      BY <3>2, NotedAlready
  <2>12. CASE idle = e
    BY <1>2, <2>7, <2>8, <2>9, <2>10, <2>11, <2>12 DEF Keeps
  <2>13. CASE idle = Show(e, "PLAIN")
    <3>1. idle \in Window /\ idle.banner = "PLAIN" /\ Alike(e, idle) /\ Keeps(e, idle)
      BY <1>0, <2>7, <2>8, <2>13, ShowKeeps
    <3>2. Keeps(w, idle) /\ idle.capture = w.capture
      BY <2>8, <2>9, <3>1, KeepsOn DEF Alike
    <3>3. \A started : Timeline(w) /\ Remembered(w, notes, started)
                         => Remembered(idle, Noted(idle), started)
      BY <2>11, <3>1, <3>2
    <3>4. QED
      BY <1>2, <2>7, <2>9, <3>1, <3>2, <3>3 DEF Keeps, Alike, Running, Noticed
  <2>14. CASE idle = a
    <3>1. a = [[d EXCEPT !.live = Nothing] EXCEPT !.capture = d.live]
      BY <2>1, <2>5 DEF e
    <3>2. /\ a \in Window /\ Within(a)
          /\ Timeline(d) => Timeline(a)
          /\ \A noted, started :
                Timeline(d) /\ Remembered(d, noted, started)
                    => Remembered(a, noted \cup Of(d.live, d.marks), started)
      BY <2>4, <2>6, <3>1, AdoptKeeps
    <3>3. /\ a.capture = d.live /\ a.live = Nothing /\ a.marks = d.marks
          /\ a.loader = e.loader /\ a.stored = e.stored /\ a.banner = e.banner
          /\ a.paused = e.paused
      BY <2>1, <2>4, <2>5, <2>7 DEF Window, e
    <3>4. d.live \in Sessions
      BY <2>4, <2>6 DEF Window, Running
    <3>5. Noted(a) = notes \cup Of(d.live, d.marks)
      BY <3>3, <3>4 DEF Noted
    <3> HIDE DEF a
    <3>6. ASSUME NEW started, Timeline(w), Remembered(w, notes, started)
          PROVE  Remembered(a, Noted(a), started)
      BY <2>6, <3>2, <3>5, <3>6 DEF Keeps
    <3>7. Timeline(w) => Timeline(a)
      BY <2>6, <3>2 DEF Keeps
    <3>8. QED
      BY <1>2, <2>9, <2>10, <2>14, <3>2, <3>3, <3>6, <3>7 DEF Noticed, Running
  <2>15. ASSUME NEW n \in {thread.sent, Length}, idle = Show(P(n), "PLAIN")
         PROVE  /\ idle \in Window /\ Within(idle) /\ ~Running(idle)
                /\ idle.loader = w.loader /\ idle.stored = w.stored
                /\ Timeline(w) => Timeline(idle)
                /\ \A started : Timeline(w) /\ Remembered(w, notes, started)
                                   => Remembered(idle, Noted(idle), started)
                /\ Noticed(idle)
    <3> DEFINE p == P(n)
    <3>1. n \in 0 .. Length
      BY <2>15 DEF Thread
    <3>2. p = [q EXCEPT !.live = Nothing, !.parked = @ \cup {Rows(q.live, n) \ q.rows}]
      BY <2>1
    <3>3. p \in Window /\ Keeps(q, p) /\ ~Running(p)
      BY <2>1, <2>3, <3>1, <3>2, ParkKeeps
    <3>4. p.loader = w.loader /\ p.stored = w.stored /\ p.capture = w.capture
      BY <2>1 DEF Window
    <3> HIDE DEF p
    <3>5. /\ idle \in Window /\ idle.banner = "PLAIN" /\ Alike(p, idle) /\ Keeps(p, idle)
      <4>1. idle = Show(p, "PLAIN")
        BY <2>15 DEF p
      <4>2. QED
        BY <1>0, <3>3, <4>1, ShowKeeps DEF Keeps
    <3>6. Keeps(w, idle) /\ idle.capture = w.capture
      BY <2>1, <3>3, <3>4, <3>5, KeepsOn DEF Alike
    <3>7. \A started : Timeline(w) /\ Remembered(w, notes, started)
                         => Remembered(idle, Noted(idle), started)
      BY <2>11, <3>5, <3>6
    <3>8. QED
      BY <3>3, <3>4, <3>5, <3>6, <3>7 DEF Keeps, Alike, Running, Noticed
  <2>16. QED
    BY <1>2, <2>2, <2>12, <2>13, <2>14, <2>15
<1>3. QED
  BY <1>1, <1>2

-----------------------------------------------------------------------------
(* The settings.                                                           *)

(* The settings have an entry for every capture there is.                  *)
Roomy == IsFiniteSet(Captures) /\ Cardinality(Captures) <= MarkedCaptures

(* The entries before one and after it.                                    *)
LEMMA RemovedEntry ==
    ASSUME NEW stored \in Seq(Entry), NEW i \in DOMAIN stored
    PROVE  LET o == RemoveAt(stored, i)
           IN  /\ o \in Seq(Entry) /\ Len(o) = Len(stored) - 1
               /\ \A k \in 1 .. Len(stored) - 1 :
                    o[k] = IF k < i THEN stored[k] ELSE stored[k + 1]
<1> DEFINE front == SubSeq(stored, 1, i - 1)
           rest == SubSeq(stored, i + 1, Len(stored))
           o == RemoveAt(stored, i)
<1>1. Len(stored) \in Nat /\ i \in 1 .. Len(stored)
  OBVIOUS
<1>2. /\ front \in Seq(Entry) /\ Len(front) = i - 1
      /\ \A k \in 1 .. i - 1 : front[k] = stored[k]
  BY <1>1, SubSeqProperties
<1>3. /\ rest \in Seq(Entry) /\ Len(rest) = Len(stored) - i
      /\ \A k \in 1 .. Len(stored) - i : rest[k] = stored[i + k]
  BY <1>1, SubSeqProperties
<1>4. o = front \o rest
  BY DEF RemoveAt
<1> HIDE DEF front, rest, o
<1>5. /\ o \in Seq(Entry) /\ Len(o) = Len(stored) - 1
      /\ \A k \in 1 .. Len(stored) - 1 :
            o[k] = IF k <= i - 1 THEN front[k] ELSE rest[k - (i - 1)]
  <2>1. /\ o \in Seq(Entry) /\ Len(o) = Len(front) + Len(rest)
        /\ \A k \in 1 .. Len(front) + Len(rest) :
              o[k] = IF k <= Len(front) THEN front[k] ELSE rest[k - Len(front)]
    BY SMTT(30), <1>2, <1>3, <1>4, ConcatProperties
  <2>2. Len(front) + Len(rest) = Len(stored) - 1
    BY <1>1, <1>2, <1>3
  <2>3. QED
    BY <1>2, <2>1, <2>2
<1>6. ASSUME NEW k \in 1 .. Len(stored) - 1
      PROVE  o[k] = IF k < i THEN stored[k] ELSE stored[k + 1]
  <2>1. CASE k < i
    BY <1>1, <1>2, <1>5, <2>1
  <2>2. CASE ~(k < i)
    <3>1. k - (i - 1) \in 1 .. Len(stored) - i /\ i + (k - (i - 1)) = k + 1
      BY <1>1, <2>2
    <3>2. o[k] = rest[k - (i - 1)]
      BY SMTT(30), <1>1, <1>5, <2>2
    <3>3. QED
      BY <1>3, <2>2, <3>1, <3>2
  <2>3. QED
    BY <2>1, <2>2
<1>7. QED
  BY <1>5, <1>6 DEF o

(* Others: what is stored of the other captures, in the order it was.      *)
LEMMA OthersFacts ==
    ASSUME NEW stored \in Seq(Entry), OneEntryEach(stored), NEW c
    PROVE  LET o == Others(stored, c)
           IN  /\ o \in Seq(Entry) /\ OneEntryEach(o)
               /\ \A k \in DOMAIN o : o[k].capture # c
               /\ \A d : d # c => ReadMarks(o, d) = ReadMarks(stored, d)
<1> DEFINE own == {i \in DOMAIN stored : stored[i].capture = c}
<1>1. CASE own = {}
  BY <1>1 DEF Others
<1>2. CASE own # {}
  <2> DEFINE o == Others(stored, c)
             n == Len(stored)
  <2>1. PICK i \in own : o = RemoveAt(stored, i)
    BY <1>2 DEF Others
  <2>2. /\ i \in 1 .. n /\ n \in Nat /\ stored[i].capture = c /\ DOMAIN stored = 1 .. n
        /\ o \in Seq(Entry) /\ Len(o) = n - 1
        /\ \A k \in 1 .. n - 1 : o[k] = IF k < i THEN stored[k] ELSE stored[k + 1]
    BY SMTT(30), <2>1, RemovedEntry
  <2>3. \A j, k \in 1 .. n : stored[j].capture = stored[k].capture => j = k
    BY <2>2 DEF OneEntryEach
  <2>4. n <= MarkedCaptures
    BY DEF OneEntryEach
  <2> HIDE DEF o, n, own
  <2>5. DOMAIN o = 1 .. n - 1
    BY <2>2
  <2>6. ASSUME NEW k \in DOMAIN o
        PROVE  \E j \in 1 .. n : j # i /\ o[k] = stored[j] /\ j = IF k < i THEN k ELSE k + 1
    <3>1. CASE k < i
      <4>1. k \in 1 .. n /\ k # i /\ o[k] = stored[k]
        BY <2>2, <2>5, <3>1
      <4>2. QED
        BY <3>1, <4>1
    <3>2. CASE ~(k < i)
      <4>1. k + 1 \in 1 .. n /\ k + 1 # i /\ o[k] = stored[k + 1]
        BY <2>2, <2>5, <3>2
      <4>2. QED
        BY <3>2, <4>1
    <3>3. QED
      BY <3>1, <3>2
  <2>7. \A k \in DOMAIN o : o[k].capture # c
    BY <2>2, <2>3, <2>6
  <2>8. OneEntryEach(o)
    <3>1. ASSUME NEW j \in DOMAIN o, NEW k \in DOMAIN o, o[j].capture = o[k].capture
          PROVE  j = k
      <4>1. PICK j1 \in 1 .. n : o[j] = stored[j1] /\ j1 = IF j < i THEN j ELSE j + 1
        BY <2>6
      <4>2. PICK k1 \in 1 .. n : o[k] = stored[k1] /\ k1 = IF k < i THEN k ELSE k + 1
        BY <2>6
      <4>3. j1 = k1
        BY <2>3, <3>1, <4>1, <4>2
      <4>4. QED
        BY SMTT(30), <2>2, <2>5, <4>1, <4>2, <4>3
    <3>2. Len(o) <= MarkedCaptures
      BY <2>2, <2>4
    <3>3. QED
      BY <3>1, <3>2 DEF OneEntryEach
  <2>9. ASSUME NEW d, d # c PROVE ReadMarks(o, d) = ReadMarks(stored, d)
    <3>1. \A k \in DOMAIN o : o[k].capture = d =>
              \E j \in DOMAIN stored : stored[j].capture = d /\ stored[j].marks = o[k].marks
      BY <2>2, <2>6
    <3>2. \A j \in DOMAIN stored : stored[j].capture = d =>
              \E k \in DOMAIN o : o[k].capture = d /\ o[k].marks = stored[j].marks
      <4>1. SUFFICES ASSUME NEW j \in 1 .. n, stored[j].capture = d
                     PROVE  \E k \in 1 .. n - 1 : o[k] = stored[j]
        BY <2>2, <2>5
      <4>2. j # i
        BY <2>2, <2>9, <4>1
      <4>3. CASE j < i
        <5>1. j \in 1 .. n - 1
          BY <2>2, <4>3
        <5>2. QED
          BY <2>2, <4>3, <5>1
      <4>4. CASE i < j
        <5>1. j - 1 \in 1 .. n - 1 /\ ~(j - 1 < i) /\ (j - 1) + 1 = j
          BY <2>2, <4>4
        <5>2. QED
          BY <2>2, <5>1
      <4>5. QED
        BY <2>2, <4>2, <4>3, <4>4
    <3>3. QED
      BY SMTT(30), <3>1, <3>2 DEF ReadMarks
  <2>10. QED
    BY <2>2, <2>7, <2>8, <2>9 DEF o
<1>3. QED
  BY <1>1, <1>2

(* write_marks: one entry each, no more than are kept; and where there is  *)
(* room for all, what was written of this one and what was there of others.*)
LEMMA WriteFacts ==
    ASSUME NEW stored \in Seq(Entry), OneEntryEach(stored),
           NEW c \in Captures, NEW marks \in SUBSET Table
    PROVE  LET new == WriteMarks(stored, c, marks)
           IN  /\ new \in Seq(Entry) /\ OneEntryEach(new)
               /\ Roomy => /\ ReadMarks(new, c) = marks
                           /\ \A d : d # c => ReadMarks(new, d) = ReadMarks(stored, d)
<1> DEFINE o == Others(stored, c)
           mine == IF marks = {} THEN <<>> ELSE <<[capture |-> c, marks |-> marks]>>
           all == mine \o o
           new == WriteMarks(stored, c, marks)
<1>1. /\ o \in Seq(Entry) /\ OneEntryEach(o)
      /\ \A k \in DOMAIN o : o[k].capture # c
      /\ \A d : d # c => ReadMarks(o, d) = ReadMarks(stored, d)
  BY OthersFacts
<1>2. new = IF Len(all) > MarkedCaptures THEN SubSeq(all, 1, MarkedCaptures) ELSE all
  BY DEF WriteMarks
<1> HIDE DEF o
<1>3. /\ mine \in Seq(Entry) /\ Len(mine) \in {0, 1}
      /\ (marks = {} <=> Len(mine) = 0)
      /\ Len(mine) = 1 => mine[1] = [capture |-> c, marks |-> marks]
  <2>1. [capture |-> c, marks |-> marks] \in Entry
    BY DEF Entry
  <2>2. CASE marks = {}
    BY <2>2
  <2>3. CASE marks # {}
    BY <2>1, <2>3
  <2>4. QED
    BY <2>2, <2>3
<1> HIDE DEF mine
<1>4. PICK m \in {0, 1} : m = Len(mine)
  BY <1>3
<1>5. PICK n \in Nat : n = Len(o)
  BY <1>1
<1>6. /\ all \in Seq(Entry) /\ Len(all) = m + n
      /\ \A k \in 1 .. m + n : all[k] = IF k <= m THEN mine[k] ELSE o[k - m]
  BY <1>1, <1>3, <1>4, <1>5, ConcatProperties
<1> HIDE DEF all
<1>7. DOMAIN all = 1 .. m + n /\ DOMAIN o = 1 .. n
  BY <1>1, <1>5, <1>6
<1>8. \A k \in 1 .. m + n :
         IF k <= m THEN all[k] = [capture |-> c, marks |-> marks]
         ELSE k - m \in 1 .. n /\ all[k] = o[k - m] /\ all[k].capture # c
  <2>1. SUFFICES ASSUME NEW k \in 1 .. m + n
                 PROVE  IF k <= m THEN all[k] = [capture |-> c, marks |-> marks]
                        ELSE k - m \in 1 .. n /\ all[k] = o[k - m] /\ all[k].capture # c
    OBVIOUS
  <2>2. CASE k <= m
    <3>1. k = 1 /\ m = 1
      BY <1>4, <1>5, <2>2
    <3>2. QED
      BY <1>3, <1>4, <1>6, <2>2, <3>1
  <2>3. CASE ~(k <= m)
    <3>1. k - m \in 1 .. n
      BY <1>4, <1>5, <2>3
    <3>2. all[k] = o[k - m]
      BY <1>6, <2>3
    <3>3. QED
      BY <1>1, <1>7, <2>3, <3>1, <3>2
  <2>4. QED
    BY <2>2, <2>3
<1>9. \A j, k \in 1 .. m + n : all[j].capture = all[k].capture => j = k
  <2>1. SUFFICES ASSUME NEW j \in 1 .. m + n, NEW k \in 1 .. m + n,
                        all[j].capture = all[k].capture
                 PROVE  j = k
    OBVIOUS
  <2>2. CASE j <= m \/ k <= m
    <3>1. (j <= m) <=> (k <= m)
      <4>1. \A i \in 1 .. m + n : i <= m <=> all[i].capture = c
        BY <1>8
      <4>2. QED
        BY <2>1, <4>1
    <3>2. j = 1 /\ k = 1
      BY <1>4, <1>5, <2>2, <3>1
    <3>3. QED
      BY <3>2
  <2>3. CASE ~(j <= m) /\ ~(k <= m)
    <3>1. j - m \in 1 .. n /\ k - m \in 1 .. n /\ o[j - m].capture = o[k - m].capture
      BY <1>8, <2>1, <2>3
    <3>2. j - m = k - m
      BY <1>1, <1>7, <3>1 DEF OneEntryEach
    <3>3. QED
      BY <1>4, <1>5, <3>2
  <2>4. QED
    BY <2>2, <2>3
<1>10. new \in Seq(Entry) /\ OneEntryEach(new)
  <2>1. CASE Len(all) > MarkedCaptures
    <3>1. /\ new \in Seq(Entry) /\ Len(new) = MarkedCaptures
          /\ \A k \in 1 .. MarkedCaptures : new[k] = all[k] /\ k \in 1 .. m + n
      BY SMTT(30), <1>2, <1>4, <1>5, <1>6, <2>1, SubSeqProperties
    <3>2. QED
      BY <1>9, <3>1 DEF OneEntryEach
  <2>2. CASE ~(Len(all) > MarkedCaptures)
    BY <1>2, <1>4, <1>5, <1>6, <1>7, <1>9, <2>2 DEF OneEntryEach
  <2>3. QED
    BY <2>1, <2>2
<1>11. Roomy => new = all
  <2>1. SUFFICES ASSUME Roomy PROVE m + n <= MarkedCaptures
    BY <1>2, <1>4, <1>5, <1>6
  <2>2. PICK t \in Nat : t = m + n
    BY <1>4, <1>5
  <2> DEFINE f == [k \in 1 .. t |-> all[k].capture]
  <2>3. f \in [1 .. t -> Captures]
    <3>1. \A k \in 1 .. t : all[k] \in Entry
      BY <1>6, <2>2, LenProperties
    <3>2. \A k \in 1 .. t : all[k].capture \in Captures
      BY <3>1 DEF Entry
    <3>3. QED
      BY <3>2
  <2>4. f \in Injection(1 .. t, Captures)
    BY <1>9, <2>2, <2>3 DEF Injection, IsInjective
  <2> HIDE DEF f
  <2>5. IsFiniteSet(1 .. t) /\ Cardinality(1 .. t) = t
    <3>1. 1 \in Int /\ t \in Int
      OBVIOUS
    <3>2. IsFiniteSet(1 .. t) /\ Cardinality(1 .. t) = IF 1 > t THEN 0 ELSE t - 1 + 1
      BY <3>1, FS_Interval
    <3>3. QED
      BY <3>2
  <2>6. t <= Cardinality(Captures) /\ Cardinality(Captures) \in Nat
    BY <2>1, <2>4, <2>5, FS_Injection, FS_CardinalityType DEF Roomy, ExistsInjection
  <2>7. QED
    BY <2>1, <2>2, <2>6 DEF Roomy
<1>12. ReadMarks(all, c) = marks
  <2>1. CASE m = 0
    <3>1. marks = {} /\ \A k \in DOMAIN all : all[k].capture # c
      BY <1>3, <1>4, <1>5, <1>7, <1>8, <2>1
    <3>2. QED
      BY <3>1 DEF ReadMarks
  <2>2. CASE m = 1
    <3>1. /\ 1 \in DOMAIN all /\ all[1] = [capture |-> c, marks |-> marks]
      BY <1>5, <1>7, <1>8, <2>2
    <3>2. \A k \in DOMAIN all : all[k].capture = c => k = 1
      BY <1>7, <1>9, <3>1
    <3>3. {i \in DOMAIN all : all[i].capture = c} = {1}
      BY <3>1, <3>2
    <3>4. QED
      BY <3>1, <3>3 DEF ReadMarks
  <2>3. QED
    BY <1>4, <2>1, <2>2
<1>13. ASSUME NEW d, d # c PROVE ReadMarks(all, d) = ReadMarks(stored, d)
  <2>1. \A k \in DOMAIN all : all[k].capture = d =>
            \E j \in DOMAIN o : o[j].capture = d /\ o[j].marks = all[k].marks
    <3>1. SUFFICES ASSUME NEW k \in 1 .. m + n, all[k].capture = d
                   PROVE  \E j \in 1 .. n : o[j] = all[k]
      BY <1>7
    <3>2. ~(k <= m)
      BY <1>8, <1>13, <3>1
    <3>3. QED
      BY <1>8, <3>2
  <2>2. \A j \in DOMAIN o : o[j].capture = d =>
            \E k \in DOMAIN all : all[k].capture = d /\ all[k].marks = o[j].marks
    <3>1. SUFFICES ASSUME NEW j \in 1 .. n PROVE j + m \in 1 .. m + n /\ all[j + m] = o[j]
      BY <1>7
    <3>2. j + m \in 1 .. m + n /\ ~(j + m <= m) /\ (j + m) - m = j
      BY <1>4, <1>5
    <3>3. QED
      BY <1>8, <3>2
  <2>3. ReadMarks(all, d) = ReadMarks(o, d)
    BY <2>1, <2>2 DEF ReadMarks
  <2>4. QED
    BY <1>1, <1>13, <2>3
<1>14. QED
  BY <1>10, <1>11, <1>12, <1>13

-----------------------------------------------------------------------------
(* The doors and the steps.                                                *)

(* What is on screen has had its marks put back.                           *)
BackOn(w) == w.capture \notin Files \/ w.back \/ ReadMarks(w.stored, w.capture) = {}

(* _save_marks: only the settings change; when the marks are back, they    *)
(* say of every capture what its notes are.                                *)
LEMMA SaveKeeps ==
    ASSUME NEW w \in Window, Within(w), NEW taken
    PROVE  LET v == SaveMarks(w, taken)
           IN  /\ v \in Window /\ Within(v) /\ v = [w EXCEPT !.stored = v.stored]
               /\ Timeline(w) => Timeline(v)
               /\ Noticed(w) => Noticed(v)
               /\ \A noted, started :
                    Roomy /\ BackOn(w) /\ Remembered(w, noted, started)
                        => /\ Remembered(v, noted, started)
                           /\ \A c \in Captures : Of(c, noted) = ReadMarks(v.stored, c)
<1>1. CASE w.capture = Nothing
  <2>1. SaveMarks(w, taken) = w /\ w = [w EXCEPT !.stored = w.stored]
    BY <1>1 DEF SaveMarks, Window
  <2>2. \A c \in Captures : c # w.capture
    BY <1>1 DEF Captures
  <2>3. QED
    BY <2>1, <2>2 DEF Remembered, NotesAreOf
<1>2. CASE w.capture # Nothing
  <2> DEFINE v == SaveMarks(w, taken)
             new == WriteMarks(w.stored, w.capture, w.marks)
  <2>1. w.capture \in Captures /\ w.marks \in SUBSET Table /\ w.stored \in Seq(Entry)
    BY <1>2 DEF Window
  <2>2. /\ new \in Seq(Entry) /\ OneEntryEach(new)
        /\ Roomy => /\ ReadMarks(new, w.capture) = w.marks
                    /\ \A d : d # w.capture => ReadMarks(new, d) = ReadMarks(w.stored, d)
    BY <2>1, WriteFacts DEF Within
  <2>3. v = [w EXCEPT !.stored = new]
    BY <1>2 DEF SaveMarks
  <2> HIDE DEF new, v
  <2>4. /\ v \in Window /\ v.stored = new /\ v.capture = w.capture /\ v.rows = w.rows
        /\ v.marks = w.marks /\ v.back = w.back /\ v.loader = w.loader
        /\ v.banner = w.banner /\ v.paused = w.paused /\ v.live = w.live
        /\ v.parked = w.parked /\ v.closed = w.closed
    BY <2>2, <2>3 DEF Window
  <2>5. Within(v)
    BY <2>2, <2>4 DEF Within, Running
  <2>6. (Timeline(w) => Timeline(v)) /\ (Noticed(w) => Noticed(v))
    BY <2>4 DEF Timeline, OneSpeaks, RowsAreOf, Running, Noticed
  <2>7. ASSUME NEW noted, NEW started, Roomy, BackOn(w), Remembered(w, noted, started)
        PROVE  /\ Remembered(v, noted, started)
               /\ \A c \in Captures : Of(c, noted) = ReadMarks(v.stored, c)
    <3>1. Of(w.capture, noted) = w.marks
      BY <1>2, <2>1, <2>7 DEF Remembered, NotesAreOf, BackOn, Captures
    <3>2. \A c \in Captures : Of(c, noted) = ReadMarks(v.stored, c)
      BY <2>2, <2>4, <2>7, <3>1 DEF Remembered, NotesAreOf
    <3>3. NotesAreOf(v, noted)
      BY <2>2, <2>4, <2>7, <3>1, <3>2 DEF NotesAreOf
    <3>4. LoadIsHeld(v) /\ NewHasNone(v, noted, started)
      BY <2>4, <2>7 DEF Remembered, LoadIsHeld, NewHasNone, Running
    <3>5. QED
      BY <3>2, <3>3, <3>4 DEF Remembered
  <2>8. v = [w EXCEPT !.stored = v.stored]
    BY <2>3, <2>4
  <2>9. QED
    BY <2>4, <2>5, <2>6, <2>7, <2>8 DEF v
<1>3. QED
  BY <1>1, <1>2

(* A table just emptied: what a door leaves.                               *)
Emptied(v) ==
    /\ v.rows = {} /\ v.marks = {} /\ v.back = FALSE /\ v.paused = FALSE
    /\ OneEntryEach(v.stored)
    /\ v.loader.timer =>
        v.loader.of \in Files /\ (v.loader.of \in Damaged => v.loader.loaded < Length)
    /\ v.closed => v.capture = Nothing /\ ~Running(v)

LEMMA DoorKeeps ==
    ASSUME NEW v \in Window, Emptied(v)
    PROVE  /\ Within(v)
           /\ (OneSpeaks(v) /\ v.parked = {}) => Timeline(v)
           /\ \A noted, started :
                /\ \A c \in Captures : Of(c, noted) = ReadMarks(v.stored, c)
                /\ NewHasNone(v, noted, started) /\ v.capture \notin Sessions
                /\ (v.loader.timer => v.loader.loaded = 0)
                => Remembered(v, noted, started)
<1>1. Within(v)
  BY DEF Within, Emptied
<1>2. ASSUME OneSpeaks(v), v.parked = {} PROVE Timeline(v)
  <2>1. CASE Running(v)
    <3>1. RowsAreOf(v, v.live)
      BY <1>2, <2>1 DEF RowsAreOf, Emptied, OneSpeaks
    <3>2. QED
      BY <1>2, <3>1 DEF Timeline
  <2>2. CASE ~Running(v)
    <3>1. RowsAreOf(v, v.capture)
      BY <1>2, <2>2 DEF RowsAreOf, Emptied, OneSpeaks
    <3>2. QED
      BY <1>2, <3>1 DEF Timeline
  <2>3. QED
    BY <2>1, <2>2
<1>3. ASSUME NEW noted, NEW started, NewHasNone(v, noted, started), v.capture \notin Sessions,
             \A c \in Captures : Of(c, noted) = ReadMarks(v.stored, c),
             v.loader.timer => v.loader.loaded = 0
      PROVE  Remembered(v, noted, started)
  <2>1. v.capture # Nothing => v.capture \in Captures
    BY DEF Window
  <2>2. NotesAreOf(v, noted)
    BY <1>3, <2>1 DEF NotesAreOf, Emptied
  <2>3. Rows(v.loader.of, 0) = {}
    BY DEF Rows
  <2>4. LoadIsHeld(v)
    BY <1>3, <2>3 DEF LoadIsHeld, Emptied
  <2>5. QED
    BY <1>3, <2>2, <2>4 DEF Remembered
<1>4. QED
  BY <1>1, <1>2, <1>3

(* The invariant of the next state, from the next window.                  *)
LEMMA Next_WindowInv ==
    ASSUME Typed', Within(win'), Noticed(win'), ~reader'.mixed => Timeline(win')
    PROVE  WindowInv'
BY DEF WindowInv, Within, OneEntryEach, Noticed, Timeline, OneSpeaks, RowsAreOf, Running

LEMMA Next_NotesInv ==
    ASSUME ~reader'.hasty => ~reader'.mixed /\ Remembered(win', notes', reader'.captures)
    PROVE  NotesInv'
BY DEF NotesInv, Remembered, NotesAreOf, LoadIsHeld, NewHasNone, Running, Of, ReadMarks, Rows

(* A step that keeps the window.                                           *)
LEMMA StepKeeps ==
    ASSUME WindowInv, Keeps(win, win'), Noticed(win'),
           thread' \in Thread, UNCHANGED <<reader, notes>>,
           events' \in Seq({"reconnecting", "streaming", "ended"}), Len(events') <= 1
    PROVE  WindowInv' /\ (NotesInv => NotesInv')
<1>1. Typed'
  BY DEF WindowInv, Typed, Keeps
<1>2. WindowInv'
  BY <1>1, Next_WindowInv DEF WindowInv, Keeps
<1>3. NotesInv => NotesInv'
  BY Next_NotesInv DEF WindowInv, NotesInv, Keeps
<1>4. QED
  BY <1>2, <1>3

(* stop_capture as the last part of a step, whatever is said of it.        *)
LEMMA StopStep ==
    ASSUME WindowInv, NEW w \in Window, Keeps(win, w), Noticed(w),
           NEW idle \in StopCapture(w), win' \in {idle, Show(idle, "PLAIN")},
           notes' = Noted(win'), UNCHANGED <<thread, reader>>,
           events' \in Seq({"reconnecting", "streaming", "ended"}), Len(events') <= 1
    PROVE  WindowInv' /\ (NotesInv => NotesInv')
<1>1. /\ idle \in Window /\ Within(idle)
      /\ Timeline(w) => Timeline(idle)
  BY StopKeeps DEF WindowInv, Typed, Keeps
<1>2. /\ \A started : Timeline(w) /\ Remembered(w, notes, started)
                         => Remembered(idle, Noted(idle), started)
      /\ Noticed(idle)
  BY StopKeeps DEF WindowInv, Typed, Keeps
<1>3. /\ win' \in Window /\ Keeps(idle, win') /\ Noticed(win') /\ Noted(win') = Noted(idle)
  <2>1. CASE win' = idle
    <3>1. Alike(idle, idle)
      BY DEF Alike
    <3>2. Keeps(idle, idle)
      BY <1>1, <3>1, AlikeKeeps
    <3>3. QED
      BY <1>1, <1>2, <2>1, <3>2
  <2>2. CASE win' = Show(idle, "PLAIN")
    <3>1. "PLAIN" \in Notices
      BY DEF Notices
    <3>2. /\ win' \in Window /\ win'.banner = "PLAIN" /\ Alike(idle, win') /\ Keeps(idle, win')
      BY <1>1, <2>2, <3>1, ShowKeeps
    <3>3. QED
      BY <3>2 DEF Alike, Noticed, Noted
  <2>3. QED
    BY <2>1, <2>2
<1>4. Typed'
  BY <1>3, NotedTyped DEF WindowInv, Typed
<1>5. ~reader'.mixed => Timeline(win')
  BY <1>1, <1>3 DEF WindowInv, Keeps
<1>6. WindowInv'
  BY <1>3, <1>4, <1>5, Next_WindowInv DEF Keeps
<1>7. NotesInv => NotesInv'
  <2>1. SUFFICES ASSUME NotesInv, ~reader.hasty
                 PROVE  ~reader.mixed /\ Remembered(win', notes', reader.captures)
    BY Next_NotesInv
  <2>2. ~reader.mixed /\ Timeline(win) /\ Remembered(win, notes, reader.captures)
    BY <2>1 DEF WindowInv, NotesInv
  <2>3. Timeline(w) /\ Remembered(w, notes, reader.captures)
    BY <2>2 DEF Keeps
  <2>4. Timeline(idle) /\ Remembered(idle, Noted(idle), reader.captures)
    BY <1>1, <1>2, <2>3
  <2>5. QED
    BY <1>3, <2>2, <2>4 DEF Keeps
<1>8. QED
  BY <1>6, <1>7

(* A step that keeps the window and notes what is on it.                   *)
LEMMA NotedStep ==
    ASSUME WindowInv, Keeps(win, win'), Noticed(win'), notes' = Noted(win'),
           UNCHANGED <<thread, reader, events>>
    PROVE  WindowInv' /\ (NotesInv => NotesInv')
<1>1. Typed'
  BY NotedTyped DEF WindowInv, Typed, Keeps
<1>2. WindowInv'
  BY <1>1, Next_WindowInv DEF WindowInv, Keeps
<1>3. NotesInv => NotesInv'
  <2>1. SUFFICES ASSUME NotesInv, ~reader.hasty
                 PROVE  ~reader.mixed /\ Remembered(win', notes', reader.captures)
    BY Next_NotesInv
  <2>2. /\ ~reader.mixed /\ Timeline(win') /\ Within(win')
        /\ Remembered(win', notes, reader.captures)
    BY <2>1 DEF WindowInv, NotesInv, Keeps
  <2>3. QED
    BY <2>2, NotedAlready
<1>4. QED
  BY <1>2, <1>3

-----------------------------------------------------------------------------
(* The load.                                                               *)

(* A batch: rows of the capture that is being read.                        *)
LEMMA LoadedKeeps ==
    ASSUME NEW w \in Window, Within(w), w.loader.timer, NEW n \in Nat, NEW on \in BOOLEAN,
           w.loader.loaded + n <= Length,
           on /\ w.loader.of \in Damaged => w.loader.loaded + n < Length
    PROVE  LET v == Loaded(w, n, on)
           IN  /\ v \in Window /\ Keeps(w, v) /\ v.banner = w.banner /\ v.paused = w.paused
               /\ v.capture = w.capture /\ v.back = w.back /\ v.loader.timer = on
               /\ LoadIsHeld(w) => Rows(w.loader.of, w.loader.loaded + n) \subseteq v.rows
<1> DEFINE l == w.loader
           new == Rows(l.of, l.loaded + n) \ Rows(l.of, l.loaded)
           next == [l EXCEPT !.loaded = @ + n, !.timer = on]
           v == Loaded(w, n, on)
<1>1. l \in Loader /\ l.of \in Files /\ l.of \in Captures /\ l.loaded + n \in 0 .. Length
  BY DEF Window, Loader, Within, Captures
<1>2. /\ next \in Loader /\ next.of = l.of /\ next.loaded = l.loaded + n /\ next.timer = on
  BY <1>1 DEF Loader
<1>3. new \subseteq Table /\ \A row \in new : row[1] = l.of
  BY <1>1, RowsFacts
<1>4. v = [w EXCEPT !.rows = @ \cup new, !.loader = next]
  BY DEF Loaded
<1>5. Rows(l.of, l.loaded + n) \subseteq new \cup Rows(l.of, l.loaded)
  OBVIOUS
<1> HIDE DEF new, next, v
<1>6. /\ v \in Window /\ v.rows = w.rows \cup new /\ v.loader = next /\ v.banner = w.banner
      /\ v.paused = w.paused /\ v.capture = w.capture /\ v.back = w.back
      /\ v.marks = w.marks /\ v.stored = w.stored /\ v.live = w.live
      /\ v.parked = w.parked /\ v.closed = w.closed
  BY <1>2, <1>3, <1>4 DEF Window
<1> HIDE DEF l
<1>7. Within(v)
  <2>1. next.timer => next.of \in Files /\ (next.of \in Damaged => next.loaded < Length)
    BY <1>1, <1>2 DEF l
  <2>2. QED
    BY <1>6, <2>1 DEF Within, Running
<1>8. ASSUME Timeline(w) PROVE Timeline(v)
  <2>1. PICK c : OneSpeaks(w) /\ RowsAreOf(w, c)
    BY <1>8 DEF Timeline
  <2>2. w.capture = l.of /\ c = l.of /\ l.of # Nothing
    BY <1>1, <2>1 DEF OneSpeaks, RowsAreOf, l
  <2>3. OneSpeaks(v)
    BY <1>2, <1>6, <2>1, <2>2 DEF OneSpeaks, Running, l
  <2>4. RowsAreOf(v, c)
    BY <1>3, <1>6, <2>1, <2>2 DEF RowsAreOf, Running
  <2>5. QED
    BY <2>3, <2>4 DEF Timeline
<1>9. LoadIsHeld(w) => Rows(l.of, l.loaded + n) \subseteq v.rows /\ ~w.back
  BY <1>5, <1>6 DEF LoadIsHeld, l
<1>10. ASSUME NEW noted, NEW started, Remembered(w, noted, started)
       PROVE  Remembered(v, noted, started)
  <2>1. LoadIsHeld(v)
    BY <1>2, <1>6, <1>9, <1>10 DEF Remembered, LoadIsHeld
  <2>2. QED
    BY <1>6, <1>10, <2>1 DEF Remembered, NotesAreOf, NewHasNone, Running
<1>11. QED
  BY <1>2, <1>6, <1>7, <1>8, <1>9, <1>10 DEF Keeps, v, l

(* _restore_marks, when all of the capture is there.                       *)
LEMMA RestoreKeeps ==
    ASSUME NEW w \in Window, Within(w), ~w.loader.timer
    PROVE  LET r == RestoreMarks(w)
           IN  /\ r \in Window /\ Within(r) /\ r.banner = w.banner /\ r.paused = w.paused
               /\ r.loader = w.loader
               /\ Timeline(w) => Timeline(r)
               /\ \A noted \in SUBSET Table : \A started :
                    /\ Remembered(w, noted, started)
                    /\ w.capture \in Files /\ ~w.back /\ Rows(w.capture, Length) \subseteq w.rows
                    => Remembered(r, noted, started)
<1> DEFINE kept == ReadMarks(w.stored, w.capture)
           now == w.marks \cup (kept \cap w.rows)
           r == RestoreMarks(w)
<1>1. now \subseteq w.rows /\ now \subseteq Table
  BY DEF Within, Window
<1>2. r = [w EXCEPT !.marks = now, !.back = TRUE]
  BY DEF RestoreMarks
<1> HIDE DEF kept, r
<1>3. /\ r \in Window /\ r.marks = now /\ r.back = TRUE /\ r.rows = w.rows
      /\ r.capture = w.capture /\ r.loader = w.loader /\ r.banner = w.banner
      /\ r.paused = w.paused /\ r.stored = w.stored /\ r.live = w.live
      /\ r.parked = w.parked /\ r.closed = w.closed
  BY <1>1, <1>2 DEF Window
<1>4. Within(r)
  BY <1>1, <1>3 DEF Within, Running
<1>5. Timeline(w) => Timeline(r)
  BY <1>3 DEF Timeline, OneSpeaks, RowsAreOf, Running
<1>6. ASSUME NEW noted \in SUBSET Table, NEW started, Remembered(w, noted, started),
             w.capture \in Files, ~w.back, Rows(w.capture, Length) \subseteq w.rows
      PROVE  Remembered(r, noted, started)
  <2>1. w.capture # Nothing /\ w.capture \notin Sessions
    BY <1>6
  <2>2. Of(w.capture, noted) = w.marks \cup kept
    BY <1>6, <2>1 DEF Remembered, NotesAreOf, kept
  <2>3. Of(w.capture, noted) \subseteq Rows(w.capture, Length)
    BY DEF Of, Rows, Table
  <2>4. now = w.marks \cup kept
    BY <1>6, <2>2, <2>3
  <2>5. NotesAreOf(r, noted)
    BY <1>3, <1>6, <2>1, <2>2, <2>4 DEF Remembered, NotesAreOf
  <2>6. LoadIsHeld(r) /\ NewHasNone(r, noted, started)
    BY <1>3, <1>6 DEF Remembered, LoadIsHeld, NewHasNone, Running
  <2>7. QED
    BY <2>5, <2>6 DEF Remembered
<1>7. QED
  BY <1>3, <1>4, <1>5, <1>6 DEF r

LEMMA LoadStepKeeps ==
    ASSUME WindowInv, LoadStep
    PROVE  WindowInv' /\ (NotesInv => NotesInv')
<1>1. /\ win \in Window /\ Within(win) /\ win.loader.timer /\ BatchSize \in Nat
      /\ win.loader.loaded \in 0 .. Length /\ Left >= BatchSize
      /\ win.loader.of \in Damaged => Left > BatchSize
  BY DEF WindowInv, Typed, LoadStep, Window, Loader
<1>2. win.loader.loaded + BatchSize <= Length
  BY <1>1 DEF Left
<1>3. win.loader.of \in Damaged => win.loader.loaded + BatchSize < Length
  BY <1>1 DEF Left
<1>4. /\ Keeps(win, win') /\ win'.banner = win.banner /\ win'.paused = win.paused
      /\ win'.loader.timer
  BY ZenonT(40), <1>1, <1>2, <1>3, LoadedKeeps DEF LoadStep
<1>5. Noticed(win')
  BY <1>4 DEF WindowInv, Noticed
<1>6. QED
  BY <1>4, <1>5, StepKeeps DEF LoadStep, WindowInv, Typed

LEMMA LoadFailsKeeps ==
    ASSUME WindowInv, LoadFails
    PROVE  WindowInv' /\ (NotesInv => NotesInv')
<1> DEFINE n == Left - 1
           u == Loaded(win, n, FALSE)
<1>1. /\ win \in Window /\ Within(win) /\ win.loader.timer /\ win.loader.of \in Damaged
      /\ win.loader.loaded \in 0 .. Length /\ "PLAIN" \in Notices
  BY DEF WindowInv, Typed, LoadFails, Window, Loader, Notices
<1>2. n \in Nat /\ win.loader.loaded + n <= Length
  BY <1>1 DEF Left, Within
<1>3. win' = Show(u, "PLAIN")
  BY DEF LoadFails
<1> HIDE DEF n
<1>4. /\ u \in Window /\ Keeps(win, u)
  BY <1>1, <1>2, LoadedKeeps
<1> HIDE DEF u
<1>5. win'.banner = "PLAIN" /\ Keeps(u, win')
  BY <1>1, <1>3, <1>4, ShowKeeps DEF Keeps
<1>6. Keeps(win, win') /\ Noticed(win')
  BY <1>4, <1>5, KeepsOn DEF Noticed
<1>7. QED
  BY <1>6, StepKeeps DEF LoadFails, WindowInv, Typed

LEMMA LoadEndsKeeps ==
    ASSUME WindowInv, LoadEnds
    PROVE  WindowInv' /\ (NotesInv => NotesInv')
<1> DEFINE u == Loaded(win, Left, FALSE)
           down == HideOnly(u, "LOADING")
           said == IF down.capture \in Truncated THEN Show(down, "PLAIN") ELSE down
           r == RestoreMarks(said)
<1>1. /\ win \in Window /\ Within(win) /\ Noticed(win) /\ win.loader.timer
      /\ win.loader.loaded \in 0 .. Length /\ {"PLAIN", "LOADING"} \subseteq Notices
      /\ notes \in SUBSET Table
  BY DEF WindowInv, Typed, LoadEnds, Window, Loader, Notices
<1>2. Left \in Nat /\ win.loader.loaded + Left = Length
  BY <1>1 DEF Left
<1>3. win' = UpdateBanner(r)
  BY DEF LoadEnds
<1>4. /\ u \in Window /\ Keeps(win, u) /\ u.banner = win.banner /\ u.paused = win.paused
      /\ u.capture = win.capture /\ u.back = win.back /\ ~u.loader.timer
      /\ LoadIsHeld(win) => Rows(win.loader.of, Length) \subseteq u.rows
  <2> DEFINE n == Left
             v == Loaded(win, n, FALSE)
  <2>1. n \in Nat /\ win.loader.loaded + n = Length /\ u = v
    BY <1>2
  <2> HIDE DEF n
  <2>2. /\ v \in Window /\ Keeps(win, v) /\ v.banner = win.banner /\ v.paused = win.paused
        /\ v.capture = win.capture /\ v.back = win.back /\ v.loader.timer = FALSE
        /\ LoadIsHeld(win) => Rows(win.loader.of, win.loader.loaded + n) \subseteq v.rows
    <3>1. win.loader.loaded + n <= Length
      BY <1>1, <2>1
    <3>2. QED
      BY <1>1, <2>1, <3>1, LoadedKeeps
  <2> HIDE DEF u, v
  <2>3. QED
    BY <2>1, <2>2
<1> HIDE DEF u
<1>5. /\ down \in Window /\ Alike(u, down) /\ Keeps(u, down)
      /\ down.banner \in {u.banner, "none"} /\ down.banner # "LOADING"
  BY <1>1, <1>4, HideKeeps DEF Keeps
<1> HIDE DEF down
<1>6. /\ said \in Window /\ Alike(down, said) /\ Keeps(down, said)
      /\ said.banner \in {down.banner, "PLAIN"}
  <2>1. Within(down) /\ Alike(down, down)
    BY <1>5 DEF Keeps, Alike
  <2>2. LET v == Show(down, "PLAIN")
        IN  v \in Window /\ v.banner = "PLAIN" /\ Alike(down, v) /\ Keeps(down, v)
    BY <1>1, <1>5, <2>1, ShowKeeps
  <2>3. QED
    BY <1>5, <2>1, <2>2, AlikeKeeps
<1> HIDE DEF said
<1>7. Keeps(win, said) /\ Within(said)
  BY <1>4, <1>5, <1>6, KeepsOn DEF Keeps
<1>8. /\ said.capture = win.capture /\ said.back = win.back /\ ~said.loader.timer
      /\ said.rows = u.rows /\ said.paused = win.paused
  BY <1>4, <1>5, <1>6 DEF Alike
<1>9. /\ r \in Window /\ Within(r) /\ r.banner = said.banner /\ r.paused = said.paused
      /\ Timeline(said) => Timeline(r)
  BY <1>6, <1>7, <1>8, RestoreKeeps
<1>10. ASSUME NEW started, Timeline(win), Remembered(win, notes, started)
       PROVE  Remembered(r, notes, started)
  <2>1. Remembered(said, notes, started)
    BY <1>7, <1>10 DEF Keeps
  <2>2. /\ said.capture \in Files /\ ~said.back
        /\ Rows(said.capture, Length) \subseteq said.rows
    BY <1>1, <1>4, <1>8, <1>10 DEF Timeline, OneSpeaks, Remembered, LoadIsHeld
  <2>3. QED
    BY <1>1, <1>6, <1>7, <1>8, <2>1, <2>2, RestoreKeeps
<1> HIDE DEF r
<1>11. /\ win' \in Window /\ Keeps(r, win') /\ Alike(r, win')
       /\ win'.banner \in {r.banner, "none", "PLAIN", "FILTER_HIDES_EVERYTHING"}
  BY <1>3, <1>9, UpdateKeeps
<1>12. Noticed(win')
  BY <1>1, <1>4, <1>5, <1>6, <1>8, <1>9, <1>11 DEF Noticed, Alike
<1>13. UNCHANGED <<thread, events, reader, notes>>
  BY DEF LoadEnds
<1>14. Typed'
  BY <1>11, <1>13 DEF WindowInv, Typed
<1>15. Timeline(win) => Timeline(win')
  BY <1>7, <1>9, <1>11 DEF Keeps
<1>16. WindowInv'
  BY <1>11, <1>12, <1>13, <1>14, <1>15, Next_WindowInv DEF WindowInv, Keeps
<1>17. ASSUME NEW started, Timeline(win), Remembered(win, notes, started)
       PROVE  Remembered(win', notes, started)
  BY <1>7, <1>9, <1>10, <1>11, <1>17 DEF Keeps
<1>18. NotesInv => NotesInv'
  BY <1>13, <1>17, Next_NotesInv DEF NotesInv, WindowInv
<1>19. QED
  BY <1>16, <1>18

-----------------------------------------------------------------------------
(* The thread, its signals and the reader.                                 *)

(* A window keeps itself.                                                  *)
LEMMA SameKeeps ==
    ASSUME NEW w \in Window, Within(w)
    PROVE  Keeps(w, w)
<1>1. Alike(w, w)
  BY DEF Alike
<1>2. QED
  BY <1>1, AlikeKeeps

LEMMA DeviceKeeps ==
    ASSUME WindowInv, Device
    PROVE  WindowInv' /\ (NotesInv => NotesInv')
<1>1. /\ win \in Window /\ Within(win) /\ Noticed(win) /\ thread \in Thread
      /\ events \in Seq({"reconnecting", "streaming", "ended"}) /\ Len(events) <= 1
  BY DEF WindowInv, Typed
<1>2. UNCHANGED <<win, reader, notes>>
  BY DEF Device, Send, EndItself, ReportLink
<1>3. thread' \in Thread
  <2>1. CASE thread.sent < Length /\ thread' = [thread EXCEPT !.sent = @ + 1, !.path = TRUE]
    <3>1. thread.sent + 1 \in 0 .. Length
      BY <1>1, <2>1 DEF Thread
    <3>2. QED
      BY <1>1, <2>1, <3>1 DEF Thread
  <2>2. CASE thread' = [thread EXCEPT !.over = TRUE]
    BY <1>1, <2>2 DEF Thread
  <2>3. CASE UNCHANGED thread
    BY <1>1, <2>3
  <2>4. QED
    BY <2>1, <2>2, <2>3 DEF Device, Send, EndItself, ReportLink
<1>4. events' \in Seq({"reconnecting", "streaming", "ended"}) /\ Len(events') <= 1
  <2>1. ASSUME NEW e \in {"reconnecting", "streaming", "ended"}, Len(events) < 1,
               events' = Append(events, e)
        PROVE  events' \in Seq({"reconnecting", "streaming", "ended"}) /\ Len(events') <= 1
    BY <1>1, <2>1
  <2>2. QED
    BY <1>1, <2>1 DEF Device, Send, EndItself, ReportLink
<1>5. Keeps(win, win') /\ Noticed(win')
  BY <1>1, <1>2, SameKeeps
<1>6. QED
  BY <1>2, <1>3, <1>4, <1>5, StepKeeps

LEMMA TickKeeps ==
    ASSUME WindowInv, Tick
    PROVE  WindowInv' /\ (NotesInv => NotesInv')
<1>1. win \in Window /\ Within(win) /\ Noticed(win) /\ thread \in Thread /\ Running(win)
  BY DEF WindowInv, Typed, Tick
<1>2. win' \in Window /\ Keeps(win, win') /\ win' = [win EXCEPT !.rows = win'.rows]
  BY <1>1, DrainKeeps DEF Tick
<1>3. win'.banner = win.banner /\ win'.paused = win.paused /\ win'.loader = win.loader
  BY <1>1, <1>2 DEF Window
<1>4. Noticed(win')
  BY <1>1, <1>3 DEF Noticed
<1>5. QED
  BY <1>2, <1>4, StepKeeps DEF Tick, WindowInv, Typed

LEMMA SaidKeeps ==
    ASSUME WindowInv, PauseOverflows \/ OnReconnecting \/ OnStreaming
    PROVE  WindowInv' /\ (NotesInv => NotesInv')
<1>1. /\ win \in Window /\ Within(win) /\ Noticed(win) /\ thread \in Thread
      /\ events \in Seq({"reconnecting", "streaming", "ended"}) /\ Len(events) <= 1
      /\ {"PLAIN", "RECONNECTING"} \subseteq Notices
  BY DEF WindowInv, Typed, Notices
<1>2. Keeps(win, win') /\ Noticed(win')
  <2>1. CASE win' = Show(win, "PLAIN")
    BY <1>1, <2>1, ShowKeeps DEF Noticed
  <2>2. CASE win' = Show(win, "RECONNECTING")
    BY <1>1, <2>2, ShowKeeps DEF Noticed
  <2>3. CASE win' = HideOnly(win, "RECONNECTING")
    BY <1>1, <2>3, HideKeeps DEF Noticed, Alike
  <2>4. QED
    BY <2>1, <2>2, <2>3 DEF PauseOverflows, OnReconnecting, OnStreaming
<1>3. events' \in Seq({"reconnecting", "streaming", "ended"}) /\ Len(events') <= 1
  BY <1>1 DEF PauseOverflows, OnReconnecting, OnStreaming, Next1
<1>4. UNCHANGED <<thread, reader, notes>>
  BY DEF PauseOverflows, OnReconnecting, OnStreaming, Next1
<1>5. QED
  BY <1>1, <1>2, <1>3, <1>4, StepKeeps

LEMMA EndedKeeps ==
    ASSUME WindowInv, OnEnded \/ Disconnect
    PROVE  WindowInv' /\ (NotesInv => NotesInv')
<1>1. /\ win \in Window /\ Within(win) /\ Noticed(win)
      /\ events \in Seq({"reconnecting", "streaming", "ended"}) /\ Len(events) <= 1
  BY DEF WindowInv, Typed
<1>2. PICK idle \in StopCapture(win) :
          win' \in {idle, Show(idle, "PLAIN")} /\ notes' = Noted(idle)
  BY DEF OnEnded, Disconnect
<1>3. Noted(Show(idle, "PLAIN")) = Noted(idle)
  <2>1. idle \in Window
    BY <1>1, StopKeeps DEF WindowInv, Typed
  <2>2. QED
    BY <2>1 DEF Noted, Show, Window
<1>4. events' \in Seq({"reconnecting", "streaming", "ended"}) /\ Len(events') <= 1
  BY <1>1 DEF OnEnded, Disconnect, Next1
<1>5. UNCHANGED <<thread, reader>>
  BY DEF OnEnded, Disconnect, Next1
<1>6. notes' = Noted(win')
  BY <1>2, <1>3
<1>7. Keeps(win, win)
  BY <1>1, SameKeeps
<1>8. QED
  BY <1>1, <1>2, <1>4, <1>5, <1>6, <1>7, StopStep

LEMMA ReapKeeps ==
    ASSUME WindowInv, Reap
    PROVE  WindowInv' /\ (NotesInv => NotesInv')
<1>1. win \in Window /\ Within(win) /\ Noticed(win)
  BY DEF WindowInv, Typed
<1>2. PICK late \in win.parked :
          win' = [win EXCEPT !.parked = @ \ {late}, !.rows = @ \cup late]
  BY DEF Reap
<1> DEFINE v == win'
<1>3. win.parked \ {late} \in SUBSET SUBSET Table /\ win.rows \cup late \in SUBSET Table
  BY <1>1 DEF Window
<1>4. /\ v \in Window /\ v.rows = win.rows \cup late /\ v.parked = win.parked \ {late}
      /\ v.marks = win.marks /\ v.loader = win.loader /\ v.stored = win.stored
      /\ v.capture = win.capture /\ v.back = win.back /\ v.paused = win.paused
      /\ v.live = win.live /\ v.closed = win.closed /\ v.banner = win.banner
  BY <1>1, <1>2, <1>3 DEF Window
<1> HIDE DEF v
<1>5. Within(v)
  BY <1>1, <1>4 DEF Within, Running
<1>6. ASSUME Timeline(win) PROVE Timeline(v)
  <2>1. PICK c : OneSpeaks(win) /\ RowsAreOf(win, c)
    BY <1>6 DEF Timeline
  <2>2. OneSpeaks(v)
    BY <1>4, <2>1 DEF OneSpeaks, Running
  <2>3. RowsAreOf(v, c)
    BY <1>4, <2>1 DEF RowsAreOf, Running
  <2>4. QED
    BY <2>2, <2>3 DEF Timeline
<1>7. \A noted, started : Remembered(win, noted, started) => Remembered(v, noted, started)
  BY <1>4 DEF Remembered, NotesAreOf, LoadIsHeld, NewHasNone, Running
<1>8. Keeps(win, v) /\ Noticed(v)
  BY <1>1, <1>4, <1>5, <1>6, <1>7 DEF Keeps, Noticed
<1>9. QED
  BY <1>8, StepKeeps DEF v, Reap, WindowInv, Typed

LEMMA TogglePauseKeeps ==
    ASSUME WindowInv, TogglePause
    PROVE  WindowInv' /\ (NotesInv => NotesInv')
<1>1. /\ win \in Window /\ Within(win) /\ Noticed(win) /\ thread \in Thread /\ Running(win)
      /\ (~win.paused) \in BOOLEAN
  BY DEF WindowInv, Typed, TogglePause
<1>2. Keeps(win, win') /\ Noticed(win')
  BY <1>1, PauseKeeps DEF TogglePause
<1>3. QED
  BY <1>2, StepKeeps DEF TogglePause, WindowInv, Typed

LEMMA ApplyFilterKeeps ==
    ASSUME WindowInv, NEW hides \in BOOLEAN, ApplyFilter(hides)
    PROVE  WindowInv' /\ (NotesInv => NotesInv')
<1> DEFINE u == [win EXCEPT !.hides = hides]
<1>1. win \in Window /\ Within(win) /\ Noticed(win)
  BY DEF WindowInv, Typed
<1>2. u \in Window /\ Alike(win, u) /\ u.banner = win.banner
  BY <1>1 DEF Window, Alike
<1>3. win' = UpdateBanner(u)
  BY DEF ApplyFilter
<1> HIDE DEF u
<1>4. Keeps(win, u)
  BY <1>1, <1>2, AlikeKeeps
<1>5. /\ Keeps(u, win') /\ Alike(u, win')
      /\ win'.banner \in {u.banner, "none", "PLAIN", "FILTER_HIDES_EVERYTHING"}
  BY <1>2, <1>3, <1>4, UpdateKeeps DEF Keeps
<1>6. Keeps(win, win') /\ Noticed(win')
  BY <1>1, <1>2, <1>4, <1>5, KeepsOn DEF Noticed, Alike
<1>7. QED
  BY <1>6, StepKeeps DEF ApplyFilter, WindowInv, Typed

LEMMA ToggleMarkKeeps ==
    ASSUME WindowInv, NEW row \in win.rows, ToggleMark(row)
    PROVE  WindowInv' /\ (NotesInv => NotesInv')
<1> DEFINE now == IF row \in win.marks THEN win.marks \ {row} ELSE win.marks \cup {row}
<1>1. /\ win \in Window /\ Within(win) /\ Noticed(win) /\ row \in Table /\ now \subseteq Table
      /\ now \subseteq win.rows /\ reader \in History /\ notes \subseteq Table
  BY DEF WindowInv, Typed, Window, Within
<1>2. /\ win' = [win EXCEPT !.marks = now]
      /\ notes' = IF win.capture = row[1]
                  THEN (notes \ {row}) \cup (now \cap {row}) ELSE notes
      /\ UNCHANGED <<thread, events>>
  BY DEF ToggleMark
<1>3. /\ reader' \in History /\ reader'.mixed = reader.mixed
      /\ reader'.captures = reader.captures
      /\ ~reader'.hasty => ~reader.hasty /\ (row \in win.marks => BackOn(win))
  <2>1. reader' = [reader EXCEPT !.notes = @ + 1,
                      !.hasty = @ \/ (row \in win.marks /\ ~MarksAreBack)]
    BY DEF ToggleMark
  <2>2. MarksAreBack <=> BackOn(win)
    BY DEF MarksAreBack, BackOn
  <2> DEFINE h == reader.hasty \/ (row \in win.marks /\ ~MarksAreBack)
  <2>3. h \in BOOLEAN /\ reader' = [reader EXCEPT !.notes = reader.notes + 1, !.hasty = h]
    BY <1>1, <2>1 DEF History
  <2>6. ~h => ~reader.hasty /\ (row \in win.marks => BackOn(win))
    BY <2>2
  <2> HIDE DEF h
  <2>7. PICK b \in BOOLEAN :
            /\ reader' = [reader EXCEPT !.notes = reader.notes + 1, !.hasty = b]
            /\ ~b => ~reader.hasty /\ (row \in win.marks => BackOn(win))
    BY <2>3, <2>6, Zenon
  <2>8. reader.notes + 1 \in Nat
    BY <1>1 DEF History
  <2>4. reader' \in History /\ reader'.mixed = reader.mixed
        /\ reader'.captures = reader.captures /\ reader'.hasty = b
    BY <1>1, <2>7, <2>8 DEF History
  <2>5. QED
    BY <2>4, <2>7
<1> HIDE DEF now
<1>4. /\ win' \in Window /\ win'.marks = now /\ win'.rows = win.rows
      /\ win'.capture = win.capture /\ win'.loader = win.loader /\ win'.banner = win.banner
      /\ win'.paused = win.paused /\ win'.stored = win.stored /\ win'.live = win.live
      /\ win'.parked = win.parked /\ win'.closed = win.closed /\ win'.back = win.back
  BY <1>1, <1>2 DEF Window
<1>5. Typed'
  <2>1. notes' \subseteq Table
    BY <1>1, <1>2
  <2>2. QED
    BY <1>2, <1>3, <1>4, <2>1 DEF WindowInv, Typed
<1>6. Within(win') /\ Noticed(win')
  BY <1>1, <1>4 DEF Within, Noticed, Running
<1>7. Timeline(win) => Timeline(win')
  BY <1>4 DEF Timeline, OneSpeaks, RowsAreOf, Running
<1>8. WindowInv'
  BY <1>3, <1>5, <1>6, <1>7, Next_WindowInv DEF WindowInv
<1>9. NotesInv => NotesInv'
  <2>1. SUFFICES ASSUME NotesInv, ~reader'.hasty
                 PROVE  ~reader'.mixed /\ Remembered(win', notes', reader'.captures)
    BY Next_NotesInv
  <2>2. /\ ~reader.mixed /\ Timeline(win) /\ Remembered(win, notes, reader.captures)
        /\ row \in win.marks => BackOn(win)
    BY <1>3, <2>1 DEF WindowInv, NotesInv
  <2>3. CASE win.capture = Nothing
    <3>1. notes' = notes
      <4>1. row[1] \in Captures
        BY <1>1 DEF Table
      <4>2. QED
        BY <1>2, <2>3, <4>1 DEF Captures
    <3>2. Remembered(win', notes, reader.captures)
      BY <1>4, <2>2, <2>3 DEF Remembered, NotesAreOf, LoadIsHeld, NewHasNone, Running
    <3>3. QED
      BY <1>3, <2>2, <3>1, <3>2
  <2>4. CASE win.capture # Nothing
    <3>1. row[1] = win.capture
      BY <2>2, <2>4 DEF Timeline, RowsAreOf
    <3>2. notes' = (notes \ {row}) \cup (now \cap {row})
      BY <1>2, <3>1
    <3>3. /\ Of(win.capture, notes') = (Of(win.capture, notes) \ {row}) \cup (now \cap {row})
          /\ \A c : c # win.capture => Of(c, notes') = Of(c, notes)
      BY <3>1, <3>2 DEF Of
    <3>4. Of(win.capture, notes') =
             IF win.back \/ win.capture \in Sessions THEN now
             ELSE now \cup ReadMarks(win.stored, win.capture)
      <4> DEFINE kept == ReadMarks(win.stored, win.capture)
      <4>1. CASE win.back \/ win.capture \in Sessions
        <5>1. Of(win.capture, notes) = win.marks
          BY <2>2, <2>4, <4>1 DEF Remembered, NotesAreOf
        <5>2. (win.marks \ {row}) \cup (now \cap {row}) = now
          BY DEF now
        <5>3. QED
          BY <3>3, <4>1, <5>1, <5>2
      <4>2. CASE ~(win.back \/ win.capture \in Sessions)
        <5>1. Of(win.capture, notes) = win.marks \cup kept
          BY <2>2, <2>4, <4>2 DEF Remembered, NotesAreOf
        <5>2. row \in win.marks => kept = {}
          BY <2>2, <2>4, <4>2 DEF BackOn, Window, WindowInv, Typed, Captures
        <5> HIDE DEF kept
        <5>3. ((win.marks \cup kept) \ {row}) \cup (now \cap {row}) = now \cup kept
          BY <5>2 DEF now
        <5>4. QED
          BY <3>3, <4>2, <5>1, <5>3 DEF kept
      <4>3. QED
        BY <4>1, <4>2
    <3>5. NotesAreOf(win', notes')
      BY <1>4, <2>2, <3>3, <3>4 DEF Remembered, NotesAreOf
    <3>6. \A s \in Sessions \ reader.captures : s # win.capture
      BY <2>2 DEF Remembered, NewHasNone
    <3>7. ~Running(win)
      BY <2>2, <2>4 DEF Timeline, OneSpeaks
    <3>8. LoadIsHeld(win') /\ NewHasNone(win', notes', reader.captures)
      BY <1>4, <2>2, <3>3, <3>6, <3>7 DEF Remembered, LoadIsHeld, NewHasNone, Running
    <3>9. QED
      BY <1>3, <2>2, <3>5, <3>8 DEF Remembered
  <2>5. QED
    BY <2>3, <2>4
<1>10. QED
  BY <1>8, <1>9

(* The banner's button.                                                    *)
LEMMA ActKeeps ==
    ASSUME WindowInv, Act
    PROVE  WindowInv' /\ (NotesInv => NotesInv')
<1> DEFINE taken == Show(win, "none")
<1>1. /\ win \in Window /\ Within(win) /\ thread \in Thread
      /\ {"none", "PLAIN"} \subseteq Notices
      /\ events \in Seq({"reconnecting", "streaming", "ended"}) /\ Len(events) <= 1
  BY DEF WindowInv, Typed, Notices
<1>2. /\ notes' = Noted(win') /\ UNCHANGED <<thread, events, reader>>
      /\ \/ win' \in StopCapture(taken)
         \/ win' = SetPaused(taken, FALSE)
         \/ win' = CancelLoading(taken)
         \/ win' = UpdateBanner([taken EXCEPT !.hides = FALSE])
         \/ win' = taken
  BY DEF Act
<1>3. /\ taken \in Window /\ taken.banner = "none" /\ Alike(win, taken) /\ Keeps(win, taken)
  BY <1>1, ShowKeeps
<1> HIDE DEF taken
<1>4. Within(taken) /\ Noticed(taken)
  BY <1>3 DEF Keeps, Noticed
<1>5. CASE win' \in StopCapture(taken)
  <2>1. PICK idle \in StopCapture(taken) : win' = idle
    BY <1>5
  <2>2. QED
    BY <1>1, <1>2, <1>3, <1>4, <2>1, StopStep
<1>6. CASE win' = SetPaused(taken, FALSE)
  <2>1. Keeps(taken, win') /\ Noticed(win')
    BY <1>1, <1>3, <1>4, <1>6, PauseKeeps
  <2>2. Keeps(win, win')
    BY <1>3, <2>1, KeepsOn
  <2>3. QED
    BY <1>2, <2>1, <2>2, NotedStep
<1>7. CASE win' = CancelLoading(taken)
  <2> DEFINE off == [taken.loader EXCEPT !.timer = FALSE]
             u == [taken EXCEPT !.loader = off]
  <2>1. win' = Show(u, "PLAIN")
    BY <1>3, <1>7 DEF CancelLoading, Window
  <2>2. off \in Loader /\ off.timer = FALSE
    BY <1>3 DEF Window, Loader
  <2> HIDE DEF off
  <2>3. /\ u \in Window /\ u.loader = off /\ u.rows = taken.rows /\ u.marks = taken.marks
        /\ u.capture = taken.capture /\ u.back = taken.back /\ u.paused = taken.paused
        /\ u.stored = taken.stored /\ u.live = taken.live /\ u.parked = taken.parked
        /\ u.closed = taken.closed
    BY <1>3, <2>2 DEF Window
  <2> HIDE DEF u
  <2>4. Within(u)
    BY <1>4, <2>2, <2>3 DEF Within, Running
  <2>5. (Timeline(taken) => Timeline(u)) /\ \A noted, started :
             Remembered(taken, noted, started) => Remembered(u, noted, started)
    BY <2>2, <2>3 DEF Timeline, OneSpeaks, RowsAreOf, Running, Remembered, NotesAreOf,
       LoadIsHeld, NewHasNone
  <2>6. Keeps(taken, u)
    BY <2>3, <2>4, <2>5 DEF Keeps
  <2>7. Keeps(u, win') /\ win'.banner = "PLAIN"
    BY <1>1, <2>1, <2>3, <2>4, ShowKeeps
  <2>8. Keeps(win, win') /\ Noticed(win')
    BY <1>3, <2>6, <2>7, KeepsOn DEF Noticed
  <2>9. QED
    BY <1>2, <2>8, NotedStep
<1>8. CASE win' = UpdateBanner([taken EXCEPT !.hides = FALSE])
  <2> DEFINE u == [taken EXCEPT !.hides = FALSE]
  <2>1. u \in Window /\ Alike(taken, u) /\ u.banner = "none"
    BY <1>3 DEF Window, Alike
  <2> HIDE DEF u
  <2>2. Keeps(taken, u)
    BY <1>3, <1>4, <2>1, AlikeKeeps
  <2>3. /\ Keeps(u, win')
        /\ win'.banner \in {u.banner, "none", "PLAIN", "FILTER_HIDES_EVERYTHING"}
    BY <1>8, <2>1, <2>2, UpdateKeeps DEF Keeps, u
  <2>4. Keeps(win, win') /\ Noticed(win')
    BY <1>3, <2>1, <2>2, <2>3, KeepsOn DEF Noticed
  <2>5. QED
    BY <1>2, <2>4, NotedStep
<1>9. CASE win' = taken
  BY <1>2, <1>3, <1>4, <1>9, NotedStep
<1>10. QED
  BY <1>2, <1>5, <1>6, <1>7, <1>8, <1>9

-----------------------------------------------------------------------------
(* Doors.                                                                  *)

LEMMA MarksAreBackHere == MarksAreBack <=> BackOn(win)
BY DEF MarksAreBack, BackOn

LEMMA FreshWindow ==
    ASSUME NEW stored \in Seq(Entry), OneEntryEach(stored), NEW shut \in BOOLEAN
    PROVE  LET v == [Fresh(stored) EXCEPT !.closed = shut]
           IN  /\ v \in Window /\ Within(v) /\ Noticed(v) /\ Timeline(v)
               /\ v.stored = stored /\ v.capture = Nothing
               /\ \A noted, started :
                    /\ \A c \in Captures : Of(c, noted) = ReadMarks(stored, c)
                    /\ \A s \in Sessions \ started : Of(s, noted) = {}
                    => Remembered(v, noted, started)
<1> DEFINE v == [Fresh(stored) EXCEPT !.closed = shut]
<1>1. NoLoader \in Loader /\ NoLoader.timer = FALSE
  BY DEF NoLoader, Loader
<1>3. "none" \in Notices
  BY DEF Notices
<1>9. Fresh(stored) \in Window
  BY <1>1, <1>3 DEF Fresh, Window
<1>2. /\ v.capture = Nothing /\ v.rows = {} /\ v.marks = {} /\ v.back = FALSE
      /\ v.loader = NoLoader /\ v.banner = "none" /\ v.paused = FALSE /\ v.live = Nothing
      /\ v.parked = {} /\ v.stored = stored
  BY DEF Fresh
<1>4. v \in Window
  BY <1>9 DEF Window
<1> HIDE DEF v
<1>5. Emptied(v) /\ OneSpeaks(v) /\ v.parked = {} /\ Noticed(v) /\ ~v.loader.timer
  BY <1>1, <1>2 DEF Emptied, OneSpeaks, Noticed, Running
<1>6. \A noted, started : (\A s \in Sessions \ started : Of(s, noted) = {})
          => NewHasNone(v, noted, started)
  BY <1>2 DEF NewHasNone, Running
<1>7. v.stored = stored /\ v.capture = Nothing /\ v.capture \notin Sessions
  BY <1>2
<1>8. QED
  BY <1>4, <1>5, <1>6, <1>7, DoorKeeps DEF v

LEMMA RelaunchKeeps ==
    ASSUME WindowInv, Relaunch
    PROVE  WindowInv' /\ (NotesInv => NotesInv')
<1>1. /\ win \in Window /\ Within(win) /\ win.stored \in Seq(Entry)
      /\ OneEntryEach(win.stored) /\ win.closed
  BY DEF WindowInv, Typed, Window, Within, Relaunch
<1>2. win' = [Fresh(win.stored) EXCEPT !.closed = FALSE]
  <2> DEFINE f == Fresh(win.stored)
  <2>1. DOMAIN f = {"capture", "rows", "marks", "back", "loader", "banner", "hides", "paused",
                    "live", "parked", "closed", "stored"}
        /\ f.closed = FALSE /\ f = [f EXCEPT !.closed = f.closed]
    BY DEF Fresh
  <2> HIDE DEF f
  <2>2. f = [f EXCEPT !.closed = FALSE]
    BY <2>1
  <2>3. QED
    BY <2>2 DEF Relaunch, f
<1>3. UNCHANGED <<thread, events, reader, notes>>
  BY DEF Relaunch
<1>4. /\ win' \in Window /\ Within(win') /\ Noticed(win') /\ Timeline(win')
      /\ \A noted, started :
            /\ \A c \in Captures : Of(c, noted) = ReadMarks(win.stored, c)
            /\ \A s \in Sessions \ started : Of(s, noted) = {}
            => Remembered(win', noted, started)
  BY <1>1, <1>2, FreshWindow
<1>5. Typed'
  BY <1>3, <1>4 DEF WindowInv, Typed
<1>6. WindowInv'
  BY <1>4, <1>5, Next_WindowInv
<1>7. NotesInv => NotesInv'
  <2>1. SUFFICES ASSUME NotesInv, ~reader.hasty
                 PROVE  ~reader.mixed /\ Remembered(win', notes, reader.captures)
    BY <1>3, Next_NotesInv
  <2>2. win.capture = Nothing
    BY <1>1 DEF Within
  <2>3. /\ ~reader.mixed /\ \A c \in Captures : Of(c, notes) = ReadMarks(win.stored, c)
        /\ \A s \in Sessions \ reader.captures : Of(s, notes) = {}
    BY <2>1, <2>2 DEF NotesInv, Remembered, NotesAreOf, NewHasNone, Captures
  <2>4. QED
    BY <1>4, <2>3
<1>8. QED
  BY <1>6, <1>7

LEMMA CloseWindowKeeps ==
    ASSUME WindowInv, CloseWindow
    PROVE  WindowInv' /\ (Roomy /\ NotesInv => NotesInv')
<1>1. /\ win \in Window /\ Within(win) /\ Noticed(win) /\ thread \in Thread
      /\ reader \in History /\ notes \subseteq Table
  BY DEF WindowInv, Typed
<1>2. PICK idle \in StopCapture(win) :
          /\ notes' = Noted(idle)
          /\ win' = [Fresh(SaveMarks(idle, Nothing).stored) EXCEPT !.closed = TRUE]
  BY DEF CloseWindow
<1>3. /\ idle \in Window /\ Within(idle) /\ ~Running(idle)
      /\ Timeline(win) => Timeline(idle)
      /\ \A started : Timeline(win) /\ Remembered(win, notes, started)
                         => Remembered(idle, Noted(idle), started)
      /\ ~Running(win) => idle = win
  BY <1>1, StopKeeps
<1> DEFINE saved == SaveMarks(idle, Nothing)
<1>4. /\ saved \in Window /\ Within(saved)
      /\ \A noted, started :
            Roomy /\ BackOn(idle) /\ Remembered(idle, noted, started)
                => \A c \in Captures : Of(c, noted) = ReadMarks(saved.stored, c)
  BY <1>3, SaveKeeps
<1> HIDE DEF saved
<1>5. saved.stored \in Seq(Entry) /\ OneEntryEach(saved.stored)
  BY <1>4 DEF Window, Within
<1>6. /\ win' \in Window /\ Within(win') /\ Noticed(win') /\ Timeline(win')
      /\ \A noted, started :
            /\ \A c \in Captures : Of(c, noted) = ReadMarks(saved.stored, c)
            /\ \A s \in Sessions \ started : Of(s, noted) = {}
            => Remembered(win', noted, started)
  BY <1>2, <1>5, FreshWindow DEF saved
<1>7. PICK b \in BOOLEAN : /\ reader' = [reader EXCEPT !.hasty = b]
                           /\ ~b => ~reader.hasty /\ BackOn(win)
  <2>1. reader' = [reader EXCEPT !.hasty = @ \/ ~MarksAreBack]
    BY DEF CloseWindow
  <2> DEFINE h == reader.hasty \/ ~MarksAreBack
  <2>2. h \in BOOLEAN /\ reader' = [reader EXCEPT !.hasty = h]
    BY <1>1, <2>1 DEF History
  <2>3. ~h => ~reader.hasty /\ BackOn(win)
    BY MarksAreBackHere
  <2> HIDE DEF h
  <2>4. QED
    BY <2>2, <2>3, Zenon
<1>8. /\ reader' \in History /\ reader'.mixed = reader.mixed /\ reader'.hasty = b
      /\ reader'.captures = reader.captures
  BY <1>1, <1>7 DEF History
<1>9. Typed'
  <2>1. thread' \in Thread /\ events' = <<>>
    BY DEF CloseWindow, NotStarted, Thread
  <2>2. notes' \subseteq Table
    BY <1>1, <1>2, <1>3, NotedTyped
  <2>3. QED
    BY <1>6, <1>8, <2>1, <2>2 DEF Typed
<1>10. WindowInv'
  BY <1>6, <1>9, Next_WindowInv
<1>11. Roomy /\ NotesInv => NotesInv'
  <2>1. SUFFICES ASSUME Roomy, NotesInv, ~reader'.hasty
                 PROVE  ~reader'.mixed /\ Remembered(win', notes', reader'.captures)
    BY Next_NotesInv
  <2>2. /\ ~reader.mixed /\ BackOn(win) /\ Timeline(win)
        /\ Remembered(win, notes, reader.captures)
    BY <1>7, <1>8, <2>1 DEF NotesInv, WindowInv
  <2>3. Remembered(idle, notes', reader.captures)
    BY <1>2, <1>3, <2>2
  <2>4. BackOn(idle)
    <3>1. CASE ~Running(win)
      BY <1>3, <2>2, <3>1
    <3>2. CASE Running(win)
      <4>1. win.capture = Nothing
        BY <2>2, <3>2 DEF Timeline, OneSpeaks
      <4>2. idle.capture \notin Files
        BY <1>1, <3>2, <4>1, StopLeaves
      <4>3. QED
        BY <4>2 DEF BackOn
    <3>3. QED
      BY <3>1, <3>2
  <2>5. \A c \in Captures : Of(c, notes') = ReadMarks(saved.stored, c)
    BY <1>4, <2>1, <2>3, <2>4
  <2>6. \A s \in Sessions \ reader.captures : Of(s, notes') = {}
    BY <2>3 DEF Remembered, NewHasNone
  <2>7. QED
    BY <1>6, <1>8, <2>2, <2>5, <2>6
<1>12. QED
  BY <1>10, <1>11

LEMMA CloseCaptureKeeps ==
    ASSUME WindowInv, CloseCapture
    PROVE  WindowInv' /\ (Roomy /\ NotesInv => NotesInv')
<1>1. /\ win \in Window /\ Within(win) /\ Noticed(win) /\ thread \in Thread
      /\ reader \in History /\ notes \subseteq Table
      /\ {"none", "STILL_RUNNING"} \subseteq Notices
      /\ UNCHANGED <<thread, events, notes>>
  BY DEF WindowInv, Typed, Notices, CloseCapture
<1>2. CASE Running(win)
  <2>1. win' = Show(win, "STILL_RUNNING") /\ UNCHANGED reader
    BY <1>2 DEF CloseCapture
  <2>2. Keeps(win, win') /\ Noticed(win')
    BY <1>1, <2>1, ShowKeeps DEF Noticed
  <2>3. QED
    BY <1>1, <2>1, <2>2, StepKeeps DEF WindowInv, Typed
<1>3. CASE ~Running(win)
  <2> DEFINE saved == SaveMarks(win, Nothing)
             u == [ReplaceModel(saved, FALSE) EXCEPT !.capture = Nothing, !.loader = NoLoader]
  <2>1. /\ win' = Show(u, "none")
        /\ reader' = [reader EXCEPT !.hasty = @ \/ Hasty]
    BY <1>3 DEF CloseCapture
  <2>2. /\ saved \in Window /\ Within(saved) /\ saved = [win EXCEPT !.stored = saved.stored]
        /\ \A noted, started :
              Roomy /\ BackOn(win) /\ Remembered(win, noted, started)
                  => \A c \in Captures : Of(c, noted) = ReadMarks(saved.stored, c)
    BY <1>1, SaveKeeps
  <2> HIDE DEF saved
  <2>3. NoLoader \in Loader /\ NoLoader.timer = FALSE
    BY DEF NoLoader, Loader
  <2>4. /\ saved.parked = win.parked /\ saved.live = win.live /\ saved.paused = win.paused
        /\ saved.closed = win.closed
    BY <1>1, <2>2 DEF Window
  <2>5. /\ u \in Window /\ u.rows = {} /\ u.marks = {} /\ u.back = FALSE /\ u.capture = Nothing
        /\ u.loader = NoLoader /\ u.parked = win.parked /\ u.live = Nothing
        /\ u.paused = FALSE /\ u.stored = saved.stored /\ u.closed = win.closed
    <3>1. (FALSE /\ saved.hides) = FALSE
      OBVIOUS
    <3>2. u = [saved EXCEPT !.rows = {}, !.marks = {}, !.back = FALSE, !.hides = FALSE,
                            !.capture = Nothing, !.loader = NoLoader]
      BY <2>2, <3>1 DEF ReplaceModel, Window
    <3>3. win.live = Nothing /\ win.paused = FALSE
      BY <1>1, <1>3 DEF Running, Within, Window
    <3> HIDE DEF u
    <3>4. QED
      BY <2>2, <2>3, <2>4, <3>2, <3>3 DEF Window
  <2> HIDE DEF u
  <2>6. Emptied(u) /\ OneSpeaks(u)
    BY <2>2, <2>3, <2>5 DEF Emptied, OneSpeaks, Running, Within
  <2>7. Within(u) /\ \A noted, started :
            /\ \A c \in Captures : Of(c, noted) = ReadMarks(u.stored, c)
            /\ NewHasNone(u, noted, started)
            => Remembered(u, noted, started)
    BY <2>3, <2>5, <2>6, DoorKeeps
  <2>8. ASSUME Timeline(win) PROVE Timeline(u)
    <3>1. PICK c : RowsAreOf(win, c)
      BY <2>8 DEF Timeline
    <3>2. RowsAreOf(u, c)
      BY <2>5, <3>1 DEF RowsAreOf, Running
    <3>3. QED
      BY <2>6, <3>2 DEF Timeline
  <2>9. /\ win' \in Window /\ win'.banner = "none" /\ Alike(u, win') /\ Keeps(u, win')
    BY <1>1, <2>1, <2>5, <2>7, ShowKeeps
  <2>10. PICK b \in BOOLEAN : /\ reader' = [reader EXCEPT !.hasty = b]
                              /\ ~b => ~reader.hasty /\ BackOn(win)
    <3> DEFINE h == reader.hasty \/ Hasty
    <3>1. h \in BOOLEAN /\ reader' = [reader EXCEPT !.hasty = h]
      BY <1>1, <2>1 DEF History
    <3>2. ~h => ~reader.hasty /\ BackOn(win)
      BY MarksAreBackHere DEF Hasty
    <3> HIDE DEF h
    <3>3. QED
      BY <3>1, <3>2, Zenon
  <2>11. /\ reader' \in History /\ reader'.mixed = reader.mixed /\ reader'.hasty = b
         /\ reader'.captures = reader.captures
    BY <1>1, <2>10 DEF History
  <2>12. Typed'
    BY <1>1, <2>9, <2>11 DEF WindowInv, Typed
  <2>13. WindowInv'
    BY <2>8, <2>9, <2>11, <2>12, Next_WindowInv DEF WindowInv, Keeps, Noticed
  <2>14. Roomy /\ NotesInv => NotesInv'
    <3>1. SUFFICES ASSUME Roomy, NotesInv, ~reader'.hasty
                   PROVE  ~reader'.mixed /\ Remembered(win', notes', reader'.captures)
      BY Next_NotesInv
    <3>2. /\ ~reader.mixed /\ BackOn(win) /\ Timeline(win)
          /\ Remembered(win, notes, reader.captures)
      BY <2>10, <2>11, <3>1 DEF NotesInv, WindowInv
    <3>3. \A c \in Captures : Of(c, notes) = ReadMarks(u.stored, c)
      BY <2>2, <2>5, <3>1, <3>2
    <3>4. NewHasNone(u, notes, reader.captures)
      BY <2>5, <3>2 DEF Remembered, NewHasNone, Running
    <3>5. Remembered(u, notes, reader.captures) /\ Timeline(u)
      BY <2>7, <2>8, <3>2, <3>3, <3>4
    <3>6. QED
      BY <1>1, <2>9, <2>11, <3>2, <3>5 DEF Keeps
  <2>15. QED
    BY <2>13, <2>14
<1>4. QED
  BY <1>2, <1>3

LEMMA StartCaptureKeeps ==
    ASSUME WindowInv, StartCapture
    PROVE  WindowInv' /\ (NotesInv => NotesInv')
<1>1. /\ win \in Window /\ Within(win) /\ Noticed(win) /\ ~Running(win) /\ ~win.closed
      /\ reader \in History /\ notes \subseteq Table /\ UNCHANGED <<events, notes>>
      /\ win.paused = FALSE
  BY DEF WindowInv, Typed, StartCapture, Within, Window
<1>2. PICK s \in Sessions \ reader.captures :
          /\ reader' = [reader EXCEPT !.captures = @ \cup {s},
                          !.mixed = @ \/ win.loader.timer \/ win.parked # {},
                          !.hasty = @ \/ win.loader.timer \/ win.parked # {}
                                      \/ win.capture # Nothing]
          /\ win' = [ReplaceModel(win, TRUE) EXCEPT !.capture = Nothing, !.live = s]
  BY DEF StartCapture
<1>3. PICK m, h \in BOOLEAN :
          /\ reader' = [reader EXCEPT !.captures = @ \cup {s}, !.mixed = m, !.hasty = h]
          /\ ~m => ~reader.mixed /\ ~win.loader.timer /\ win.parked = {}
          /\ ~h => /\ ~reader.hasty /\ ~win.loader.timer /\ win.parked = {}
                   /\ win.capture = Nothing
  <2> DEFINE m0 == reader.mixed \/ win.loader.timer \/ win.parked # {}
             h0 == reader.hasty \/ win.loader.timer \/ win.parked # {} \/ win.capture # Nothing
  <2>1. reader' = [reader EXCEPT !.captures = @ \cup {s}, !.mixed = m0, !.hasty = h0]
    BY <1>1, <1>2 DEF History
  <2>2. m0 \in BOOLEAN /\ h0 \in BOOLEAN
    OBVIOUS
  <2>3. /\ ~m0 => ~reader.mixed /\ ~win.loader.timer /\ win.parked = {}
        /\ ~h0 => /\ ~reader.hasty /\ ~win.loader.timer /\ win.parked = {}
                  /\ win.capture = Nothing
    OBVIOUS
  <2> HIDE DEF m0, h0
  <2>4. QED
    BY <2>1, <2>2, <2>3, Zenon
<1>4. /\ reader' \in History /\ reader'.mixed = m /\ reader'.hasty = h
      /\ reader'.captures = reader.captures \cup {s}
  <2>1. reader.captures \cup {s} \in SUBSET Sessions
    BY <1>1 DEF History
  <2>2. QED
    BY <1>1, <1>3, <2>1 DEF History
<1>5. /\ win' \in Window /\ win'.rows = {} /\ win'.marks = {} /\ win'.back = FALSE
      /\ win'.capture = Nothing /\ win'.live = s /\ win'.loader = win.loader
      /\ win'.parked = win.parked /\ win'.paused = FALSE /\ win'.stored = win.stored
      /\ win'.closed = win.closed /\ win'.banner = win.banner
  <2>1. win' = [win EXCEPT !.rows = {}, !.marks = {}, !.back = FALSE, !.hides = win.hides,
                           !.capture = Nothing, !.live = s]
    BY <1>1, <1>2 DEF ReplaceModel, Window
  <2>2. s \in Sessions
    BY <1>2
  <2>3. win' \in Window
    BY <1>1, <2>1, <2>2, Zenon DEF Window
  <2>4. QED
    BY <1>1, <2>1, <2>3 DEF Window
<1> DEFINE v == win'
<1>6. v \in Window /\ Emptied(v)
  BY <1>1, <1>5 DEF Emptied, Within, Running
<1> HIDE DEF v
<1>7. /\ Within(v)
      /\ (OneSpeaks(v) /\ v.parked = {}) => Timeline(v)
      /\ \A noted, started :
            /\ \A c \in Captures : Of(c, noted) = ReadMarks(v.stored, c)
            /\ NewHasNone(v, noted, started) /\ v.capture \notin Sessions
            /\ (v.loader.timer => v.loader.loaded = 0)
            => Remembered(v, noted, started)
  BY <1>6, DoorKeeps
<1>8. ~m => Timeline(v)
  BY <1>3, <1>5, <1>7 DEF OneSpeaks, Running, v
<1>9. Typed'
  BY <1>1, <1>4, <1>5 DEF WindowInv, Typed, StartCapture, NotStarted, Thread
<1>10. Noticed(win')
  BY <1>1, <1>5 DEF Noticed
<1>11. WindowInv'
  BY <1>4, <1>7, <1>8, <1>9, <1>10, Next_WindowInv DEF v
<1>12. NotesInv => NotesInv'
  <2>1. SUFFICES ASSUME NotesInv, ~reader'.hasty
                 PROVE  ~reader'.mixed /\ Remembered(v, notes', reader'.captures)
    BY Next_NotesInv DEF v
  <2>2. /\ ~reader.hasty /\ ~win.loader.timer /\ win.parked = {} /\ win.capture = Nothing
        /\ ~reader.mixed /\ Remembered(win, notes, reader.captures)
    BY <1>3, <1>4, <2>1 DEF NotesInv
  <2>3. ~reader'.mixed
    BY <1>2, <1>1, <2>2 DEF History
  <2>4. /\ \A c \in Captures : Of(c, notes) = ReadMarks(win.stored, c)
        /\ \A r \in Sessions \ reader.captures : Of(r, notes) = {}
    BY <2>2 DEF Remembered, NotesAreOf, NewHasNone, Captures
  <2>5. NewHasNone(v, notes, reader'.captures)
    BY <1>2, <1>4, <1>5, <2>4 DEF NewHasNone, v
  <2>6. v.capture \notin Sessions /\ ~v.loader.timer /\ v.stored = win.stored
    BY <1>5, <2>2 DEF v
  <2>7. QED
    BY <1>1, <1>7, <2>3, <2>4, <2>5, <2>6
<1>13. QED
  BY <1>11, <1>12

LEMMA OpenCaptureKeeps ==
    ASSUME WindowInv, NEW c \in Files, OpenCapture(c)
    PROVE  WindowInv' /\ (Roomy /\ NotesInv => NotesInv')
<1> DEFINE saved == SaveMarks(win, c)
           put == [saved EXCEPT !.loader = NoLoader]
           load == [NoLoader EXCEPT !.of = c, !.timer = TRUE]
<1>1. /\ win \in Window /\ Within(win) /\ Noticed(win) /\ ~win.closed /\ thread \in Thread
      /\ reader \in History /\ notes \subseteq Table
      /\ {"PLAIN", "LOADING"} \subseteq Notices
      /\ UNCHANGED <<thread, events>> /\ notes' = notes
      /\ c \in Captures /\ c # Nothing /\ c \notin Sessions
  BY DEF WindowInv, Typed, OpenCapture, Notices, Captures
<1>2. /\ NoLoader \in Loader /\ NoLoader.timer = FALSE
      /\ load \in Loader /\ load.of = c /\ load.loaded = 0 /\ load.timer = TRUE
  <2>1. NoLoader \in Loader /\ NoLoader.timer = FALSE /\ NoLoader.loaded = 0
    BY DEF NoLoader, Loader
  <2>2. load \in Loader /\ load.of = c /\ load.loaded = 0 /\ load.timer = TRUE
    BY <2>1 DEF Loader
  <2>3. QED
    BY <2>1, <2>2
<1>3. /\ \/ win' = Show(put, "PLAIN")
         \/ \E idle \in StopCapture(put) :
               win' = Show([ReplaceModel(idle, TRUE) EXCEPT !.capture = c, !.loader = load],
                           "LOADING")
      /\ reader' = [reader EXCEPT !.opens = @ + 1, !.hasty = @ \/ Hasty,
                                  !.mixed = @ \/ win'.parked # {}]
  BY <1>1 DEF OpenCapture
<1> HIDE DEF load
<1>4. PICK m, h \in BOOLEAN :
          /\ reader' = [reader EXCEPT !.opens = reader.opens + 1, !.hasty = h, !.mixed = m]
          /\ ~m => ~reader.mixed /\ win'.parked = {}
          /\ ~h => ~reader.hasty /\ BackOn(win) /\ win.parked = {} /\ ~Running(win)
          /\ m => reader.mixed \/ win'.parked # {}
  <2> DEFINE m0 == reader.mixed \/ win'.parked # {}
             h0 == reader.hasty \/ Hasty
  <2>1. reader' = [reader EXCEPT !.opens = reader.opens + 1, !.hasty = h0, !.mixed = m0]
    BY <1>1, <1>3 DEF History
  <2>2. m0 \in BOOLEAN /\ h0 \in BOOLEAN
    OBVIOUS
  <2>3. /\ ~m0 => ~reader.mixed /\ win'.parked = {}
        /\ ~h0 => ~reader.hasty /\ BackOn(win) /\ win.parked = {} /\ ~Running(win)
        /\ m0 => reader.mixed \/ win'.parked # {}
    BY MarksAreBackHere DEF Hasty
  <2> HIDE DEF m0, h0
  <2>4. QED
    BY <2>1, <2>2, <2>3, Zenon
<1>5. /\ reader' \in History /\ reader'.mixed = m /\ reader'.hasty = h
      /\ reader'.captures = reader.captures
  <2>1. reader.opens + 1 \in Nat
    BY <1>1 DEF History
  <2>2. QED
    BY <1>1, <1>4, <2>1 DEF History
<1>6. /\ saved \in Window /\ Within(saved) /\ saved = [win EXCEPT !.stored = saved.stored]
      /\ Timeline(win) => Timeline(saved)
      /\ \A noted, started :
            Roomy /\ BackOn(win) /\ Remembered(win, noted, started)
                => /\ Remembered(saved, noted, started)
                   /\ \A d \in Captures : Of(d, noted) = ReadMarks(saved.stored, d)
  BY <1>1, SaveKeeps
<1> HIDE DEF saved
<1>7. /\ saved.banner = win.banner /\ saved.paused = win.paused /\ saved.live = win.live
      /\ saved.parked = win.parked /\ saved.closed = win.closed
  BY <1>1, <1>6 DEF Window
<1>8. /\ put \in Window /\ put.loader = NoLoader /\ put.rows = saved.rows
      /\ put.marks = saved.marks /\ put.capture = saved.capture /\ put.back = saved.back
      /\ put.paused = saved.paused /\ put.stored = saved.stored /\ put.live = saved.live
      /\ put.parked = saved.parked /\ put.closed = saved.closed
  BY <1>2, <1>6 DEF Window
<1> HIDE DEF put
<1>9. Within(put)
  BY <1>2, <1>6, <1>8 DEF Within, Running
<1>10. Timeline(win) => Timeline(put)
  BY <1>2, <1>6, <1>8 DEF Timeline, OneSpeaks, RowsAreOf, Running
<1>11. \A noted, started : Remembered(saved, noted, started) => Remembered(put, noted, started)
  BY <1>2, <1>8 DEF Remembered, NotesAreOf, LoadIsHeld, NewHasNone, Running
<1>12. CASE win' = Show(put, "PLAIN")
  <2>1. /\ win' \in Window /\ win'.banner = "PLAIN" /\ Alike(put, win') /\ Keeps(put, win')
    BY <1>1, <1>8, <1>9, <1>12, ShowKeeps
  <2>2. Typed'
    BY <1>1, <1>5, <2>1 DEF WindowInv, Typed
  <2>3. WindowInv'
    BY <1>4, <1>5, <1>10, <2>1, <2>2, Next_WindowInv DEF WindowInv, Keeps, Noticed
  <2>4. Roomy /\ NotesInv => NotesInv'
    <3>1. SUFFICES ASSUME Roomy, NotesInv, ~reader'.hasty
                   PROVE  ~reader'.mixed /\ Remembered(win', notes', reader'.captures)
      BY Next_NotesInv
    <3>2. /\ ~reader.mixed /\ BackOn(win) /\ Timeline(win) /\ win.parked = {}
          /\ Remembered(win, notes, reader.captures)
      BY <1>4, <1>5, <3>1 DEF NotesInv, WindowInv
    <3>3. Remembered(put, notes, reader.captures)
      BY <1>6, <1>11, <3>1, <3>2
    <3>4. win'.parked = {}
      BY <1>7, <1>8, <2>1, <3>2 DEF Alike
    <3>5. QED
      BY <1>1, <1>4, <1>5, <1>10, <2>1, <3>2, <3>3, <3>4 DEF Keeps
  <2>5. QED
    BY <2>3, <2>4
<1>13. ASSUME NEW idle \in StopCapture(put),
              win' = Show([ReplaceModel(idle, TRUE) EXCEPT !.capture = c, !.loader = load],
                          "LOADING")
       PROVE  WindowInv' /\ (Roomy /\ NotesInv => NotesInv')
  <2> DEFINE u == [ReplaceModel(idle, TRUE) EXCEPT !.capture = c, !.loader = load]
  <2>1. /\ idle \in Window /\ Within(idle) /\ ~Running(idle) /\ idle.stored = put.stored
        /\ ~Running(put) => idle = put
    BY <1>1, <1>8, <1>9, StopKeeps
  <2>2. idle.paused = FALSE /\ idle.live = Nothing /\ OneEntryEach(idle.stored)
    BY <2>1 DEF Within, Window, Running
  <2>3. /\ u \in Window /\ u.rows = {} /\ u.marks = {} /\ u.back = FALSE /\ u.capture = c
        /\ u.loader = load /\ u.parked = idle.parked /\ u.live = Nothing
        /\ u.paused = FALSE /\ u.stored = put.stored /\ u.closed = idle.closed
    <3>1. u = [idle EXCEPT !.rows = {}, !.marks = {}, !.back = FALSE, !.hides = idle.hides,
                           !.capture = c, !.loader = load]
      BY <2>1 DEF ReplaceModel, Window
    <3> HIDE DEF u
    <3>2. QED
      BY <1>1, <1>2, <2>1, <2>2, <3>1 DEF Window
  <2> DEFINE v == Show(u, "LOADING")
  <2>4. win' = v
    BY <1>13
  <2> HIDE DEF u
  <2>5. idle.closed = FALSE
    <3>1. put.closed = FALSE
      BY <1>1, <1>7, <1>8 DEF Window
    <3>2. QED
      BY <1>1, <1>8, <1>9, <3>1, StopStaysOpen
  <2>6. Emptied(u)
    BY <1>2, <2>1, <2>2, <2>3, <2>5 DEF Emptied
  <2>7. /\ Within(u)
        /\ (OneSpeaks(u) /\ u.parked = {}) => Timeline(u)
        /\ \A noted, started :
              /\ \A d \in Captures : Of(d, noted) = ReadMarks(u.stored, d)
              /\ NewHasNone(u, noted, started) /\ u.capture \notin Sessions
              /\ (u.loader.timer => u.loader.loaded = 0)
              => Remembered(u, noted, started)
    BY <2>3, <2>6, DoorKeeps
  <2>8. /\ win' \in Window /\ win'.banner = "LOADING" /\ Alike(u, win') /\ Keeps(u, win')
    BY <1>1, <2>3, <2>4, <2>7, ShowKeeps
  <2>9. u.parked = {} => Timeline(u)
    BY <1>2, <2>3, <2>7 DEF OneSpeaks, Running
  <2>10. ~m => Timeline(win')
    BY <1>4, <2>8, <2>9 DEF Keeps, Alike
  <2>11. Noticed(win')
    BY <1>2, <2>3, <2>8 DEF Noticed, Alike
  <2>12. Typed'
    BY <1>1, <1>5, <2>8 DEF WindowInv, Typed
  <2>13. WindowInv'
    BY <1>5, <2>8, <2>10, <2>11, <2>12, Next_WindowInv DEF Keeps
  <2>14. Roomy /\ NotesInv => NotesInv'
    <3>1. SUFFICES ASSUME Roomy, NotesInv, ~reader'.hasty
                   PROVE  ~reader'.mixed /\ Remembered(win', notes', reader'.captures)
      BY Next_NotesInv
    <3>2. /\ ~reader.mixed /\ BackOn(win) /\ Timeline(win) /\ win.parked = {}
          /\ ~Running(win) /\ Remembered(win, notes, reader.captures)
      BY <1>4, <1>5, <3>1 DEF NotesInv, WindowInv
    <3>3. idle = put /\ idle.parked = {}
      BY <1>7, <1>8, <2>1, <3>2 DEF Running
    <3>4. \A d \in Captures : Of(d, notes) = ReadMarks(u.stored, d)
      BY <1>6, <1>8, <2>3, <3>1, <3>2
    <3>5. NewHasNone(u, notes, reader.captures) /\ u.capture \notin Sessions
      BY <1>1, <2>3, <3>2 DEF Remembered, NewHasNone, Running
    <3>6. u.loader.loaded = 0
      BY <1>2, <2>3
    <3>7. Remembered(u, notes, reader.captures) /\ Timeline(u)
      BY <2>3, <2>7, <2>9, <3>3, <3>4, <3>5, <3>6
    <3>8. win'.parked = {}
      BY <2>3, <2>8, <3>3 DEF Alike
    <3>9. QED
      BY <1>1, <1>4, <1>5, <2>8, <3>2, <3>7, <3>8 DEF Keeps
  <2>15. QED
    BY <2>13, <2>14
<1>14. QED
  BY <1>3, <1>12, <1>13

-----------------------------------------------------------------------------
(* What always holds.                                                      *)

LEMMA InitHolds ==
    ASSUME Init
    PROVE  WindowInv /\ NotesInv
<1> DEFINE v == [Fresh(<<>>) EXCEPT !.closed = FALSE]
<1>1. <<>> \in Seq(Entry) /\ OneEntryEach(<<>>)
  BY DEF OneEntryEach
<1>2. \A c : Of(c, {}) = {} /\ ReadMarks(<<>>, c) = {}
  BY DEF Of, ReadMarks
<1>3. /\ v \in Window /\ Within(v) /\ Noticed(v) /\ Timeline(v)
      /\ Remembered(v, {}, {})
  BY <1>1, <1>2, FreshWindow
<1>4. win = v
  <2> DEFINE f == Fresh(<<>>)
  <2>1. DOMAIN f = {"capture", "rows", "marks", "back", "loader", "banner", "hides", "paused",
                    "live", "parked", "closed", "stored"}
        /\ f.closed = FALSE /\ f = [f EXCEPT !.closed = f.closed]
    BY DEF Fresh
  <2> HIDE DEF f
  <2>2. f = [f EXCEPT !.closed = FALSE]
    BY <2>1
  <2>3. QED
    BY <2>2 DEF Init, f
<1> HIDE DEF v
<1>5. /\ reader \in History /\ ~reader.mixed /\ ~reader.hasty /\ reader.captures = {}
      /\ notes = {} /\ thread \in Thread /\ events = <<>>
  BY DEF Init, History, NotStarted, Thread
<1>6. WindowInv
  BY <1>3, <1>4, <1>5 DEF WindowInv, Typed
<1>7. NotesInv
  BY <1>3, <1>4, <1>5 DEF NotesInv
<1>8. QED
  BY <1>6, <1>7

LEMMA NextKeeps ==
    ASSUME WindowInv, [Next]_vars
    PROVE  WindowInv' /\ (Roomy /\ NotesInv => NotesInv')
<1>1. CASE Signals
  BY <1>1, SaidKeeps, EndedKeeps, ReapKeeps DEF Signals
<1>2. CASE Loads
  BY <1>2, LoadStepKeeps, LoadEndsKeeps, LoadFailsKeeps DEF Loads
<1>3. CASE Device
  BY <1>3, DeviceKeeps
<1>4. CASE Doors
  BY <1>4, StartCaptureKeeps, CloseCaptureKeeps, CloseWindowKeeps, RelaunchKeeps,
     OpenCaptureKeeps DEF Doors
<1>5. CASE Reader
  BY <1>5, EndedKeeps, TogglePauseKeeps, ActKeeps, ApplyFilterKeeps, ToggleMarkKeeps DEF Reader
<1>6. CASE Tick \/ PauseOverflows
  BY <1>6, TickKeeps, SaidKeeps
<1>7. CASE UNCHANGED vars
  <2>1. /\ win' = win /\ UNCHANGED <<reader, notes>>
        /\ thread' \in Thread /\ Len(events') <= 1
        /\ events' \in Seq({"reconnecting", "streaming", "ended"})
    BY <1>7 DEF vars, WindowInv, Typed
  <2>2. Keeps(win, win') /\ Noticed(win')
    BY <2>1, SameKeeps DEF WindowInv, Typed
  <2>3. QED
    BY <2>1, <2>2, StepKeeps
<1>8. QED
  BY <1>1, <1>2, <1>3, <1>4, <1>5, <1>6, <1>7 DEF Next

LEMMA WindowInvariance == Spec => []WindowInv
<1>1. Init => WindowInv
  BY InitHolds
<1>2. WindowInv /\ [Next]_vars => WindowInv'
  BY NextKeeps
<1>3. QED
  BY <1>1, <1>2, PTL DEF Spec

(* TypeOK: the window, its thread, the signals and the reader's history    *)
(* stay what they are; marked rows are held, a load never passes the end   *)
(* of its capture, and the settings never keep more entries than they are  *)
(* meant to.                                                               *)
THEOREM WindowTypeCorrect == Spec => []TypeOK
<1>1. WindowInv => TypeOK
  <2>1. SUFFICES ASSUME WindowInv PROVE TypeOK
    OBVIOUS
  <2>2. /\ win \in Window /\ thread \in Thread /\ Len(events) <= 1 /\ Len(events) \in Nat
        /\ notes \subseteq Captures \X (1 .. Length)
    BY <2>1 DEF WindowInv, Typed, Table
  <2>3. win.marks \subseteq win.rows /\ Len(win.stored) <= MarkedCaptures
    BY <2>1 DEF WindowInv, Within, OneEntryEach
  <2>4. /\ win.capture \in Captures \cup {Nothing} /\ win.live \in Sessions \cup {Nothing}
        /\ win.rows \subseteq Captures \X (1 .. Length) /\ win.banner \in Notices
        /\ {win.hides, win.paused, win.closed, win.loader.timer} \subseteq BOOLEAN
    BY <2>2 DEF Window, Table, Loader
  <2>5. thread.sent \in 0 .. Length /\ Len(events) <= 2
    BY <2>2 DEF Thread
  <2>6. QED
    BY <2>2, <2>3, <2>4, <2>5 DEF TypeOK
<1>2. QED
  BY <1>1, WindowInvariance, PTL

(* NoticesAreTrue: a notice that offers a way out of a pause or of a load  *)
(* is never up when there is none, whichever handlers ran in between.      *)
THEOREM NoticesStayTrue == Spec => []NoticesAreTrue
<1>1. WindowInv => NoticesAreTrue
  BY DEF WindowInv, Noticed, Within, NoticesAreTrue
<1>2. QED
  BY <1>1, WindowInvariance, PTL

(* PauseEndsWithCapture: nothing that ends or replaces a capture leaves    *)
(* the pause on for the next one.                                          *)
THEOREM PauseEnds == Spec => []PauseEndsWithCapture
<1>1. WindowInv => PauseEndsWithCapture
  BY DEF WindowInv, Within, PauseEndsWithCapture
<1>2. QED
  BY <1>1, WindowInvariance, PTL

(* OneTimeline: unless a capture was taken up while another still spoke,   *)
(* the table never holds rows of two captures, nor rows of a capture under *)
(* the name of a file that is another.  The invariant is of what is on its *)
(* way as well: a load, a running capture and a parked one exclude each    *)
(* other, and all rows, held or late, are of the one that speaks.          *)
THEOREM TimelineStaysOne == Spec => []OneTimeline
<1>1. WindowInv => OneTimeline
  <2>1. SUFFICES ASSUME WindowInv, ~reader.mixed
                 PROVE  /\ Cardinality({row[1] : row \in win.rows}) <= 1
                        /\ win.capture \in Files => win.rows = Of(win.capture, win.rows)
    BY DEF OneTimeline
  <2>2. PICK c : RowsAreOf(win, c)
    BY <2>1 DEF WindowInv, Timeline
  <2> DEFINE spoken == {row[1] : row \in win.rows}
  <2>3. spoken \subseteq {c}
    BY <2>2 DEF RowsAreOf
  <2> HIDE DEF spoken
  <2>4. IsFiniteSet({c}) /\ Cardinality({c}) = 1
    BY FS_Singleton
  <2>5. Cardinality(spoken) <= 1
    BY <2>3, <2>4, FS_Subset
  <2>6. win.capture \in Files => win.rows = Of(win.capture, win.rows)
    BY <2>2 DEF RowsAreOf, Of
  <2>7. QED
    BY <2>5, <2>6 DEF spoken
<1>2. QED
  BY <1>1, WindowInvariance, PTL

(* NotesKept: where the settings keep an entry for every capture there is, *)
(* and unless the reader was hasty, what is marked and no more is stored   *)
(* under the name of its capture or on screen, across every door, stop,    *)
(* load and restart.  The invariant says what a note is at each moment of  *)
(* a load (NotesAreOf), and needs the timeline to be one: marks are saved  *)
(* as those of the capture on screen.                                      *)
THEOREM NotesStayKept ==
    ASSUME IsFiniteSet(Captures), Cardinality(Captures) <= MarkedCaptures
    PROVE  Spec => []NotesKept
<1>1. Roomy
  BY DEF Roomy
<1>2. Init => WindowInv /\ NotesInv
  BY InitHolds
<1>3. (WindowInv /\ NotesInv) /\ [Next]_vars => (WindowInv /\ NotesInv)'
  BY <1>1, NextKeeps
<1>4. NotesInv => NotesKept
  <2>1. SUFFICES ASSUME NotesInv, ~reader.hasty PROVE NotesSurvive
    BY DEF NotesKept
  <2>2. NotesAreOf(win, notes)
    BY <2>1 DEF NotesInv, Remembered
  <2>3. \A c \in Captures : c # Nothing
    BY DEF Captures
  <2>4. QED
    BY <2>2, <2>3 DEF NotesAreOf, NotesSurvive
<1>5. QED
  BY <1>2, <1>3, <1>4, PTL DEF Spec
=============================================================================
