# A verification of ostrace

ostrace captures the log of an iOS device over USB, writes it to a session
directory as it arrives, and shows it in a window. This directory holds TLA+
modules of its core, TLC configurations that check them on small instances, and
proofs, checked by TLAPS, of what holds on every instance.

Paths below are relative to `src/ostrace/`.

## The system

| part | state it keeps | operations | what makes it correct |
|---|---|---|---|
| live source, `sources/os_trace.py` | the two sockets it has written down, the stop flag, the dedupe window, the last timestamp, the pending gap | `device_info`, `stream`, `aclose` | both sockets are given back; the relay goes before the lockdown that started it; an outage is a gap in the right place; the replayed backlog is not delivered twice, and nothing but doubles is swallowed with it |
| `LogSource` contract, `sources/base.py` | - | `stream`, `aclose` | records and gaps in stream order |
| capture loop, `capture.py` | counts, how the stream ended | `capture` | every exit path closes the session and the source |
| session and spool writer, `storage/session.py`, `storage/spool.py` | the gzip stream, lines since the last flush, counts, the sidecar | create, `write`, `write_gap`, `flush`, `close` | what is on disk is a prefix of what was said; a kill costs a bounded tail; the sidecar does not lie |
| spool reader, `storage/spool.py` | the damage counter, the truncated flag | `items`, `lines`, `truncated` | every line that is whole on disk is read as written; damage is counted |
| capture thread, `gui/live.py` | the queue, the task, the stop flag | `run`, `stop` | Disconnect always reaches the capture |
| pump, `gui/pump.py` | pause flag, queue | `drain`, `stop`, `set_paused` | items are shown or counted as evicted; a pause is bounded |
| capture controller, `gui/capture_controller.py` | current thread and pump, parked ones, lifecycle | `start`, `stop`, `shutdown`, signals | no running thread is dropped; a pump outlives its thread; the lifecycle tells the truth |
| table model and trim plan, `gui/models.py`, `gui/markers.py` | rows, shown rows, marks, hits, overview, counters | `append`, `set_filter`, `set_highlight`, marks, `note_eviction`, trim | everything held by index follows the rows |
| main window, `gui/windows/main.py` | capture on screen, loader, controller, model, banner, bar | open, close, start, stop, narrow, go to, mark | one capture at a time reaches the model; marks belong to their capture; notices are so |
| loader, `gui/loader.py` | an iterator and a timer | `start`, `cancel` | a cancelled load adds nothing |
| filters, `gui/filters.py`; filter bar, `gui/widgets/filter_bar.py`, `saved_filters_dialog.py` | fields, three timers, two lists, the dialog's copy | edit, choose, clear, save, rename, copy | what is shown, painted and offered is what the bar says; nothing saved is lost or doubled |
| settings, `gui/settings.py` | marks per capture, recent and saved filters | read, write | what an older version or a closed program left is read back |
| table, overview, columns, finding, typed times | - | paint, click, find, jump | the place they lead to is the place they show |
| follow controller, `gui/follow.py` | whether the view is at the end, a throttle | scroll, tick | the tail is reached, a reader is not dragged along |
| marks panel, `gui/widgets/marks_panel.py` | a list of rows | rebuild, activate | an entry leads to the row it describes |
| exporters and analysis, `exporters/`, `analysis/` | one pass's counts | export | line numbers resolve, counts add up, what is left out is said |
| export dialog, `gui/widgets/export_dialog.py`; `cli._export` | format, destination, a worker thread | run, done, close | both say the same of one export; the capture is never written over |
| device button, doctor, discovery, `gui/widgets/device_button.py`, `devices/` | the chosen device, the menu, a scanner thread, a diagnosis | rescan, choose, diagnose | a device chosen for a capture is not opened by a scan; nothing is left alone once it has ended; scan, capture and diagnosis mean the same device |
| session reader, codec, replay, record types, errors, paths | none between calls | - | - |
| theme, icons, shortcuts, command line | presentation | - | - |

How the parts interact:

- `capture()` pulls a `LogSource`'s generator, calls `on_item`, then writes. A
  stop cancels its task: the exception arrives at the await or yield at which the
  generator is suspended, the generator releases its sockets, and `aclose()`
  follows. `aclose()` may also be called from another task while the generator is
  suspended anywhere.
- A capture thread runs `capture()` on an event loop of its own. It shares a
  deque with the pump, two attributes (`_stopping`, `_task`) with whoever stops it,
  and talks to the interface thread in queued signals.
- The interface thread runs one handler at a time. `stop()` blocks it in
  `QThread.wait()`, which may time out: the thread and its pump are then *parked*.
- The pump appends to the model and tells it of what a long pause made it drop. The
  model trims itself. The view is told of rows in brackets.
- The window is one object with many doors: opening a file stops the capture, which
  adopts its session, which changes the capture on screen, under whose name the marks
  are then saved. Its filter bar reaches the model through timers, its view is pulled
  to the tail by each tick of the pump.
- An export reads the same file from another thread while a capture may be writing it.
- A scan, a capture and a diagnosis each open lockdown sessions from threads of their
  own; what they report is queued for the window.

What is hard here, and hard to test: a stop at each await of the source; a kill
between two writes; a stop wait that times out while the thread is ending; queued
signals of a capture that has been replaced; the index arithmetic of a trim that
adds a notice; a chunk boundary at any byte; a door used while a load, a parked capture
or a timer is still to be heard of; rows that arrive, leave and are laid out in between
a reader's keys; an export of a file that grows. `PROJECT.json` lists the hazards by
line, with the property that covers each.

## The modules

### LogStream - what a source promises

The contract of `LogSource.stream` as a specification: records in order and once
each, a gap wherever a record is missing, a gap starting where the records before
it stopped. A record is named by its position in what the device said. It is used
twice: `OsTraceSource` is checked to implement it (`KeepsLogStream`), and
`CaptureSession` pulls from it.

### OsTraceSource - the live source

One action per stretch between two awaits or yields. `pc` names the await or yield
the generator is suspended at, `closer` the one of `aclose()`. A connection has a
number, and the sockets really open (`lockdowns`, `relays`) are kept apart from the
fields in which the source has written them down (`active`, `service`): that
distance is what the release properties are about. The device emits, hangs up in
three ways (quietly, recoverably, fatally), refuses handshakes, and replays the last
`Backlog` records to each new relay. `StopPoints` says where the `aclose()` of
another task may land; the generator's own end is always followed by one.

What a record says is a number (`content`), and the device's offset may be another at
each handshake (`offset`): the two make the key by which `_is_replayed` knows a record
(`Key`), so records of one thread, microsecond and text are doubles, and a record replayed
under another offset is a stranger. The constant `Devices` says what a device may say and
how its offset moves. Left out: time zones otherwise, and the process-name cache.

| run | what it shows |
|---|---|
| `source` | stops at every suspension outside the two handshakes, cancellation everywhere, outages, retries: 555,000 states |

`MaxRecords = 4`, `Window = Backlog = 2`: the window overflows, a replay is
partly old and partly new, and records are lost behind it. `MaxConnections = 4`: the
identity session and three streaming ones, so two outages. `MaxRetries = 1`: success,
failure after one retry, and giving up. `Backlog <= Window`, as in the source,
where the window is 20,000 records; a longer backlog is delivered twice. Two devices: one
whose records differ and whose offset stays, and one with two records that are doubles
and an offset that moves before the last handshake.

What suppression may cost is `OnlyDoublesSwallowed`: a record that was sent and not
delivered says what a delivered one says, and each outage costs at most a window of them.
That none is swallowed (`NothingNewSuppressed`) is false of doubles, and that none comes
twice (`NothingTwice`) is false of a moved offset (15 and 16 below). `KeepsLogStream` is
about a device whose keys tell its records apart (`ToldApart`).

Why handshakes are apart: the stop flag is read before `_open()` and not after it.
A stop in that window returns with nothing to close
(`OsTraceSource_StopInHandshake.cfg`). Everything else that stops is
shown (and proved) to hold nothing.

Fairness: the event loop runs its tasks and timers, a handshake ends one way or the
other, a generator that yielded is pulled again, and `aclose()` follows the end of
the stream (`capture`'s `async with`). Nothing obliges the device to speak or to
hang up, or anyone to stop a running stream.

### CaptureSession - capture() and the session on disk

`pc` follows `capture()` from `device_info()` to the last sidecar write. The spool
is a sequence of lines, split into what a reader can decompress (`disk`) and what
the writer or the system still buffers; `Spill` moves any amount, cut anywhere, from
one to the other at any time, and `Kill` forgets the rest. The sidecar is absent, torn
(truncated by `write_text`), or whole. Failures: identification, the writing of a
line or its flush, the spool's close, either sidecar. A cancellation may land at an await
of the stream (`Cancel`) or in the exits of `async with source, aclosing(stream)`
(`CancelExit`): in the first exit it ends the generator there, in the second it cuts the
source's `aclose()` short, and `source` is then `"cut"`: what of its two sockets is left is
`OsTraceSource`'s and the library's. A later `capture()` to the same
destination meets what the first one left.

Run `session` (896,000 states): three items, a flush every three, a limit of three
records, a duration: each boundary is met by some stream, and a kill falls between
any two steps. Fairness: the program's own steps, and the duration's timer, strongly,
since the loop returns to an await between any two items.

`DeviceReleased` says when a session is finalised with the device still held: only when a
cancellation has landed in the exits, and then `capture()` returns no result. That it never
is, as the docstring has it (`AlwaysReleased`), fails (17 below).

A disk that refuses a line is where the exact statements stop: `outcome =
"unwritten"` excuses one line in `EndedMeansComplete`, as `close()` may store a line
that was not counted.

### SpoolReader - reading a spool

Characters take one byte or two, a chunk is any run of bytes, and the file may be
growing, closed, cut or damaged at any byte. The reference definitions are
`WholeLines` and `Partial`, computed from offsets and not from the reader's buffer.

| run | what it shows |
|---|---|
| `reader` | every cut, chunking and damage of three one-byte lines, one of them not a record, in two passes and a probe: 4,000 states |
| `reader_wide` | a character of two bytes split between two chunks becomes U+FFFD twice, in a line that was whole (finding) |

### CaptureController - controller, capture threads, pumps

Capture threads and the interface thread interleave. `stop()` is cut where the
capture thread can get in between: the store to `_stopping`, the read of `_task`, the
wait, `_park`. Signals are one queue, as Qt delivers queued signals of one thread in
order and the interface thread's queue is one. A pump's queue is a count.

| run | what it shows |
|---|---|
| `controller` | two captures and one report of each kind, with the stop wait succeeding or timing out anywhere: 374,000 states |

Two captures are enough for what the properties are about: one that is let go of
and one that replaces it. `PauseLimit = 0` makes the pause limit bite on the first
item. A thread may end anywhere, in the few instructions between a wait that gave up and
`finished.connect` too: it has then emitted `finished` to nobody, and stays parked, with
the lifecycle at PARKED, until another parked thread ends or the window closes.
`ParkedIsReaped`, that every parked thread that has ended is let go of, therefore fails
(18 below); what holds and is checked is `ParkedEndIsReaped`, of a thread that comes to its
end while it is parked. The safety properties hold of all.

Fairness: a thread's local steps, the handlers of the interface thread and the
delivery of queued signals. Identification and the stream itself may take for ever,
and a user may do nothing.

### RecordModel - the table's model

The rows are a sequence of items and at most one notice; everything kept by source
index (`visible`, `marks`, `hits`, `markers`) is a set of positions in it. `PlanTrim`
and `Trimmed` are `plan_trim` and `_trim` to the letter of their arithmetic, since
that is what can be wrong. What the model derives incrementally is compared with what
the same rows give when computed anew (`DerivedIsExact`). `told` adds up the brackets
the view was given.

The caller is a loader or a pump: items arrive in batches, a paused pump drops
the oldest (`DropPaused`), and a capture is put down and opened again with its marks
restored (`Reopen`, `RestoreMarks`).

| run | what it shows |
|---|---|
| `model` | five items of any kind in batches of one or two against a cap of two rows and a trim at more than three, two filters, two highlights, one mark, one reopen: 1.1 million states |

The cap of two is the smallest in which a mark survives a trim; five items trim
twice, so the second trim replaces the notice of the first. A bucket of two rows
makes the overview shift across a bucket's edge. The two highlights include one that
the notice's own sentence matches or not, depending on its count.

### MainWindow - one capture at a time

A handler of the window runs to its end on the interface thread, so it is one action;
handlers that call each other are operators from the window to the window, or to the
set of windows, they leave (`StopCapture`, `AdoptSession`, `SaveMarks`). The capture
thread appears as what it has sent and what it has queued; `CaptureController` is
where it runs. A stop may leave the thread parked, and its last rows come later
(`Reap`). Marks are kept in the settings, newest capture first, over a restart.

| run | what it shows |
|---|---|
| `window` | two files of two items, one damaged in its last line and cut, one capture, two files opened, three marks made or taken off: 1,078,000 states |

`OneTimeline` and `NotesKept` are about a reader who lets things come to their end; two
history flags say when not. `mixed`: a capture is started during a load, or anything is
taken up while a parked capture has still to speak; the rows do mix then, as
`start_capture` cancels no load and `_park` no pump. `hasty`: a capture is put down
before its marks are back, or started over a file that has some, and they are lost; or
a mark is taken off before they are back, and `restore_marks` puts it on again when the
load ends, from what is stored (`NotesSurvive`, the same without the flag, fails). The
three marks of the bound are what that last case takes: one made and stored, one made
while the file is loaded again, one taken off. Every other order of doors,
loads, stops, pauses and restarts is in. `NoticesAreTrue` has no such excuse.
`LoadingComesDown`, that the notice of a load comes down, holds under the fairness of
the load's zero-delay timer, the only one assumed; the run leaves it out.

### Filters and FilterBar - what is asked for, and what is shown

`Filters` has the values: matching and exclusion, the three kinds of pattern that
behave differently (a text, one that may match nothing, one that is half written),
the spans they paint and their merge, the text form, the fields of older versions,
and the two lists. A text is a sequence of characters because case, digits, blanks and
quotes each change what a filter does.

`FilterBar` is the bar over them: each control, the signals it sends, the debounce,
the settling and the highlight timers, the menu, the dialog and its copy of the
saved filters, and the doors, each of which decides what the next table carries.

| run | what it shows |
|---|---|
| `filters` | four edits of any kind, the timers falling anywhere between them, the program closed at any point, over lists an older version wrote, one line of each unreadable: 558,000 states |

Four edits are one to build a filter, one to break it, one to save or reopen it, and
a door. The doors are where the parts could disagree: `close_capture` clears the
model's filter and not the delegate's (which its timer then does), and `_replace_model`
sets them from a bar that may be half typed.

### Table and Reading - a reader in front of a live capture

`Table` holds the pure part: which rows a filter leaves, ditto cells, find, Go to
Time, the overview's bands and its clicks, the width of columns. `MCReading` checks
two of its operators against what they promise, as assumptions: the reader's place on
the overview can always be seen (`PlaceIsSeen`), and columns give way without growing
(`ColumnsGiveWay`).

`Reading` is the window's view of a capture that runs. The rows are numbers of items
and of notices; the trim is `plan_trim`'s. Three parts are Qt's and marked external:
the persistent index that keeps the selection, the layout that works out the scroll
range some time after rows have moved, and the scroll bar's clamping. `scroll.laid` is
the number of rows the range was last worked out for, and may be stale at any tick.

| run | what it shows |
|---|---|
| `reading` | five items in ticks of up to two against a cap of two rows, a page of two, two filters, three things done by the reader: 97,000 states |

A cap of two and ticks of two make every second tick trim; three acts are enough to
select, narrow and scroll, or to mark, name and jump. `SelectionHolds` excepts the one
step `Misreported` names: the first trim with a notice tells the view of one row too
many (5 below). `PlaceIsTheReaders` is about readers whose selected row
is not one of those leaving: Qt hands the selection over and scrolls to it.

Fairness: the pump's timer ticks and the throttle runs out. It is stated for a tick
that has something to do (`TickDue`), which is what `WF_vars(Tick)` comes to, written
so that TLC need not enumerate ticks to evaluate it.

### Analysis and Exporters - a capture on its way into files

`Analysis` is the two accumulators, one operator per item: `Counted` for the counts,
templates and excerpt, `Traced` for the windows round errors. `Exporters` is one pass:
opening, reading an item at a time, writing file by file, and what is said afterwards
by the command line or the dialog. A document is the record of the facts it states,
each with the place in the code that works it out.

| run | what it shows |
|---|---|
| `export` | every capture of up to three items of any kind and every one of five notices and errors, and those still recorded, in five formats, to three destinations and that which the format would choose, with and without a budget, failing at any step: 1,868,000 states |

The destinations are beside the session, the session itself and the spool inside it, which
`check_export_destination` does not refuse: an export may then be written over the capture
it reads. The dialog asks its capture whether it was truncated when the export is done
(`Asked`), the capture looks at the file then, and keeps the answer (`Found` is what one
that was opened before may have found). `MissingIsTold` says what is told in spite of
both: an export over the spool says that it is empty, and a tail that is lacking is said,
unless the dialog asks after the capture has ended (19 and 20 below).

The limits (two templates, windows of four records, two windows, one record of context
to each side) are all reached by captures of five. `PointersResolve`,
`TraceIsVerbatim` and `ReportIsHonest` compare what the files say with the records
read, not with the accumulators. plaintext is the same path as jsonl and left out.

### Devices - three threads and a cable

The capture, the scan and the diagnosis, each opening lockdown sessions. All of them open by
`open_lockdown`: the device asked for, or, with none asked for, whichever answers
(`Opens`). The capture opens one to identify the device and closes it, then one for the
records, and another after every outage; a stop may leave its thread parked, holding what
it holds (`parked`). The scan is cut where it opens, reads and closes a device. Each call
of `show_doctor` is a window with a diagnosis of its own. Devices come and go; what
threads report is one queue.

| run | what it shows |
|---|---|
| `devices` | a device on the network and one on the cable, one plugged in or out, two scans, a capture with an outage, a diagnosis: 1,502,000 states |
| `devices_scan_busy` | a scan opens the device that a capture holds (finding) |

`AtStart` is a bound: both devices are plugged in when the program starts.
`ChosenIsLeftAlone` is what does hold: of a device that was chosen, of scans started
while the capture runs, and while the choice stands. What a scan leaves alone is what
the button says, and there are three ways for that to be another device: none was chosen,
and the next change of state writes that over the device that had been identified
(`OnDevice`, then `OnState`); a listing without the chosen one takes the choice away, with
the same end; and the report of an earlier capture, heard late, is written over it
(`capture.told` is the history that says whether it was). `BusyIsReleased` is the other
side: with no capture running nothing is left alone, however late a report is heard.
Fairness: the interface's event loop delivers, and a scan's thread goes on; a reader may
do nothing and a capture last for ever.

## What is proved

`OsTraceSource_proofs`, for every window, backlog, retry count and bound:

- `TypeCorrect`: every variable keeps its type. The invariant is split in two halves
  that do not depend on each other: the tasks (`TasksInv`, with *a session in hand has a
  number that was handed out*) and the records.
- `ReleaseIsComplete`: once `aclose()` has returned, no socket is open, if stops land
  outside the handshakes (`StopsOutsideHandshake`, which the finding shows to be
  needed). It is not inductive: a socket could be open and written down nowhere. The
  invariant `ReleaseInv` adds that there is at most one open lockdown, the session in
  hand, and that it is `active` (`LockdownRegistered`); the same of the relay and
  `service` (`RelayRegistered`); that a session in hand is open until `aclose()` is
  called (`SessionOpen`); and that after a stop the stream task is nowhere from which
  it would open a socket unasked (`StopHolds`).
- `ServiceReleasedFirst`: a relay is never open without its lockdown (`RelayGoesFirst`),
  from the same invariant.
- `OutageNeverForgotten`: the gap of an outage is pending until it is yielded, and the
  listener knows, whatever fails in between.
- `SourceIsLogStream`: the live source of a device whose keys tell its records apart
  implements `LogStream` (`KeepsLogStream`) when `Backlog <= Window`
  (`ReplayFits`; the source's window is 20,000 records, and a longer
  replay would be delivered twice). Every step is a record, a gap or an end that the
  promise allows, or stutters. That a record which is not suppressed is the next one
  needs `StreamInv`: the k-th newest key of the window is at least k - 1 records old, so
  the key that is evicted is older than any replay (`WindowOrdered`); every record a
  relay opened now would replay is in the window (`WindowCoversReplay`); a relay that is
  read is at the next record, or inside the replay with more records left to ask than
  are left to replay, or past what an outage lost and behind its gap (`RelayPlaced`);
  and the window is asked again after every gap (`RelayAwaited`). TLC checked
  `StreamInv` for windows of 1 to 3, with the backlog at and below them, before it was
  proved.
- `OnlyDoublesAreSwallowed`: what is swallowed says what was delivered, and an outage costs
  at most a window (`OnlyDoublesSwallowed`), whatever the lengths, the texts and the
  offsets: every key in the window is that of a delivered record, and what was swallowed
  and may still be is no more than a window for every outage there was (`DeliveredInv`).

`CaptureSession_proofs`, for every stream, flush interval, record limit and number of
captures of one destination:

- `SessionTypeCorrect`: every variable keeps its type. `TypeOK` is not inductive: that
  `shown` and the sidecar's counts are bounded needs `CountInv` (records and gaps
  counted are no more than the items yielded) and `EndInv`.
- `AlwaysAPrefix`: what can be read is a prefix of what was said. A prefix says nothing
  of the lines still in the writer, so the invariant `SpoolInv` says where every line
  is: disk and buffer together are the beginning of what was said (`Aligned`), until
  the stream ends nothing but the item in hand is missing (`Progress`), and a
  destination without a spool has no lines at all (`Fresh`, `Opened`).
- `NothingTakenAway`: the action property that no step removes a line (`NeverOverwritten`),
  from `SpoolInv`.
- `KillCostsLittle` and `MarksAreDurable`: the buffer is no longer than the lines
  counted since the last flush, and none of them is a gap (`LossInv`). The case of a
  line the disk refused is excepted, as in the properties.
- `DeviceLetGo`: the generator is over while the source is being released, and the source
  is closed before the session is finalised unless a cancellation has cut its exit, which
  then is the outcome (`DeviceInv`).
- `StopLosesNothing`: after the stream every item is on the disk or in the buffer, and
  after the spool is closed it is on the disk (`EndInv`).
- `EndedIsComplete`: a sidecar that says the capture ended is of a finished spool, and
  its counts are the file's or short of it by the one line the disk refused
  (`EndedMeansComplete`). What the writer counts is never more than the entries of that
  type among those it has accepted, and it counts all of them but that line
  (`TallyInv`); that a spool once closed has nothing left to write, and that nothing is
  counted after the sidecar was finalised, is `ClosedInv`. The entries of a type are a
  set of positions (`OnDisk`), whose cardinality grows by one with a line (`TallyStep`).

The lemmas on lines (`JoinLines`, `AddLine`, `SplitLines`) are about any alignment of
three sequences, and the steps of `Write`, `CloseSpool` and `Spill` cite them.

`CaptureController_proofs`, for any number of captures, items and pause limit. One
invariant (`IInv`) carries all of it:

- `ControllerTypeCorrect`: every variable keeps its type, and an item is on its queue,
  shown or evicted.
- `RunningThreadsAreHeld`: a thread that runs is current, parked or the one `stop()` is
  waiting for. What keeps it so is `ControlInv`: `stop()` is under way for one thread at
  a time, which is neither current nor parked, and nothing is current meanwhile.
- `PumpsOutliveThreads` and `AnnouncedIsComplete`: a pump is let go with its thread ended
  and its queue empty, and a session is announced only after that (`AnnouncedInv`).
- `LifecycleFollowsCapture`: while a capture is current the lifecycle reads as active
  (`RunningReadsActive`), whatever late signals older captures send. The converse,
  `ActiveMeansRunning`, is disagreement 3 below.
- `DisconnectIsNotLost`: a capture that goes on with its stop flag set has a cancellation
  pending, or `stop()` is on its way to the task (`StopIsNotLost`). This is the safety
  part of `StopReachesTheCapture`: with it only fairness is left to be had.
- `ParkedEndQueued`: the step that ends a parked capture queues that for `_reap`, and it
  stays queued until the capture is let go of (`ParkedEndIsHeard`): the safety part of
  `ParkedEndIsReaped`.

`RecordModel_proofs`, for every capture, cap, margin, size of bucket and of batch, and
every set of texts, filters and highlights:

- `ModelTypeCorrect`, `NoticeAtTheTop`.
- `DerivedStaysExact`: what the model maintains row by row is what the rows give anew.
- `MarksStayOnItems`: a mark stays on its item.
- `RecordsAreCounted`: every record fed is a row or counted as evicted.

  These hold together or not at all. The invariant `Good` says that the rows are items
  in the order of the capture with a notice of the running total at most at the top
  (`InOrder`), that everything derived is exact, marks agree with items and the count is
  right. A trim is one fact about two sequences of rows, `Renumbered`: behind what is
  dropped, the one is the other moved by an offset, but for a notice at its head. Shown
  rows, hits, markers and buckets are each shown to follow any renumbering, and appends,
  trims and notices to be one. That the rows are in order is what makes the count right:
  no item can be both dropped and kept.

`Devices_proofs`, for every list of devices and any number of scans, captures, outages,
diagnoses and devices plugged in or out:

- `TheChosenIsLeftAlone`: no choice is made during a capture, so it can only be lost
  (`ChoiceIsLocked`); a report on its way is of a capture that was started, and that of
  the one that runs is of what it asked for (`ReportsAreOfTheirs`); so the button says
  what the capture asked for, and a scan started meanwhile was told so (`BusyIsChosen`).
  The first attempt at this proof is what showed that the property needs the choice to
  stand: the bounds of the run do not reach the state in which it does not.
- `TheBusyIsReleased`: every way out of a capture goes by `_set_capturing`, and a report
  heard after it is of no capture that runs (`BusyIsReleased`), from the same invariant.
- `TheDoctorAgrees`: a diagnosis with nothing wrong is of a device over USB; where one was
  chosen it is that one, and so is what a capture asked for the same holds, in its first
  session and after every outage (`DoctorInv`, `HoldsItsOwn`).

`MainWindow_proofs`, for every set of files and captures, length, size of batch, number
of entries kept in the settings and number of doors gone through:

- `WindowTypeCorrect`, `NoticesStayTrue`, `PauseEnds`: a pause is of a capture that runs,
  a notice over the state it is about, a load of a file it has not passed the end of
  (`Within`, `Noticed`).
- `TimelineStaysOne`: unless `mixed`, what can still speak - a load, a running capture, a
  parked one - excludes the others, and all rows, held or on their way, are of the one
  (`Timeline`).
- `NotesStayKept`: `NotesAreOf` says where the notes of each capture are at each moment:
  those of a capture not on screen are what is stored of it; those of the one on screen
  are the marks on its rows, and until a load has ended, the stored ones too. That they
  come back needs every row that has been read to be held (`LoadIsHeld`), and that marks
  are saved under the right name needs the timeline to be one. The theorem assumes as
  many entries in the settings as there are captures (`MARKED_CAPTURES` is twenty): with
  fewer, the oldest entry is dropped, as it is meant to be.

  A handler that calls others is followed through the windows between them: each operator
  has a lemma that it `Keeps` what is said of a window, and a handler cites those it is
  made of.

`FilterBar_proofs`, for every level, pattern, name and stored list:

- `BarStaysTrue`: the table, the delegate and the menus say what the bar says, unless the
  timer that brings it to them is running (`BarIsTrue`). With the shape of the records
  (`ShapeInv`) it is inductive: what there was to show is that there is no door, list,
  row or restart that sets the bar and starts no timer.
- `ListsAreKept`: the settings read back as the lists on offer, and no list has two saved
  filters under one name (`StoredIsHeld`). Reading drops what cannot be read, so what has
  to be shown is that nothing in a list would be dropped. `HeldInv` says so: every filter
  in the bar, the table or a list has a search that compiles and texts from which it is
  read back as it is (`Entered`, `Listed`), and the dialog's copy is as good as the list it
  came from (`Chosen`), whatever was renamed or removed in it. A name counts as it reads:
  one that reads as something does so after it is trimmed (`StripTwice`), or the dialog
  could store what the next start throws away.
- `RememberedIsWhatStood`: a filter is remembered only if it is the one in the bar, unless
  the bar is half written (`RememberedStood`), since the settling timer runs longer than
  the one that applies: with `BarIsTrue`, what is applied is what stands.
- `WashStaysExact`: the merged wash covers what search and mark cover, and no place twice
  (`WashIsExact`), for every message. The spans of one pattern are in order and do not
  overlap (`SpansAreTidy`, over a pattern that may match nothing, a run or a text);
  `sorted()` loses none and orders them by where they begin (`SortedIs`); joining one that
  begins no earlier than the last keeps both facts and what is covered (`JoinedKeeps`,
  `MergedIs`). `PaintInv` adds that what is drawn has been read. The first version of the
  property asked that ranges do not even touch: the proof did not close where one side is
  empty and the other is handed back as it came, and TLC shows it with a message in which
  the search occurs twice in a row (`MCMessages` has one now). Ranges that touch paint no
  place twice, and the property says that.

  Assumed of what is typed and stored (`TextsAssumption`, `OldAssumption`): they are texts,
  as the fields of the bar hold and `from_fields` makes with `str()`; and no two stored
  filters share a name, as `save` replaces the one there is. A settings file edited by
  hand need not be so.

`SpoolReader_proofs`, for every file, chunking and damage and any number of passes:

- `TruncatedTellsTrue`: a file is called whole only when it is closed and undamaged, and
  by a pass only at its end (`TruncatedIsHonest`). A verdict outlives the pass that
  reached it, so the invariant adds that a closed file no longer grows and that a pass
  stays before the damage (`FileInv`).
- `WholeLinesAreRead` and `DamageIsCounted`: a pass that is over has yielded every line
  that was whole, as written and in order (`ReadsEveryWholeLine`), and counted each it
  could not read, and a partial one at the end, once (`CountsTheDamage`). Both are
  about the end of a pass and say nothing of its middle. `PassInv` does: what was yielded
  and counted is what the complete lines of the text read so far give, and the buffer is
  what they leave. That no more has to be kept between chunks is `SplitConcat`, that text
  in two parts splits as in one. With it, the text up to any place is the lines before that
  place and a beginning of one more, which does not parse until it is whole (`AtLine`,
  `Begun`).

  These two assume `Narrow`, that every character is of one byte: with wider ones they are
  false, as `reader_wide` shows (2 below). The lines are assumed to be texts without line
  ends of which no beginning parses (`LinesAssumption`): each is a JSON object that
  `json.dumps` wrote, on one line and closed by its last brace.

`RelayGoesFirst`, `NeverOverwritten`, `RememberedStood`, `RunningReadsActive`, `StopIsNotLost`,
`ParkedEndIsHeard`, `DoctorAgrees`, `OneNotice`, `PauseEndsWithCapture`,
`TruncatedIsHonest` and the type
invariants but that of `SpoolReader` are left to the proofs; the runs do not check them again.

Assumptions on constants are those named in the component modules, and those of
`ReleaseIsComplete`, `ServiceReleasedFirst`, `SourceIsLogStream`, `NotesStayKept`,
`WholeLinesAreRead` and `DamageIsCounted`.

## What is only model-checked

Liveness (`StopEnds`, `OutageResolves`, `DurationEnds`, `StopReachesTheCapture`,
`ParkedEndIsReaped`, `TailIsReached`, `ScanSettles`), which the prover cannot do;
`WindowReadsTrue` of `Reading` and its action properties `SelectionHolds` and
`PlaceIsTheReaders`; and the properties of `Exporters` (`PointersResolve`,
`TraceIsVerbatim`, `ReportIsHonest`, `MissingIsTold`), whose counts and windows are folds
over a capture and are compared with a second fold. The type invariant of `SpoolReader` is
there to be checked (`INVARIANT TypeOK`), and the run spends its time on the others.

What decides it is the form of the definitions. The prover cannot expand an operator that
takes another as its argument, so it knows nothing of `SelectSeq`, `SortSeq` or `FoldLeft`,
and of a recursive function it knows that it is one and not that there is one. Where a
proof needed more, the definition is by sets (`FirstOf`, `OnDisk`), by `RemoveAt`
(`Others`), or by a function on the lengths up to that of a sequence (`Spans`, `Sorted`,
`MergeSpans`); such a function is first shown to exist (`Stepwise`, `FlattenIs`,
`SplitIs`), and induction over it is over a set of numbers or of sequences (`Induct`,
`InductList`), which follows from the library's theorem that a set of numbers has a least
element. The rewritten definitions of `Filters` were checked by TLC to give what the
earlier ones, by folds, gave, on 126,000 inputs.

## Where the code disagrees with what it says

Two runs end in a counterexample of a property that quotes the source, `reader_wide` (2)
and `devices_scan_busy` (8). The others that are stated as a property have a
configuration beside the module they are about, or are checked by naming the property
in that module's configuration; each fails.

1. `aclose()` during a handshake leaves the session that is opened after it
   (`os_trace.py:401`; `OsTraceSource_StopInHandshake.cfg`).
2. A chunk boundary inside a character damages a whole line, uncounted (`spool.py:247`;
   `SpoolReader_Wide.cfg`).
3. A late `identified` moves the lifecycle backwards, which `link_state` guards
   against and `_on_identified` does not (`capture_controller.py:332`;
   `CaptureController_LateSignal.cfg`).
4. A late `completed` or `failed` stops the capture that replaced its own
   (`capture_controller.py:351`; `CaptureController_OldSignal.cfg`).
5. The first trim announces one removed row more than leave (`models.py:845`;
   `RecordModel_Brackets.cfg`).
6. A mark on a gap is restored onto a record (`models.py:379`; `RecordModel_Restore.cfg`).
7. A trim of the notice and gaps alone drops the notice (`markers.py:166`;
   `RecordModel_OnlyGaps.cfg`).
8. A scan opens the device a capture holds, where `device_button.py:15` says it never
   does: it is told which to leave alone once, when it starts (`Devices_Held.cfg`); and
   what it is told is wrong when none was chosen (`Devices_Named.cfg`; `main.py:1428` says
   the device left alone is the one that is held), after a listing without the chosen
   device, and after the late report of an earlier capture (`device_button.py:205`,
   `main.py:1408`).
9. A half-typed highlight makes `current_highlight()` raise in the middle of
   `_replace_model`, after the table has been emptied: the door stops there.
   `filter_bar.py:387` says the caller keeps the previous highlight; only the timer's
   caller does (`FilterBar_Door.cfg`).
10. `filter_by_process` leaves the bar's *is not* set, and then hides what it was asked
    to show (`NarrowsToIt`, `FilterBar`).
11. Marks are lost when a capture is put down before its load has brought them back, or
    when one is started over it, and a mark taken off during a load comes back at its end
    (`NotesSurvive`, `MainWindow`); a pause whose notice is
    replaced by another leaves a frozen view that does not say so (`FrozenViewSaysSo`).
12. The marks panel is rebuilt by what a reader does and not by a trim: until then it
    leads to other rows than it describes (`PanelAlwaysLeadsThere`, `Reading`); when a
    trim takes the selected row, the detail pane shows another than the one that is
    selected afterwards (`DetailIsSelected`).
13. The export dialog never passes the number of damaged lines on, so an export by the
    dialog says nothing of them where the command line does (`DamageIsTold`,
    `Exporters`; `notes.py` says the reader is told the same whichever way).
14. A scan asked for while the last one's thread is ending leaves *Scanning...* standing
    (`MenuSettles`, `Devices`).
15. After an outage a record that is the double of a delivered one is swallowed while the
    count of suppression runs, where `os_trace.py:521` says that only what was delivered is
    (`OsTraceSource_Doubles.cfg`).
16. A backlog replayed under an offset that has moved since has other keys, and is
    delivered again (`os_trace.py:516`; `OsTraceSource_OffsetMoved.cfg`).
17. A cancellation that lands in the exits of `capture()`'s `async with` cuts the source's
    close short, and the session is finalised with the device held; `capture.py:68` says the
    socket is always released, on cancellation too (`CaptureSession_CutExit.cfg`).
18. A parked thread that ended before its `finished` was connected is not reaped, where
    `capture_controller.py:280` says it is once it has ended
    (`CaptureController_ParkGap.cfg`).
19. An export by the dialog of a capture that ends during it stops short without saying so:
    whether it was truncated is asked afterwards (`export_dialog.py:415`;
    `Exporters_TailUntold.cfg`, where `notes.py` promises everything a reader would
    otherwise assume away).
20. `check_export_destination` compares with the session directory only: the spool inside
    it can be chosen and is written over (`paths.py:189`; `Exporters_OverSpool.cfg`).
21. With no device chosen the Doctor vouches for the first over USB, and the capture takes
    whichever answers (`doctor.py:138`; `Devices_CoinToss.cfg`).
22. The Doctor's guard against two diagnoses at once is of one window, and every call opens
    another (`main.py:1513`; `Devices_TwoDoctors.cfg`).

Smaller ones, met while translating and not stated as properties:

- A report can say that nothing was dropped for space and every record is present with
  templates over the limit, and that gaps are listed of which ten are.
- The note of a snapshot is fixed when the dialog opens, and outlives the capture; so does
  an answer to whether the capture was truncated, once it was given.
- An export of a bundle that fails half way leaves files of two vintages.
- Closing the export dialog or the doctor's window with Escape passes by the wait that
  `closeEvent` makes for the thread.
- A diagnosis opens a session of its own during a capture, and refuses a network device
  that a capture takes.
- Digits such as a superscript two pass `isdigit()` and not `int()`; an offset of many
  digits overflows in `parse_jump`.
- `fit_budgets` can leave the message less than `MESSAGE_MINIMUM`, its floors adding up
  to more than the room.
- The final drain of a pump may be throttled by the follow controller, and the last rows
  stay below the view.
- Renaming in the dialog of saved filters moves the entry to the end and keeps the row
  number: another entry is selected.

## The plan

The modules above are the core of the program and its window. What is left:

1. Proofs about `Reading` and `Exporters`: each needs its folds restated over the lengths
   of a prefix, as was done for `Filters`.
2. The composition of `CaptureController` with `MainWindow`, which today meet in what
   each says of the other: a stop that ends in time or parks, signals in one queue.
3. `ReplaySource` as a second implementation of `LogStream`; the codec's round trip.

## Not modelled

Themes, icons, fonts, shortcuts, menus and window layout present state that is kept
elsewhere. The codec, the sidecar's reader and the record types convert field by field,
and the content of that is the fields' names. `ReplaySource` is `SpoolReader`'s pass.
The doctor's checks of the host read constants. Argument parsing of the command line is
the standard library's. Of settings, window geometry, columns and recent captures are
left out. `PROJECT.json` names each with its reason.

## Running

    tlc -config OsTraceSource.cfg MCOsTraceSource
    tlc -config CaptureSession.cfg MCCaptureSession
    tlc -config SpoolReader.cfg MCSpoolReader
    tlc -config CaptureController.cfg CaptureController
    tlc -config RecordModel.cfg RecordModel
    tlc -config MainWindow.cfg MainWindow
    tlc -config FilterBar.cfg MCFilterBar
    tlc -config Reading.cfg MCReading
    tlc -config Exporters.cfg MCExporters
    tlc -config Devices.cfg MCDevices
    tlapm OsTraceSource_proofs.tla
    tlapm CaptureSession_proofs.tla
    tlapm CaptureController_proofs.tla
    tlapm RecordModel_proofs.tla
    tlapm Devices_proofs.tla
    tlapm MainWindow_proofs.tla
    tlapm FilterBar_proofs.tla
    tlapm SpoolReader_proofs.tla

Definitions called *mutation of X* are wrong versions of X, kept beside it: with one
of them in X's place, a property named in `PROJECT.json` fails.
