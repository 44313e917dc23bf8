------------------------------ MODULE FilterBar ------------------------------
(***************************************************************************)
(* The filter bar (gui/widgets/filter_bar.py) and what the window does     *)
(* with it (gui/windows/main.py): edits wait for a timer before they reach *)
(* the model, a filter left alone is remembered, one that is named is      *)
(* saved, and every door that empties the table decides what it carries.   *)
(* The lists live in the settings between two runs of the program.         *)
(***************************************************************************)
EXTENDS Filters

CONSTANTS
    Levels, Processes, Searches,  \* what a reader puts in the fields
    Names,                        \* what a reader calls a filter
    Messages,                     \* what a record may say
    RecentKept,                   \* RECENT_KEPT
    OldRecent, OldSaved,          \* lines an older version has stored
    MaxEdits                      \* bound: things the reader does

ASSUME LevelsAssumption == Debug \in Levels
ASSUME KeptAssumption == RecentKept \in Nat \ {0} /\ MaxEdits \in Nat
ASSUME TextsAssumption == Names \cup Searches \cup Messages \subseteq Seq(STRING)

(* Two lists, whose texts from_fields() reads with str(), and save() never *)
(* left two filters under one name.                                        *)
ASSUME OldAssumption ==
    /\ OldRecent \in Seq(ToSet(OldRecent)) /\ OldSaved \in Seq(ToSet(OldSaved))
    /\ \A line \in ToSet(OldRecent) \cup {entry.filter : entry \in ToSet(OldSaved)} :
          "search" \in DOMAIN line => line.search \in Seq(STRING)
    /\ \A i, j \in DOMAIN OldSaved : SameName(OldSaved[i].name, OldSaved[j].name) => i = j

VARIABLES
    bar,        \* the fields of the bar, and what it marks
    timers,     \* debounce, settled and highlight debounce: which are running
    applied,    \* the model's filter
    drawn,      \* what the message delegate paints: a filter and a mark
    lists,      \* recent and saved filters
    chrome,     \* the bar's menu, and whether Copy Filter is offered
    dialog,     \* the dialog of saved filters
    door,       \* whether a capture is being shown
    clipboard,
    store,      \* the two lists as the settings hold them
    edits       \* things the reader has done

vars == <<bar, timers, applied, drawn, lists, chrome, dialog, door, clipboard, store, edits>>

NoMark == [text |-> <<>>, regex |-> FALSE]
EmptyBar == [terms |-> NoFilter, mark |-> NoMark]
NoDialog == [open |-> FALSE, saved |-> <<>>, row |-> 0]

-----------------------------------------------------------------------------
(* current(): stripped, and nothing at all while a pattern is half written. *)
Valid(b) == Compiles(b.terms.search, b.terms.regex)
Current(b) == [b.terms EXCEPT !.process = Strip(@), !.subsystem = Strip(@)]
ValidMark(b) == Compiles(b.mark.text, b.mark.regex)

(* is_empty: half a pattern is a narrowing in the making. *)
BarIsEmpty(b) == Valid(b) /\ IsEmpty(Current(b))

(* _rebuild_menu() *)
Menu(b, l, copy) ==
    [recent |-> [i \in DOMAIN l.recent |-> Summary(l.recent[i])],
     saved |-> [i \in DOMAIN l.saved |-> l.saved[i].name],
     save |-> ~BarIsEmpty(b), manage |-> l.saved # <<>>, copy |-> copy]

(* read_recent() and read_saved(): entry by entry. *)
ReadRecent(lines) ==
    LET read == Without([i \in DOMAIN lines |-> FromFields(lines[i])], {Unreadable})
    IN  SubSeq(read, 1, IF Len(read) < RecentKept THEN Len(read) ELSE RecentKept)
ReadSaved(lines) ==
    Without([i \in DOMAIN lines |-> FromStored(lines[i])], {Unreadable})

(* A saved filter is stored with its terms under its name. *)
AsStored(saved) == [i \in DOMAIN saved |-> [name |-> saved[i].name, filter |-> saved[i].terms]]

ReadLists(stored) == [recent |-> ReadRecent(stored.recent), saved |-> ReadSaved(stored.saved)]
NotRunning == [debounce |-> FALSE, settled |-> FALSE, glow |-> FALSE]

Init ==
    /\ store = [recent |-> OldRecent, saved |-> OldSaved]
    /\ lists = ReadLists(store) /\ chrome = Menu(EmptyBar, lists, FALSE)
    /\ bar = EmptyBar /\ timers = NotRunning
    /\ applied = NoFilter /\ drawn = [filter |-> NoFilter, mark |-> NoMark]
    /\ dialog = NoDialog /\ door = "closed" /\ clipboard = <<>>
    /\ edits = 0

-----------------------------------------------------------------------------
(* Editing.  `changed` restarts both timers, and rebuilds the menu.        *)

Reader == ~dialog.open /\ edits < MaxEdits /\ edits' = edits + 1

Changed(b) ==
    /\ bar' = b
    /\ timers' = [timers EXCEPT !.debounce = TRUE, !.settled = TRUE]
    /\ chrome' = Menu(b, lists, ~BarIsEmpty(b))

Fields == [minimum_level : Levels, process : Processes, search : Searches,
           regex : BOOLEAN, process_exclude : BOOLEAN]

(* One control is moved, and says so once. *)
Edit ==
    /\ Reader
    /\ \E field \in {"minimum_level", "process", "search", "regex", "process_exclude"} :
       \E value \in {f[field] : f \in Fields} :
          /\ bar.terms[field] # value
          /\ Changed([bar EXCEPT !.terms[field] = value])
    /\ UNCHANGED <<applied, drawn, lists, dialog, door, clipboard, store>>

(* Mutation of SetFilter: the controls are silent, and nobody speaks for them. *)
SetFilterSilently(wanted) ==
    /\ Reader
    /\ bar' = [bar EXCEPT !.terms = wanted]
    /\ UNCHANGED <<timers, chrome, applied, drawn, lists, dialog, door, clipboard, store>>

(* _on_recent_chosen, set_filter, _set_fields: seven controls, one signal. *)
SetFilter(wanted) ==
    /\ Reader
    /\ Changed([bar EXCEPT !.terms = wanted])
    /\ UNCHANGED <<applied, drawn, lists, dialog, door, clipboard, store>>

(* clear(), the banner's way out. *)
Clear == SetFilter(NoFilter)

(* filter_by_process: the bar's field is set, and nothing else of the bar. *)
FilterByProcess(process) ==
    /\ Reader /\ door = "open" /\ bar.terms.process # process
    /\ Changed([bar EXCEPT !.terms.process = process])
    /\ UNCHANGED <<applied, drawn, lists, dialog, door, clipboard, store>>

EditHighlight ==
    /\ Reader
    /\ \E mark \in [text : Searches, regex : BOOLEAN] :
          /\ mark # bar.mark
          /\ mark.text = bar.mark.text \/ mark.regex = bar.mark.regex
          /\ bar' = [bar EXCEPT !.mark = mark]
    /\ timers' = [timers EXCEPT !.glow = TRUE]
    /\ UNCHANGED <<applied, drawn, lists, chrome, dialog, door, clipboard, store>>

(* copy_filter: the bar's value, and nothing of a half-written one. *)
CopyFilter ==
    /\ chrome.copy /\ ~dialog.open
    /\ clipboard' = IF Valid(bar) THEN AsText(Current(bar)) ELSE clipboard
    /\ UNCHANGED <<bar, timers, applied, drawn, lists, chrome, dialog, door, store, edits>>

-----------------------------------------------------------------------------
(* The timers.                                                             *)

(* _apply_filter: a half-written pattern leaves the last filter applied. *)
ApplyFilter ==
    /\ timers.debounce
    /\ timers' = [timers EXCEPT !.debounce = FALSE]
    /\ IF Valid(bar)
       THEN applied' = Current(bar) /\ drawn' = [drawn EXCEPT !.filter = Current(bar)]
       ELSE UNCHANGED <<applied, drawn>>
    /\ UNCHANGED <<bar, lists, chrome, dialog, door, clipboard, store, edits>>

(* _apply_highlight *)
ApplyHighlight ==
    /\ timers.glow
    /\ timers' = [timers EXCEPT !.glow = FALSE]
    /\ drawn' = IF ValidMark(bar) THEN [drawn EXCEPT !.mark = bar.mark] ELSE drawn
    /\ UNCHANGED <<bar, applied, lists, chrome, dialog, door, clipboard, store, edits>>

Remembered ==
    LET recent == Remember(lists.recent, applied, RecentKept)
    IN  IF recent = lists.recent THEN UNCHANGED <<lists, chrome, store>>
        ELSE /\ lists' = [lists EXCEPT !.recent = recent]
             /\ chrome' = Menu(bar, lists', chrome.copy)
             /\ store' = [store EXCEPT !.recent = recent]

(* Mutation of RememberFilter: as soon as the filter is applied, or before. *)
RememberAtOnce ==
    /\ timers.settled
    /\ timers' = [timers EXCEPT !.settled = FALSE]
    /\ Remembered
    /\ UNCHANGED <<bar, applied, drawn, dialog, door, clipboard, edits>>

(* _remember_filter: _FILTER_SETTLED_MS is ten times the debounce, and both *)
(* are restarted together.                                                  *)
RememberFilter ==
    /\ timers.settled /\ ~timers.debounce
    /\ timers' = [timers EXCEPT !.settled = FALSE]
    /\ Remembered
    /\ UNCHANGED <<bar, applied, drawn, dialog, door, clipboard, edits>>

-----------------------------------------------------------------------------
(* Saved filters.                                                          *)

SetSaved(saved) ==
    /\ lists' = [lists EXCEPT !.saved = saved]
    /\ chrome' = Menu(bar, lists', chrome.copy)
    /\ store' = [store EXCEPT !.saved = AsStored(saved)]

(* name_current_filter *)
NameCurrentFilter(name) ==
    /\ Reader /\ chrome.save /\ Valid(bar) /\ Strip(name) # <<>>
    /\ SetSaved(Save(lists.saved, [name |-> Strip(name), terms |-> Current(bar)]))
    /\ UNCHANGED <<bar, timers, applied, drawn, dialog, door, clipboard>>

(* manage_saved_filters: the dialog works on a copy. *)
OpenDialog ==
    /\ Reader /\ chrome.manage
    /\ dialog' = [open |-> TRUE, saved |-> lists.saved, row |-> 1]
    /\ UNCHANGED <<bar, timers, applied, drawn, lists, chrome, door, clipboard, store>>

(* _fill: the row that is chosen stays where it is. *)
Filled(saved) ==
    [dialog EXCEPT !.saved = saved, !.row = IF @ <= Len(saved) THEN @ ELSE Len(saved)]

RenameSelected(name) ==
    /\ dialog.open /\ dialog.row # 0 /\ edits < MaxEdits /\ edits' = edits + 1
    /\ LET entry == dialog.saved[dialog.row]
       IN  /\ Strip(name) \notin {<<>>, entry.name}
           /\ dialog' = Filled(Save(Forget(dialog.saved, entry.name),
                                    [entry EXCEPT !.name = Strip(name)]))
    /\ UNCHANGED <<bar, timers, applied, drawn, lists, chrome, door, clipboard, store>>

RemoveSelected ==
    /\ dialog.open /\ dialog.row # 0 /\ edits < MaxEdits /\ edits' = edits + 1
    /\ dialog' = Filled(Forget(dialog.saved, dialog.saved[dialog.row].name))
    /\ UNCHANGED <<bar, timers, applied, drawn, lists, chrome, door, clipboard, store>>

Choose ==
    /\ dialog.open
    /\ \E row \in DOMAIN dialog.saved : row # dialog.row /\ dialog' = [dialog EXCEPT !.row = row]
    /\ UNCHANGED <<bar, timers, applied, drawn, lists, chrome, door, clipboard, store, edits>>

(* Mutation of CloseDialog: what it returns is held and never written. *)
CloseDialogHolding ==
    /\ dialog.open
    /\ dialog' = NoDialog
    /\ lists' = [lists EXCEPT !.saved = dialog.saved]
    /\ chrome' = Menu(bar, lists', chrome.copy)
    /\ UNCHANGED <<bar, timers, applied, drawn, door, clipboard, store, edits>>

CloseDialog ==
    /\ dialog.open
    /\ dialog' = NoDialog
    /\ SetSaved(dialog.saved)
    /\ UNCHANGED <<bar, timers, applied, drawn, door, clipboard, edits>>

-----------------------------------------------------------------------------
(* The doors: _replace_model.                                              *)

(* Opening a file or starting a capture carries the filter and the mark: a  *)
(* half-written filter leaves the last one, a half-written mark raises, and *)
(* what the door had still to do is left undone.                            *)
OpenDoor ==
    /\ Reader
    /\ LET filter == IF Valid(bar) THEN Current(bar) ELSE drawn.filter
           mark == IF ValidMark(bar) THEN bar.mark ELSE drawn.mark
       IN  /\ applied' = IF Valid(bar) THEN filter ELSE applied
           /\ drawn' = [filter |-> filter, mark |-> mark]
    /\ door' = IF ValidMark(bar) THEN "open" ELSE "stuck"
    /\ UNCHANGED <<bar, timers, lists, chrome, dialog, clipboard, store>>

(* close_capture clears both; clear_highlight speaks only if it changes. *)
CloseDoor ==
    /\ Reader /\ door # "closed"
    /\ door' = "closed"
    /\ bar' = EmptyBar
    /\ timers' = [debounce |-> TRUE, settled |-> TRUE, glow |-> timers.glow \/ bar.mark # NoMark]
    /\ chrome' = Menu(EmptyBar, lists, FALSE)
    /\ applied' = NoFilter /\ drawn' = [drawn EXCEPT !.mark = NoMark]
    /\ UNCHANGED <<lists, dialog, clipboard, store>>

(* The program is closed and started again. *)
Relaunch ==
    /\ Reader
    /\ lists' = ReadLists(store) /\ chrome' = Menu(EmptyBar, lists', FALSE)
    /\ bar' = EmptyBar /\ timers' = NotRunning
    /\ applied' = NoFilter /\ drawn' = [filter |-> NoFilter, mark |-> NoMark]
    /\ dialog' = NoDialog /\ door' = "closed" /\ clipboard' = <<>>
    /\ UNCHANGED store

Timers == ApplyFilter \/ ApplyHighlight \/ RememberFilter
Saving == (\E name \in Names : NameCurrentFilter(name) \/ RenameSelected(name))
          \/ OpenDialog \/ RemoveSelected \/ Choose \/ CloseDialog
Choosing == \/ \E i \in DOMAIN lists.recent : SetFilter(lists.recent[i])
            \/ \E i \in DOMAIN lists.saved : SetFilter(lists.saved[i].terms)
            \/ \E process \in Processes \ {<<>>} : FilterByProcess(process)
            \/ Clear

Next == Timers \/ Saving \/ Choosing \/ Edit \/ EditHighlight \/ CopyFilter
        \/ OpenDoor \/ CloseDoor \/ Relaunch

Spec == Init /\ [][Next]_vars

-----------------------------------------------------------------------------
(* Once its timer has fired, what the table shows, what its delegate paints *)
(* and what the menus offer are the bar's, whichever way the bar was set    *)
(* (_set_fields, _replace_model, _apply_filter).                            *)
BarIsTrue ==
    /\ ~timers.debounce /\ Valid(bar) =>
          applied = Current(bar) /\ drawn.filter = Current(bar)
    /\ ~timers.glow /\ ValidMark(bar) => drawn.mark = bar.mark
    /\ chrome = Menu(bar, lists, ~BarIsEmpty(bar))

(* What is remembered is what stood in the bar when it was, unless that is  *)
(* half written: never a prefix of a filter being typed (_remember_filter). *)
RememberedStood ==
    [][lists'.recent # lists.recent /\ Valid(bar)
          => Head(lists'.recent) = Current(bar)]_<<lists>>

(* Whatever the program is closed in the middle of, the next one offers the *)
(* same lists, and no menu offers two saved filters under one name          *)
(* (_set_saved, save, read_saved).                                          *)
StoredIsHeld ==
    /\ ReadRecent(store.recent) = lists.recent
    /\ ReadSaved(store.saved) = lists.saved
    /\ \A saved \in {lists.saved, dialog.saved} : \A i, j \in DOMAIN saved :
          SameName(saved[i].name, saved[j].name) => i = j

(* The wash over a message covers what the search and the mark cover, each  *)
(* place once (merge_spans: painting the same pixels twice is darker).      *)
WashIsExact ==
    \A message \in Messages :
        LET search == Spans(drawn.filter.search, drawn.filter.regex, message)
            mark == Spans(drawn.mark.text, drawn.mark.regex, message)
            wash == MergeSpans(search, mark)
            covers(spans, i) == \E k \in DOMAIN spans : spans[k][1] <= i /\ i < spans[k][2]
        IN  /\ \A k \in 2..Len(wash) : wash[k - 1][2] <= wash[k][1]
            /\ \A i \in DOMAIN message : covers(wash, i) <=> covers(search, i) \/ covers(mark, i)

(* Narrowing to a process by the menu of a row shows the records of that    *)
(* process (filter_by_process).                                             *)
NarrowsToIt ==
    [][\A p \in Processes \ {<<>>} : FilterByProcess(p) =>
          LET term == [NoFilter EXCEPT !.process = Current(bar').process,
                                       !.process_exclude = bar'.terms.process_exclude]
          IN  Matches(term, [level |-> Debug, pid |-> 0, process |-> p,
                             subsystem |-> <<>>, message |-> <<>>])]_vars

(* No door is left half open: a window that shows a capture is reading it. *)
DoorsOpen == door # "stuck"
=============================================================================
