------------------------------ MODULE Devices -------------------------------
(***************************************************************************)
(* Who talks to a device: the capture, the scan behind the device button   *)
(* (gui/widgets/device_button.py) and the Doctor (devices/doctor.py), each *)
(* on a thread of its own, over devices that come and go                   *)
(* (devices/discovery.py).  A lockdown session is opened by one of them at *)
(* a time, or should be: two stall each other.  What a thread reports is   *)
(* queued for the interface.                                               *)
(***************************************************************************)
EXTENDS Integers, Sequences, SequencesExt

CONSTANTS
    Order,       \* the devices, as usbmux lists them
    Network,     \* those attached over the network
    Nobody,      \* no device
    AtStart,     \* bound: what may be plugged in at the start
    MaxPlugs,    \* bound: devices plugged in or out
    MaxScans,    \* bound: scans asked for
    MaxCaptures, \* bound: captures started
    MaxChecks,   \* bound: diagnoses asked for
    MaxDrops     \* bound: outages of a capture

ASSUME DevicesAreListed ==
    /\ Order \in Seq(ToSet(Order)) /\ IsInjective(Order)
    /\ Network \subseteq ToSet(Order) /\ Nobody \notin ToSet(Order)
    /\ AtStart \subseteq SUBSET ToSet(Order)
ASSUME BoundsAreNatural ==
    {MaxPlugs, MaxScans, MaxCaptures, MaxChecks, MaxDrops} \subseteq Nat

VARIABLES
    attached,   \* the devices plugged in
    button,     \* the control: chosen, rows of its menu, what it says of them, busy, enabled
    scanner,    \* the scan's thread; during: history, the capture it was started in
    capture,    \* what a capture asked for, holds and is said to do; told: history,
                \* whose reports the interface has heard while it runs
    parked,     \* the captures let go of whose threads have not ended
    doctors,    \* the windows of the Doctor: each one's thread and report
    signals,    \* what threads have reported and the interface has not heard
    spent       \* the bounds

vars == <<attached, button, scanner, capture, parked, doctors, signals, spent>>

Devices == ToSet(Order)

(* A diagnosis that has found nothing. *)
Asked(phase, udid) == [phase |-> phase, wanted |-> udid, checked |-> Nobody, ok |-> FALSE]

Init ==
    /\ attached \in AtStart
    /\ button = [udid |-> Nobody, rows |-> <<>>, says |-> "scanning", busy |-> Nobody,
                 enabled |-> TRUE]
    /\ scanner = [phase |-> "off", skip |-> Nobody, left |-> <<>>, during |-> 0]
    /\ capture = [phase |-> "off", wanted |-> Nobody, holds |-> Nobody, number |-> 0,
                  state |-> "", told |-> {}]
    /\ parked = {}
    /\ doctors = <<>>
    /\ signals = <<>>
    /\ spent = [plugs |-> 0, scans |-> 0, checks |-> 0, drops |-> 0]

-----------------------------------------------------------------------------
(* discovery.py                                                            *)

ListDevices == SelectSeq(Order, LAMBDA d : d \in attached)
Usb(devices) == devices \ Network

(* The first of some devices, as usbmux lists them. *)
FirstOf(devices) == Order[Min({i \in DOMAIN Order : Order[i] \in devices})]

(* What open_lockdown() may open, asked for one or for none: then whichever  *)
(* answers.                                                                *)
Opens(udid) == {d \in attached : udid \in {d, Nobody}}

(* _check_devices(): the device a diagnosis goes on with, if any. *)
CheckDevices(devices, udid) ==
    IF Usb(devices) = {} THEN Nobody
    ELSE IF udid = Nobody THEN FirstOf(Usb(devices))
    ELSE IF udid \in Usb(devices) THEN udid ELSE Nobody

Plug ==
    /\ spent.plugs < MaxPlugs
    /\ \E d \in Devices : attached' = (attached \cup {d}) \ (attached \cap {d})
    /\ spent' = [spent EXCEPT !.plugs = @ + 1]
    /\ UNCHANGED <<button, scanner, capture, parked, doctors, signals>>

-----------------------------------------------------------------------------
(* The scan.                                                               *)

Scanning == scanner.phase # "off"

(* rescan(): from the menu, or from Refresh, which a capture leaves enabled. *)
Rescan ==
    /\ spent.scans < MaxScans
    /\ spent' = [spent EXCEPT !.scans = @ + 1]
    /\ button' = IF button.rows = <<>> THEN [button EXCEPT !.says = "scanning"] ELSE button
    /\ scanner' = IF Scanning THEN scanner
                  ELSE [phase |-> "listing", skip |-> button.busy, left |-> <<>>,
                        during |-> IF capture.phase = "off" THEN 0 ELSE capture.number]
    /\ UNCHANGED <<attached, capture, parked, doctors, signals>>

(* Mutation of ScanLists: a listing that fails says nothing. *)
ScanListsQuietly ==
    /\ scanner.phase = "listing"
    /\ \/ /\ signals' = Append(signals, [kind |-> "found", list |-> ListDevices])
          /\ scanner' = [scanner EXCEPT !.phase = "asking", !.left = ListDevices]
       \/ /\ signals' = signals
          /\ scanner' = [scanner EXCEPT !.phase = "off"]
    /\ UNCHANGED <<attached, button, capture, parked, doctors, spent>>

ScanLists ==
    /\ scanner.phase = "listing"
    /\ \/ /\ signals' = Append(signals, [kind |-> "found", list |-> ListDevices])
          /\ scanner' = [scanner EXCEPT !.phase = "asking", !.left = ListDevices]
       \/ /\ signals' = Append(signals, [kind |-> "found", list |-> <<>>])
          /\ scanner' = [scanner EXCEPT !.phase = "off"]
    /\ UNCHANGED <<attached, button, capture, parked, doctors, spent>>

(* The next of the list: left alone, out of reach, or opened. *)
ScanOpens ==
    /\ scanner.phase = "asking" /\ scanner.left # <<>>
    /\ \/ scanner' = [scanner EXCEPT !.left = Tail(@)]
       \/ /\ Head(scanner.left) # scanner.skip /\ Head(scanner.left) \in attached
          /\ scanner' = [scanner EXCEPT !.phase = "reading"]
    /\ UNCHANGED <<attached, button, capture, parked, doctors, signals, spent>>

(* Closed again, whether it answered or not; the name that a row then gets  *)
(* is left out.                                                            *)
ScanReads ==
    /\ scanner.phase = "reading"
    /\ scanner' = [scanner EXCEPT !.phase = "asking", !.left = Tail(@)]
    /\ UNCHANGED <<attached, button, capture, parked, doctors, signals, spent>>

ScanEnds ==
    /\ scanner.phase = "asking" /\ scanner.left = <<>>
    /\ scanner' = [scanner EXCEPT !.phase = "off"]
    /\ UNCHANGED <<attached, button, capture, parked, doctors, signals, spent>>

ScanHolds(d) == scanner.phase = "reading" /\ Head(scanner.left) = d

-----------------------------------------------------------------------------
(* The control.                                                            *)

Heard(kind) == signals # <<>> /\ Head(signals).kind = kind /\ signals' = Tail(signals)

(* _on_found(): a chosen device that is gone is not chosen any more. *)
OnFound ==
    /\ Heard("found")
    /\ LET list == Head(signals).list
       IN  button' = [button EXCEPT
                !.rows = list,
                !.says = IF list = <<>> THEN "none" ELSE "",
                !.udid = IF @ \in ToSet(list) THEN @ ELSE Nobody]
    /\ UNCHANGED <<attached, scanner, capture, parked, doctors, spent>>

Choose ==
    /\ button.enabled
    /\ \E d \in ToSet(button.rows) : button' = [button EXCEPT !.udid = d]
    /\ UNCHANGED <<attached, scanner, capture, parked, doctors, signals, spent>>

(* Mutation of SetCapturing: what a scan must leave alone is said on the way out. *)
SetCapturingIdle(capturing) ==
    button' = [button EXCEPT !.enabled = ~capturing,
                             !.busy = IF capturing THEN Nobody ELSE button.udid]

(* _set_capturing(), at the start, at every change of state and at the end. *)
SetCapturing(capturing) ==
    button' = [button EXCEPT !.enabled = ~capturing,
                             !.busy = IF capturing THEN button.udid ELSE Nobody]

-----------------------------------------------------------------------------
(* The capture, as far as it is about which device: a session opened to    *)
(* identify it (device_info), then one for the records, and another after  *)
(* every outage.                                                           *)

StartCapture ==
    /\ capture.phase = "off" /\ capture.number < MaxCaptures
    /\ capture' = [phase |-> "opening", wanted |-> button.udid, holds |-> Nobody,
                   number |-> capture.number + 1, state |-> "starting", told |-> {}]
    /\ SetCapturing(TRUE)
    /\ UNCHANGED <<attached, scanner, parked, doctors, signals, spent>>

Identify ==
    /\ capture.phase = "opening"
    /\ \E d \in Opens(capture.wanted) :
            capture' = [capture EXCEPT !.phase = "reading", !.holds = d]
    /\ UNCHANGED <<attached, button, scanner, parked, doctors, signals, spent>>

(* Closed again, and reported; the interface hears later. *)
Identified ==
    /\ capture.phase = "reading"
    /\ capture' = [capture EXCEPT !.phase = "connecting", !.holds = Nobody]
    /\ signals' = Append(signals, [kind |-> "device", at |-> capture.holds,
                                   of |-> capture.number])
    /\ UNCHANGED <<attached, button, scanner, parked, doctors, spent>>

Connect ==
    /\ capture.phase = "connecting"
    /\ \E d \in Opens(capture.wanted) :
            capture' = [capture EXCEPT !.phase = "streaming", !.holds = d]
    /\ signals' = Append(signals, [kind |-> "state", is |-> "streaming"])
    /\ UNCHANGED <<attached, button, scanner, parked, doctors, spent>>

(* The link goes: both sockets are closed, and another session asked for. *)
Drop ==
    /\ capture.phase = "streaming" /\ spent.drops < MaxDrops
    /\ spent' = [spent EXCEPT !.drops = @ + 1]
    /\ capture' = [capture EXCEPT !.phase = "connecting", !.holds = Nobody]
    /\ signals' = Append(signals, [kind |-> "state", is |-> "reconnecting"])
    /\ UNCHANGED <<attached, button, scanner, parked, doctors>>

(* Mutation of OnDevice: whether a capture still runs is not asked. *)
OnDeviceEver ==
    /\ Heard("device")
    /\ button' = [button EXCEPT !.busy = Head(signals).at]
    /\ capture' = IF capture.phase = "off" THEN capture
                  ELSE [capture EXCEPT !.state = "identified",
                                       !.told = @ \cup {Head(signals).of}]
    /\ UNCHANGED <<attached, scanner, parked, doctors, spent>>

(* The window's _on_identified(): of whichever capture, the one that runs. *)
OnDevice ==
    /\ Heard("device")
    /\ \/ /\ capture.phase = "off" /\ UNCHANGED <<button, capture>>
       \/ /\ capture.phase # "off"
          /\ button' = [button EXCEPT !.busy = Head(signals).at]
          /\ capture' = [capture EXCEPT !.state = "identified",
                                        !.told = @ \cup {Head(signals).of}]
    /\ UNCHANGED <<attached, scanner, parked, doctors, spent>>

(* link_state(), and what the window shows of a state that is a new one. *)
OnState ==
    /\ Heard("state")
    /\ LET is == Head(signals).is
       IN  \/ /\ capture.phase = "off" \/ capture.state = is
              /\ UNCHANGED <<button, capture>>
           \/ /\ capture.phase # "off" /\ capture.state # is
              /\ SetCapturing(TRUE)
              /\ capture' = [capture EXCEPT !.state = is]
    /\ UNCHANGED <<attached, scanner, parked, doctors, spent>>

(* What the thread of a capture that is ending may still report: a device   *)
(* that is being identified is, before it sees that it is to stop.         *)
LastWords(c) ==
    {<<>>} \cup {<<[kind |-> "device", at |-> d, of |-> c.number]>> :
                 d \in CASE c.phase = "opening" -> Opens(c.wanted)
                         [] c.phase = "reading" -> {c.holds}
                         [] OTHER -> {}}

(* Disconnected, ended or failed: the thread ends while it is waited for,   *)
(* or is parked, holding what it holds.                                    *)
StopCapture ==
    /\ capture.phase # "off"
    /\ \/ /\ \E words \in LastWords(capture) : signals' = signals \o words
          /\ parked' = parked
       \/ /\ signals' = signals
          /\ parked' = parked \cup {[phase |-> capture.phase, wanted |-> capture.wanted,
                                     holds |-> capture.holds, number |-> capture.number]}
    /\ capture' = [capture EXCEPT !.phase = "off", !.wanted = Nobody, !.holds = Nobody,
                                  !.state = "", !.told = {}]
    /\ SetCapturing(FALSE)
    /\ UNCHANGED <<attached, scanner, doctors, spent>>

(* A parked thread goes on with its opening, or ends. *)
ParkedOpens ==
    /\ \E c \in parked : /\ c.phase = "opening"
                         /\ \E d \in Opens(c.wanted) :
                               parked' = (parked \ {c}) \cup
                                         {[c EXCEPT !.phase = "reading", !.holds = d]}
    /\ UNCHANGED <<attached, button, scanner, capture, doctors, signals, spent>>

ParkedEnds ==
    /\ \E c \in parked : /\ parked' = parked \ {c}
                         /\ \E words \in LastWords(c) : signals' = signals \o words
    /\ UNCHANGED <<attached, button, scanner, capture, doctors, spent>>

Held(d) == capture.holds = d \/ \E c \in parked : c.holds = d

-----------------------------------------------------------------------------
(* Doctor: every time it is asked for, a window with a thread of its own.  *)
(* Run Again in a window is of the device it was opened on: the same as    *)
(* one whose thread has taken its time.                                    *)

(* show_doctor(): of the device chosen now. *)
ShowDoctor ==
    /\ spent.checks < MaxChecks
    /\ spent' = [spent EXCEPT !.checks = @ + 1]
    /\ doctors' = Append(doctors, Asked("devices", button.udid))
    /\ UNCHANGED <<attached, button, scanner, capture, parked, signals>>

(* What one that failed was of is not kept. *)
Reported(i, ok) ==
    doctors' = [doctors EXCEPT ![i] = IF ok THEN [@ EXCEPT !.phase = "told", !.ok = TRUE]
                                      ELSE Asked("told", Nobody)]

(* No usbmux, no devices, or none that will do; else on to the first. *)
DoctorLists(i) ==
    /\ doctors[i].phase = "devices"
    /\ LET d == CheckDevices(attached, doctors[i].wanted)
       IN  \/ Reported(i, FALSE)
           \/ /\ d # Nobody
              /\ doctors' = [doctors EXCEPT ![i] = [@ EXCEPT !.phase = "pairing",
                                                             !.checked = d]]
    /\ UNCHANGED <<attached, button, scanner, capture, parked, signals, spent>>

DoctorOpens(i) ==
    /\ doctors[i].phase = "pairing"
    /\ \/ Reported(i, FALSE)
       \/ /\ doctors[i].checked \in attached
          /\ doctors' = [doctors EXCEPT ![i] = [@ EXCEPT !.phase = "reading"]]
    /\ UNCHANGED <<attached, button, scanner, capture, parked, signals, spent>>

(* Read and closed, and reported. *)
DoctorReads(i) ==
    /\ doctors[i].phase = "reading"
    /\ \E ok \in BOOLEAN : Reported(i, ok)
    /\ UNCHANGED <<attached, button, scanner, capture, parked, signals, spent>>

DoctorHolds(i, d) == doctors[i].phase = "reading" /\ doctors[i].checked = d

Hear == OnFound \/ OnDevice \/ OnState
Scan == ScanLists \/ ScanOpens \/ ScanReads \/ ScanEnds
Capture ==
    \/ StartCapture \/ Identify \/ Identified \/ Connect \/ Drop \/ StopCapture
    \/ ParkedOpens \/ ParkedEnds
Diagnose ==
    \/ ShowDoctor
    \/ \E i \in DOMAIN doctors : DoctorLists(i) \/ DoctorOpens(i) \/ DoctorReads(i)
Next == Plug \/ Rescan \/ Scan \/ Hear \/ Choose \/ Capture \/ Diagnose

(* The interface's loop turns, and a thread that runs goes on. *)
Spec == Init /\ [][Next]_vars /\ WF_vars(Hear) /\ WF_vars(Scan)

-----------------------------------------------------------------------------
(* Properties.                                                             *)

(* ChosenIsLeftAlone: a device the reader chose for a capture is not        *)
(* opened again by a scan started while that capture runs, whatever the    *)
(* link and the list have done meanwhile, unless a listing without it has  *)
(* taken the choice away or the report of an earlier capture has been      *)
(* taken for this one's (set_busy, _set_capturing, _on_identified).        *)
ChosenIsLeftAlone ==
    (/\ capture.wanted # Nobody /\ button.udid = capture.wanted
     /\ capture.told \subseteq {capture.number}
     /\ scanner.during = capture.number) => ~ScanHolds(capture.wanted)

(* BusyIsReleased: with no capture running there is a choice, no device is  *)
(* kept from it, and a scan started then leaves none alone, however late   *)
(* the reports of captures that have ended or are parked are heard         *)
(* (_on_identified, link_state, _set_capturing, rescan).                   *)
BusyIsReleased ==
    /\ capture.phase = "off" => button.busy = Nobody /\ button.enabled
    /\ (Scanning /\ scanner.during = 0) => scanner.skip = Nobody

(* HeldIsLeftAlone: no scan opens the device a capture holds                *)
(* (device_button.py: "The scan never touches a device a capture is        *)
(* holding").                                                              *)
HeldIsLeftAlone == \A d \in Devices : ~(Held(d) /\ ScanHolds(d))

(* BusyIsHeld: once a capture streams and the interface knows, the device   *)
(* to leave alone is the one it holds (_on_identified: "Which device is    *)
(* actually held, rather than which one was picked").  Not so when none    *)
(* was chosen: the next change of state puts the choice back.              *)
BusyIsHeld ==
    (capture.phase = "streaming" /\ capture.state = "streaming") =>
        button.busy = capture.holds

(* DoctorAgrees: a diagnosis with nothing wrong is of a device that is not  *)
(* on the network; if one was chosen it is that one, and a capture asked   *)
(* for the same holds no other (_check_devices, OsTraceSource._open).      *)
DoctorAgrees ==
    \A i \in DOMAIN doctors : doctors[i].ok =>
        /\ doctors[i].checked \in Devices \ Network
        /\ doctors[i].wanted # Nobody =>
                /\ doctors[i].checked = doctors[i].wanted
                /\ capture.wanted = doctors[i].wanted =>
                        capture.holds \in {doctors[i].checked, Nobody}

(* DoctorVouches: the same when none was chosen (the Doctor's window:       *)
(* "Everything needed for a capture is in place").  Not so: the diagnosis  *)
(* takes the first over USB and the capture whichever answers.             *)
DoctorVouches ==
    \A i \in DOMAIN doctors :
        (doctors[i].ok /\ capture.phase # "off" /\ capture.wanted = doctors[i].wanted) =>
            capture.holds \in {doctors[i].checked, Nobody}

(* OneDiagnosis: no two diagnoses open one device (DoctorWindow.start: "a   *)
(* second session against a device is the thing this project already knows *)
(* stalls the first").  Not so: the guard is each window's own.            *)
OneDiagnosis ==
    \A d \in Devices, i, j \in DOMAIN doctors :
        (DoctorHolds(i, d) /\ DoctorHolds(j, d)) => i = j

(* ScanSettles: a menu that says a scan is under way comes to say what it   *)
(* found, or that it found nothing, when one has been started that has     *)
(* still to list the devices (rescan, DeviceScanner.run).                  *)
ScanSettles == scanner.phase = "listing" ~> button.says # "scanning"

(* MenuSettles: the same whenever a scan runs: not so when one is asked for *)
(* as the last thread is ending, its empty answer heard already.           *)
MenuSettles == (button.says = "scanning" /\ Scanning) ~> button.says # "scanning"
=============================================================================
