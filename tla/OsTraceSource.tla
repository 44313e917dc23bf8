---------------------------- MODULE OsTraceSource ----------------------------
(***************************************************************************)
(* The live source (sources/os_trace.py): the stream() task, the aclose()  *)
(* task that may run beside it, and the device.                            *)
(*                                                                         *)
(* Both tasks run on one event loop, so a step runs from one await or      *)
(* yield to the next: pc names the await the stream task is suspended at,  *)
(* closer the one aclose() is suspended at.                                *)
(*                                                                         *)
(*   idle            device_info() not called yet                          *)
(*   probing         device_info() awaits the short-lived session's close  *)
(*   ready           stream() created, not yet pulled                      *)
(*   opening         _connect() awaits _open()                             *)
(*   retry_sleep     _connect() sleeps between two attempts                *)
(*   identifying     _identify() reads the device's values                 *)
(*   at_gap          suspended at `yield Gap`                              *)
(*   entering        the service asks the lockdown to start the relay      *)
(*   dialing         the relay's own connection is being made              *)
(*   reading         awaits the next syslog entry                          *)
(*   at_record       suspended at `yield record`                           *)
(*   leaving_service, leaving_lockdown   `async with` lets go of the pair  *)
(*   delay           the reconnect delay                                   *)
(*   ended, failed   stream() returned, or raised                          *)
(*   unreachable     device_info() raised, nothing was ever streamed       *)
(*                                                                         *)
(* A connection has one number.  Its lockdown session and its relay are    *)
(* two sockets of that number: `lockdowns` and `relays` are the sockets    *)
(* really open, `active` and `service` what the source has written down.   *)
(* Records are numbered in the order the device emits them; that number    *)
(* is also the device's clock.  The source does not see it: it tells two   *)
(* records apart by their keys, the time as the device wrote it, process,  *)
(* thread and text (`content`) and the UTC offset the current connection   *)
(* attached to that time (`offset`).                                       *)
(***************************************************************************)
EXTENDS Integers, Sequences, FiniteSets

CONSTANTS
    Window,             \* _DEDUPE_WINDOW
    Backlog,            \* how many past records the device replays
    MaxRetries,         \* ReconnectPolicy.max_retries
    ReconnectEnabled,   \* ReconnectPolicy.enabled
    StopPoints,         \* where in stream() an aclose() of another task may land
    Devices,            \* devices there are: what each of its records says, and
                        \* its UTC offset at each handshake
    MaxRecords,         \* bound: records the device ever emits
    MaxConnections      \* bound: handshakes the device ever accepts

ASSUME WindowAssumption == Window \in Nat \ {0}
ASSUME BacklogAssumption == Backlog \in Nat
ASSUME RetriesAssumption == MaxRetries \in Nat
ASSUME EnabledAssumption == ReconnectEnabled \in BOOLEAN
ASSUME BoundsAssumption == MaxRecords \in Nat /\ MaxConnections \in Nat
ASSUME DevicesAssumption ==
    Devices \subseteq [content : [1..MaxRecords -> Nat],
                       offset : [1..MaxConnections -> Nat]]

VARIABLES
    pc,             \* where the stream task is suspended
    lockdown,       \* local `lockdown`: number of the session in hand
    active,         \* self._active
    service,        \* self._stream_service
    closing,        \* self._closing
    connectedOnce,  \* local `connected_once`
    retries,        \* local `retries` of _connect()
    pendingGap,     \* local `pending_gap`: where the gap starts, or NoGap
    exit,           \* how the connection being left came to its end
    recent,         \* self._recent, keys, oldest first
    suppressing,    \* self._suppressing
    lastSeen,       \* self._last_seen, 0 for None
    told,           \* the last CaptureState given to on_state
    closer,         \* where aclose() is suspended
    items,          \* everything yielded
    lockdowns,      \* lockdown sockets open
    relays,         \* relay sockets open
    conns,          \* handshakes accepted so far
    emitted,        \* records the device has emitted
    cursor,         \* next record the current relay will send
    sent,           \* records any relay has sent
    content,        \* what each record says: its key but for the offset
    offset          \* the device's UTC offset at each handshake

conn == <<lockdown, active, service, lockdowns, relays, conns>>
policy == <<connectedOnce, retries, pendingGap, exit, told>>
dedupe == <<recent, suppressing, lastSeen>>
device == <<emitted, cursor, sent, content, offset>>
vars == <<pc, conn, policy, dedupe, device, closing, closer, items>>

NoSocket == 0
NoGap == -1

Points == {"idle", "probing", "ready", "opening", "retry_sleep", "identifying",
           "at_gap", "entering", "dialing", "reading", "at_record",
           "leaving_service", "leaving_lockdown", "delay"}
Terminal == {"ended", "failed"}
Exits == {"none", "exhausted", "recoverable", "fatal", "cancelled"}

ASSUME StopPointsAssumption ==
    StopPoints \subseteq (Points \ {"idle", "probing"})

Rec(t) == [type |-> "record", at |-> t]
GapFrom(s, e) == [type |-> "gap", start |-> s, end |-> e]

Stopped == closing

DeviceNow == emitted

-----------------------------------------------------------------------------
(* _key(): two records of one thread in one microsecond with one text share *)
(* their key, and a record replayed under another offset has another one.   *)
Key(r) == [content |-> content[r], offset |-> offset[lockdown]]

Known(r) == \E i \in DOMAIN recent : recent[i] = Key(r)

(* _remember(): the window is a dict, so a key already there keeps its place *)
(* and the oldest key leaves when it overflows.                              *)
Remembered(r) ==
    IF ~ReconnectEnabled \/ Known(r)
    THEN recent
    ELSE LET grown == Append(recent, Key(r))
         IN  IF Len(grown) > Window THEN Tail(grown) ELSE grown

(* Mutations of IsReplayed: suppress by count alone; do not suppress at all. *)
ReplayedByCount(r) == suppressing > 0
NeverReplayed(r) == FALSE

(* _is_replayed(): only the first Window records after an outage are asked. *)
IsReplayed(r) == suppressing > 0 /\ Known(r)

(* The oldest record a fresh relay replays. *)
BacklogStart == IF emitted > Backlog THEN emitted - Backlog + 1 ELSE 1

Init ==
    /\ pc = "idle"
    /\ lockdown = NoSocket /\ active = NoSocket /\ service = NoSocket
    /\ lockdowns = {} /\ relays = {} /\ conns = 0
    /\ connectedOnce = FALSE /\ retries = 0 /\ pendingGap = NoGap
    /\ exit = "none" /\ told = "nothing"
    /\ recent = <<>> /\ suppressing = 0 /\ lastSeen = 0
    /\ emitted = 0 /\ cursor = 1 /\ sent = {}
    /\ \E d \in Devices : content = d.content /\ offset = d.offset
    /\ closing = FALSE /\ closer = "idle"
    /\ items = <<>>

-----------------------------------------------------------------------------
(* Mutation of Opened: the session in hand is not written down. *)
OpenedUnregistered ==
    /\ conns < MaxConnections
    /\ conns' = conns + 1
    /\ lockdown' = conns + 1
    /\ lockdowns' = lockdowns \cup {conns + 1}
    /\ UNCHANGED <<active, service, relays>>

(* _open() returned: the session is registered whichever call opened it. *)
Opened ==
    /\ conns < MaxConnections
    /\ conns' = conns + 1
    /\ lockdown' = conns + 1
    /\ active' = conns + 1
    /\ lockdowns' = lockdowns \cup {conns + 1}
    /\ UNCHANGED <<service, relays>>

(* device_info(): a short-lived session, closed by identity. *)
ProbeOpen ==
    /\ pc = "idle"
    /\ Opened
    /\ pc' = "probing"
    /\ UNCHANGED <<policy, dedupe, device, closing, closer, items>>

ProbeFails ==
    /\ pc = "idle"
    /\ pc' = "unreachable"
    /\ UNCHANGED <<conn, policy, dedupe, device, closing, closer, items>>

ProbeClose ==
    /\ pc = "probing"
    /\ pc' = "ready"
    /\ active' = IF active = lockdown THEN NoSocket ELSE active
    /\ lockdowns' = lockdowns \ {lockdown}
    /\ UNCHANGED <<lockdown, service, relays, conns, policy, dedupe, device,
                   closing, closer, items>>

(* Mutation of TryConnect: the stop flag is not looked at. *)
TryConnectAnyway(n) == pc' = "opening" /\ retries' = n

(* _connect() looks at the stop flag before each attempt, never after one. *)
TryConnect(n) ==
    /\ pc' = IF Stopped THEN "ended" ELSE "opening"
    /\ retries' = n

Start ==
    /\ pc = "ready"
    /\ TryConnect(0)
    /\ UNCHANGED <<conn, connectedOnce, pendingGap, exit, told, dedupe, device,
                   closing, closer, items>>

OpenOk ==
    /\ pc = "opening"
    /\ Opened
    /\ connectedOnce' = TRUE
    /\ told' = "streaming"
    /\ pc' = "identifying"
    /\ UNCHANGED <<retries, pendingGap, exit, dedupe, device, closing, closer,
                   items>>

(* Mutation of OpenFails: a failed attempt is not counted. *)
OpenFailsUncounted(recoverable) ==
    /\ pc = "opening"
    /\ pc' = IF connectedOnce /\ ReconnectEnabled /\ recoverable /\ retries < MaxRetries
             THEN "retry_sleep" ELSE "failed"
    /\ UNCHANGED <<conn, policy, dedupe, device, closing, closer, items>>

OpenFails(recoverable) ==
    /\ pc = "opening"
    /\ IF connectedOnce /\ ReconnectEnabled /\ recoverable /\ retries < MaxRetries
       THEN pc' = "retry_sleep" /\ retries' = retries + 1
       ELSE pc' = "failed" /\ UNCHANGED retries
    /\ UNCHANGED <<conn, connectedOnce, pendingGap, exit, told, dedupe, device,
                   closing, closer, items>>

RetryWake ==
    /\ pc = "retry_sleep"
    /\ TryConnect(retries)
    /\ UNCHANGED <<conn, connectedOnce, pendingGap, exit, told, dedupe, device,
                   closing, closer, items>>

(* Mutation of Identified: the gap is yielded and stays pending. *)
IdentifiedKeepsGap ==
    /\ pc = "identifying"
    /\ IF pendingGap = NoGap
       THEN pc' = "entering" /\ UNCHANGED <<suppressing, items>>
       ELSE /\ pc' = "at_gap"
            /\ items' = Append(items, GapFrom(pendingGap, DeviceNow))
            /\ suppressing' = Window
    /\ UNCHANGED <<conn, policy, recent, lastSeen, device, closing, closer>>

(* Every outage is yielded as a gap before the first record that follows it. *)
Identified ==
    /\ pc = "identifying"
    /\ IF pendingGap = NoGap
       THEN pc' = "entering" /\ UNCHANGED <<pendingGap, suppressing, items>>
       ELSE /\ pc' = "at_gap"
            /\ items' = Append(items, GapFrom(pendingGap, DeviceNow))
            /\ pendingGap' = NoGap
            /\ suppressing' = Window
    /\ UNCHANGED <<conn, connectedOnce, retries, exit, told, recent, lastSeen,
                   device, closing, closer>>

PullAfterGap ==
    /\ pc = "at_gap"
    /\ pc' = "entering"
    /\ UNCHANGED <<conn, policy, dedupe, device, closing, closer, items>>

(* Starting the relay is a request over the lockdown session ... *)
StartRelay ==
    /\ pc = "entering"
    /\ lockdown \in lockdowns
    /\ pc' = "dialing"
    /\ UNCHANGED <<conn, policy, dedupe, device, closing, closer, items>>

(* ... and connecting to it makes a socket of its own.  The relay opens with *)
(* the device's backlog.                                                     *)
DialOk ==
    /\ pc = "dialing"
    /\ pc' = "reading"
    /\ relays' = relays \cup {lockdown}
    /\ service' = lockdown
    /\ cursor' = BacklogStart
    /\ UNCHANGED <<lockdown, active, lockdowns, conns, policy, dedupe, emitted,
                   sent, content, offset, closing, closer, items>>

Read ==
    /\ pc = "reading"
    /\ lockdown \in relays
    /\ cursor <= emitted
    /\ cursor' = cursor + 1
    /\ sent' = sent \cup {cursor}
    /\ suppressing' = IF suppressing = 0 THEN 0 ELSE suppressing - 1
    /\ IF IsReplayed(cursor)
       THEN UNCHANGED <<pc, recent, lastSeen, items>>
       ELSE /\ pc' = "at_record"
            /\ recent' = Remembered(cursor)
            /\ lastSeen' = cursor
            /\ items' = Append(items, Rec(cursor))
    /\ UNCHANGED <<conn, policy, emitted, content, offset, closing, closer>>

PullAfterRecord ==
    /\ pc = "at_record"
    /\ pc' = "reading"
    /\ UNCHANGED <<conn, policy, dedupe, device, closing, closer, items>>

-----------------------------------------------------------------------------
(* The body of `async with lockdown, service` is over; the service, if it was *)
(* entered, is released before the lockdown that started it.                  *)
Leave(how) ==
    /\ exit' = how
    /\ pc' = IF pc \in {"reading", "at_record"} THEN "leaving_service"
                                                ELSE "leaving_lockdown"
    /\ UNCHANGED <<conn, connectedOnce, retries, pendingGap, told, dedupe,
                   device, closing, closer, items>>

(* The device hangs up: quietly, with an error waiting may cure, or with one *)
(* it may not.                                                               *)
HangUp(how) ==
    /\ pc \in {"entering", "dialing", "reading"}
    /\ how = "exhausted" => pc = "reading"
    /\ Leave(how)

(* A socket closed underneath the pending request fails it. *)
SocketGone ==
    /\ \/ pc = "reading" /\ lockdown \notin relays
       \/ pc = "entering" /\ lockdown \notin lockdowns
    /\ Leave("recoverable")

(* Mutation of LeaveService: the `async with` operands the other way round. *)
LeaveLockdownFirst ==
    /\ pc = "leaving_service"
    /\ pc' = "leaving_lockdown"
    /\ lockdowns' = lockdowns \ {lockdown}
    /\ UNCHANGED <<lockdown, active, service, relays, conns, policy, dedupe,
                   device, closing, closer, items>>

LeaveService ==
    /\ pc = "leaving_service"
    /\ pc' = "leaving_lockdown"
    /\ relays' = relays \ {lockdown}
    /\ UNCHANGED <<lockdown, active, service, lockdowns, conns, policy, dedupe,
                   device, closing, closer, items>>

(* The lockdown goes, both fields are cleared, and _outage_reason() decides: *)
(* a stop or a disabled policy ends the stream, an error that waiting cannot *)
(* cure is raised, anything else is an outage.                               *)
LeaveLockdown ==
    /\ pc = "leaving_lockdown"
    /\ lockdowns' = lockdowns \ {lockdown}
    /\ service' = NoSocket
    /\ active' = NoSocket
    /\ exit' = "none"
    /\ IF exit = "cancelled" \/ Stopped \/ ~ReconnectEnabled
       THEN pc' = "ended" /\ UNCHANGED <<pendingGap, told>>
       ELSE IF exit = "fatal"
            THEN pc' = "failed" /\ UNCHANGED <<pendingGap, told>>
            ELSE /\ pc' = "delay"
                 /\ pendingGap' = IF lastSeen = 0 THEN DeviceNow ELSE lastSeen
                 /\ told' = "reconnecting"
    /\ UNCHANGED <<lockdown, relays, conns, connectedOnce, retries, dedupe,
                   device, closing, closer, items>>

DelayOver ==
    /\ pc = "delay"
    /\ TryConnect(0)
    /\ UNCHANGED <<conn, connectedOnce, pendingGap, exit, told, dedupe, device,
                   closing, closer, items>>

(* The consumer closes the generator, or its task is cancelled: the exception *)
(* arrives at whichever await or yield the stream is suspended at.            *)
Cancel ==
    \/ /\ pc \in {"ready", "opening", "retry_sleep", "identifying", "at_gap",
                  "delay"}
       /\ pc' = "ended"
       /\ UNCHANGED <<conn, policy, dedupe, device, closing, closer, items>>
    \/ /\ pc \in {"entering", "dialing", "reading", "at_record"}
       /\ Leave("cancelled")
    \/ /\ pc \in {"leaving_service", "leaving_lockdown"}
       /\ exit' = "cancelled"
       /\ UNCHANGED <<pc, conn, connectedOnce, retries, pendingGap, told, dedupe,
                      device, closing, closer, items>>

-----------------------------------------------------------------------------
(* aclose() after the service has been dealt with: close whatever lockdown *)
(* session is registered.                                                  *)
CloseActive ==
    /\ active' = NoSocket
    /\ lockdowns' = lockdowns \ {active}
    /\ closer' = IF active = NoSocket THEN "closed" ELSE "lockdown"

(* aclose() up to its first await.  capture() calls it once the generator has *)
(* finished; a stop button calls it from another task, at a StopPoint.        *)
Aclose ==
    /\ closer = "idle"
    /\ pc \in Terminal \cup StopPoints
    /\ closing' = TRUE
    /\ IF service = NoSocket
       THEN CloseActive /\ UNCHANGED <<service, relays>>
       ELSE /\ service' = NoSocket
            /\ relays' = relays \ {service}
            /\ closer' = "service"
            /\ UNCHANGED <<active, lockdowns>>
    /\ UNCHANGED <<pc, lockdown, conns, policy, dedupe, device, items>>

AcloseAfterService ==
    /\ closer = "service"
    /\ CloseActive
    /\ UNCHANGED <<pc, lockdown, service, relays, conns, policy, dedupe, device,
                   closing, items>>

AcloseReturns ==
    /\ closer = "lockdown"
    /\ closer' = "closed"
    /\ UNCHANGED <<pc, conn, policy, dedupe, device, closing, items>>

Emit ==
    /\ emitted < MaxRecords
    /\ emitted' = emitted + 1
    /\ UNCHANGED <<pc, conn, policy, dedupe, cursor, sent, content, offset,
                   closing, closer, items>>

-----------------------------------------------------------------------------
Open == OpenOk \/ \E r \in BOOLEAN : OpenFails(r)
Dial == DialOk \/ HangUp("recoverable") \/ HangUp("fatal")
Probe == ProbeOpen \/ ProbeFails

(* Steps of the stream task that need nobody outside the program. *)
StreamStep ==
    \/ ProbeClose \/ Start \/ RetryWake \/ Identified \/ PullAfterGap
    \/ StartRelay \/ Read \/ PullAfterRecord \/ SocketGone
    \/ LeaveService \/ LeaveLockdown \/ DelayOver

CloserStep == Aclose \/ AcloseAfterService \/ AcloseReturns

Done ==
    /\ \/ pc \in Terminal /\ closer = "closed"
       \/ pc = "unreachable"
    /\ UNCHANGED vars

Next ==
    \/ Probe \/ StreamStep \/ Open \/ DialOk
    \/ \E how \in {"exhausted", "recoverable", "fatal"} : HangUp(how)
    \/ Cancel \/ CloserStep \/ Emit \/ Done

Spec == Init /\ [][Next]_vars

(* Tasks keep being scheduled, timers fire, a handshake succeeds or fails, and *)
(* whoever iterates keeps pulling; nothing makes the device speak or hang up,  *)
(* and nobody has to press stop while the stream runs.                         *)
Fairness ==
    /\ WF_vars(StreamStep)
    /\ WF_vars(Open)
    /\ WF_vars(pc = "dialing" /\ Dial)
    /\ WF_vars(pc \in Terminal /\ Aclose)
    /\ WF_vars(AcloseAfterService \/ AcloseReturns)

FairSpec == Spec /\ Fairness

-----------------------------------------------------------------------------
TasksTypeOK ==
    /\ pc \in Points \cup Terminal \cup {"unreachable"}
    /\ conns \in 0..MaxConnections
    /\ lockdown \in 0..conns /\ active \in 0..conns /\ service \in 0..conns
    /\ lockdowns \subseteq 1..conns /\ relays \subseteq 1..conns
    /\ closing \in BOOLEAN
    /\ closer \in {"idle", "service", "lockdown", "closed"}
    /\ connectedOnce \in BOOLEAN
    /\ retries \in 0..MaxRetries
    /\ exit \in Exits
    /\ told \in {"nothing", "streaming", "reconnecting"}

RecordsTypeOK ==
    /\ emitted \in 0..MaxRecords
    /\ cursor \in 1..(MaxRecords + 1)
    /\ sent \subseteq 1..MaxRecords
    /\ pendingGap \in {NoGap} \cup 0..MaxRecords
    /\ content \in [1..MaxRecords -> Nat]
    /\ offset \in [1..MaxConnections -> Nat]
    /\ recent \in Seq([content : Nat, offset : Nat]) /\ Len(recent) <= Window
    /\ suppressing \in 0..Window
    /\ lastSeen \in 0..MaxRecords
    /\ items \in Seq([type : {"record"}, at : 1..MaxRecords]
                     \cup [type : {"gap"}, start : 0..MaxRecords,
                           end : 0..MaxRecords])

(* Every variable keeps its range; the dedupe window never outgrows Window. *)
TypeOK == TasksTypeOK /\ RecordsTypeOK

(* Once aclose() has returned, the source holds neither of its two sockets. *)
(* The sockets are opened and closed by two tasks; the proof needs every    *)
(* open one to be written down where aclose() looks.                        *)
ReleasedHoldsNothing ==
    closer = "closed" => lockdowns = {} /\ relays = {}

(* A relay never outlives the lockdown session that started it: both the    *)
(* stream's own exit and aclose() release the service first.                *)
RelayGoesFirst == relays \subseteq lockdowns

(* Suppression costs nothing but doubles: a record the device sent and the  *)
(* stream swallowed says what a delivered one says, and every outage makes  *)
(* the source swallow at most Window of them.                               *)
Delivered == {items[i].at : i \in {j \in DOMAIN items : items[j].type = "record"}}
Outages == {i \in DOMAIN items : items[i].type = "gap"}
Swallowed == sent \ Delivered
OnlyDoublesSwallowed ==
    /\ \A r \in Swallowed : \E d \in Delivered : content[d] = content[r]
    /\ Cardinality(Swallowed) <= Window * Cardinality(Outages)

(* What _is_replayed() says of itself, that what it suppresses is backlog   *)
(* already delivered.  It fails for doubles: OsTraceSource_Doubles.cfg.     *)
NothingNewSuppressed == sent = Delivered

(* That no record is delivered again.  It fails for a device whose offset   *)
(* moves during an outage: OsTraceSource_OffsetMoved.cfg.                   *)
NothingTwice ==
    \A i, j \in DOMAIN items :
        items[i].type = "record" /\ items[j].type = "record"
        /\ items[i].at = items[j].at => i = j

(* From the drop to the next connection an outage is never forgotten: its   *)
(* gap is pending and the listener has been told, however many attempts to  *)
(* reconnect fail in between.                                               *)
Away == pc \in {"delay", "retry_sleep"} \/ (pc = "opening" /\ connectedOnce)
OutageIsPending ==
    /\ Away => pendingGap # NoGap /\ told = "reconnecting"
    /\ pc \in {"entering", "dialing", "reading", "at_record", "at_gap"} =>
          pendingGap = NoGap /\ told = "streaming"

(* A device no two of whose records, whenever they are sent, share a key,   *)
(* and which never changes the key of one.                                  *)
ToldApart ==
    /\ \A r, s \in 1..MaxRecords : content[r] = content[s] => r = s
    /\ \A m, n \in 1..MaxConnections : offset[m] = offset[n]

(* The source keeps the LogSource promise across reconnects: each record    *)
(* once, in order, and a gap that starts at the last record wherever one    *)
(* was lost; of a device whose keys tell its records apart, which no step   *)
(* changes.                                                                 *)
Promise == INSTANCE LogStream
    WITH Times <- 0..MaxRecords,
         items <- IF ToldApart THEN items ELSE <<>>,
         last <- IF ToldApart THEN lastSeen ELSE 0,
         over <- ToldApart /\ pc \in Terminal \cup {"unreachable"}
KeepsLogStream == Promise!Spec

(* A stop ends the stream, wherever it lands, and gives both sockets back.  *)
StopEnds == closing ~> (pc \in Terminal /\ closer = "closed")

(* An outage comes to an end: the capture resumes behind a gap, or the      *)
(* retries run out and the stream says so.                                  *)
OutageResolves == (pc = "delay") ~> (pc \in Terminal \/ pc = "at_gap")
=============================================================================
