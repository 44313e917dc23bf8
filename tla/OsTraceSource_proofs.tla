------------------------ MODULE OsTraceSource_proofs ------------------------
(***************************************************************************)
(* Theorems about the live source, for every window, backlog, retry count  *)
(* and bound.                                                              *)
(***************************************************************************)
EXTENDS OsTraceSource, SequenceTheorems, FiniteSetTheorems, TLAPS

(* Where the stream task has a session in hand. *)
InSession == {"probing", "identifying", "at_gap", "entering", "dialing",
              "reading", "at_record", "leaving_service", "leaving_lockdown"}

SessionInHand == pc \in InSession => lockdown \in 1..conns

(* The tasks' own variables do not depend on the records. *)
TasksInv == TasksTypeOK /\ SessionInHand

USE WindowAssumption, BacklogAssumption, RetriesAssumption, EnabledAssumption,
    BoundsAssumption, StopPointsAssumption, DevicesAssumption

LEMMA InitTasks == Init => TasksInv
<1> SUFFICES ASSUME Init PROVE TasksInv
  OBVIOUS
<1>1. conns \in 0..MaxConnections /\ retries \in 0..MaxRetries
  BY DEF Init
<1>2. lockdown \in 0..conns /\ active \in 0..conns /\ service \in 0..conns
  BY DEF Init, NoSocket
<1>3. pc \in Points /\ exit \in Exits /\ pc \notin InSession
  BY DEF Init, Points, Exits, InSession
<1>4. QED
  BY <1>1, <1>2, <1>3 DEF Init, TasksInv, TasksTypeOK, SessionInHand

LEMMA NextTasks == TasksInv /\ [Next]_vars => TasksInv'
<1> SUFFICES ASSUME TasksInv, [Next]_vars PROVE TasksInv'
  OBVIOUS
<1> USE DEF TasksInv, TasksTypeOK, SessionInHand, InSession, Points, Terminal,
            Exits, NoSocket, conn, policy, dedupe, device
<1>1. CASE ProbeOpen
  BY <1>1 DEF ProbeOpen, Opened
<1>2. CASE ProbeFails
  BY <1>2 DEF ProbeFails
<1>3. CASE ProbeClose
  BY <1>3 DEF ProbeClose
<1>4. CASE Start
  BY <1>4 DEF Start, TryConnect, Stopped
<1>5. CASE OpenOk
  BY <1>5 DEF OpenOk, Opened
<1>6. CASE \E r \in BOOLEAN : OpenFails(r)
  BY <1>6 DEF OpenFails
<1>7. CASE RetryWake
  BY <1>7 DEF RetryWake, TryConnect, Stopped
<1>8. CASE Identified
  BY <1>8 DEF Identified
<1>9. CASE PullAfterGap
  BY <1>9 DEF PullAfterGap
<1>10. CASE StartRelay
  BY <1>10 DEF StartRelay
<1>11. CASE DialOk
  BY <1>11 DEF DialOk
<1>12. CASE Read
  BY <1>12 DEF Read
<1>13. CASE PullAfterRecord
  BY <1>13 DEF PullAfterRecord
<1>14. CASE \E how \in {"exhausted", "recoverable", "fatal"} : HangUp(how)
  BY <1>14 DEF HangUp, Leave
<1>15. CASE SocketGone
  BY <1>15 DEF SocketGone, Leave
<1>16. CASE LeaveService
  BY <1>16 DEF LeaveService
<1>17. CASE LeaveLockdown
  BY <1>17 DEF LeaveLockdown, Stopped
<1>18. CASE DelayOver
  BY <1>18 DEF DelayOver, TryConnect, Stopped
<1>19. CASE Cancel
  BY ZenonT(40), <1>19 DEF Cancel, Leave
<1>20. CASE Aclose
  <2>1. UNCHANGED <<pc, lockdown, conns, connectedOnce, retries, exit, told>>
    BY <1>20 DEF Aclose
  <2>2. closing' = TRUE
    BY <1>20 DEF Aclose
  <2>3. CASE service = NoSocket
    <3>1. /\ active' = NoSocket /\ lockdowns' = lockdowns \ {active}
          /\ UNCHANGED <<service, relays>>
          /\ closer' \in {"closed", "lockdown"}
      BY <1>20, <2>3 DEF Aclose, CloseActive
    <3>2. QED
      BY <2>1, <2>2, <3>1
  <2>4. CASE service # NoSocket
    <3>1. /\ service' = NoSocket /\ relays' = relays \ {service}
          /\ UNCHANGED <<active, lockdowns>>
          /\ closer' = "service"
      BY <1>20, <2>4 DEF Aclose
    <3>2. QED
      BY <2>1, <2>2, <3>1
  <2>5. QED
    BY <2>3, <2>4
<1>21. CASE AcloseAfterService
  BY <1>21 DEF AcloseAfterService, CloseActive
<1>22. CASE AcloseReturns
  BY <1>22 DEF AcloseReturns
<1>23. CASE Emit
  BY <1>23 DEF Emit
<1>24. CASE Done \/ UNCHANGED vars
  <2>1. UNCHANGED vars
    BY <1>24 DEF Done
  <2>2. /\ UNCHANGED <<pc, lockdown, active, service, lockdowns, relays, conns>>
        /\ UNCHANGED <<connectedOnce, retries, exit, told, closing, closer>>
    BY <2>1 DEF vars
  <2>3. QED
    BY <2>2
<1>25. QED
  BY <1>1, <1>2, <1>3, <1>4, <1>5, <1>6, <1>7, <1>8, <1>9, <1>10, <1>11, <1>12,
     <1>13, <1>14, <1>15, <1>16, <1>17, <1>18, <1>19, <1>20, <1>21, <1>22,
     <1>23, <1>24
     DEF Next, Probe, StreamStep, Open, CloserStep

Keys == [content : Nat, offset : Nat]

(* A record that arrives over a session in hand has a key. *)
LEMMA KeyTyped ==
    ASSUME TasksInv, RecordsTypeOK, pc \in InSession, NEW r \in 1..MaxRecords
    PROVE  /\ lockdown \in 1..MaxConnections
           /\ Key(r) = [content |-> content[r], offset |-> offset[lockdown]]
           /\ Key(r) \in Keys
<1>1. lockdown \in 1..MaxConnections
  BY DEF TasksInv, TasksTypeOK, SessionInHand
<1>2. content[r] \in Nat /\ offset[lockdown] \in Nat
  BY <1>1 DEF RecordsTypeOK
<1>3. QED
  BY <1>1, <1>2 DEF Key, Keys

(* _remember() keeps the window a sequence of keys no longer than Window. *)
LEMMA RememberedBounded ==
    ASSUME NEW r, Key(r) \in Keys, recent \in Seq(Keys), Len(recent) <= Window
    PROVE  Remembered(r) \in Seq(Keys) /\ Len(Remembered(r)) <= Window
<1>1. CASE ~ReconnectEnabled \/ Known(r)
  BY <1>1 DEF Remembered
<1>2. CASE ~(~ReconnectEnabled \/ Known(r))
  <2> DEFINE key == Key(r)
             grown == Append(recent, key)
  <2>1. key \in Keys
    OBVIOUS
  <2>2. Remembered(r) = IF Len(grown) > Window THEN Tail(grown) ELSE grown
    BY <1>2 DEF Remembered
  <2> HIDE DEF key
  <2>3. grown \in Seq(Keys) /\ Len(grown) = Len(recent) + 1
    BY <2>1
  <2>4. Tail(grown) \in Seq(Keys) /\ Len(Tail(grown)) = Len(recent)
    BY <2>3
  <2>5. Len(recent) \in Nat /\ Window \in Nat
    OBVIOUS
  <2> HIDE DEF grown
  <2>6. CASE Len(grown) > Window
    BY <2>2, <2>4, <2>6
  <2>7. CASE ~(Len(grown) > Window)
    BY <2>3, <2>2, <2>5, <2>7
  <2>8. QED
    BY <2>6, <2>7
<1>3. QED
  BY <1>1, <1>2

LEMMA InitRecords == Init => RecordsTypeOK
<1> SUFFICES ASSUME Init PROVE RecordsTypeOK
  OBVIOUS
<1>1. recent \in Seq(Keys) /\ Len(recent) = 0
  BY DEF Init
<1>0. /\ content \in [1..MaxRecords -> Nat]
      /\ offset \in [1..MaxConnections -> Nat]
  BY DEF Init
<1>2. items \in Seq([type : {"record"}, at : 1..MaxRecords]
                   \cup [type : {"gap"}, start : 0..MaxRecords,
                         end : 0..MaxRecords])
  BY DEF Init
<1>3. QED
  BY <1>0, <1>1, <1>2 DEF Init, RecordsTypeOK, Keys

LEMMA NextRecords == TasksInv /\ RecordsTypeOK /\ [Next]_vars => RecordsTypeOK'
<1> SUFFICES ASSUME TasksInv, RecordsTypeOK, [Next]_vars PROVE RecordsTypeOK'
  OBVIOUS
<1> USE DEF RecordsTypeOK, NoGap, policy, dedupe, device
<1>1. CASE ProbeOpen
  BY <1>1 DEF ProbeOpen, Opened
<1>2. CASE ProbeFails
  BY <1>2 DEF ProbeFails
<1>3. CASE ProbeClose
  BY <1>3 DEF ProbeClose
<1>4. CASE Start
  BY <1>4 DEF Start, TryConnect, Stopped
<1>5. CASE OpenOk
  BY <1>5 DEF OpenOk, Opened
<1>6. CASE \E r \in BOOLEAN : OpenFails(r)
  BY <1>6 DEF OpenFails
<1>7. CASE RetryWake
  BY <1>7 DEF RetryWake, TryConnect, Stopped
<1>8. CASE Identified
  <2>1. CASE pendingGap = NoGap
    BY <1>8, <2>1 DEF Identified
  <2>2. CASE pendingGap # NoGap
    <3>1. GapFrom(pendingGap, DeviceNow) \in
             [type : {"gap"}, start : 0..MaxRecords, end : 0..MaxRecords]
      BY <2>2 DEF GapFrom, DeviceNow
    <3>2. items' \in Seq([type : {"record"}, at : 1..MaxRecords]
                        \cup [type : {"gap"}, start : 0..MaxRecords,
                              end : 0..MaxRecords])
      <4>1. items' = Append(items, GapFrom(pendingGap, DeviceNow))
        BY <1>8, <2>2 DEF Identified
      <4>2. QED
        BY <3>1, <4>1
    <3>3. QED
      BY <1>8, <2>2, <3>2 DEF Identified
  <2>3. QED
    BY <2>1, <2>2
<1>9. CASE PullAfterGap
  BY <1>9 DEF PullAfterGap
<1>10. CASE StartRelay
  BY <1>10 DEF StartRelay
<1>11. CASE DialOk
  BY <1>11 DEF DialOk, BacklogStart
<1>12. CASE Read
  <2>1. cursor \in 1..MaxRecords
    BY <1>12 DEF Read
  <2>2. Remembered(cursor) \in Seq(Keys) /\ Len(Remembered(cursor)) <= Window
    <3>1. pc \in InSession
      BY <1>12 DEF Read, InSession
    <3>2. Key(cursor) \in Keys
      BY <2>1, <3>1, KeyTyped
    <3>3. recent \in Seq(Keys) /\ Len(recent) <= Window
      BY DEF Keys
    <3>4. QED
      BY <3>2, <3>3, RememberedBounded
  <2>3. emitted' \in 0..MaxRecords /\ cursor' \in 1..(MaxRecords + 1)
        /\ sent' \subseteq 1..MaxRecords /\ suppressing' \in 0..Window
        /\ pendingGap' = pendingGap /\ UNCHANGED <<content, offset>>
    BY <1>12, <2>1 DEF Read
  <2>4. CASE IsReplayed(cursor)
    BY <1>12, <2>3, <2>4 DEF Read
  <2>5. CASE ~IsReplayed(cursor)
    <3>1. items' = Append(items, Rec(cursor)) /\ recent' = Remembered(cursor)
          /\ lastSeen' = cursor
      BY <1>12, <2>5 DEF Read
    <3>2. Rec(cursor) \in [type : {"record"}, at : 1..MaxRecords]
      BY <2>1 DEF Rec
    <3>3. items' \in Seq([type : {"record"}, at : 1..MaxRecords]
                        \cup [type : {"gap"}, start : 0..MaxRecords,
                              end : 0..MaxRecords])
      BY <3>1, <3>2
    <3>4. QED
      <4>1. recent' \in Seq([content : Nat, offset : Nat]) /\ Len(recent') <= Window
        BY <2>2, <3>1 DEF Keys
      <4>2. lastSeen' \in 0..MaxRecords
        BY <2>1, <3>1
      <4>3. QED
        BY <2>3, <3>3, <4>1, <4>2
  <2>6. QED
    BY <2>4, <2>5
<1>13. CASE PullAfterRecord
  BY <1>13 DEF PullAfterRecord
<1>14. CASE \E how \in {"exhausted", "recoverable", "fatal"} : HangUp(how)
  BY <1>14 DEF HangUp, Leave
<1>15. CASE SocketGone
  BY <1>15 DEF SocketGone, Leave
<1>16. CASE LeaveService
  BY <1>16 DEF LeaveService
<1>17. CASE LeaveLockdown
  BY <1>17 DEF LeaveLockdown, Stopped, DeviceNow
<1>18. CASE DelayOver
  BY <1>18 DEF DelayOver, TryConnect, Stopped
<1>19. CASE Cancel
  BY <1>19 DEF Cancel, Leave
<1>20. CASE Aclose
  BY <1>20 DEF Aclose, CloseActive
<1>21. CASE AcloseAfterService
  BY <1>21 DEF AcloseAfterService, CloseActive
<1>22. CASE AcloseReturns
  BY <1>22 DEF AcloseReturns
<1>23. CASE Emit
  BY <1>23 DEF Emit
<1>24. CASE Done \/ UNCHANGED vars
  BY <1>24 DEF Done, vars
<1>25. QED
  BY <1>1, <1>2, <1>3, <1>4, <1>5, <1>6, <1>7, <1>8, <1>9, <1>10, <1>11, <1>12,
     <1>13, <1>14, <1>15, <1>16, <1>17, <1>18, <1>19, <1>20, <1>21, <1>22,
     <1>23, <1>24
     DEF Next, Probe, StreamStep, Open, CloserStep

(* Every variable of the source keeps its range, the dedupe window included. *)
THEOREM TypeCorrect == Spec => []TypeOK
<1>1. Init => TasksInv /\ RecordsTypeOK
  BY InitTasks, InitRecords
<1>2. TasksInv /\ RecordsTypeOK /\ [Next]_vars => (TasksInv /\ RecordsTypeOK)'
  BY NextTasks, NextRecords
<1>3. TasksInv /\ RecordsTypeOK => TypeOK
  BY DEF TasksInv, TypeOK
<1>4. QED
  BY <1>1, <1>2, <1>3, PTL DEF Spec

-----------------------------------------------------------------------------
(* Why aclose() finds everything that is open.                               *)

(* No socket is open before a handshake, or after the pair has been left. *)
NothingYet == {"idle", "ready", "opening", "retry_sleep", "delay", "failed",
               "unreachable"}

(* Where a relay may be open, and where the source still names one. *)
RelayPoints == {"reading", "at_record", "leaving_service"}
ServicePoints == RelayPoints \cup {"leaving_lockdown"}

(* The one lockdown session that may be open is the registered one. *)
LockdownRegistered ==
    /\ lockdowns # {} => lockdowns = {lockdown} /\ active = lockdown
    /\ pc \in NothingYet => lockdowns = {}

(* So is the one relay. *)
RelayRegistered ==
    /\ relays # {} => relays = {lockdown} /\ service = lockdown
    /\ relays # {} => pc \in RelayPoints
    /\ service # NoSocket => pc \in ServicePoints

(* Until aclose() is called, the session in hand is open. *)
SessionOpen ==
    pc \in InSession /\ closer = "idle" => lockdown \in lockdowns

(* What aclose() has closed stays closed, because the stream task is nowhere *)
(* from which it opens a socket without looking at the stop flag.            *)
StopHolds ==
    /\ closing <=> closer # "idle"
    /\ closing => pc \notin {"idle", "probing", "opening", "dialing", "unreachable"}
    /\ closer = "service" => pc \in ServicePoints \cup Terminal /\ relays = {}
    /\ closer \in {"lockdown", "closed"} => lockdowns = {} /\ relays = {}

ReleaseInv ==
    TasksInv /\ LockdownRegistered /\ RelayRegistered /\ SessionOpen /\ StopHolds

(* No other task stops the source in the middle of a handshake. *)
StopsOutsideHandshake == StopPoints \cap {"opening", "dialing"} = {}

LEMMA InitReleaseInv == Init => ReleaseInv
<1>1. Init => TasksInv
  BY InitTasks
<1>2. Init => LockdownRegistered /\ RelayRegistered /\ SessionOpen /\ StopHolds
  BY DEF Init, LockdownRegistered, RelayRegistered, SessionOpen, StopHolds,
         NothingYet, RelayPoints, ServicePoints, InSession, NoSocket, Terminal
<1>3. QED
  BY <1>1, <1>2 DEF ReleaseInv

LEMMA KeepsLockdown ==
    ASSUME ReleaseInv, [Next]_vars
    PROVE  LockdownRegistered'
<1> USE DEF ReleaseInv, TasksInv, TasksTypeOK, SessionInHand, LockdownRegistered,
            StopHolds, NothingYet,
            Points, Terminal, NoSocket, InSession, conn, policy
<1>1. CASE ProbeOpen
  BY <1>1 DEF ProbeOpen, Opened
<1>2. CASE ProbeFails
  BY <1>2 DEF ProbeFails
<1>3. CASE ProbeClose
  BY <1>3 DEF ProbeClose
<1>4. CASE Start
  BY <1>4 DEF Start, TryConnect, Stopped
<1>5. CASE OpenOk
  BY <1>5 DEF OpenOk, Opened
<1>6. CASE \E r \in BOOLEAN : OpenFails(r)
  BY <1>6 DEF OpenFails
<1>7. CASE RetryWake
  BY <1>7 DEF RetryWake, TryConnect, Stopped
<1>8. CASE Identified
  BY <1>8 DEF Identified
<1>9. CASE PullAfterGap
  BY <1>9 DEF PullAfterGap
<1>10. CASE StartRelay
  BY <1>10 DEF StartRelay
<1>11. CASE DialOk
  BY <1>11 DEF DialOk
<1>12. CASE Read
  BY <1>12 DEF Read
<1>13. CASE PullAfterRecord
  BY <1>13 DEF PullAfterRecord
<1>14. CASE \E how \in {"exhausted", "recoverable", "fatal"} : HangUp(how)
  BY <1>14 DEF HangUp, Leave
<1>15. CASE SocketGone
  BY <1>15 DEF SocketGone, Leave
<1>16. CASE LeaveService
  BY <1>16 DEF LeaveService
<1>17. CASE LeaveLockdown
  BY <1>17 DEF LeaveLockdown, Stopped
<1>18. CASE DelayOver
  BY <1>18 DEF DelayOver, TryConnect, Stopped
<1>19. CASE Cancel
  BY <1>19 DEF Cancel, Leave
<1>20. CASE Aclose
  BY <1>20 DEF Aclose, CloseActive
<1>21. CASE AcloseAfterService
  BY <1>21 DEF AcloseAfterService, CloseActive
<1>22. CASE AcloseReturns
  BY <1>22 DEF AcloseReturns
<1>23. CASE Emit
  BY <1>23 DEF Emit
<1>24. CASE Done \/ UNCHANGED vars
  BY <1>24 DEF Done, vars
<1>25. QED
  BY <1>1, <1>2, <1>3, <1>4, <1>5, <1>6, <1>7, <1>8, <1>9, <1>10, <1>11, <1>12,
     <1>13, <1>14, <1>15, <1>16, <1>17, <1>18, <1>19, <1>20, <1>21, <1>22,
     <1>23, <1>24
     DEF Next, Probe, StreamStep, Open, CloserStep


LEMMA KeepsRelay ==
    ASSUME ReleaseInv, [Next]_vars
    PROVE  RelayRegistered'
<1> USE DEF ReleaseInv, TasksInv, TasksTypeOK, SessionInHand, RelayRegistered,
            RelayPoints, ServicePoints,
            Points, Terminal, NoSocket, InSession, conn, policy
<1>1. CASE ProbeOpen
  BY <1>1 DEF ProbeOpen, Opened
<1>2. CASE ProbeFails
  BY <1>2 DEF ProbeFails
<1>3. CASE ProbeClose
  BY <1>3 DEF ProbeClose
<1>4. CASE Start
  BY <1>4 DEF Start, TryConnect, Stopped
<1>5. CASE OpenOk
  BY <1>5 DEF OpenOk, Opened
<1>6. CASE \E r \in BOOLEAN : OpenFails(r)
  BY <1>6 DEF OpenFails
<1>7. CASE RetryWake
  BY <1>7 DEF RetryWake, TryConnect, Stopped
<1>8. CASE Identified
  BY <1>8 DEF Identified
<1>9. CASE PullAfterGap
  BY <1>9 DEF PullAfterGap
<1>10. CASE StartRelay
  BY <1>10 DEF StartRelay
<1>11. CASE DialOk
  BY <1>11 DEF DialOk
<1>12. CASE Read
  BY <1>12 DEF Read
<1>13. CASE PullAfterRecord
  BY <1>13 DEF PullAfterRecord
<1>14. CASE \E how \in {"exhausted", "recoverable", "fatal"} : HangUp(how)
  BY <1>14 DEF HangUp, Leave
<1>15. CASE SocketGone
  BY <1>15 DEF SocketGone, Leave
<1>16. CASE LeaveService
  BY <1>16 DEF LeaveService
<1>17. CASE LeaveLockdown
  BY <1>17 DEF LeaveLockdown, Stopped
<1>18. CASE DelayOver
  BY <1>18 DEF DelayOver, TryConnect, Stopped
<1>19. CASE Cancel
  BY <1>19 DEF Cancel, Leave
<1>20. CASE Aclose
  BY <1>20 DEF Aclose, CloseActive
<1>21. CASE AcloseAfterService
  BY <1>21 DEF AcloseAfterService, CloseActive
<1>22. CASE AcloseReturns
  BY <1>22 DEF AcloseReturns
<1>23. CASE Emit
  BY <1>23 DEF Emit
<1>24. CASE Done \/ UNCHANGED vars
  BY <1>24 DEF Done, vars
<1>25. QED
  BY <1>1, <1>2, <1>3, <1>4, <1>5, <1>6, <1>7, <1>8, <1>9, <1>10, <1>11, <1>12,
     <1>13, <1>14, <1>15, <1>16, <1>17, <1>18, <1>19, <1>20, <1>21, <1>22,
     <1>23, <1>24
     DEF Next, Probe, StreamStep, Open, CloserStep


LEMMA KeepsSession ==
    ASSUME ReleaseInv, [Next]_vars
    PROVE  SessionOpen'
<1> USE DEF ReleaseInv, TasksInv, TasksTypeOK, SessionInHand, SessionOpen,
            LockdownRegistered, NothingYet,
            Points, Terminal, NoSocket, InSession, conn, policy
<1>1. CASE ProbeOpen
  BY <1>1 DEF ProbeOpen, Opened
<1>2. CASE ProbeFails
  BY <1>2 DEF ProbeFails
<1>3. CASE ProbeClose
  BY <1>3 DEF ProbeClose
<1>4. CASE Start
  BY <1>4 DEF Start, TryConnect, Stopped
<1>5. CASE OpenOk
  BY <1>5 DEF OpenOk, Opened
<1>6. CASE \E r \in BOOLEAN : OpenFails(r)
  BY <1>6 DEF OpenFails
<1>7. CASE RetryWake
  BY <1>7 DEF RetryWake, TryConnect, Stopped
<1>8. CASE Identified
  BY <1>8 DEF Identified
<1>9. CASE PullAfterGap
  BY <1>9 DEF PullAfterGap
<1>10. CASE StartRelay
  BY <1>10 DEF StartRelay
<1>11. CASE DialOk
  BY <1>11 DEF DialOk
<1>12. CASE Read
  BY <1>12 DEF Read
<1>13. CASE PullAfterRecord
  BY <1>13 DEF PullAfterRecord
<1>14. CASE \E how \in {"exhausted", "recoverable", "fatal"} : HangUp(how)
  BY <1>14 DEF HangUp, Leave
<1>15. CASE SocketGone
  BY <1>15 DEF SocketGone, Leave
<1>16. CASE LeaveService
  BY <1>16 DEF LeaveService
<1>17. CASE LeaveLockdown
  BY <1>17 DEF LeaveLockdown, Stopped
<1>18. CASE DelayOver
  BY <1>18 DEF DelayOver, TryConnect, Stopped
<1>19. CASE Cancel
  BY <1>19 DEF Cancel, Leave
<1>20. CASE Aclose
  BY <1>20 DEF Aclose, CloseActive
<1>21. CASE AcloseAfterService
  BY <1>21 DEF AcloseAfterService, CloseActive
<1>22. CASE AcloseReturns
  BY <1>22 DEF AcloseReturns
<1>23. CASE Emit
  BY <1>23 DEF Emit
<1>24. CASE Done \/ UNCHANGED vars
  BY <1>24 DEF Done, vars
<1>25. QED
  BY <1>1, <1>2, <1>3, <1>4, <1>5, <1>6, <1>7, <1>8, <1>9, <1>10, <1>11, <1>12,
     <1>13, <1>14, <1>15, <1>16, <1>17, <1>18, <1>19, <1>20, <1>21, <1>22,
     <1>23, <1>24
     DEF Next, Probe, StreamStep, Open, CloserStep


LEMMA KeepsStop ==
    ASSUME StopsOutsideHandshake, ReleaseInv, [Next]_vars
    PROVE  StopHolds'
<1> USE DEF ReleaseInv, TasksInv, TasksTypeOK, SessionInHand, StopHolds,
            LockdownRegistered, RelayRegistered, SessionOpen, NothingYet,
            RelayPoints, ServicePoints,
            Points, Terminal, NoSocket, InSession, conn, policy
<1>1. CASE ProbeOpen
  BY <1>1 DEF ProbeOpen, Opened
<1>2. CASE ProbeFails
  BY <1>2 DEF ProbeFails
<1>3. CASE ProbeClose
  BY <1>3 DEF ProbeClose
<1>4. CASE Start
  BY <1>4 DEF Start, TryConnect, Stopped
<1>5. CASE OpenOk
  BY <1>5 DEF OpenOk, Opened
<1>6. CASE \E r \in BOOLEAN : OpenFails(r)
  BY <1>6 DEF OpenFails
<1>7. CASE RetryWake
  BY <1>7 DEF RetryWake, TryConnect, Stopped
<1>8. CASE Identified
  BY <1>8 DEF Identified
<1>9. CASE PullAfterGap
  BY <1>9 DEF PullAfterGap
<1>10. CASE StartRelay
  BY <1>10 DEF StartRelay
<1>11. CASE DialOk
  BY <1>11 DEF DialOk
<1>12. CASE Read
  BY <1>12 DEF Read
<1>13. CASE PullAfterRecord
  BY <1>13 DEF PullAfterRecord
<1>14. CASE \E how \in {"exhausted", "recoverable", "fatal"} : HangUp(how)
  BY <1>14 DEF HangUp, Leave
<1>15. CASE SocketGone
  BY <1>15 DEF SocketGone, Leave
<1>16. CASE LeaveService
  BY <1>16 DEF LeaveService
<1>17. CASE LeaveLockdown
  BY <1>17 DEF LeaveLockdown, Stopped
<1>18. CASE DelayOver
  BY <1>18 DEF DelayOver, TryConnect, Stopped
<1>19. CASE Cancel
  BY <1>19 DEF Cancel, Leave
<1>20. CASE Aclose
  BY <1>20 DEF Aclose, CloseActive, StopsOutsideHandshake
<1>21. CASE AcloseAfterService
  BY <1>21 DEF AcloseAfterService, CloseActive
<1>22. CASE AcloseReturns
  BY <1>22 DEF AcloseReturns
<1>23. CASE Emit
  BY <1>23 DEF Emit
<1>24. CASE Done \/ UNCHANGED vars
  BY <1>24 DEF Done, vars
<1>25. QED
  BY <1>1, <1>2, <1>3, <1>4, <1>5, <1>6, <1>7, <1>8, <1>9, <1>10, <1>11, <1>12,
     <1>13, <1>14, <1>15, <1>16, <1>17, <1>18, <1>19, <1>20, <1>21, <1>22,
     <1>23, <1>24
     DEF Next, Probe, StreamStep, Open, CloserStep

LEMMA NextReleaseInv ==
    ASSUME StopsOutsideHandshake
    PROVE  ReleaseInv /\ [Next]_vars => ReleaseInv'
<1> SUFFICES ASSUME ReleaseInv, [Next]_vars PROVE ReleaseInv'
  OBVIOUS
<1>1. TasksInv'
  BY NextTasks DEF ReleaseInv
<1>2. QED
  BY <1>1, KeepsLockdown, KeepsRelay, KeepsSession, KeepsStop DEF ReleaseInv

(* aclose() leaves no socket open, wherever outside a handshake it lands and *)
(* however the two tasks interleave.                                         *)
THEOREM ReleaseIsComplete ==
    ASSUME StopsOutsideHandshake
    PROVE  Spec => []ReleasedHoldsNothing
<1>1. Init => ReleaseInv
  BY InitReleaseInv
<1>2. ReleaseInv /\ [Next]_vars => ReleaseInv'
  BY NextReleaseInv
<1>3. ReleaseInv => ReleasedHoldsNothing
  BY DEF ReleaseInv, StopHolds, ReleasedHoldsNothing
<1>4. QED
  BY <1>1, <1>2, <1>3, PTL DEF Spec

(* The two-socket rule: a relay is never open without its lockdown session. *)
THEOREM ServiceReleasedFirst ==
    ASSUME StopsOutsideHandshake
    PROVE  Spec => []RelayGoesFirst
<1>1. Init => ReleaseInv
  BY InitReleaseInv
<1>2. ReleaseInv /\ [Next]_vars => ReleaseInv'
  BY NextReleaseInv
<1>3. ReleaseInv => RelayGoesFirst
  <2>1. SUFFICES ASSUME ReleaseInv, relays # {} PROVE relays \subseteq lockdowns
    BY DEF RelayGoesFirst
  <2>2. closer = "idle"
    BY <2>1 DEF ReleaseInv, StopHolds, TasksInv, TasksTypeOK
  <2>3. relays = {lockdown} /\ pc \in InSession
    BY <2>1 DEF ReleaseInv, RelayRegistered, RelayPoints, InSession
  <2>4. QED
    BY <2>1, <2>2, <2>3 DEF ReleaseInv, SessionOpen
<1>4. QED
  BY <1>1, <1>2, <1>3, PTL DEF Spec

-----------------------------------------------------------------------------
(* Why an outage is never forgotten: connected_once says which kind of       *)
(* connect this is, and the loop comes back to it only with a gap pending.   *)

Connected == {"identifying", "at_gap", "entering", "dialing", "reading",
              "at_record", "leaving_service", "leaving_lockdown"}

OutageInv ==
    /\ pc \in {"idle", "probing", "ready"} => ~connectedOnce /\ pendingGap = NoGap
    /\ pc \in Connected \cup {"delay", "retry_sleep"} => connectedOnce
    /\ pc \in Connected => told = "streaming"
    /\ pc \in Connected \ {"identifying"} => pendingGap = NoGap
    /\ Away => pendingGap # NoGap /\ told = "reconnecting"

LEMMA NextOutageInv ==
    ASSUME RecordsTypeOK, OutageInv, [Next]_vars
    PROVE  OutageInv'
<1>0. lastSeen # NoGap /\ emitted # NoGap
  BY DEF RecordsTypeOK, NoGap
<1> USE <1>0 DEF OutageInv, Away, Connected, conn, policy, dedupe, device
<1>1. CASE ProbeOpen
  BY <1>1 DEF ProbeOpen, Opened
<1>2. CASE ProbeFails
  BY <1>2 DEF ProbeFails
<1>3. CASE ProbeClose
  BY <1>3 DEF ProbeClose
<1>4. CASE Start
  BY <1>4 DEF Start, TryConnect, Stopped
<1>5. CASE OpenOk
  BY <1>5 DEF OpenOk, Opened
<1>6. CASE \E r \in BOOLEAN : OpenFails(r)
  BY <1>6 DEF OpenFails
<1>7. CASE RetryWake
  BY <1>7 DEF RetryWake, TryConnect, Stopped
<1>8. CASE Identified
  BY <1>8 DEF Identified
<1>9. CASE PullAfterGap
  BY <1>9 DEF PullAfterGap
<1>10. CASE StartRelay
  BY <1>10 DEF StartRelay
<1>11. CASE DialOk
  BY <1>11 DEF DialOk
<1>12. CASE Read
  BY <1>12 DEF Read
<1>13. CASE PullAfterRecord
  BY <1>13 DEF PullAfterRecord
<1>14. CASE \E how \in {"exhausted", "recoverable", "fatal"} : HangUp(how)
  BY <1>14 DEF HangUp, Leave
<1>15. CASE SocketGone
  BY <1>15 DEF SocketGone, Leave
<1>16. CASE LeaveService
  BY <1>16 DEF LeaveService
<1>17. CASE LeaveLockdown
  BY <1>17 DEF LeaveLockdown, Stopped, DeviceNow
<1>18. CASE DelayOver
  BY <1>18 DEF DelayOver, TryConnect, Stopped
<1>19. CASE Cancel
  BY <1>19 DEF Cancel, Leave
<1>20. CASE Aclose
  BY <1>20 DEF Aclose
<1>21. CASE AcloseAfterService
  BY <1>21 DEF AcloseAfterService
<1>22. CASE AcloseReturns
  BY <1>22 DEF AcloseReturns
<1>23. CASE Emit
  BY <1>23 DEF Emit
<1>24. CASE Done \/ UNCHANGED vars
  BY <1>24 DEF Done, vars
<1>25. QED
  BY <1>1, <1>2, <1>3, <1>4, <1>5, <1>6, <1>7, <1>8, <1>9, <1>10, <1>11, <1>12,
     <1>13, <1>14, <1>15, <1>16, <1>17, <1>18, <1>19, <1>20, <1>21, <1>22,
     <1>23, <1>24
     DEF Next, Probe, StreamStep, Open, CloserStep

(* However many attempts to reconnect fail, the pending gap and the listener's *)
(* state outlive them, until the gap has been yielded.                         *)
THEOREM OutageNeverForgotten == Spec => []OutageIsPending
<1>1. Init => TasksInv /\ RecordsTypeOK /\ OutageInv
  BY InitTasks, InitRecords DEF Init, OutageInv, Away, Connected
<1>2. TasksInv /\ RecordsTypeOK /\ OutageInv /\ [Next]_vars
         => (TasksInv /\ RecordsTypeOK /\ OutageInv)'
  BY NextTasks, NextRecords, NextOutageInv
<1>3. RecordsTypeOK /\ OutageInv => OutageIsPending
  BY DEF OutageInv, OutageIsPending, Connected
<1>4. QED
  BY <1>1, <1>2, <1>3, PTL DEF Spec
-----------------------------------------------------------------------------
(* Why nothing is swallowed but doubles, and not many of them: every key of  *)
(* the window is the key of a delivered record, and what an outage lets the  *)
(* source suppress is counted down with every record it asks about.          *)

KeyOf(n, m) == [content |-> content[n], offset |-> offset[m]]

KeysDelivered ==
    \A i \in DOMAIN recent :
        \E n \in Delivered, m \in 1..MaxConnections : recent[i] = KeyOf(n, m)

HasDouble == \A r \in Swallowed : \E d \in Delivered : content[d] = content[r]

Paid == Cardinality(Swallowed) + suppressing <= Window * Cardinality(Outages)

DeliveredInv ==
    /\ Delivered \subseteq sent
    /\ KeysDelivered
    /\ HasDouble
    /\ Paid

(* Delivered grows by the record that is yielded, and by no gap. *)
LEMMA DeliveredByAppend ==
    ASSUME RecordsTypeOK, NEW e, items' = Append(items, e),
           e \in [type : {"record"}, at : 1..MaxRecords]
                \cup [type : {"gap"}, start : 0..MaxRecords, end : 0..MaxRecords]
    PROVE  Delivered' = Delivered \cup
               (IF e.type = "record" THEN {e.at} ELSE {})
<1> DEFINE Item == [type : {"record"}, at : 1..MaxRecords]
                   \cup [type : {"gap"}, start : 0..MaxRecords, end : 0..MaxRecords]
           n == Len(items)
<1>1. items \in Seq(Item) /\ n \in Nat
  BY DEF RecordsTypeOK
<1>2. /\ DOMAIN items = 1..n /\ DOMAIN items' = 1..(n + 1)
      /\ \A i \in 1..n : items'[i] = items[i]
      /\ items'[n + 1] = e
  BY <1>1, AppendProperties
<1> HIDE DEF n, Item
<1>3. 1..(n + 1) = 1..n \cup {n + 1}
  BY <1>1
<1>4. QED
  BY <1>2, <1>3 DEF Delivered

(* There are finitely many of them. *)
LEMMA OutagesFinite ==
    ASSUME RecordsTypeOK
    PROVE  IsFiniteSet(Outages) /\ Cardinality(Outages) \in Nat
<1>1. Len(items) \in Nat /\ DOMAIN items = 1..Len(items)
  BY DEF RecordsTypeOK
<1>2. IsFiniteSet(1..Len(items)) /\ Outages \subseteq 1..Len(items)
  BY <1>1, FS_Interval DEF Outages
<1>3. QED
  BY <1>2, FS_Subset, FS_CardinalityType

(* A gap is one more outage, a record is none. *)
LEMMA OutagesByAppend ==
    ASSUME RecordsTypeOK, NEW e, items' = Append(items, e)
    PROVE  Cardinality(Outages') =
               Cardinality(Outages) + (IF e.type = "gap" THEN 1 ELSE 0)
<1> DEFINE n == Len(items)
           Item == [type : {"record"}, at : 1..MaxRecords]
                   \cup [type : {"gap"}, start : 0..MaxRecords, end : 0..MaxRecords]
<1>1. items \in Seq(Item) /\ n \in Nat
  BY DEF RecordsTypeOK
<1>2. /\ DOMAIN items = 1..n /\ DOMAIN items' = 1..(n + 1)
      /\ \A i \in 1..n : items'[i] = items[i]
      /\ items'[n + 1] = e
  BY <1>1, AppendProperties
<1> HIDE DEF n, Item
<1>3. /\ Outages \subseteq 1..n /\ n + 1 \notin Outages
      /\ Outages' = Outages \cup (IF e.type = "gap" THEN {n + 1} ELSE {})
  BY <1>1, <1>2 DEF Outages
<1>4. IsFiniteSet(Outages) /\ Cardinality(Outages) \in Nat
  BY OutagesFinite
<1>5. CASE e.type = "gap"
  <2>1. Outages' = Outages \cup {n + 1}
    BY <1>3, <1>5
  <2>2. Cardinality(Outages \cup {n + 1}) = Cardinality(Outages) + 1
    BY <1>3, <1>4, FS_AddElement
  <2>3. QED
    BY <1>4, <1>5, <2>1, <2>2
<1>6. CASE e.type # "gap"
  <2>1. Outages' = Outages
    BY <1>3, <1>6
  <2>2. QED
    BY <1>4, <1>6, <2>1
<1>7. QED
  BY <1>5, <1>6

(* What has been swallowed is a finite set of records. *)
LEMMA SwallowedFinite ==
    ASSUME sent \subseteq 1..MaxRecords
    PROVE  IsFiniteSet(Swallowed) /\ Cardinality(Swallowed) \in Nat
<1>1. 1 \in Int /\ MaxRecords \in Int
  OBVIOUS
<1>2. IsFiniteSet(1..MaxRecords)
  BY <1>1, FS_Interval
<1>3. Swallowed \subseteq 1..MaxRecords
  BY DEF Swallowed
<1>4. QED
  BY <1>2, <1>3, FS_Subset, FS_CardinalityType

(* What is remembered is what was remembered, and the new key. *)
LEMMA RememberedFrom ==
    ASSUME NEW r, Key(r) \in Keys, recent \in Seq(Keys), NEW S,
           \A i \in DOMAIN recent : recent[i] \in S
    PROVE  \A i \in DOMAIN Remembered(r) : Remembered(r)[i] \in S \cup {Key(r)}
<1> DEFINE key == Key(r)
           grown == Append(recent, key)
<1>0. key \in Keys /\ Len(recent) \in Nat
  OBVIOUS
<1> HIDE DEF key
<1>2. /\ grown \in Seq(Keys) /\ Len(grown) = Len(recent) + 1
      /\ \A i \in 1..Len(recent) : grown[i] = recent[i]
      /\ grown[Len(recent) + 1] = key
  BY <1>0, AppendProperties
<1> HIDE DEF grown
<1>3. \A i \in 1..Len(grown) : grown[i] \in S \cup {key}
  <2> SUFFICES ASSUME NEW i \in 1..Len(grown) PROVE grown[i] \in S \cup {key}
    OBVIOUS
  <2>1. CASE i \in 1..Len(recent)
    <3>1. i \in DOMAIN recent /\ grown[i] = recent[i]
      BY <1>2, <2>1
    <3>2. QED
      BY <3>1
  <2>2. CASE i = Len(recent) + 1
    BY <1>2, <2>2
  <2>3. QED
    BY <1>0, <1>2, <2>1, <2>2
<1>4. DOMAIN grown = 1..Len(grown)
  BY <1>2
<1>5. \A i \in DOMAIN Tail(grown) : Tail(grown)[i] \in S \cup {key}
  <2>1. /\ DOMAIN Tail(grown) = 1..Len(recent)
        /\ \A i \in 1..Len(recent) : Tail(grown)[i] = grown[i + 1]
    BY <1>0, <1>2
  <2>2. \A i \in 1..Len(recent) : i + 1 \in 1..Len(grown)
    BY <1>0, <1>2
  <2>3. QED
    BY <1>3, <2>1, <2>2
<1>6. Remembered(r) \in {recent, Tail(grown), grown}
  BY DEF Remembered, grown, key
<1>7. \A i \in DOMAIN Remembered(r) : Remembered(r)[i] \in S \cup {key}
  BY <1>3, <1>4, <1>5, <1>6
<1>8. QED
  BY <1>7 DEF key

(* A record taken for a replayed one has a delivered double. *)
LEMMA ReplayKeepsDelivered ==
    ASSUME TasksInv, RecordsTypeOK, DeliveredInv, Read, IsReplayed(cursor)
    PROVE  DeliveredInv'
<1>1. /\ pc \in InSession /\ cursor \in 1..MaxRecords
      /\ sent' = sent \cup {cursor} /\ suppressing > 0
      /\ suppressing' = suppressing - 1
      /\ UNCHANGED <<recent, items, content, offset>>
  BY DEF Read, IsReplayed, InSession, RecordsTypeOK
<1>2. Delivered' = Delivered /\ Outages' = Outages
  BY <1>1 DEF Delivered, Outages
<1>3. PICK d \in Delivered : content[d] = content[cursor]
  <2>1. PICK i \in DOMAIN recent : recent[i] = Key(cursor)
    BY DEF IsReplayed, Known
  <2>2. PICK n \in Delivered, m \in 1..MaxConnections : recent[i] = KeyOf(n, m)
    BY DEF DeliveredInv, KeysDelivered
  <2>3. KeyOf(n, m).content = Key(cursor).content
    BY <2>1, <2>2
  <2>4. content[n] = content[cursor]
    BY <2>3 DEF KeyOf, Key
  <2>5. QED
    BY <2>4
<1>4. Swallowed' = Swallowed \cup ({cursor} \ Delivered)
  BY <1>1, <1>2 DEF Swallowed
<1>5. HasDouble'
  BY <1>1, <1>2, <1>3, <1>4 DEF DeliveredInv, HasDouble
<1>6. KeysDelivered' /\ (Delivered \subseteq sent)'
  BY <1>1, <1>2 DEF DeliveredInv, KeysDelivered, KeyOf
<1>7. Paid'
  <2>1. IsFiniteSet(Swallowed) /\ Cardinality(Swallowed) \in Nat
    BY SwallowedFinite DEF RecordsTypeOK
  <2>2. Cardinality(Swallowed') \in {Cardinality(Swallowed), Cardinality(Swallowed) + 1}
    <3>1. Swallowed' = Swallowed \/ Swallowed' = Swallowed \cup {cursor}
      BY <1>4
    <3>2. Cardinality(Swallowed \cup {cursor})
             \in {Cardinality(Swallowed), Cardinality(Swallowed) + 1}
      BY <2>1, FS_AddElement
    <3>3. QED
      BY <3>1, <3>2
  <2>3. suppressing \in Nat
    BY DEF RecordsTypeOK
  <2> DEFINE old == Cardinality(Swallowed)
             new == Cardinality(Swallowed')
             bound == Window * Cardinality(Outages)
  <2>4. old + suppressing <= bound /\ bound \in Int
    <3>1. IsFiniteSet(Outages) /\ Cardinality(Outages) \in Nat
      BY OutagesFinite
    <3>2. bound \in Int
      BY <3>1
    <3>3. QED
      BY <3>2 DEF DeliveredInv, Paid
  <2>5. SUFFICES new + suppressing' <= bound
    BY <1>2 DEF Paid
  <2>6. new \in {old, old + 1} /\ old \in Nat
    BY <2>1, <2>2
  <2> HIDE DEF old, new, bound
  <2>7. QED
    BY <1>1, <2>3, <2>4, <2>6
<1>8. QED
  BY <1>5, <1>6, <1>7 DEF DeliveredInv

(* A record taken for a new one is delivered. *)
LEMMA RecordKeepsDelivered ==
    ASSUME TasksInv, RecordsTypeOK, DeliveredInv, Read, ~IsReplayed(cursor)
    PROVE  DeliveredInv'
<1>1. /\ pc \in InSession /\ cursor \in 1..MaxRecords
      /\ sent' = sent \cup {cursor}
      /\ suppressing' = IF suppressing = 0 THEN 0 ELSE suppressing - 1
      /\ recent' = Remembered(cursor) /\ items' = Append(items, Rec(cursor))
      /\ UNCHANGED <<content, offset>>
  BY DEF Read, InSession, RecordsTypeOK
<1> DEFINE rec == Rec(cursor)
<1>2. /\ rec \in [type : {"record"}, at : 1..MaxRecords]
      /\ rec.type = "record" /\ rec.at = cursor
  BY <1>1 DEF Rec
<1>3. items' = Append(items, rec)
  BY <1>1
<1> HIDE DEF rec
<1>4. Delivered' = Delivered \cup {cursor}
  BY <1>2, <1>3, DeliveredByAppend
<1>5. /\ Cardinality(Outages) \in Nat
      /\ Cardinality(Outages') = Cardinality(Outages)
  BY <1>2, <1>3, OutagesByAppend, OutagesFinite
<1>6. Swallowed' = Swallowed \ {cursor}
  BY <1>1, <1>4 DEF Swallowed
<1>7. HasDouble' /\ (Delivered \subseteq sent)'
  BY <1>1, <1>4, <1>6 DEF DeliveredInv, HasDouble
<1>8. KeysDelivered'
  <2> DEFINE S == {KeyOf(n, m) : n \in Delivered, m \in 1..MaxConnections}
  <2>1. /\ lockdown \in 1..MaxConnections /\ Key(cursor) = KeyOf(cursor, lockdown)
        /\ Key(cursor) \in Keys
    BY <1>1, KeyTyped DEF KeyOf
  <2>2. \A i \in DOMAIN recent : recent[i] \in S
    BY DEF DeliveredInv, KeysDelivered
  <2>3. recent \in Seq(Keys)
    BY DEF RecordsTypeOK, Keys
  <2> HIDE DEF S
  <2>4. \A i \in DOMAIN recent' : recent'[i] \in S \cup {Key(cursor)}
    BY <1>1, <2>1, <2>2, <2>3, RememberedFrom
  <2>5. \A k \in S \cup {Key(cursor)} :
            \E n \in Delivered', m \in 1..MaxConnections : k = KeyOf(n, m)'
    BY <1>1, <1>4, <2>1 DEF S, KeyOf
  <2>6. QED
    BY <2>4, <2>5 DEF KeysDelivered
<1>9. Paid'
  <2>1. IsFiniteSet(Swallowed) /\ Cardinality(Swallowed) \in Nat
    BY SwallowedFinite DEF RecordsTypeOK
  <2>2. Cardinality(Swallowed') <= Cardinality(Swallowed)
        /\ Cardinality(Swallowed') \in Nat
    BY <1>6, <2>1, FS_Subset, FS_CardinalityType
  <2>3. suppressing \in Nat
    BY DEF RecordsTypeOK
  <2> DEFINE old == Cardinality(Swallowed)
             new == Cardinality(Swallowed')
             bound == Window * Cardinality(Outages)
  <2>4. old + suppressing <= bound /\ bound \in Int
    <3>1. bound \in Int
      BY <1>5
    <3>2. QED
      BY <3>1 DEF DeliveredInv, Paid
  <2>5. SUFFICES new + suppressing' <= bound
    BY <1>5 DEF Paid
  <2>6. new <= old /\ old \in Nat /\ new \in Nat
    BY <2>1, <2>2
  <2> HIDE DEF old, new, bound
  <2>7. QED
    BY <1>1, <2>3, <2>4, <2>6
<1>10. QED
  BY <1>7, <1>8, <1>9 DEF DeliveredInv

(* A gap pays for what it lets the source suppress. *)
LEMMA GapKeepsDelivered ==
    ASSUME RecordsTypeOK, DeliveredInv, Identified, pendingGap # NoGap
    PROVE  DeliveredInv'
<1> DEFINE g == GapFrom(pendingGap, DeviceNow)
<1>1. /\ g \in [type : {"gap"}, start : 0..MaxRecords, end : 0..MaxRecords]
      /\ g.type = "gap"
  BY DEF GapFrom, DeviceNow, RecordsTypeOK
<1>2. /\ items' = Append(items, g) /\ suppressing' = Window
      /\ UNCHANGED <<recent, sent, content, offset>>
  BY DEF Identified, device
<1> HIDE DEF g
<1>3. Delivered' = Delivered
  BY <1>1, <1>2, DeliveredByAppend
<1>4. /\ Cardinality(Outages) \in Nat
      /\ Cardinality(Outages') = Cardinality(Outages) + 1
  BY <1>1, <1>2, OutagesByAppend, OutagesFinite
<1>5. Swallowed' = Swallowed
  BY <1>2, <1>3 DEF Swallowed
<1>6. HasDouble' /\ (Delivered \subseteq sent)' /\ KeysDelivered'
  BY <1>2, <1>3, <1>5 DEF DeliveredInv, HasDouble, KeysDelivered, KeyOf
<1>7. Paid'
  <2> DEFINE old == Cardinality(Swallowed)
             n == Cardinality(Outages)
  <2>1. old \in Nat
    BY SwallowedFinite DEF RecordsTypeOK
  <2>2. old + suppressing <= Window * n /\ suppressing \in Nat
    BY DEF DeliveredInv, Paid, RecordsTypeOK
  <2>3. SUFFICES old + Window <= Window * (n + 1)
    BY <1>2, <1>4, <1>5 DEF Paid
  <2>4. n \in Nat
    BY <1>4
  <2> HIDE DEF old, n
  <2>5. Window * (n + 1) = Window * n + Window /\ Window * n \in Nat
    BY <2>4
  <2>6. QED
    BY <2>1, <2>2, <2>4, <2>5
<1>8. QED
  BY <1>6, <1>7 DEF DeliveredInv

LEMMA NextDelivered ==
    ASSUME TasksInv, RecordsTypeOK, DeliveredInv, [Next]_vars
    PROVE  DeliveredInv'
<1>0. ASSUME UNCHANGED <<recent, sent, items, suppressing, content, offset>>
      PROVE  DeliveredInv'
  BY <1>0 DEF DeliveredInv, Delivered, Swallowed, Outages, KeysDelivered, KeyOf,
              HasDouble, Paid
<1> USE DEF conn, policy, dedupe, device
<1>1. CASE ProbeOpen
  BY <1>0, <1>1 DEF ProbeOpen, Opened
<1>2. CASE ProbeFails
  BY <1>0, <1>2 DEF ProbeFails
<1>3. CASE ProbeClose
  BY <1>0, <1>3 DEF ProbeClose
<1>4. CASE Start
  BY <1>0, <1>4 DEF Start
<1>5. CASE OpenOk
  BY <1>0, <1>5 DEF OpenOk
<1>6. CASE \E r \in BOOLEAN : OpenFails(r)
  BY <1>0, <1>6 DEF OpenFails
<1>7. CASE RetryWake
  BY <1>0, <1>7 DEF RetryWake
<1>8. CASE Identified
  <2>1. CASE pendingGap = NoGap
    BY <1>0, <1>8, <2>1 DEF Identified
  <2>2. CASE pendingGap # NoGap
    BY <1>8, <2>2, GapKeepsDelivered
  <2>3. QED
    BY <2>1, <2>2
<1>9. CASE PullAfterGap
  BY <1>0, <1>9 DEF PullAfterGap
<1>10. CASE StartRelay
  BY <1>0, <1>10 DEF StartRelay
<1>11. CASE DialOk
  BY <1>0, <1>11 DEF DialOk
<1>12. CASE Read
  BY <1>12, ReplayKeepsDelivered, RecordKeepsDelivered
<1>13. CASE PullAfterRecord
  BY <1>0, <1>13 DEF PullAfterRecord
<1>14. CASE \E how \in {"exhausted", "recoverable", "fatal"} : HangUp(how)
  BY <1>0, <1>14 DEF HangUp, Leave
<1>15. CASE SocketGone
  BY <1>0, <1>15 DEF SocketGone, Leave
<1>16. CASE LeaveService
  BY <1>0, <1>16 DEF LeaveService
<1>17. CASE LeaveLockdown
  BY <1>0, <1>17 DEF LeaveLockdown
<1>18. CASE DelayOver
  BY <1>0, <1>18 DEF DelayOver
<1>19. CASE Cancel
  BY <1>0, <1>19 DEF Cancel, Leave
<1>20. CASE Aclose
  BY <1>0, <1>20 DEF Aclose
<1>21. CASE AcloseAfterService
  BY <1>0, <1>21 DEF AcloseAfterService
<1>22. CASE AcloseReturns
  BY <1>0, <1>22 DEF AcloseReturns
<1>23. CASE Emit
  BY <1>0, <1>23 DEF Emit
<1>24. CASE Done \/ UNCHANGED vars
  BY <1>0, <1>24 DEF Done, vars
<1>25. QED
  BY <1>1, <1>2, <1>3, <1>4, <1>5, <1>6, <1>7, <1>8, <1>9, <1>10, <1>11, <1>12,
     <1>13, <1>14, <1>15, <1>16, <1>17, <1>18, <1>19, <1>20, <1>21, <1>22,
     <1>23, <1>24
     DEF Next, Probe, StreamStep, Open, CloserStep

LEMMA InitDelivered == Init => DeliveredInv
<1> SUFFICES ASSUME Init PROVE DeliveredInv
  OBVIOUS
<1>1. recent = <<>> /\ items = <<>> /\ sent = {} /\ suppressing = 0
  BY DEF Init
<1>2. Delivered = {} /\ Outages = {} /\ Swallowed = {}
  BY <1>1 DEF Delivered, Outages, Swallowed
<1>3. Paid
  BY <1>1, <1>2, FS_EmptySet DEF Paid
<1>4. KeysDelivered /\ HasDouble
  BY <1>1, <1>2 DEF KeysDelivered, HasDouble
<1>5. QED
  BY <1>1, <1>2, <1>3, <1>4 DEF DeliveredInv

(* What suppression costs: every record it swallowed has a delivered double,  *)
(* and every outage swallows at most Window, whatever the device says and     *)
(* however its offset moves.                                                  *)
THEOREM OnlyDoublesAreSwallowed == Spec => []OnlyDoublesSwallowed
<1> DEFINE Inv == TasksInv /\ RecordsTypeOK /\ DeliveredInv
<1>1. Init => Inv
  BY InitTasks, InitRecords, InitDelivered
<1>2. Inv /\ [Next]_vars => Inv'
  BY NextTasks, NextRecords, NextDelivered
<1>3. Inv => OnlyDoublesSwallowed
  <2> SUFFICES ASSUME Inv PROVE OnlyDoublesSwallowed
    OBVIOUS
  <2> DEFINE n == Cardinality(Outages)
             old == Cardinality(Swallowed)
  <2>1. old \in Nat /\ suppressing \in Nat
    BY SwallowedFinite DEF RecordsTypeOK
  <2>2. n \in Nat
    BY OutagesFinite
  <2>3. old + suppressing <= Window * n
    BY DEF DeliveredInv, Paid
  <2>4. old <= Window * n
    <3> HIDE DEF old, n
    <3>1. Window * n \in Nat
      BY <2>2
    <3>2. QED
      BY <2>1, <2>3, <3>1
  <2>5. QED
    BY <2>4 DEF DeliveredInv, HasDouble, OnlyDoublesSwallowed
<1> HIDE DEF Inv
<1>4. QED
  BY <1>1, <1>2, <1>3, PTL DEF Spec
-----------------------------------------------------------------------------
(* Why the replay of a device whose records are told apart is recognised     *)
(* exactly, and why the stream that comes out is a LogStream: which records  *)
(* the window knows (`seen`), and where the relay stands against them.       *)

(* The backlog is no longer than the window: what _DEDUPE_WINDOW is for. *)
ReplayFits == Backlog <= Window

PositionOf(k) == CHOOSE n \in 1..MaxRecords : content[n] = k.content

seen == [i \in 1..Len(recent) |-> PositionOf(recent[i])]

InWindow(n) == \E i \in DOMAIN seen : seen[i] = n

(* What remembering a record does to the records the window knows. *)
SeenAfter(r) ==
    IF ~ReconnectEnabled \/ InWindow(r)
    THEN seen
    ELSE LET grown == Append(seen, r)
         IN  IF Len(grown) > Window THEN Tail(grown) ELSE grown

(* What holds of every source, of a device whose records are told apart. *)
ApartInv == ToldApart /\ TasksInv /\ RecordsTypeOK /\ DeliveredInv

(* The window holds only what was sent, and its k-th newest key is at least  *)
(* k - 1 records old: the oldest key is the one that may go.                 *)
WindowOrdered ==
    \A i \in DOMAIN seen :
        seen[i] \in sent /\ seen[i] <= lastSeen - (Len(seen) - i)

(* Whatever a relay opened now would replay is in the window. *)
WindowCoversReplay ==
    ReconnectEnabled =>
        \A n \in BacklogStart..lastSeen : InWindow(n)

(* Between a gap and the first record behind it positions may skip. *)
AfterGap == items # <<>> /\ items[Len(items)].type = "gap"
AtSeam == items = <<>> \/ AfterGap

(* Before the first relay nothing has been yielded; before a later one the   *)
(* gap has, and the window is about to be asked.                             *)
BeforeFirst == {"idle", "probing", "ready", "opening", "retry_sleep",
                "identifying", "delay"}
BeforeRelay == {"at_gap", "entering", "dialing"}
Untouched == items = <<>> /\ lastSeen = 0

RelayAwaited ==
    /\ pc \in BeforeFirst /\ pendingGap = NoGap => Untouched
    /\ pc \in BeforeRelay =>
          \/ Untouched
          \/ AfterGap /\ suppressing = Window /\ ReconnectEnabled

(* The relay is at the next record, still in the replay and with enough      *)
(* records left to ask, or past everything lost in the outage.               *)
CaughtUp == cursor = lastSeen + 1
Replaying ==
    /\ ReconnectEnabled
    /\ cursor <= lastSeen /\ lastSeen - cursor < suppressing
    /\ \A n \in cursor..lastSeen : InWindow(n)
Skipped == cursor > lastSeen /\ cursor <= BacklogStart /\ AtSeam

RelayPlaced ==
    /\ pc = "reading" => CaughtUp \/ Replaying \/ Skipped
    /\ pc = "at_record" => CaughtUp

(* The gap that is pending starts at the last record. *)
GapPlaced ==
    pendingGap # NoGap =>
        /\ ReconnectEnabled
        /\ pendingGap <= emitted
        /\ lastSeen # 0 => pendingGap = lastSeen

StreamInv ==
    /\ lastSeen <= emitted
    /\ WindowOrdered /\ WindowCoversReplay
    /\ RelayAwaited /\ RelayPlaced /\ GapPlaced

LEMMA PositionOfKey ==
    ASSUME ToldApart, NEW n \in 1..MaxRecords, NEW k, k.content = content[n]
    PROVE  PositionOf(k) = n
<1>1. PositionOf(k) \in 1..MaxRecords /\ content[PositionOf(k)] = k.content
  BY DEF PositionOf
<1>2. QED
  BY <1>1 DEF ToldApart

(* Each key of the window is the key of the record that is seen there. *)
LEMMA SeenKeys ==
    ASSUME ApartInv
    PROVE  /\ seen \in Seq(1..MaxRecords) /\ Len(seen) = Len(recent)
           /\ Len(seen) <= Window /\ DOMAIN seen = DOMAIN recent
           /\ \A i \in DOMAIN recent :
                 /\ seen[i] = PositionOf(recent[i])
                 /\ \E m \in 1..MaxConnections : recent[i] = KeyOf(seen[i], m)
<1>1. recent \in Seq(Keys) /\ Len(recent) <= Window /\ Len(recent) \in Nat
      /\ DOMAIN recent = 1..Len(recent)
  BY DEF ApartInv, RecordsTypeOK, Keys
<1>2. \A i \in 1..Len(recent) :
          /\ PositionOf(recent[i]) \in 1..MaxRecords
          /\ \E m \in 1..MaxConnections : recent[i] = KeyOf(PositionOf(recent[i]), m)
  <2> SUFFICES ASSUME NEW i \in 1..Len(recent)
               PROVE  /\ PositionOf(recent[i]) \in 1..MaxRecords
                      /\ \E m \in 1..MaxConnections :
                            recent[i] = KeyOf(PositionOf(recent[i]), m)
    OBVIOUS
  <2>1. PICK n \in Delivered, m \in 1..MaxConnections : recent[i] = KeyOf(n, m)
    BY <1>1 DEF ApartInv, DeliveredInv, KeysDelivered
  <2>2. n \in 1..MaxRecords
    BY DEF ApartInv, DeliveredInv, RecordsTypeOK
  <2>3. recent[i].content = content[n]
    BY <2>1 DEF KeyOf
  <2>4. PositionOf(recent[i]) = n
    BY <2>2, <2>3, PositionOfKey DEF ApartInv
  <2>5. QED
    BY <2>1, <2>2, <2>4
<1>3. seen \in [1..Len(recent) -> 1..MaxRecords]
  BY <1>2 DEF seen
<1>4. seen \in Seq(1..MaxRecords) /\ Len(seen) = Len(recent)
  BY <1>1, <1>3
<1>5. \A i \in 1..Len(recent) : seen[i] = PositionOf(recent[i])
  BY DEF seen
<1>6. DOMAIN seen = 1..Len(recent)
  BY DEF seen
<1>7. QED
  BY <1>1, <1>2, <1>4, <1>5, <1>6

LEMMA SeenSame ==
    ASSUME UNCHANGED <<recent, content>>
    PROVE  seen' = seen
  BY DEF seen, PositionOf

(* The window knows a record by its key exactly if it has seen it. *)
LEMMA KnownIsSeen ==
    ASSUME ApartInv, pc \in InSession, NEW r \in 1..MaxRecords
    PROVE  Known(r) <=> InWindow(r)
<1>1. /\ lockdown \in 1..MaxConnections
      /\ Key(r) = KeyOf(r, lockdown)
  BY KeyTyped DEF ApartInv, KeyOf
<1>2. ASSUME NEW i \in DOMAIN recent, recent[i] = Key(r) PROVE seen[i] = r
  <2>1. recent[i].content = content[r]
    BY <1>1, <1>2 DEF KeyOf
  <2>2. QED
    BY <2>1, PositionOfKey, SeenKeys DEF ApartInv
<1>3. ASSUME NEW i \in DOMAIN recent, seen[i] = r PROVE recent[i] = Key(r)
  <2>1. PICK m \in 1..MaxConnections : recent[i] = KeyOf(r, m)
    BY <1>3, SeenKeys
  <2>2. offset[m] = offset[lockdown]
    BY <1>1, <2>1 DEF ApartInv, ToldApart
  <2>3. QED
    BY <1>1, <2>1, <2>2 DEF KeyOf
<1>4. DOMAIN seen = DOMAIN recent
  BY SeenKeys
<1>5. QED
  BY <1>2, <1>3, <1>4 DEF Known, InWindow

LEMMA SeenGrows ==
    ASSUME ApartInv, pc \in InSession, NEW r \in 1..MaxRecords,
           recent' = Remembered(r), UNCHANGED content
    PROVE  seen' = SeenAfter(r)
<1> DEFINE key == Key(r)
           old == recent
<1>0. key \in Keys /\ PositionOf(key) = r
  <2>1. Key(r) \in Keys /\ Key(r).content = content[r]
    BY KeyTyped DEF ApartInv
  <2>2. QED
    BY <2>1, PositionOfKey DEF ApartInv
<1>1. /\ recent \in Seq(Keys) /\ Len(recent) \in Nat
      /\ seen \in Seq(1..MaxRecords) /\ Len(seen) = Len(recent)
      /\ \A i \in 1..Len(recent) : seen[i] = PositionOf(recent[i])
  <2>1. recent \in Seq(Keys)
    BY DEF ApartInv, RecordsTypeOK, Keys
  <2>2. Len(recent) \in Nat /\ DOMAIN recent = 1..Len(recent)
    BY <2>1
  <2>3. QED
    BY <2>1, <2>2, SeenKeys
<1>2. seen' = [i \in 1..Len(recent') |-> PositionOf(recent'[i])]
  BY DEF seen, PositionOf
<1>3. Known(r) <=> InWindow(r)
  BY KnownIsSeen
<1>4. CASE ~ReconnectEnabled \/ Known(r)
  <2>1. recent' = recent /\ SeenAfter(r) = seen
    BY <1>3, <1>4 DEF Remembered, SeenAfter
  <2>2. QED
    BY <2>1, SeenSame
<1>5. CASE ~(~ReconnectEnabled \/ Known(r))
  <2> DEFINE grown == Append(recent, key)
             new == Append(seen, r)
  <2>1. recent' = IF Len(grown) > Window THEN Tail(grown) ELSE grown
    BY <1>5 DEF Remembered
  <2>2. SeenAfter(r) = IF Len(new) > Window THEN Tail(new) ELSE new
    BY <1>3, <1>5 DEF SeenAfter
  <2> HIDE DEF key
  <2>3. /\ grown \in Seq(Keys) /\ Len(grown) = Len(recent) + 1
        /\ new \in Seq(1..MaxRecords) /\ Len(new) = Len(recent) + 1
        /\ \A i \in 1..Len(recent) : grown[i] = recent[i] /\ new[i] = seen[i]
        /\ grown[Len(recent) + 1] = key /\ new[Len(recent) + 1] = r
    BY <1>0, <1>1, AppendProperties
  <2> HIDE DEF grown, new
  <2>4. \A i \in 1..(Len(recent) + 1) : new[i] = PositionOf(grown[i])
    <3> SUFFICES ASSUME NEW i \in 1..(Len(recent) + 1)
                 PROVE  new[i] = PositionOf(grown[i])
      OBVIOUS
    <3>1. CASE i \in 1..Len(recent)
      BY <1>1, <2>3, <3>1
    <3>2. CASE i = Len(recent) + 1
      BY <1>0, <2>3, <3>2
    <3>3. QED
      BY <1>1, <3>1, <3>2
  <2>5. CASE Len(grown) > Window
    <3>1. recent' = Tail(grown) /\ SeenAfter(r) = Tail(new)
      BY <2>1, <2>2, <2>3, <2>5
    <3>2. /\ Len(Tail(grown)) = Len(recent)
          /\ \A i \in 1..Len(recent) : Tail(grown)[i] = grown[i + 1]
      BY <1>1, <2>3
    <3>6. /\ Tail(new) \in Seq(1..MaxRecords) /\ Len(Tail(new)) = Len(recent)
          /\ \A i \in 1..Len(recent) : Tail(new)[i] = new[i + 1]
      BY <1>1, <2>3
    <3>7. Tail(new) = [i \in 1..Len(recent) |-> new[i + 1]]
      <4> DEFINE t == Tail(new)
      <4>1. t \in Seq(1..MaxRecords) /\ Len(t) = Len(recent)
            /\ \A i \in 1..Len(recent) : t[i] = new[i + 1]
        BY <3>6
      <4> HIDE DEF t
      <4>2. t = [i \in 1..Len(recent) |-> t[i]]
        BY <4>1
      <4>3. t = [i \in 1..Len(recent) |-> new[i + 1]]
        BY <4>1, <4>2
      <4>4. QED
        BY <4>3 DEF t
    <3>3. \A i \in 1..Len(recent) : i + 1 \in 1..(Len(recent) + 1)
      BY <1>1
    <3>4. seen' = [i \in 1..Len(recent) |-> PositionOf(grown[i + 1])]
      BY <1>2, <3>1, <3>2
    <3>5. QED
      BY <2>4, <3>1, <3>3, <3>4, <3>7
  <2>6. CASE ~(Len(grown) > Window)
    <3>1. recent' = grown /\ SeenAfter(r) = new
      BY <2>1, <2>2, <2>3, <2>6
    <3>2. new = [i \in 1..(Len(recent) + 1) |-> new[i]]
      BY <2>3
    <3>3. seen' = [i \in 1..(Len(recent) + 1) |-> PositionOf(grown[i])]
      BY <1>2, <2>3, <3>1
    <3>4. QED
      BY <2>4, <3>1, <3>2, <3>3
  <2>7. QED
    BY <2>5, <2>6
<1>6. QED
  BY <1>4, <1>5

(* What Append puts at the end is there. *)
LEMMA AppendedLast ==
    ASSUME NEW S, NEW s \in Seq(S), NEW e \in S
    PROVE  Append(s, e) # <<>> /\ Append(s, e)[Len(Append(s, e))] = e
  BY AppendProperties

LEMMA InitStream == Init => StreamInv
<1> SUFFICES ASSUME Init PROVE StreamInv
  OBVIOUS
<1>0. seen = <<>>
  BY DEF Init, seen
<1>1. seen = <<>> /\ lastSeen = 0 /\ emitted = 0 /\ items = <<>>
      /\ pendingGap = NoGap /\ pc = "idle"
  BY <1>0 DEF Init
<1>2. WindowOrdered
  BY <1>1 DEF WindowOrdered
<1>3. WindowCoversReplay
  <2>1. BacklogStart = 1
    BY <1>1 DEF BacklogStart
  <2>2. BacklogStart..lastSeen = {}
    BY <1>1, <2>1
  <2>3. QED
    BY <2>2 DEF WindowCoversReplay
<1>4. QED
  BY <1>1, <1>2, <1>3
     DEF StreamInv, RelayAwaited, RelayPlaced, GapPlaced, BeforeFirst,
         BeforeRelay, Untouched

(* A step that only moves the stream task, and not onto a relay. *)
LEMMA OnlyMoves ==
    ASSUME StreamInv,
           UNCHANGED <<recent, suppressing, lastSeen, emitted, cursor, sent,
                       items, pendingGap, content>>,
           pc' \in BeforeFirst => pc \in BeforeFirst \/ pendingGap # NoGap,
           pc' \in BeforeRelay =>
               pc \in BeforeRelay \/ (pc \in BeforeFirst /\ pendingGap = NoGap),
           pc' = "reading" => pc \in {"reading", "at_record"},
           pc' = "at_record" => pc = "at_record"
    PROVE  StreamInv'
<1>0. seen' = seen
  BY SeenSame
<1> USE <1>0
<1>1. (lastSeen <= emitted)' /\ WindowOrdered'
  BY DEF StreamInv, WindowOrdered
<1>2. WindowCoversReplay'
  BY DEF StreamInv, WindowCoversReplay, BacklogStart, InWindow
<1>3. GapPlaced'
  BY DEF StreamInv, GapPlaced
<1>4. Untouched' = Untouched /\ AfterGap' = AfterGap
  BY DEF Untouched, AfterGap
<1>5. RelayAwaited'
  BY <1>4 DEF StreamInv, RelayAwaited
<1>6. CaughtUp' = CaughtUp
  BY DEF CaughtUp
<1>7. Replaying' = Replaying
  BY DEF Replaying, InWindow
<1>8. Skipped' = Skipped
  BY <1>4 DEF Skipped, AtSeam, BacklogStart
<1>9. RelayPlaced'
  BY <1>6, <1>7, <1>8 DEF StreamInv, RelayPlaced
<1>10. QED
  BY <1>1, <1>2, <1>3, <1>5, <1>9 DEF StreamInv

(* The device speaks: what a new relay would replay only moves forward. *)
LEMMA EmitKeepsStream ==
    ASSUME ApartInv, StreamInv, Emit
    PROVE  StreamInv'
<1>0. /\ emitted \in 0..MaxRecords /\ cursor \in 1..(MaxRecords + 1)
      /\ sent \subseteq 1..MaxRecords
      /\ seen \in Seq(1..MaxRecords) /\ Len(seen) <= Window
      /\ suppressing \in 0..Window /\ lastSeen \in 0..MaxRecords
      /\ pendingGap \in {NoGap} \cup 0..MaxRecords
  BY SeenKeys DEF ApartInv, RecordsTypeOK
<1> USE <1>0
<1>1. /\ UNCHANGED <<pc, seen, suppressing, lastSeen, cursor, sent, items,
                     pendingGap>>
      /\ emitted' = emitted + 1
  BY SeenSame DEF Emit, dedupe, policy
<1>2. BacklogStart' >= BacklogStart /\ BacklogStart \in Nat /\ BacklogStart' \in Nat
  BY <1>1 DEF BacklogStart
<1>3. (lastSeen <= emitted)' /\ WindowOrdered'
  BY <1>1 DEF StreamInv, WindowOrdered
<1>4. WindowCoversReplay'
  BY <1>1, <1>2 DEF StreamInv, WindowCoversReplay, InWindow
<1>5. GapPlaced'
  BY <1>1 DEF StreamInv, GapPlaced, NoGap
<1>6. Untouched' = Untouched /\ AfterGap' = AfterGap
  BY <1>1 DEF Untouched, AfterGap
<1>7. RelayAwaited'
  BY <1>1, <1>6 DEF StreamInv, RelayAwaited
<1>8. CaughtUp' = CaughtUp /\ Replaying' = Replaying
  BY <1>1 DEF CaughtUp, Replaying, InWindow
<1>9. Skipped => Skipped'
  BY <1>1, <1>2, <1>6 DEF Skipped, AtSeam
<1>10. RelayPlaced'
  BY <1>1, <1>8, <1>9 DEF StreamInv, RelayPlaced
<1>11. QED
  BY <1>3, <1>4, <1>5, <1>7, <1>10 DEF StreamInv

(* The gap of an outage is yielded, and the window is about to be asked. *)
LEMMA GapKeepsStream ==
    ASSUME ApartInv, StreamInv, Identified
    PROVE  StreamInv'
<1>1. CASE pendingGap = NoGap
  BY <1>1, OnlyMoves DEF Identified, BeforeFirst, BeforeRelay, conn, device
<1>2. CASE pendingGap # NoGap
  <2>1. /\ pc' = "at_gap" /\ pendingGap' = NoGap /\ suppressing' = Window
        /\ items' = Append(items, GapFrom(pendingGap, DeviceNow))
        /\ UNCHANGED <<seen, lastSeen, emitted, cursor, sent>>
    BY <1>2, SeenSame DEF Identified, device
  <2>2. AfterGap'
    <3> DEFINE g == GapFrom(pendingGap, DeviceNow)
    <3>1. items' # <<>> /\ items'[Len(items')] = g
      <4> DEFINE Item == [type : {"record"}, at : 1..MaxRecords]
                         \cup [type : {"gap"}, start : 0..MaxRecords,
                               end : 0..MaxRecords]
      <4>1. items' = Append(items, g)
        BY <2>1
      <4>2. g \in Item
        BY <1>2 DEF GapFrom, DeviceNow, ApartInv, RecordsTypeOK
      <4>3. items \in Seq(Item)
        BY DEF ApartInv, RecordsTypeOK
      <4> HIDE DEF g, Item
      <4>4. QED
        BY <4>1, <4>2, <4>3, AppendedLast
    <3>2. QED
      BY <3>1 DEF AfterGap, GapFrom
  <2>3. ReconnectEnabled
    BY <1>2 DEF StreamInv, GapPlaced
  <2>4. (lastSeen <= emitted)' /\ WindowOrdered'
    BY <2>1 DEF StreamInv, WindowOrdered
  <2>5. WindowCoversReplay'
    BY <2>1 DEF StreamInv, WindowCoversReplay, BacklogStart, InWindow
  <2>6. RelayAwaited' /\ RelayPlaced' /\ GapPlaced'
    BY <2>1, <2>2, <2>3
       DEF RelayAwaited, RelayPlaced, GapPlaced, BeforeFirst, BeforeRelay
  <2>7. QED
    BY <2>4, <2>5, <2>6 DEF StreamInv
<1>3. QED
  BY <1>1, <1>2

(* A new relay starts at its replay, which the window holds. *)
LEMMA DialKeepsStream ==
    ASSUME ReplayFits, ApartInv, StreamInv, DialOk
    PROVE  StreamInv'
<1>0. /\ emitted \in 0..MaxRecords /\ cursor \in 1..(MaxRecords + 1)
      /\ sent \subseteq 1..MaxRecords
      /\ seen \in Seq(1..MaxRecords) /\ Len(seen) <= Window
      /\ suppressing \in 0..Window /\ lastSeen \in 0..MaxRecords
      /\ pendingGap \in {NoGap} \cup 0..MaxRecords
  BY SeenKeys DEF ApartInv, RecordsTypeOK
<1> USE <1>0
<1>1. /\ pc = "dialing" /\ pc' = "reading" /\ cursor' = BacklogStart
      /\ UNCHANGED <<seen, suppressing, lastSeen, emitted, sent, items,
                     pendingGap>>
  BY SeenSame DEF DialOk, dedupe, policy
<1>2. Untouched \/ (AfterGap /\ suppressing = Window /\ ReconnectEnabled)
  BY <1>1 DEF StreamInv, RelayAwaited, BeforeRelay
<1>3. BacklogStart \in Nat \ {0} /\ BacklogStart' = BacklogStart
  BY <1>1 DEF BacklogStart
<1>4. (lastSeen <= emitted)' /\ WindowOrdered'
  BY <1>1 DEF StreamInv, WindowOrdered
<1>5. WindowCoversReplay'
  BY <1>1, <1>3 DEF StreamInv, WindowCoversReplay, InWindow
<1>6. GapPlaced' /\ RelayAwaited'
  BY <1>1 DEF StreamInv, GapPlaced, RelayAwaited, BeforeFirst, BeforeRelay
<1>7. AtSeam' = AtSeam
  BY <1>1 DEF AtSeam, AfterGap
<1>8. CaughtUp' \/ Replaying' \/ Skipped'
  <2>1. CASE BacklogStart > lastSeen
    <3>1. AtSeam
      BY <1>2 DEF AtSeam, Untouched
    <3>2. Skipped'
      BY <1>1, <1>3, <1>7, <2>1, <3>1 DEF Skipped
    <3>3. QED
      BY <3>2
  <2>2. CASE BacklogStart <= lastSeen
    <3>1. lastSeen # 0
      BY <1>3, <2>2
    <3>2. suppressing = Window /\ ReconnectEnabled
      BY <1>2, <3>1 DEF Untouched
    <3>3. lastSeen - BacklogStart < Window
      BY <2>2, <3>1 DEF BacklogStart, ReplayFits, StreamInv
    <3>4. \A n \in BacklogStart..lastSeen : InWindow(n)
      BY <3>2 DEF StreamInv, WindowCoversReplay
    <3>5. Replaying'
      BY <1>1, <1>3, <2>2, <3>2, <3>3, <3>4 DEF Replaying, InWindow
    <3>6. QED
      BY <3>5
  <2>3. QED
    BY <1>3, <2>1, <2>2
<1>9. RelayPlaced'
  BY <1>1, <1>8 DEF RelayPlaced
<1>10. QED
  BY <1>4, <1>5, <1>6, <1>9 DEF StreamInv

(* The keys of the window, in numbers. *)
LEMMA WindowKey ==
    ASSUME ApartInv, StreamInv, NEW i \in 1..Len(seen)
    PROVE  /\ seen[i] \in sent /\ seen[i] <= lastSeen
           /\ \A c \in Nat : c > lastSeen =>
                 seen[i] <= c - ((Len(seen) + 1) - i)
           /\ \A c \in Nat : c > lastSeen => seen[i] <= c - (Len(seen) - i)
<1>1. /\ seen \in Seq(1..MaxRecords) /\ lastSeen \in Nat
  BY SeenKeys DEF ApartInv, RecordsTypeOK
<1>2. Len(seen) \in Nat /\ DOMAIN seen = 1..Len(seen) /\ seen[i] \in 1..MaxRecords
  BY <1>1
<1>3. seen[i] \in sent /\ seen[i] <= lastSeen - (Len(seen) - i)
  BY <1>2 DEF StreamInv, WindowOrdered
<1> DEFINE key == seen[i]
           size == Len(seen)
<1>4. key \in Nat /\ size \in Nat /\ i \in 1..size /\ key <= lastSeen - (size - i)
  BY <1>2, <1>3
<1>5. SUFFICES /\ key \in sent /\ key <= lastSeen
               /\ \A c \in Nat : c > lastSeen => key <= c - ((size + 1) - i)
               /\ \A c \in Nat : c > lastSeen => key <= c - (size - i)
  OBVIOUS
<1>6. key \in sent
  BY <1>3
<1> HIDE DEF key, size
<1>7. QED
  BY <1>1, <1>4, <1>6

(* A replayed record is dropped: the next one is still in the window, or the *)
(* relay has caught up.                                                      *)
LEMMA ReplayKeepsStream ==
    ASSUME ApartInv, StreamInv, Read, IsReplayed(cursor)
    PROVE  StreamInv'
<1>0. /\ emitted \in 0..MaxRecords /\ cursor \in 1..(MaxRecords + 1)
      /\ sent \subseteq 1..MaxRecords
      /\ seen \in Seq(1..MaxRecords) /\ Len(seen) <= Window
      /\ suppressing \in 0..Window /\ lastSeen \in 0..MaxRecords
      /\ pendingGap \in {NoGap} \cup 0..MaxRecords
  BY SeenKeys DEF ApartInv, RecordsTypeOK
<1> USE <1>0
<1>1. /\ pc = "reading" /\ pc' = "reading" /\ cursor' = cursor + 1
      /\ sent' = sent \cup {cursor} /\ suppressing' = suppressing - 1
      /\ UNCHANGED <<seen, lastSeen, emitted, items, pendingGap>>
  BY SeenSame DEF Read, IsReplayed, policy
<1>2. cursor <= lastSeen
  <2>0. InWindow(cursor)
    BY <1>1, KnownIsSeen DEF Read, IsReplayed, InSession
  <2>1. PICK i \in DOMAIN seen : seen[i] = cursor
    BY <2>0 DEF InWindow
  <2>2. i \in 1..Len(seen)
    BY <2>1
  <2>3. QED
    BY <2>1, <2>2, WindowKey
<1>3. Replaying
  BY <1>1, <1>2 DEF StreamInv, RelayPlaced, CaughtUp, Skipped
<1>4. (lastSeen <= emitted)' /\ WindowOrdered'
  BY <1>1 DEF StreamInv, WindowOrdered
<1>5. WindowCoversReplay'
  BY <1>1 DEF StreamInv, WindowCoversReplay, BacklogStart, InWindow
<1>6. GapPlaced' /\ RelayAwaited'
  BY <1>1 DEF StreamInv, GapPlaced, RelayAwaited, BeforeFirst, BeforeRelay
<1>7. CaughtUp' \/ Replaying'
  <2>1. CASE cursor = lastSeen
    BY <1>1, <2>1 DEF CaughtUp
  <2>2. CASE cursor < lastSeen
    <3>1. \A n \in (cursor + 1)..lastSeen : InWindow(n)
      BY <1>3 DEF Replaying
    <3>2. Replaying'
      BY <1>1, <1>3, <2>2, <3>1 DEF Replaying, InWindow
    <3>3. QED
      BY <3>2
  <2>3. QED
    BY <1>2, <2>1, <2>2
<1>8. RelayPlaced'
  BY <1>1, <1>7 DEF RelayPlaced
<1>9. QED
  BY <1>4, <1>5, <1>6, <1>8 DEF StreamInv

(* A record that is not taken for a replayed one is new, and it follows the  *)
(* last one unless a gap stands before it.                                   *)
LEMMA NewRecord ==
    ASSUME ApartInv, StreamInv, pc = "reading", cursor <= emitted,
           ~IsReplayed(cursor)
    PROVE  /\ cursor > lastSeen
           /\ cursor = lastSeen + 1 \/ (AtSeam /\ cursor <= BacklogStart)
<1>0. /\ emitted \in 0..MaxRecords /\ cursor \in 1..(MaxRecords + 1)
      /\ sent \subseteq 1..MaxRecords
      /\ seen \in Seq(1..MaxRecords) /\ Len(seen) <= Window
      /\ suppressing \in 0..Window /\ lastSeen \in 0..MaxRecords
      /\ pendingGap \in {NoGap} \cup 0..MaxRecords
  BY SeenKeys DEF ApartInv, RecordsTypeOK
<1> USE <1>0
<1>1. ~Replaying
  <2>1. SUFFICES ASSUME Replaying PROVE IsReplayed(cursor)
    OBVIOUS
  <2>2. cursor \in cursor..lastSeen /\ suppressing > 0
    BY <2>1 DEF Replaying
  <2>3. QED
    BY <2>1, <2>2, KnownIsSeen DEF Replaying, IsReplayed, InSession
<1>2. CaughtUp \/ Skipped
  BY <1>1 DEF StreamInv, RelayPlaced
<1>3. QED
  BY <1>2 DEF CaughtUp, Skipped

(* Remembering a new record drops at most the oldest key, and that one only  *)
(* when the window is full.                                                  *)
LEMMA RememberedNew ==
    ASSUME ApartInv, StreamInv, NEW r \in 1..MaxRecords, r > lastSeen,
           ReconnectEnabled
    PROVE  \/ SeenAfter(r) = Append(seen, r) /\ Len(seen) < Window
           \/ SeenAfter(r) = Tail(Append(seen, r)) /\ Len(seen) = Window
<1>0. /\ emitted \in 0..MaxRecords /\ cursor \in 1..(MaxRecords + 1)
      /\ sent \subseteq 1..MaxRecords
      /\ seen \in Seq(1..MaxRecords) /\ Len(seen) <= Window
      /\ suppressing \in 0..Window /\ lastSeen \in 0..MaxRecords
      /\ pendingGap \in {NoGap} \cup 0..MaxRecords
  BY SeenKeys DEF ApartInv, RecordsTypeOK
<1> USE <1>0
<1>1. ~InWindow(r)
  <2>1. SUFFICES ASSUME NEW i \in DOMAIN seen, seen[i] = r PROVE FALSE
    BY DEF InWindow
  <2>2. i \in 1..Len(seen)
    BY <2>1
  <2>3. seen[i] <= lastSeen
    BY <2>2, WindowKey
  <2>4. QED
    BY <2>1, <2>3
<1>2. Len(Append(seen, r)) = Len(seen) + 1
  OBVIOUS
<1>3. QED
  BY <1>1, <1>2 DEF SeenAfter

(* A new record is remembered, and the window still covers the replay. *)
LEMMA RecordKeepsWindow ==
    ASSUME ReplayFits, ApartInv, StreamInv, Read, ~IsReplayed(cursor)
    PROVE  WindowOrdered' /\ WindowCoversReplay'
<1>0. /\ emitted \in 0..MaxRecords /\ cursor \in 1..(MaxRecords + 1)
      /\ sent \subseteq 1..MaxRecords
      /\ seen \in Seq(1..MaxRecords) /\ Len(seen) <= Window
      /\ suppressing \in 0..Window /\ lastSeen \in 0..MaxRecords
      /\ pendingGap \in {NoGap} \cup 0..MaxRecords
  BY SeenKeys DEF ApartInv, RecordsTypeOK
<1> USE <1>0
<1>1. /\ pc = "reading" /\ pc' = "at_record" /\ cursor' = cursor + 1
      /\ cursor <= emitted /\ sent' = sent \cup {cursor}
      /\ lastSeen' = cursor /\ emitted' = emitted
  BY DEF Read
<1>7. seen' = SeenAfter(cursor)
  BY <1>1, SeenGrows DEF Read, InSession
<1>2. cursor \in 1..MaxRecords /\ cursor > lastSeen
      /\ (cursor = lastSeen + 1 \/ cursor <= BacklogStart)
  BY <1>1, NewRecord
<1>3. BacklogStart \in Nat \ {0} /\ BacklogStart' = BacklogStart
  BY <1>1 DEF BacklogStart
<1>4. CASE ~ReconnectEnabled
  <2>1. seen' = seen
    BY <1>7, <1>4 DEF SeenAfter
  <2>2. WindowOrdered'
    <3> SUFFICES ASSUME NEW i \in DOMAIN seen
                 PROVE  /\ seen[i] \in sent'
                        /\ seen[i] <= cursor - (Len(seen) - i)
      BY <1>1, <2>1 DEF WindowOrdered
    <3>1. i \in 1..Len(seen) /\ cursor \in Nat
      BY <1>2
    <3>2. QED
      BY <1>1, <1>2, <3>1, WindowKey
  <2>3. WindowCoversReplay'
    BY <1>4 DEF WindowCoversReplay
  <2>4. QED
    BY <2>2, <2>3
<1>5. CASE ReconnectEnabled
  <2> DEFINE grown == Append(seen, cursor)
  <2>1. /\ grown \in Seq(1..MaxRecords) /\ Len(grown) = Len(seen) + 1
        /\ \A i \in 1..Len(seen) : grown[i] = seen[i]
        /\ grown[Len(seen) + 1] = cursor
    BY <1>2
  <2>2. \A i \in 1..Len(grown) :
            /\ grown[i] \in sent'
            /\ grown[i] <= cursor - (Len(grown) - i)
    <3> SUFFICES ASSUME NEW i \in 1..Len(grown)
                 PROVE  grown[i] \in sent' /\ grown[i] <= cursor - (Len(grown) - i)
      OBVIOUS
    <3>1. CASE i \in 1..Len(seen)
      <4> HIDE DEF grown
      <4>1. cursor \in Nat /\ grown[i] = seen[i] /\ Len(grown) = Len(seen) + 1
        BY SMTT(30), <1>2, <2>1, <3>1
      <4>2. seen[i] \in sent /\ seen[i] <= cursor - ((Len(seen) + 1) - i)
        BY <1>2, <3>1, <4>1, WindowKey
      <4>3. QED
        BY <1>1, <4>1, <4>2
    <3>2. CASE i = Len(seen) + 1
      <4> HIDE DEF grown
      <4>1. QED
        BY <1>1, <1>2, <2>1, <3>2
    <3>3. QED
      BY <2>1, <3>1, <3>2
  <2>3. \A n \in BacklogStart..cursor : \E i \in 1..Len(grown) : grown[i] = n
    <3> SUFFICES ASSUME NEW n \in BacklogStart..cursor
                 PROVE  \E i \in 1..Len(grown) : grown[i] = n
      OBVIOUS
    <3>1. CASE n = cursor
      <4> HIDE DEF grown
      <4>1. Len(seen) + 1 \in 1..Len(grown)
        BY <2>1
      <4>2. QED
        BY <2>1, <3>1, <4>1
    <3>2. CASE n # cursor
      <4>1. n \in BacklogStart..lastSeen
        BY <1>2, <1>3, <3>2
      <4>2. PICK i \in DOMAIN seen : seen[i] = n
        BY <1>5, <4>1 DEF StreamInv, WindowCoversReplay, InWindow
      <4>3. i \in 1..Len(seen)
        BY <4>2
      <4> HIDE DEF grown
      <4>4. i \in 1..Len(grown)
        BY <2>1, <4>3
      <4>5. QED
        BY <2>1, <4>2, <4>3, <4>4
    <3>3. QED
      BY <3>1, <3>2
  <2>4. CASE seen' = grown
    <3>1. DOMAIN seen' = 1..Len(grown) /\ Len(seen') = Len(grown)
      BY <2>1, <2>4
    <3> HIDE DEF grown
    <3>2. WindowOrdered'
      BY <1>1, <2>2, <2>4, <3>1 DEF WindowOrdered
    <3>3. WindowCoversReplay'
      BY <1>1, <1>3, <2>3, <2>4, <3>1 DEF WindowCoversReplay, InWindow
    <3>4. QED
      BY <3>2, <3>3
  <2>5. CASE seen' = Tail(grown) /\ Len(seen) = Window
    <3> HIDE DEF grown
    <3>1. /\ DOMAIN seen' = 1..Window /\ Len(seen') = Window
          /\ Len(grown) = Window + 1
          /\ \A i \in 1..Window : seen'[i] = grown[i + 1]
      BY <2>1, <2>5
    <3>2. WindowOrdered'
      <4> SUFFICES ASSUME NEW i \in 1..Window
                   PROVE  /\ seen'[i] \in sent'
                          /\ seen'[i] <= cursor - (Window - i)
        BY <1>1, <3>1 DEF WindowOrdered
      <4>1. i + 1 \in 1..Len(grown) /\ Len(grown) - (i + 1) = Window - i
        BY <3>1
      <4>2. QED
        BY <2>2, <3>1, <4>1
    <3>3. grown[1] < BacklogStart
      <4>1. 1 \in 1..Len(grown) /\ Len(grown) - 1 = Window
        BY <3>1
      <4>2. grown[1] <= cursor - Window /\ grown[1] \in 1..MaxRecords
        BY <2>1, <2>2, <4>1
      <4>3. QED
        BY <1>1, <1>2, <4>2 DEF BacklogStart, ReplayFits
    <3>4. WindowCoversReplay'
      <4> SUFFICES ASSUME NEW n \in BacklogStart..cursor
                   PROVE  \E i \in 1..Window : seen'[i] = n
        BY <1>1, <1>3, <3>1 DEF WindowCoversReplay, InWindow
      <4>1. PICK i \in 1..Len(grown) : grown[i] = n
        BY <2>3
      <4>2. i # 1
        BY <1>3, <3>3, <4>1
      <4>3. i - 1 \in 1..Window /\ (i - 1) + 1 = i
        BY <3>1, <4>2
      <4>4. seen'[i - 1] = n
        BY <3>1, <4>1, <4>3
      <4>5. QED
        BY <4>3, <4>4
    <3>5. QED
      BY <3>2, <3>4
  <2>6. QED
    BY <1>2, <1>5, <1>7, <2>4, <2>5, RememberedNew
<1>6. QED
  BY <1>4, <1>5

(* A new record is yielded. *)
LEMMA RecordKeepsStream ==
    ASSUME ReplayFits, ApartInv, OutageInv, StreamInv, Read, ~IsReplayed(cursor)
    PROVE  StreamInv'
<1>1. /\ pc' = "at_record" /\ cursor' = cursor + 1 /\ cursor <= emitted
      /\ lastSeen' = cursor /\ UNCHANGED <<emitted, pendingGap>>
  BY DEF Read, policy
<1>2. pendingGap = NoGap
  BY DEF OutageInv, Connected, Read
<1>3. QED
  BY <1>1, <1>2, RecordKeepsWindow
     DEF StreamInv, RelayAwaited, RelayPlaced, GapPlaced, CaughtUp, BeforeFirst,
         BeforeRelay

(* The connection is lost, and the outage that begins is noted at the last   *)
(* record.                                                                   *)
LEMMA OutageKeepsStream ==
    ASSUME ApartInv, StreamInv, LeaveLockdown
    PROVE  StreamInv'
<1>1. UNCHANGED <<seen, recent, content, suppressing, lastSeen, emitted, cursor,
                  sent, items>>
  BY SeenSame DEF LeaveLockdown, dedupe, device
<1>2. CASE pc' \in {"ended", "failed"} /\ pendingGap' = pendingGap
  BY <1>1, <1>2, OnlyMoves DEF BeforeFirst, BeforeRelay
<1>3. CASE /\ pc' = "delay" /\ ReconnectEnabled
           /\ pendingGap' = IF lastSeen = 0 THEN emitted ELSE lastSeen
  <2>1. pendingGap' # NoGap /\ pendingGap' <= emitted
        /\ (lastSeen # 0 => pendingGap' = lastSeen)
    BY <1>3 DEF ApartInv, RecordsTypeOK, StreamInv, NoGap
  <2>2. GapPlaced' /\ RelayAwaited' /\ RelayPlaced'
    BY <1>1, <1>3, <2>1
       DEF GapPlaced, RelayAwaited, RelayPlaced, BeforeFirst, BeforeRelay
  <2>3. (lastSeen <= emitted)' /\ WindowOrdered'
    BY <1>1 DEF StreamInv, WindowOrdered
  <2>4. WindowCoversReplay'
    BY <1>1 DEF StreamInv, WindowCoversReplay, BacklogStart, InWindow
  <2>5. QED
    BY <2>2, <2>3, <2>4 DEF StreamInv
<1>4. QED
  BY <1>2, <1>3 DEF LeaveLockdown, DeviceNow

LEMMA NextStream ==
    ASSUME ReplayFits, ApartInv, OutageInv, StreamInv, [Next]_vars
    PROVE  StreamInv'
<1> USE DEF BeforeFirst, BeforeRelay, conn, policy, dedupe, device
<1>1. CASE ProbeOpen
  BY <1>1, OnlyMoves DEF ProbeOpen, Opened
<1>2. CASE ProbeFails
  BY <1>2, OnlyMoves DEF ProbeFails
<1>3. CASE ProbeClose
  BY <1>3, OnlyMoves DEF ProbeClose
<1>4. CASE Start
  BY <1>4, OnlyMoves DEF Start, TryConnect, Stopped
<1>5. CASE OpenOk
  BY <1>5, OnlyMoves DEF OpenOk, Opened
<1>6. CASE \E r \in BOOLEAN : OpenFails(r)
  BY <1>6, OnlyMoves DEF OpenFails
<1>7. CASE RetryWake
  BY <1>7, OnlyMoves DEF RetryWake, TryConnect, Stopped
<1>8. CASE Identified
  BY <1>8, GapKeepsStream
<1>9. CASE PullAfterGap
  BY <1>9, OnlyMoves DEF PullAfterGap
<1>10. CASE StartRelay
  BY <1>10, OnlyMoves DEF StartRelay
<1>11. CASE DialOk
  BY <1>11, DialKeepsStream
<1>12. CASE Read
  BY <1>12, ReplayKeepsStream, RecordKeepsStream
<1>13. CASE PullAfterRecord
  <2>1. StreamInv /\ CaughtUp
    BY <1>13 DEF PullAfterRecord, StreamInv, RelayPlaced
  <2>2. QED
    BY <1>13, <2>1, OnlyMoves DEF PullAfterRecord
<1>14. CASE \E how \in {"exhausted", "recoverable", "fatal"} : HangUp(how)
  BY <1>14, OnlyMoves DEF HangUp, Leave
<1>15. CASE SocketGone
  BY <1>15, OnlyMoves DEF SocketGone, Leave
<1>16. CASE LeaveService
  BY <1>16, OnlyMoves DEF LeaveService
<1>17. CASE LeaveLockdown
  BY <1>17, OutageKeepsStream
<1>18. CASE DelayOver
  BY <1>18, OnlyMoves DEF DelayOver, TryConnect, Stopped
<1>19. CASE Cancel
  BY <1>19, OnlyMoves DEF Cancel, Leave
<1>20. CASE Aclose
  BY <1>20, OnlyMoves DEF Aclose
<1>21. CASE AcloseAfterService
  BY <1>21, OnlyMoves DEF AcloseAfterService
<1>22. CASE AcloseReturns
  BY <1>22, OnlyMoves DEF AcloseReturns
<1>23. CASE Emit
  BY <1>23, EmitKeepsStream
<1>24. CASE Done \/ UNCHANGED vars
  BY <1>24, OnlyMoves DEF Done, vars
<1>25. QED
  BY <1>1, <1>2, <1>3, <1>4, <1>5, <1>6, <1>7, <1>8, <1>9, <1>10, <1>11, <1>12,
     <1>13, <1>14, <1>15, <1>16, <1>17, <1>18, <1>19, <1>20, <1>21, <1>22,
     <1>23, <1>24
     DEF Next, Probe, StreamStep, Open, CloserStep

(* The source is used as the promise says: it starts with nothing yielded,   *)
(* and each of its steps yields what a LogStream may, ends it, or stutters.  *)
LEMMA StreamStarts == Init => Promise!Init
<1> SUFFICES ASSUME Init PROVE Promise!Init
  OBVIOUS
<1>1. items = <<>> /\ lastSeen = 0 /\ pc = "idle"
  BY DEF Init
<1>2. QED
  BY <1>1 DEF Promise!Init, Terminal

LEMMA GapIsPromised ==
    ASSUME ApartInv, StreamInv, Identified, pendingGap # NoGap, ToldApart'
    PROVE  Promise!YieldGap
<1>0. ToldApart
  BY DEF ApartInv
<1>1. /\ pc = "identifying" /\ pc' = "at_gap" /\ lastSeen' = lastSeen
      /\ items' = Append(items, GapFrom(pendingGap, emitted))
  BY DEF Identified, DeviceNow
<1>2. /\ pendingGap \in 0..MaxRecords /\ emitted \in 0..MaxRecords
      /\ pendingGap <= emitted /\ (lastSeen # 0 => pendingGap = lastSeen)
  BY DEF ApartInv, RecordsTypeOK, StreamInv, GapPlaced
<1>3. QED
  BY <1>0, <1>1, <1>2 DEF Promise!YieldGap, Promise!GapFrom, GapFrom, Terminal

LEMMA RecordIsPromised ==
    ASSUME ApartInv, StreamInv, Read, ~IsReplayed(cursor), ToldApart'
    PROVE  Promise!YieldRecord
<1>1. /\ pc = "reading" /\ pc' = "at_record" /\ lastSeen' = cursor
      /\ items' = Append(items, Rec(cursor)) /\ cursor <= emitted
  BY DEF Read
<1>0. ToldApart
  BY DEF ApartInv
<1>2. cursor \in 0..MaxRecords
  BY <1>1 DEF ApartInv, RecordsTypeOK
<1>3. cursor > lastSeen /\ (cursor = lastSeen + 1 \/ AtSeam)
  BY <1>1, NewRecord
<1>4. QED
  BY <1>0, <1>1, <1>2, <1>3
     DEF Promise!YieldRecord, Promise!Rec, Promise!AfterGap, AfterGap, Rec, AtSeam,
         Terminal

(* Every other step ends the stream at most once and yields nothing. *)
LEMMA OthersStutter ==
    ASSUME UNCHANGED <<items, lastSeen>>, ToldApart' = ToldApart,
           pc \in Terminal \cup {"unreachable"} => pc' = pc
    PROVE  [Promise!Next]_(Promise!vars)
  BY DEF Promise!Next, Promise!vars, Promise!End, Terminal

LEMMA NextIsPromised ==
    ASSUME ApartInv, StreamInv, [Next]_vars, ToldApart' = ToldApart
    PROVE  [Promise!Next]_(Promise!vars)
<1>0. ToldApart'
  BY DEF ApartInv
<1> USE DEF Terminal, conn, policy, dedupe, device
<1>1. CASE ProbeOpen
  BY <1>1, OthersStutter DEF ProbeOpen, Opened
<1>2. CASE ProbeFails
  BY <1>2, OthersStutter DEF ProbeFails
<1>3. CASE ProbeClose
  BY <1>3, OthersStutter DEF ProbeClose
<1>4. CASE Start
  BY <1>4, OthersStutter DEF Start
<1>5. CASE OpenOk
  BY <1>5, OthersStutter DEF OpenOk
<1>6. CASE \E r \in BOOLEAN : OpenFails(r)
  BY <1>6, OthersStutter DEF OpenFails
<1>7. CASE RetryWake
  BY <1>7, OthersStutter DEF RetryWake
<1>8. CASE Identified
  <2>1. CASE pendingGap = NoGap
    BY <1>8, <2>1, OthersStutter DEF Identified
  <2>2. CASE pendingGap # NoGap
    BY <1>0, <1>8, <2>2, GapIsPromised DEF Promise!Next
  <2>3. QED
    BY <2>1, <2>2
<1>9. CASE PullAfterGap
  BY <1>9, OthersStutter DEF PullAfterGap
<1>10. CASE StartRelay
  BY <1>10, OthersStutter DEF StartRelay
<1>11. CASE DialOk
  BY <1>11, OthersStutter DEF DialOk
<1>12. CASE Read
  <2>1. CASE IsReplayed(cursor)
    BY <1>12, <2>1, OthersStutter DEF Read
  <2>2. CASE ~IsReplayed(cursor)
    BY <1>0, <1>12, <2>2, RecordIsPromised DEF Promise!Next
  <2>3. QED
    BY <2>1, <2>2
<1>13. CASE PullAfterRecord
  BY <1>13, OthersStutter DEF PullAfterRecord
<1>14. CASE \E how \in {"exhausted", "recoverable", "fatal"} : HangUp(how)
  BY <1>14, OthersStutter DEF HangUp, Leave
<1>15. CASE SocketGone
  BY <1>15, OthersStutter DEF SocketGone, Leave
<1>16. CASE LeaveService
  BY <1>16, OthersStutter DEF LeaveService
<1>17. CASE LeaveLockdown
  BY <1>17, OthersStutter DEF LeaveLockdown
<1>18. CASE DelayOver
  BY <1>18, OthersStutter DEF DelayOver
<1>19. CASE Cancel
  BY <1>19, OthersStutter DEF Cancel, Leave
<1>20. CASE Aclose
  BY <1>20, OthersStutter DEF Aclose
<1>21. CASE AcloseAfterService
  BY <1>21, OthersStutter DEF AcloseAfterService
<1>22. CASE AcloseReturns
  BY <1>22, OthersStutter DEF AcloseReturns
<1>23. CASE Emit
  BY <1>23, OthersStutter DEF Emit
<1>24. CASE Done \/ UNCHANGED vars
  BY <1>24, OthersStutter DEF Done, vars
<1>25. QED
  BY <1>1, <1>2, <1>3, <1>4, <1>5, <1>6, <1>7, <1>8, <1>9, <1>10, <1>11, <1>12,
     <1>13, <1>14, <1>15, <1>16, <1>17, <1>18, <1>19, <1>20, <1>21, <1>22,
     <1>23, <1>24
     DEF Next, Probe, StreamStep, Open, CloserStep

(* What a device says, and whether it is told apart, is settled at the start. *)
LEMMA DeviceStays == [Next]_vars => UNCHANGED <<content, offset>>
<1> SUFFICES ASSUME [Next]_vars PROVE UNCHANGED <<content, offset>>
  OBVIOUS
<1> USE DEF device
<1>1. CASE Probe
  BY <1>1 DEF Probe, ProbeOpen, ProbeFails
<1>2. CASE StreamStep
  BY <1>2 DEF StreamStep, ProbeClose, Start, RetryWake, Identified, PullAfterGap,
              StartRelay, Read, PullAfterRecord, SocketGone, LeaveService,
              LeaveLockdown, DelayOver, Leave
<1>3. CASE Open \/ DialOk
  BY <1>3 DEF Open, OpenOk, OpenFails, DialOk
<1>4. CASE \E how \in {"exhausted", "recoverable", "fatal"} : HangUp(how)
  BY <1>4 DEF HangUp, Leave
<1>5. CASE Cancel
  BY <1>5 DEF Cancel, Leave
<1>6. CASE CloserStep
  BY <1>6 DEF CloserStep, Aclose, AcloseAfterService, AcloseReturns
<1>7. CASE Emit
  BY <1>7 DEF Emit
<1>8. CASE Done \/ UNCHANGED vars
  BY <1>8 DEF Done, vars
<1>9. QED
  BY <1>1, <1>2, <1>3, <1>4, <1>5, <1>6, <1>7, <1>8 DEF Next

(* The live source implements the contract every LogSource gives, across any *)
(* number of outages and replays, of a device whose keys tell its records    *)
(* apart: each record once, in order, and a gap that starts at the last      *)
(* record wherever one was lost.                                             *)
THEOREM SourceIsLogStream ==
    ASSUME ReplayFits
    PROVE  Spec => KeepsLogStream
<1> DEFINE Inv == /\ TasksInv /\ RecordsTypeOK /\ DeliveredInv /\ OutageInv
                  /\ ToldApart => StreamInv
<1>1. Init => Inv
  BY InitTasks, InitRecords, InitDelivered, InitStream
     DEF Init, OutageInv, Away, Connected
<1>2. [Next]_vars => ToldApart' = ToldApart
  BY DeviceStays DEF ToldApart
<1>3. Inv /\ [Next]_vars => Inv'
  BY <1>2, NextTasks, NextRecords, NextDelivered, NextOutageInv, NextStream
     DEF ApartInv
<1>4. Init => Promise!Init
  BY StreamStarts
<1>5. Inv /\ [Next]_vars => [Promise!Next]_(Promise!vars)
  <2> SUFFICES ASSUME Inv, [Next]_vars PROVE [Promise!Next]_(Promise!vars)
    OBVIOUS
  <2>1. CASE ToldApart
    BY <1>2, <2>1, NextIsPromised DEF ApartInv
  <2>2. CASE ~ToldApart
    BY <1>2, <2>2 DEF Promise!vars
  <2>3. QED
    BY <2>1, <2>2
<1> HIDE DEF Inv
<1>6. QED
  BY <1>1, <1>3, <1>4, <1>5, PTL DEF Spec, KeepsLogStream, Promise!Spec
=============================================================================
