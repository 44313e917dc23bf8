---------------------- MODULE CaptureController_proofs ----------------------
(***************************************************************************)
(* Theorems about the capture controller, its threads and their pumps, for *)
(* every number of captures, reports and pause limit.                      *)
(***************************************************************************)
EXTENDS CaptureController, WellFoundedInduction, SequenceTheorems, TLAPS

USE BoundsAssumption, PauseAssumption

Kinds == {"identified", "STREAMING", "RECONNECTING", "failed", "completed", "finished"}
Pcs == {"free", "asking", "waiting", "parking", "launching", "joining", "closed"}

-----------------------------------------------------------------------------
(* Types.                                                                  *)

ThreadTypes ==
    /\ phase \in [Threads -> Phases]
    /\ outcome \in [Threads -> {"none", "failed", "completed", "cancelled"}]
    /\ flag \in [Threads -> BOOLEAN] /\ task \in [Threads -> BOOLEAN]
    /\ cancelled \in [Threads -> BOOLEAN]
    /\ links \in Nat
    /\ events \in Seq([kind : Kinds, thread : Threads])

PumpTypes ==
    /\ paused \in [Threads -> BOOLEAN] /\ released \in [Threads -> BOOLEAN]
    /\ produced \in [Threads -> Nat] /\ queue \in [Threads -> Nat]
    /\ shown \in [Threads -> Nat] /\ evicted \in [Threads -> Nat]
    /\ \A t \in Threads : produced[t] = queue[t] + shown[t] + evicted[t]

ControlTypes ==
    /\ connected \in [Threads -> BOOLEAN]
    /\ gui \in [pc : Pcs, thread : Threads \cup {Nobody}, then : Reasons]
    /\ current \in Threads \cup {Nobody}
    /\ parked \subseteq Threads /\ announced \subseteq Threads
    /\ state \in Lifecycle

TypeInv == ThreadTypes /\ PumpTypes /\ ControlTypes

(* stop() is under way for one thread, which is neither current any more    *)
(* nor parked yet; what the controller holds has been started; and a start  *)
(* that waits for a stop still has a thread to give.                        *)
Stopping == {"asking", "waiting", "parking"}
Held == parked \cup ({current, gui.thread} \ {Nobody})

ControlInv ==
    /\ gui.pc \in Stopping <=> gui.thread # Nobody
    /\ gui.pc # "free" => current = Nobody
    /\ current \notin parked /\ gui.thread \notin parked
    /\ Held \subseteq Started
    /\ gui.pc = "launching" \/ (gui.pc \in Stopping /\ gui.then = "start")
            => Started # Threads

(* A session is announced once its pump has been let go. *)
AnnouncedInv == \A t \in announced : released[t]

(* A thread that waits for its stop flag, captures or winds down has a task. *)
TaskInv ==
    \A t \in Threads : phase[t] \in {"checking", "capturing", "winding"} => task[t]

(* StopIsNotLost: a Disconnect pressed at any point of a capture's start    *)
(* reaches it: a capture that goes on although it was asked to stop has a   *)
(* cancellation pending, or stop() is on its way to the task                *)
(* (CaptureThread._capture, CaptureThread.stop).                            *)
StopIsNotLost ==
    \A t \in Threads : flag[t] /\ phase[t] = "capturing" =>
        cancelled[t] \/ (gui.pc = "asking" /\ gui.thread = t)

Queued(e) == \E i \in DOMAIN events : events[i] = e

(* A thread is connected when it is parked. *)
ConnectedInv == \A t \in parked : connected[t]

(* A signal is queued, and the first of the queue delivered. *)
LEMMA EmitTypes ==
    ASSUME ThreadTypes, NEW t \in Threads, NEW kind \in Kinds, Emit(kind, t)
    PROVE  events' \in Seq([kind : Kinds, thread : Threads])
  BY AppendProperties DEF ThreadTypes, Emit, Event

LEMMA DeliverTypes ==
    ASSUME ThreadTypes, NEW kind, Deliver(kind)
    PROVE  events' \in Seq([kind : Kinds, thread : Threads])
  BY HeadTailProperties DEF ThreadTypes, Deliver

(* Draining moves items from the queue to the model. *)
LEMMA DrainKeepsItems ==
    ASSUME PumpTypes, NEW P, Drained(P), UNCHANGED <<evicted, produced>>
    PROVE  /\ queue' \in [Threads -> Nat] /\ shown' \in [Threads -> Nat]
           /\ \A t \in Threads : produced'[t] = queue'[t] + shown'[t] + evicted'[t]
           /\ \A t \in Threads : queue'[t] = IF t \in P THEN 0 ELSE queue[t]
  BY DEF PumpTypes, Drained

LEMMA ReleaseKeepsItems ==
    ASSUME PumpTypes, NEW P, Release(P), UNCHANGED produced
    PROVE  PumpTypes'
  BY DrainKeepsItems DEF PumpTypes, Release

(* stop() drains the pump it found paused. *)
LEMMA BeginStopKeepsItems ==
    ASSUME TypeInv, NEW reason, BeginStop(reason), UNCHANGED produced
    PROVE  PumpTypes'
<1>1. CASE current = Nobody
  BY <1>1 DEF BeginStop, pump, TypeInv, PumpTypes
<1>2. CASE current # Nobody /\ paused[current]
  <2>1. PumpTypes /\ Drained({current}) /\ UNCHANGED evicted
    BY <1>2 DEF BeginStop, TypeInv
  <2>2. paused' = [paused EXCEPT ![current] = FALSE] /\ UNCHANGED released
    BY <1>2 DEF BeginStop
  <2>3. QED
    BY <2>1, <2>2, DrainKeepsItems DEF PumpTypes
<1>3. CASE current # Nobody /\ ~paused[current]
  BY <1>3 DEF BeginStop, TypeInv, PumpTypes
<1>4. QED
  BY <1>1, <1>2, <1>3

(* Where stop() leaves the interface thread. *)
LEMMA AfterTypes ==
    ASSUME NEW reason
    PROVE  /\ After(reason) \in [pc : Pcs, thread : Threads \cup {Nobody}, then : Reasons]
           /\ After(reason).thread = Nobody
           /\ After(reason).pc \in {"free", "launching", "joining"}
           /\ After(reason).pc = "launching" <=> reason = "start"
  BY DEF After, Free, Pcs, Reasons

LEMMA BeginStopGoesOn ==
    ASSUME NEW reason, BeginStop(reason)
    PROVE  gui'.pc \in {"free", "asking", "launching", "joining"}
  BY AfterTypes DEF BeginStop

LEMMA BeginStopTypes ==
    ASSUME TypeInv, NEW reason \in Reasons, BeginStop(reason),
           UNCHANGED <<parked, announced, connected>>
    PROVE  ControlTypes'
<1>1. CASE current = Nobody
  BY <1>1, AfterTypes DEF BeginStop, TypeInv, ControlTypes
<1>2. CASE current # Nobody
  BY <1>2 DEF BeginStop, TypeInv, ControlTypes, Pcs, Lifecycle
<1>3. QED
  BY <1>1, <1>2

(* The least of a set of numbers. *)
LEMMA LeastNatural ==
    ASSUME NEW S \in SUBSET Nat, S # {}
    PROVE  \E m \in S : \A k \in S : m <= k
<1>1. PICK m \in S : \A k \in S : ~ (<<k, m>> \in OpToRel(<, Nat))
  BY NatLessThanWellFounded, WFMin
<1>2. ASSUME NEW k \in S, k < m PROVE <<k, m>> \in OpToRel(<, Nat)
  BY <1>2 DEF OpToRel
<1>3. \A k \in S : ~(k < m)
  BY <1>1, <1>2
<1>4. QED
  BY <1>3

(* A capture that is launched gets a thread that was never started. *)
LEMMA LaunchTakesANewThread ==
    ASSUME Started # Threads, Launch
    PROVE  /\ current' \in Threads \ Started
           /\ phase' = [phase EXCEPT ![current'] = "identifying"]
<1> DEFINE next == CHOOSE u \in Threads \ Started :
                        \A v \in Threads \ Started : u <= v
<1>1. Threads \ Started \in SUBSET Nat /\ Threads \ Started # {}
  BY DEF Threads, Started
<1>2. \E u \in Threads \ Started : \A v \in Threads \ Started : u <= v
  BY <1>1, LeastNatural
<1>3. next \in Threads \ Started
  BY <1>2
<1>4. current' = next /\ phase' = [phase EXCEPT ![next] = "identifying"]
  BY DEF Launch, Move
<1>5. QED
  BY <1>3, <1>4

(* A thread that moves on was started before and stays so. *)
LEMMA MoveKeepsStarted ==
    ASSUME ThreadTypes, NEW t \in Threads, NEW from, NEW to,
           Move(t, from, to), from # "new", to # "new"
    PROVE  Started' = Started
  BY DEF ThreadTypes, Move, Started

LEMMA BeginStopControl ==
    ASSUME TypeInv, ControlInv, NEW reason, BeginStop(reason), gui.pc = "free",
           UNCHANGED <<parked, phase>>, reason = "start" => Started # Threads
    PROVE  ControlInv'
<1>1. gui.thread = Nobody /\ Started' = Started
  BY DEF ControlInv, Stopping, Started
<1>2. CASE current = Nobody
  BY <1>1, <1>2, AfterTypes DEF BeginStop, ControlInv, Stopping, Held
<1>3. CASE current # Nobody
  BY <1>1, <1>3 DEF BeginStop, ControlInv, Stopping, Held, TypeInv, ControlTypes
<1>4. QED
  BY <1>2, <1>3

(* What is queued stays queued when a signal is added ... *)
LEMMA QueueGrows ==
    ASSUME ThreadTypes, NEW t \in Threads, NEW kind \in Kinds, Emit(kind, t)
    PROVE  /\ \A e : Queued(e) => Queued(e)'
           /\ Queued(Event(kind, t))'
<1>1. /\ Event(kind, t) \in [kind : Kinds, thread : Threads]
      /\ events \in Seq([kind : Kinds, thread : Threads])
      /\ events' = Append(events, Event(kind, t))
  BY DEF ThreadTypes, Emit, Event
<1>2. /\ DOMAIN events' = 1..(Len(events) + 1) /\ DOMAIN events = 1..Len(events)
      /\ Len(events) \in Nat
      /\ \A i \in 1..Len(events) : events'[i] = events[i]
      /\ events'[Len(events) + 1] = Event(kind, t)
  BY <1>1, AppendProperties, LenProperties
<1>3. \A e : Queued(e) => Queued(e)'
  BY <1>2 DEF Queued
<1>4. Len(events) + 1 \in DOMAIN events'
  BY <1>2
<1>5. Queued(Event(kind, t))'
  BY <1>2, <1>4 DEF Queued, Event
<1>6. QED
  BY <1>3, <1>5

(* ... and when another is delivered. *)
LEMMA QueueShrinks ==
    ASSUME ThreadTypes, NEW kind, Deliver(kind), NEW e, e.kind # kind, Queued(e)
    PROVE  Queued(e)'
<1>1. /\ events \in Seq([kind : Kinds, thread : Threads]) /\ events # <<>>
      /\ events' = Tail(events) /\ events[1].kind = kind
  BY DEF ThreadTypes, Deliver
<1>2. PICK i \in 1..Len(events) : events[i] = e
  BY <1>1, LenProperties DEF Queued
<1>3. /\ Len(events) \in Nat /\ DOMAIN events' = 1..(Len(events) - 1)
      /\ \A j \in 1..(Len(events) - 1) : events'[j] = events[j + 1]
  BY <1>1, HeadTailProperties, LenProperties
<1>4. i - 1 \in 1..(Len(events) - 1) /\ (i - 1) + 1 = i
  BY <1>1, <1>2, <1>3
<1>5. QED
  BY <1>2, <1>3, <1>4 DEF Queued


(* The types of what capture threads keep. *)
LEMMA ThreadTypesStep == TypeInv /\ [Next]_vars => ThreadTypes'
<1> SUFFICES ASSUME TypeInv, [Next]_vars PROVE ThreadTypes'
  OBVIOUS
<1> USE DEF TypeInv, ThreadTypes, ControlTypes, Phases, Kinds, Nobody
<1>1. ASSUME NEW t \in Threads, Identify(t) PROVE ThreadTypes'
  BY <1>1, EmitTypes DEF Identify, life, Move
<1>2. ASSUME NEW t \in Threads, IdentifyFails(t) PROVE ThreadTypes'
  BY <1>2, EmitTypes DEF IdentifyFails, life, Move
<1>3. ASSUME NEW t \in Threads, AssignTask(t) PROVE ThreadTypes'
  BY <1>3 DEF AssignTask, life, Move
<1>4. ASSUME NEW t \in Threads, CheckStop(t) PROVE ThreadTypes'
  BY <1>4 DEF CheckStop, life, Move
<1>5. ASSUME NEW t \in Threads, Produce(t) PROVE ThreadTypes'
  BY <1>5 DEF Produce, life
<1>6. ASSUME NEW t \in Threads, NEW link \in {"STREAMING", "RECONNECTING"},
   ReportLink(t, link) PROVE ThreadTypes'
  <2>1. link \in Kinds
    OBVIOUS
  <2>2. events' \in Seq([kind : Kinds, thread : Threads])
    BY ZenonT(40), <1>6, <2>1, EmitTypes DEF ReportLink
  <2>3. QED
    BY <1>6, <2>2 DEF ReportLink
<1>7. ASSUME NEW t \in Threads, NEW how \in {"completed", "failed"},
   EndByItself(t, how) PROVE ThreadTypes'
  BY <1>7 DEF EndByItself, life, Move
<1>8. ASSUME NEW t \in Threads, BeCancelled(t) PROVE ThreadTypes'
  BY <1>8 DEF BeCancelled, life, Move
<1>9. ASSUME NEW t \in Threads, NEW how \in {"completed", "failed",
   "cancelled"}, WindDown(t, how) PROVE ThreadTypes'
  BY <1>9, EmitTypes DEF WindDown, life, Move
<1>10. ASSUME NEW t \in Threads, Exit(t) PROVE ThreadTypes'
  BY <1>10, EmitTypes DEF Exit, life, Move
<1>11. ASSUME NEW t \in Threads, Tick(t) PROVE ThreadTypes'
  BY <1>11 DEF Tick, life
<1>12. ASSUME NEW on \in BOOLEAN, SetPaused(on) PROVE ThreadTypes'
  BY <1>12 DEF SetPaused, life
<1>13. CASE Disconnect
  BY <1>13 DEF Disconnect, life, BeginStop
<1>14. CASE Shutdown
  BY <1>14 DEF Shutdown, life, BeginStop
<1>15. CASE Start
  BY <1>15 DEF Start, life, BeginStop
<1>16. CASE Launch
  BY <1>16 DEF Launch, life, Move
<1>17. CASE Join
  BY <1>17 DEF Join, life
<1>18. CASE AskTask
  BY <1>18 DEF AskTask, life
<1>19. CASE WaitReturns
  BY <1>19 DEF WaitReturns, life
<1>20. CASE WaitTimesOut
  BY <1>20 DEF WaitTimesOut, life
<1>21. CASE Park
  BY <1>21 DEF Park, life
<1>22. CASE OnIdentified
  BY <1>22, DeliverTypes DEF OnIdentified, life
<1>23. CASE OnLink
  BY <1>23, DeliverTypes DEF OnLink, life
<1>24. CASE OnFinished
  BY <1>24, DeliverTypes DEF OnFinished, life
<1>25. ASSUME NEW kind \in {"failed", "completed"}, OnOver(kind) PROVE
   ThreadTypes'
  BY <1>25, DeliverTypes DEF OnOver, life, BeginStop
<1>26. CASE UNCHANGED vars
  BY <1>26 DEF vars, life
<1>27. QED
  BY ZenonT(40), <1>1, <1>2, <1>3, <1>4, <1>5, <1>6, <1>7, <1>8, <1>9, <1>10, <1>11,
     <1>12, <1>13, <1>14, <1>15, <1>16, <1>17, <1>18, <1>19, <1>20, <1>21,
     <1>22, <1>23, <1>24, <1>25, <1>26 DEF Next, ThreadStep, StopStep, Handler

(* The types of the pumps, and where an item is. *)
LEMMA PumpTypesStep == TypeInv /\ [Next]_vars => PumpTypes'
<1> SUFFICES ASSUME TypeInv, [Next]_vars PROVE PumpTypes'
  OBVIOUS
<1>1. ASSUME UNCHANGED <<pump, produced>> PROVE PumpTypes'
  BY <1>1 DEF TypeInv, PumpTypes, pump
<1>2. ASSUME NEW t \in Threads, Identify(t) PROVE PumpTypes'
  BY <1>2, <1>1 DEF Identify, life
<1>3. ASSUME NEW t \in Threads, IdentifyFails(t) PROVE PumpTypes'
  BY <1>3, <1>1 DEF IdentifyFails, life
<1>4. ASSUME NEW t \in Threads, AssignTask(t) PROVE PumpTypes'
  BY <1>4, <1>1 DEF AssignTask, life
<1>5. ASSUME NEW t \in Threads, CheckStop(t) PROVE PumpTypes'
  BY <1>5, <1>1 DEF CheckStop, life
<1>6. ASSUME NEW t \in Threads, Produce(t) PROVE PumpTypes'
  BY <1>6 DEF Produce, TypeInv, PumpTypes
<1>7. ASSUME NEW t \in Threads, NEW link \in {"STREAMING", "RECONNECTING"},
   ReportLink(t, link) PROVE PumpTypes'
  BY <1>7, <1>1 DEF ReportLink, life
<1>8. ASSUME NEW t \in Threads, NEW how \in {"completed", "failed"},
   EndByItself(t, how) PROVE PumpTypes'
  BY <1>8, <1>1 DEF EndByItself, life
<1>9. ASSUME NEW t \in Threads, BeCancelled(t) PROVE PumpTypes'
  BY <1>9, <1>1 DEF BeCancelled, life
<1>10. ASSUME NEW t \in Threads, NEW how \in {"completed", "failed",
   "cancelled"}, WindDown(t, how) PROVE PumpTypes'
  BY <1>10, <1>1 DEF WindDown, life
<1>11. ASSUME NEW t \in Threads, Exit(t) PROVE PumpTypes'
  BY <1>11, <1>1 DEF Exit, life
<1>12. ASSUME NEW t \in Threads, Tick(t) PROVE PumpTypes'
  <2>1. CASE paused[t]
    BY <1>12, <2>1 DEF Tick, life, TypeInv, PumpTypes
  <2>2. CASE ~paused[t]
    BY <1>12, <2>2, DrainKeepsItems DEF Tick, life, TypeInv, PumpTypes
  <2>3. QED
    BY <2>1, <2>2
<1>13. ASSUME NEW on \in BOOLEAN, SetPaused(on) PROVE PumpTypes'
  <2>1. current \in Threads
    BY <1>13 DEF SetPaused, TypeInv, ControlTypes
  <2>2. CASE on
    BY <1>13, <2>1, <2>2 DEF SetPaused, life, TypeInv, PumpTypes
  <2>3. CASE ~on
    BY <1>13, <2>1, <2>3, DrainKeepsItems DEF SetPaused, life, TypeInv, PumpTypes
  <2>4. QED
    BY <2>2, <2>3
<1>14. CASE Disconnect
  BY <1>14, BeginStopKeepsItems DEF Disconnect, life
<1>15. CASE Shutdown
  BY <1>15, BeginStopKeepsItems DEF Shutdown, life
<1>16. CASE Start
  BY <1>16, BeginStopKeepsItems DEF Start, life
<1>17. CASE Launch
  BY <1>17, <1>1 DEF Launch, life
<1>18. CASE Join
  BY <1>18, ReleaseKeepsItems DEF Join, Reap, life, TypeInv
<1>19. CASE AskTask
  BY <1>19, <1>1 DEF AskTask, life
<1>20. CASE WaitReturns
  BY <1>20, ReleaseKeepsItems DEF WaitReturns, life, TypeInv
<1>21. CASE WaitTimesOut
  BY <1>21, <1>1 DEF WaitTimesOut, life
<1>22. CASE Park
  BY <1>22 DEF Park, life, TypeInv, PumpTypes
<1>23. CASE OnIdentified
  BY <1>23, <1>1 DEF OnIdentified, life
<1>24. CASE OnLink
  BY <1>24, <1>1 DEF OnLink, life
<1>25. CASE OnFinished
  BY <1>25, ReleaseKeepsItems DEF OnFinished, Reap, life, TypeInv
<1>26. ASSUME NEW kind \in {"failed", "completed"}, OnOver(kind) PROVE
   PumpTypes'
  BY <1>26, BeginStopKeepsItems DEF OnOver, life
<1>27. CASE UNCHANGED vars
  BY <1>27, <1>1 DEF vars, life
<1>28. QED
  BY <1>2, <1>3, <1>4, <1>5, <1>6, <1>7, <1>8, <1>9, <1>10, <1>11, <1>12,
     <1>13, <1>14, <1>15, <1>16, <1>17, <1>18, <1>19, <1>20, <1>21, <1>22,
     <1>23, <1>24, <1>25, <1>26, <1>27 DEF Next, ThreadStep, StopStep, Handler

(* The types of what the controller keeps. *)
LEMMA ControlTypesStep == TypeInv /\ ControlInv /\ [Next]_vars =>
   ControlTypes'
<1> SUFFICES ASSUME TypeInv /\ ControlInv, [Next]_vars PROVE ControlTypes'
  OBVIOUS
<1>1. ASSUME UNCHANGED <<gui, control>> PROVE ControlTypes'
  BY <1>1 DEF TypeInv, ControlTypes, control
<1>2. ASSUME NEW t \in Threads, Identify(t) PROVE ControlTypes'
  BY <1>2, <1>1 DEF Identify, control
<1>3. ASSUME NEW t \in Threads, IdentifyFails(t) PROVE ControlTypes'
  BY <1>3, <1>1 DEF IdentifyFails, control
<1>4. ASSUME NEW t \in Threads, AssignTask(t) PROVE ControlTypes'
  BY <1>4, <1>1 DEF AssignTask, control
<1>5. ASSUME NEW t \in Threads, CheckStop(t) PROVE ControlTypes'
  BY <1>5, <1>1 DEF CheckStop, control
<1>6. ASSUME NEW t \in Threads, Produce(t) PROVE ControlTypes'
  BY <1>6, <1>1 DEF Produce, control
<1>7. ASSUME NEW t \in Threads, NEW link \in {"STREAMING", "RECONNECTING"},
   ReportLink(t, link) PROVE ControlTypes'
  BY <1>7, <1>1 DEF ReportLink, control
<1>8. ASSUME NEW t \in Threads, NEW how \in {"completed", "failed"},
   EndByItself(t, how) PROVE ControlTypes'
  BY <1>8, <1>1 DEF EndByItself, control
<1>9. ASSUME NEW t \in Threads, BeCancelled(t) PROVE ControlTypes'
  BY <1>9, <1>1 DEF BeCancelled, control
<1>10. ASSUME NEW t \in Threads, NEW how \in {"completed", "failed",
   "cancelled"}, WindDown(t, how) PROVE ControlTypes'
  BY <1>10, <1>1 DEF WindDown, control
<1>11. ASSUME NEW t \in Threads, Exit(t) PROVE ControlTypes'
  BY <1>11, <1>1 DEF Exit, control
<1>12. ASSUME NEW t \in Threads, Tick(t) PROVE ControlTypes'
  BY <1>12, <1>1 DEF Tick
<1>13. ASSUME NEW on \in BOOLEAN, SetPaused(on) PROVE ControlTypes'
  BY <1>13, <1>1 DEF SetPaused
<1>14. CASE Disconnect
  BY <1>14, BeginStopTypes DEF Disconnect, Reasons
<1>15. CASE Shutdown
  BY <1>15, BeginStopTypes DEF Shutdown, Reasons
<1>16. CASE Start
  BY <1>16, BeginStopTypes DEF Start, Reasons
<1>17. CASE Launch
  <2>1. current' \in Threads
    BY <1>17, LaunchTakesANewThread DEF Launch, ControlInv
  <2>2. QED
    BY <1>17, <2>1 DEF Launch, Free, TypeInv, ControlTypes, Pcs, Reasons, Lifecycle, Active
<1>18. CASE Join
  BY <1>18 DEF Join, Reap, TypeInv, ControlTypes, Free, Pcs, Reasons,
     Lifecycle
<1>19. CASE AskTask
  BY <1>19 DEF AskTask, control, TypeInv, ControlTypes, Pcs
<1>20. CASE WaitReturns
  BY <1>20, AfterTypes DEF WaitReturns, TypeInv, ControlInv, ControlTypes,
     Stopping, Lifecycle
<1>21. CASE WaitTimesOut
  BY <1>21 DEF WaitTimesOut, control, TypeInv, ControlTypes, Pcs
<1>22. CASE Park
  BY <1>22, AfterTypes DEF Park, TypeInv, ControlInv, ControlTypes, Stopping,
     Lifecycle
<1>23. CASE OnIdentified
  BY <1>23 DEF OnIdentified, TypeInv, ControlTypes, Lifecycle, Active
<1>24. CASE OnLink
  BY <1>24 DEF OnLink, Deliver, TypeInv, ControlTypes, Lifecycle, Active
<1>25. CASE OnFinished
  BY <1>25 DEF OnFinished, Reap, TypeInv, ControlTypes, Lifecycle
<1>26. ASSUME NEW kind \in {"failed", "completed"}, OnOver(kind) PROVE
   ControlTypes'
  BY <1>26, BeginStopTypes DEF OnOver, Reasons
<1>27. CASE UNCHANGED vars
  BY <1>27, <1>1 DEF vars, control
<1>28. QED
  BY <1>2, <1>3, <1>4, <1>5, <1>6, <1>7, <1>8, <1>9, <1>10, <1>11, <1>12,
     <1>13, <1>14, <1>15, <1>16, <1>17, <1>18, <1>19, <1>20, <1>21, <1>22,
     <1>23, <1>24, <1>25, <1>26, <1>27 DEF Next, ThreadStep, StopStep, Handler

-----------------------------------------------------------------------------
(* What the controller holds.                                              *)

(* The controller holds started threads, each in one place. *)
LEMMA ControlStep == TypeInv /\ ControlInv /\ [Next]_vars => ControlInv'
<1> SUFFICES ASSUME TypeInv /\ ControlInv, [Next]_vars PROVE ControlInv'
  OBVIOUS
<1>1. ASSUME UNCHANGED <<gui, current, parked>>, Started' = Started PROVE ControlInv'
  BY <1>1 DEF ControlInv, Held
<1>2. ASSUME NEW t \in Threads, Identify(t) PROVE ControlInv'
  BY <1>2, <1>1, MoveKeepsStarted DEF Identify, TypeInv, control
<1>3. ASSUME NEW t \in Threads, IdentifyFails(t) PROVE ControlInv'
  BY <1>3, <1>1, MoveKeepsStarted DEF IdentifyFails, TypeInv, control
<1>4. ASSUME NEW t \in Threads, AssignTask(t) PROVE ControlInv'
  BY <1>4, <1>1, MoveKeepsStarted DEF AssignTask, TypeInv, control
<1>5. ASSUME NEW t \in Threads, CheckStop(t) PROVE ControlInv'
  BY <1>5, <1>1, MoveKeepsStarted DEF CheckStop, TypeInv, control
<1>6. ASSUME NEW t \in Threads, Produce(t) PROVE ControlInv'
  BY <1>6, <1>1 DEF Produce, control, life, Started
<1>7. ASSUME NEW t \in Threads, NEW link \in {"STREAMING", "RECONNECTING"},
   ReportLink(t, link) PROVE ControlInv'
  BY <1>7, <1>1 DEF ReportLink, control, life, Started
<1>8. ASSUME NEW t \in Threads, NEW how \in {"completed", "failed"},
   EndByItself(t, how) PROVE ControlInv'
  BY <1>8, <1>1, MoveKeepsStarted DEF EndByItself, TypeInv, control
<1>9. ASSUME NEW t \in Threads, BeCancelled(t) PROVE ControlInv'
  BY <1>9, <1>1, MoveKeepsStarted DEF BeCancelled, TypeInv, control
<1>10. ASSUME NEW t \in Threads, NEW how \in {"completed", "failed",
   "cancelled"}, WindDown(t, how) PROVE ControlInv'
  BY <1>10, <1>1, MoveKeepsStarted DEF WindDown, TypeInv, control
<1>11. ASSUME NEW t \in Threads, Exit(t) PROVE ControlInv'
  BY <1>11, <1>1, MoveKeepsStarted DEF Exit, TypeInv, control
<1>12. ASSUME NEW t \in Threads, Tick(t) PROVE ControlInv'
  BY <1>12, <1>1 DEF Tick, control, life, Started
<1>13. ASSUME NEW on \in BOOLEAN, SetPaused(on) PROVE ControlInv'
  BY <1>13, <1>1 DEF SetPaused, control, life, Started
<1>14. CASE Disconnect
  BY <1>14, BeginStopControl DEF Disconnect, life
<1>15. CASE Shutdown
  BY <1>15, BeginStopControl DEF Shutdown, life
<1>16. CASE Start
  BY <1>16, BeginStopControl DEF Start, life
<1>17. CASE Launch
  <2>1. Started # Threads /\ gui.pc = "launching"
    BY <1>17 DEF Launch, ControlInv
  <2>2. /\ current' \in Threads \ Started
        /\ Started' = Started \cup {current'}
    BY <1>17, <2>1, LaunchTakesANewThread DEF TypeInv, ThreadTypes, Started
  <2>3. current' \notin parked /\ current' # Nobody
    BY <2>2 DEF ControlInv, Held, Threads, Nobody
  <2>4. QED
    BY <1>17, <2>1, <2>2, <2>3 DEF Launch, Free, ControlInv, Held, Stopping
<1>18. CASE Join
  BY <1>18 DEF Join, Reap, Free, ControlInv, Held, Stopping, Started, life
<1>19. CASE AskTask
  BY <1>19 DEF AskTask, control, life, ControlInv, Held, Stopping, Started,
     TypeInv, ControlTypes
<1>20. CASE WaitReturns
  <2>1. Started' = Started
    BY <1>20 DEF WaitReturns, life, Started
  <2>2. QED
    BY <1>20, <2>1, AfterTypes DEF WaitReturns, ControlInv, Held, Stopping
<1>21. CASE WaitTimesOut
  BY <1>21 DEF WaitTimesOut, control, life, ControlInv, Held, Stopping,
     Started, TypeInv, ControlTypes
<1>22. CASE Park
  <2>1. Started' = Started
    BY <1>22 DEF Park, life, Started
  <2>2. QED
    BY <1>22, <2>1, AfterTypes DEF Park, ControlInv, Held, Stopping
<1>23. CASE OnIdentified
  BY <1>23, <1>1 DEF OnIdentified, control, life, Started
<1>24. CASE OnLink
  BY <1>24, <1>1 DEF OnLink, control, life, Started
<1>25. CASE OnFinished
  BY <1>25 DEF OnFinished, Deliver, Reap, ControlInv, Held, Started, life
<1>26. ASSUME NEW kind \in {"failed", "completed"}, OnOver(kind) PROVE
   ControlInv'
  BY <1>26, BeginStopControl DEF OnOver, Deliver, life
<1>27. CASE UNCHANGED vars
  BY <1>27, <1>1 DEF vars, control, life, Started
<1>28. QED
  BY <1>2, <1>3, <1>4, <1>5, <1>6, <1>7, <1>8, <1>9, <1>10, <1>11, <1>12,
     <1>13, <1>14, <1>15, <1>16, <1>17, <1>18, <1>19, <1>20, <1>21, <1>22,
     <1>23, <1>24, <1>25, <1>26, <1>27 DEF Next, ThreadStep, StopStep, Handler

(* No running thread is let go of. *)
LEMMA DropStep == TypeInv /\ ControlInv /\ NoRunningThreadDropped /\
   [Next]_vars => NoRunningThreadDropped'
<1> SUFFICES ASSUME TypeInv /\ ControlInv /\ NoRunningThreadDropped, [Next]_vars PROVE NoRunningThreadDropped'
  OBVIOUS
<1>1. ASSUME UNCHANGED <<gui, current, parked, phase>> PROVE NoRunningThreadDropped'
  BY <1>1 DEF NoRunningThreadDropped, Running
<1>2. ASSUME NEW t \in Threads, UNCHANGED <<gui, current, parked>>,
           NEW from, NEW to, Move(t, from, to), from \notin {"new", "ended"}
      PROVE  NoRunningThreadDropped'
  BY <1>2 DEF NoRunningThreadDropped, Running, Move, TypeInv, ThreadTypes
<1>3. ASSUME NEW t \in Threads, Identify(t) PROVE NoRunningThreadDropped'
  BY <1>3, <1>2 DEF Identify, control
<1>4. ASSUME NEW t \in Threads, IdentifyFails(t) PROVE NoRunningThreadDropped'
  BY <1>4, <1>2 DEF IdentifyFails, control
<1>5. ASSUME NEW t \in Threads, AssignTask(t) PROVE NoRunningThreadDropped'
  BY <1>5, <1>2 DEF AssignTask, control
<1>6. ASSUME NEW t \in Threads, CheckStop(t) PROVE NoRunningThreadDropped'
  BY <1>6, <1>2 DEF CheckStop, control
<1>7. ASSUME NEW t \in Threads, Produce(t) PROVE NoRunningThreadDropped'
  BY <1>7, <1>1 DEF Produce, control, life
<1>8. ASSUME NEW t \in Threads, NEW link \in {"STREAMING", "RECONNECTING"},
   ReportLink(t, link) PROVE NoRunningThreadDropped'
  BY <1>8, <1>1 DEF ReportLink, control, life
<1>9. ASSUME NEW t \in Threads, NEW how \in {"completed", "failed"},
   EndByItself(t, how) PROVE NoRunningThreadDropped'
  BY <1>9, <1>2 DEF EndByItself, control
<1>10. ASSUME NEW t \in Threads, BeCancelled(t) PROVE NoRunningThreadDropped'
  BY <1>10, <1>2 DEF BeCancelled, control
<1>11. ASSUME NEW t \in Threads, NEW how \in {"completed", "failed",
   "cancelled"}, WindDown(t, how) PROVE NoRunningThreadDropped'
  BY <1>11, <1>2 DEF WindDown, control
<1>12. ASSUME NEW t \in Threads, Exit(t) PROVE NoRunningThreadDropped'
  BY <1>12, <1>2 DEF Exit, control
<1>13. ASSUME NEW t \in Threads, Tick(t) PROVE NoRunningThreadDropped'
  BY <1>13, <1>1 DEF Tick, control, life
<1>14. ASSUME NEW on \in BOOLEAN, SetPaused(on) PROVE NoRunningThreadDropped'
  BY <1>14, <1>1 DEF SetPaused, control, life
<1>15. CASE Disconnect
  BY <1>15 DEF Disconnect, Deliver, BeginStop, life, ControlInv, Stopping,
     NoRunningThreadDropped, Running, Nobody, Threads
<1>16. CASE Shutdown
  BY <1>16 DEF Shutdown, Deliver, BeginStop, life, ControlInv, Stopping,
     NoRunningThreadDropped, Running, Nobody, Threads
<1>17. CASE Start
  BY <1>17 DEF Start, Deliver, BeginStop, life, ControlInv, Stopping,
     NoRunningThreadDropped, Running, Nobody, Threads
<1>18. CASE Launch
  <2>1. phase' = [phase EXCEPT ![current'] = "identifying"] /\ gui.thread = Nobody /\ current = Nobody
    BY <1>18, LaunchTakesANewThread DEF Launch, ControlInv, Stopping
  <2>2. UNCHANGED parked
    BY <1>18 DEF Launch
  <2>3. QED
    BY <2>1, <2>2 DEF NoRunningThreadDropped, Running, Nobody, Threads, TypeInv, ThreadTypes
<1>19. CASE Join
  BY <1>19 DEF Join, Deliver, Reap, Free, life, ControlInv, Stopping,
     NoRunningThreadDropped, Running, Nobody, Threads
<1>20. CASE AskTask
  BY <1>20 DEF AskTask, life, control, NoRunningThreadDropped, Running,
     TypeInv, ControlTypes
<1>21. CASE WaitReturns
  BY <1>21 DEF WaitReturns, life, NoRunningThreadDropped, Running
<1>22. CASE WaitTimesOut
  BY <1>22 DEF WaitTimesOut, life, control, NoRunningThreadDropped, Running,
     TypeInv, ControlTypes
<1>23. CASE Park
  BY <1>23 DEF Park, life, NoRunningThreadDropped, Running
<1>24. CASE OnIdentified
  BY <1>24, <1>1 DEF OnIdentified, control, life
<1>25. CASE OnLink
  BY <1>25, <1>1 DEF OnLink, control, life
<1>26. CASE OnFinished
  BY <1>26 DEF OnFinished, Deliver, Reap, Free, life, ControlInv, Stopping,
     NoRunningThreadDropped, Running, Nobody, Threads
<1>27. ASSUME NEW kind \in {"failed", "completed"}, OnOver(kind) PROVE
   NoRunningThreadDropped'
  BY <1>27 DEF OnOver, Deliver, BeginStop, life, ControlInv, Stopping,
     NoRunningThreadDropped, Running, Nobody, Threads
<1>28. CASE UNCHANGED vars
  BY <1>28, <1>1 DEF vars, control, life
<1>29. QED
  BY <1>3, <1>4, <1>5, <1>6, <1>7, <1>8, <1>9, <1>10, <1>11, <1>12, <1>13,
     <1>14, <1>15, <1>16, <1>17, <1>18, <1>19, <1>20, <1>21, <1>22, <1>23,
     <1>24, <1>25, <1>26, <1>27, <1>28 DEF Next, ThreadStep, StopStep, Handler

(* A pump is let go when its thread is over, and before its session is announced. *)
LEMMA PumpStep == TypeInv /\ ControlInv /\ PumpOutlivesThread /\ AnnouncedInv
   /\ [Next]_vars => (PumpOutlivesThread /\ AnnouncedInv)'
<1> SUFFICES ASSUME TypeInv /\ ControlInv /\ PumpOutlivesThread /\ AnnouncedInv, [Next]_vars PROVE (PumpOutlivesThread /\ AnnouncedInv)'
  OBVIOUS
<1>1. ASSUME UNCHANGED <<pump, announced, phase>> PROVE (PumpOutlivesThread /\ AnnouncedInv)'
  BY <1>1 DEF PumpOutlivesThread, AnnouncedInv, pump
<1>2. ASSUME NEW t \in Threads, UNCHANGED <<pump, announced>>,
           NEW from, NEW to, Move(t, from, to), from # "ended"
      PROVE  (PumpOutlivesThread /\ AnnouncedInv)'
  BY <1>2 DEF PumpOutlivesThread, AnnouncedInv, pump, Move, TypeInv, ThreadTypes
<1>3. ASSUME NEW P, Release(P), \A t \in P : phase[t] = "ended", UNCHANGED phase,
           announced' \subseteq announced \cup (P \cap Threads)
      PROVE  (PumpOutlivesThread /\ AnnouncedInv)'
  BY <1>3, DrainKeepsItems DEF Release, Drained, PumpOutlivesThread, AnnouncedInv, TypeInv, PumpTypes, ControlTypes
<1>4. ASSUME NEW t \in Threads, Identify(t) PROVE (PumpOutlivesThread /\
   AnnouncedInv)'
  BY <1>4, <1>2 DEF Identify, control
<1>5. ASSUME NEW t \in Threads, IdentifyFails(t) PROVE (PumpOutlivesThread /\
   AnnouncedInv)'
  BY <1>5, <1>2 DEF IdentifyFails, control
<1>6. ASSUME NEW t \in Threads, AssignTask(t) PROVE (PumpOutlivesThread /\
   AnnouncedInv)'
  BY <1>6, <1>2 DEF AssignTask, control
<1>7. ASSUME NEW t \in Threads, CheckStop(t) PROVE (PumpOutlivesThread /\
   AnnouncedInv)'
  BY <1>7, <1>2 DEF CheckStop, control
<1>8. ASSUME NEW t \in Threads, Produce(t) PROVE (PumpOutlivesThread /\
   AnnouncedInv)'
  BY <1>8 DEF Produce, control, PumpOutlivesThread, AnnouncedInv, TypeInv,
     ThreadTypes, PumpTypes, ControlTypes
<1>9. ASSUME NEW t \in Threads, NEW link \in {"STREAMING", "RECONNECTING"},
   ReportLink(t, link) PROVE (PumpOutlivesThread /\ AnnouncedInv)'
  BY <1>9, <1>1 DEF ReportLink, control, life, pump
<1>10. ASSUME NEW t \in Threads, NEW how \in {"completed", "failed"},
   EndByItself(t, how) PROVE (PumpOutlivesThread /\ AnnouncedInv)'
  BY <1>10, <1>2 DEF EndByItself, control
<1>11. ASSUME NEW t \in Threads, BeCancelled(t) PROVE (PumpOutlivesThread /\
   AnnouncedInv)'
  BY <1>11, <1>2 DEF BeCancelled, control
<1>12. ASSUME NEW t \in Threads, NEW how \in {"completed", "failed",
   "cancelled"}, WindDown(t, how) PROVE (PumpOutlivesThread /\ AnnouncedInv)'
  BY <1>12, <1>2 DEF WindDown, control
<1>13. ASSUME NEW t \in Threads, Exit(t) PROVE (PumpOutlivesThread /\
   AnnouncedInv)'
  BY <1>13, <1>2 DEF Exit, control
<1>14. ASSUME NEW t \in Threads, Tick(t) PROVE (PumpOutlivesThread /\
   AnnouncedInv)'
  BY ZenonT(40), <1>14 DEF Tick, Drained, life, control, PumpOutlivesThread, AnnouncedInv,
     TypeInv, ThreadTypes, PumpTypes, ControlTypes
<1>15. ASSUME NEW on \in BOOLEAN, SetPaused(on) PROVE (PumpOutlivesThread /\
   AnnouncedInv)'
  BY <1>15 DEF SetPaused, Drained, life, control, PumpOutlivesThread,
     AnnouncedInv, TypeInv, ThreadTypes, PumpTypes, ControlTypes
<1>16. CASE Disconnect
  BY <1>16 DEF Disconnect, Deliver, BeginStop, Drained, life, pump,
     PumpOutlivesThread, AnnouncedInv, TypeInv, PumpTypes
<1>17. CASE Shutdown
  BY <1>17 DEF Shutdown, Deliver, BeginStop, Drained, life, pump,
     PumpOutlivesThread, AnnouncedInv, TypeInv, PumpTypes
<1>18. CASE Start
  BY <1>18 DEF Start, Deliver, BeginStop, Drained, life, pump,
     PumpOutlivesThread, AnnouncedInv, TypeInv, PumpTypes
<1>19. CASE Launch
  <2>1. Started # Threads
    BY <1>19 DEF Launch, ControlInv
  <2>2. /\ current' \in Threads /\ phase[current'] # "ended"
        /\ Move(current', phase[current'], "identifying")
    BY <1>19, <2>1, LaunchTakesANewThread DEF Started, Move
  <2>3. QED
    BY <1>19, <2>2, <1>2 DEF Launch
<1>20. CASE Join
  <2>1. \A t \in parked : ~Running(t) => phase[t] = "ended"
    BY DEF ControlInv, Held, Started, Running
  <2>2. QED
    BY <1>20, <2>1, <1>3 DEF Join, Reap, life
<1>21. CASE AskTask
  BY <1>21, <1>1 DEF AskTask, control, life, pump
<1>22. CASE WaitReturns
  <2>1. gui.thread \in Threads
    BY <1>22 DEF WaitReturns, ControlInv, Stopping, TypeInv, ControlTypes
  <2>2. QED
    BY <1>22, <2>1, <1>3 DEF WaitReturns, life
<1>23. CASE WaitTimesOut
  BY <1>23, <1>1 DEF WaitTimesOut, control, life, pump
<1>24. CASE Park
  BY <1>24 DEF Park, life, PumpOutlivesThread, AnnouncedInv
<1>25. CASE OnIdentified
  BY <1>25, <1>1 DEF OnIdentified, control, life, pump
<1>26. CASE OnLink
  BY <1>26, <1>1 DEF OnLink, control, life, pump
<1>27. CASE OnFinished
  <2>1. \A t \in parked : ~Running(t) => phase[t] = "ended"
    BY DEF ControlInv, Held, Started, Running
  <2>2. QED
    BY <1>27, <2>1, <1>3 DEF OnFinished, Reap, life
<1>28. ASSUME NEW kind \in {"failed", "completed"}, OnOver(kind) PROVE
   (PumpOutlivesThread /\ AnnouncedInv)'
  BY <1>28 DEF OnOver, Deliver, BeginStop, Drained, life, pump,
     PumpOutlivesThread, AnnouncedInv, TypeInv, PumpTypes
<1>29. CASE UNCHANGED vars
  BY <1>29, <1>1 DEF vars, control, life, pump
<1>30. QED
  BY <1>4, <1>5, <1>6, <1>7, <1>8, <1>9, <1>10, <1>11, <1>12, <1>13, <1>14,
     <1>15, <1>16, <1>17, <1>18, <1>19, <1>20, <1>21, <1>22, <1>23, <1>24,
     <1>25, <1>26, <1>27, <1>28, <1>29 DEF Next, ThreadStep, StopStep, Handler

(* While a capture runs, the lifecycle is at a stage of one. *)
LEMMA ActiveStep == TypeInv /\ ControlInv /\ RunningReadsActive /\ [Next]_vars
   => RunningReadsActive'
<1> SUFFICES ASSUME TypeInv /\ ControlInv /\ RunningReadsActive, [Next]_vars PROVE RunningReadsActive'
  OBVIOUS
<1>1. ASSUME UNCHANGED <<gui, current, state>> PROVE RunningReadsActive'
  BY <1>1 DEF RunningReadsActive
<1>2. ASSUME current' = Nobody PROVE RunningReadsActive'
  BY <1>2 DEF RunningReadsActive
<1>3. ASSUME NEW t \in Threads, Identify(t) PROVE RunningReadsActive'
  BY <1>3, <1>1 DEF Identify, control
<1>4. ASSUME NEW t \in Threads, IdentifyFails(t) PROVE RunningReadsActive'
  BY <1>4, <1>1 DEF IdentifyFails, control
<1>5. ASSUME NEW t \in Threads, AssignTask(t) PROVE RunningReadsActive'
  BY <1>5, <1>1 DEF AssignTask, control
<1>6. ASSUME NEW t \in Threads, CheckStop(t) PROVE RunningReadsActive'
  BY <1>6, <1>1 DEF CheckStop, control
<1>7. ASSUME NEW t \in Threads, Produce(t) PROVE RunningReadsActive'
  BY <1>7, <1>1 DEF Produce, control
<1>8. ASSUME NEW t \in Threads, NEW link \in {"STREAMING", "RECONNECTING"},
   ReportLink(t, link) PROVE RunningReadsActive'
  BY <1>8, <1>1 DEF ReportLink, control
<1>9. ASSUME NEW t \in Threads, NEW how \in {"completed", "failed"},
   EndByItself(t, how) PROVE RunningReadsActive'
  BY <1>9, <1>1 DEF EndByItself, control
<1>10. ASSUME NEW t \in Threads, BeCancelled(t) PROVE RunningReadsActive'
  BY <1>10, <1>1 DEF BeCancelled, control
<1>11. ASSUME NEW t \in Threads, NEW how \in {"completed", "failed",
   "cancelled"}, WindDown(t, how) PROVE RunningReadsActive'
  BY <1>11, <1>1 DEF WindDown, control
<1>12. ASSUME NEW t \in Threads, Exit(t) PROVE RunningReadsActive'
  BY <1>12, <1>1 DEF Exit, control
<1>13. ASSUME NEW t \in Threads, Tick(t) PROVE RunningReadsActive'
  BY <1>13, <1>1 DEF Tick, control
<1>14. ASSUME NEW on \in BOOLEAN, SetPaused(on) PROVE RunningReadsActive'
  BY <1>14, <1>1 DEF SetPaused, control
<1>15. CASE Disconnect
  BY <1>15, <1>2 DEF Disconnect, BeginStop, control
<1>16. CASE Shutdown
  BY <1>16, <1>2 DEF Shutdown, BeginStop, control
<1>17. CASE Start
  BY <1>17, <1>2 DEF Start, BeginStop, control
<1>18. CASE Launch
  BY <1>18 DEF Launch, RunningReadsActive, Active
<1>19. CASE Join
  BY <1>19, <1>2 DEF Join, ControlInv
<1>20. CASE AskTask
  BY <1>20, <1>2 DEF AskTask, control, ControlInv
<1>21. CASE WaitReturns
  BY <1>21, <1>2 DEF WaitReturns, control, ControlInv
<1>22. CASE WaitTimesOut
  BY <1>22, <1>2 DEF WaitTimesOut, control, ControlInv
<1>23. CASE Park
  BY <1>23, <1>2 DEF Park, control, ControlInv
<1>24. CASE OnIdentified
  BY <1>24 DEF OnIdentified, RunningReadsActive, Active
<1>25. CASE OnLink
  BY <1>25 DEF OnLink, Deliver, RunningReadsActive, Active
<1>26. CASE OnFinished
  BY <1>26 DEF OnFinished, Deliver, Reap, RunningReadsActive, Active
<1>27. ASSUME NEW kind \in {"failed", "completed"}, OnOver(kind) PROVE
   RunningReadsActive'
  BY <1>27, <1>2 DEF OnOver, BeginStop, control
<1>28. CASE UNCHANGED vars
  BY <1>28, <1>1 DEF vars, control
<1>29. QED
  BY <1>3, <1>4, <1>5, <1>6, <1>7, <1>8, <1>9, <1>10, <1>11, <1>12, <1>13,
     <1>14, <1>15, <1>16, <1>17, <1>18, <1>19, <1>20, <1>21, <1>22, <1>23,
     <1>24, <1>25, <1>26, <1>27, <1>28 DEF Next, ThreadStep, StopStep, Handler

(* A Disconnect reaches a capture wherever it is. *)
LEMMA NotLostStep == TypeInv /\ ControlInv /\ TaskInv /\ StopIsNotLost /\
   [Next]_vars => (TaskInv /\ StopIsNotLost)'
<1> SUFFICES ASSUME TypeInv /\ ControlInv /\ TaskInv /\ StopIsNotLost, [Next]_vars PROVE (TaskInv /\ StopIsNotLost)'
  OBVIOUS
<1>1. ASSUME UNCHANGED <<gui, phase, flag, task, cancelled>> PROVE (TaskInv /\ StopIsNotLost)'
  BY <1>1 DEF TaskInv, StopIsNotLost
<1>2. ASSUME NEW t \in Threads, UNCHANGED <<gui, flag, task, cancelled>>,
           NEW from, NEW to, Move(t, from, to),
           to \notin {"checking", "capturing"}, to = "winding" => from = "capturing"
      PROVE  (TaskInv /\ StopIsNotLost)'
  BY <1>2 DEF TaskInv, StopIsNotLost, Move, TypeInv, ThreadTypes
<1>3. ASSUME NEW t \in Threads, Identify(t) PROVE (TaskInv /\ StopIsNotLost)'
  BY <1>3, <1>2 DEF Identify, control
<1>4. ASSUME NEW t \in Threads, IdentifyFails(t) PROVE (TaskInv /\
   StopIsNotLost)'
  BY <1>4, <1>2 DEF IdentifyFails, control
<1>5. ASSUME NEW t \in Threads, AssignTask(t) PROVE (TaskInv /\
   StopIsNotLost)'
  BY <1>5 DEF AssignTask, Move, TaskInv, StopIsNotLost, TypeInv, ThreadTypes
<1>6. ASSUME NEW t \in Threads, CheckStop(t) PROVE (TaskInv /\ StopIsNotLost)'
  BY <1>6 DEF CheckStop, Move, TaskInv, StopIsNotLost, TypeInv, ThreadTypes
<1>7. ASSUME NEW t \in Threads, Produce(t) PROVE (TaskInv /\ StopIsNotLost)'
  BY <1>7, <1>1 DEF Produce, control, life
<1>8. ASSUME NEW t \in Threads, NEW link \in {"STREAMING", "RECONNECTING"},
   ReportLink(t, link) PROVE (TaskInv /\ StopIsNotLost)'
  BY <1>8, <1>1 DEF ReportLink, control, life
<1>9. ASSUME NEW t \in Threads, NEW how \in {"completed", "failed"},
   EndByItself(t, how) PROVE (TaskInv /\ StopIsNotLost)'
  BY <1>9, <1>2 DEF EndByItself, control
<1>10. ASSUME NEW t \in Threads, BeCancelled(t) PROVE (TaskInv /\
   StopIsNotLost)'
  BY <1>10, <1>2 DEF BeCancelled, control
<1>11. ASSUME NEW t \in Threads, NEW how \in {"completed", "failed",
   "cancelled"}, WindDown(t, how) PROVE (TaskInv /\ StopIsNotLost)'
  BY <1>11 DEF WindDown, Move, TaskInv, StopIsNotLost, TypeInv, ThreadTypes
<1>12. ASSUME NEW t \in Threads, Exit(t) PROVE (TaskInv /\ StopIsNotLost)'
  BY <1>12, <1>2 DEF Exit, control
<1>13. ASSUME NEW t \in Threads, Tick(t) PROVE (TaskInv /\ StopIsNotLost)'
  BY <1>13, <1>1 DEF Tick, control, life
<1>14. ASSUME NEW on \in BOOLEAN, SetPaused(on) PROVE (TaskInv /\
   StopIsNotLost)'
  BY <1>14, <1>1 DEF SetPaused, control, life
<1>15. CASE Disconnect
  BY <1>15 DEF Disconnect, Deliver, BeginStop, life, ControlInv, Stopping,
     TaskInv, StopIsNotLost, TypeInv, ThreadTypes, ControlTypes
<1>16. CASE Shutdown
  BY <1>16 DEF Shutdown, Deliver, BeginStop, life, ControlInv, Stopping,
     TaskInv, StopIsNotLost, TypeInv, ThreadTypes, ControlTypes
<1>17. CASE Start
  BY <1>17 DEF Start, Deliver, BeginStop, life, ControlInv, Stopping, TaskInv,
     StopIsNotLost, TypeInv, ThreadTypes, ControlTypes
<1>18. CASE Launch
  <2>1. Started # Threads /\ gui.pc = "launching"
    BY <1>18 DEF Launch, ControlInv
  <2>2. /\ current' \in Threads
        /\ phase' = [phase EXCEPT ![current'] = "identifying"]
    BY <1>18, <2>1, LaunchTakesANewThread
  <2>3. QED
    BY <1>18, <2>1, <2>2 DEF Launch, TaskInv, StopIsNotLost, TypeInv, ThreadTypes
<1>19. CASE Join
  BY <1>19 DEF Join, life, TaskInv, StopIsNotLost
<1>20. CASE AskTask
  <2>1. TaskInv'
    BY <1>20 DEF AskTask, life, TaskInv
  <2>2. StopIsNotLost'
    BY <1>20 DEF AskTask, life, TaskInv, StopIsNotLost, TypeInv, ThreadTypes
  <2>3. QED
    BY <2>1, <2>2
<1>21. CASE WaitReturns
  BY <1>21 DEF WaitReturns, life, TaskInv, StopIsNotLost
<1>22. CASE WaitTimesOut
  BY <1>22 DEF WaitTimesOut, life, TaskInv, StopIsNotLost
<1>23. CASE Park
  BY <1>23 DEF Park, life, TaskInv, StopIsNotLost
<1>24. CASE OnIdentified
  BY <1>24, <1>1 DEF OnIdentified, control, life
<1>25. CASE OnLink
  BY <1>25, <1>1 DEF OnLink, control, life
<1>26. CASE OnFinished
  BY <1>26, <1>1 DEF OnFinished, control, life
<1>27. ASSUME NEW kind \in {"failed", "completed"}, OnOver(kind) PROVE
   (TaskInv /\ StopIsNotLost)'
  BY <1>27 DEF OnOver, Deliver, BeginStop, life, ControlInv, Stopping,
     TaskInv, StopIsNotLost, TypeInv, ThreadTypes, ControlTypes
<1>28. CASE UNCHANGED vars
  BY <1>28, <1>1 DEF vars, control, life
<1>29. QED
  BY <1>3, <1>4, <1>5, <1>6, <1>7, <1>8, <1>9, <1>10, <1>11, <1>12, <1>13,
     <1>14, <1>15, <1>16, <1>17, <1>18, <1>19, <1>20, <1>21, <1>22, <1>23,
     <1>24, <1>25, <1>26, <1>27, <1>28 DEF Next, ThreadStep, StopStep, Handler

(* Only _park() and _reap() touch what is parked. *)
LEMMA ConnectedStep == TypeInv /\ ControlInv /\ ConnectedInv /\ [Next]_vars => ConnectedInv'
<1> SUFFICES ASSUME TypeInv, ControlInv, ConnectedInv, [Next]_vars PROVE ConnectedInv'
  OBVIOUS
<1>1. ASSUME UNCHANGED connected, parked' \subseteq parked PROVE ConnectedInv'
  BY <1>1 DEF ConnectedInv
<1>2. CASE Park
  BY <1>2 DEF Park, ConnectedInv, ControlInv, Stopping, TypeInv, ControlTypes
<1>3. CASE Join \/ OnFinished
  BY <1>1, <1>3 DEF Join, OnFinished, Reap
<1>4. CASE \E t \in Threads : ThreadStep(t) \/ Tick(t)
  BY <1>1, <1>4
     DEF ThreadStep, Identify, IdentifyFails, AssignTask, CheckStop, Produce, ReportLink,
         EndByItself, BeCancelled, WindDown, Exit, Tick, control
<1>5. CASE \E on \in BOOLEAN : SetPaused(on)
  BY <1>1, <1>5 DEF SetPaused, control
<1>6. CASE Disconnect \/ Shutdown \/ Start \/ Launch
  BY <1>1, <1>6 DEF Disconnect, Shutdown, Start, Launch
<1>7. CASE AskTask \/ WaitReturns \/ WaitTimesOut
  BY <1>1, <1>7 DEF AskTask, WaitReturns, WaitTimesOut, control
<1>8. CASE OnIdentified \/ OnLink \/ \E kind \in {"failed", "completed"} : OnOver(kind)
  BY <1>1, <1>8 DEF OnIdentified, OnLink, OnOver
<1>9. CASE UNCHANGED vars
  BY <1>1, <1>9 DEF vars, control
<1>10. QED
  BY <1>2, <1>3, <1>4, <1>5, <1>6, <1>7, <1>8, <1>9 DEF Next, StopStep, Handler

(* What ParkedEndIsHeard says of a step and a thread. *)
Heard(t) ==
    /\ Running(t) /\ ~Running(t)' => FinishedQueued(t)'
    /\ ~Running(t) /\ FinishedQueued(t) /\ ~FinishedQueued(t)' => t \notin parked'

(* The step that ends a parked capture queues the news, and only _reap takes *)
(* it off the queue.                                                         *)
LEMMA HeardStep == TypeInv /\ ControlInv /\ ConnectedInv /\ [Next]_vars => \A t \in parked : Heard(t)
<1> SUFFICES ASSUME TypeInv, ControlInv, ConnectedInv, [Next]_vars, NEW t \in parked
             PROVE  Heard(t)
  OBVIOUS
<1>0. t \in Threads /\ connected[t]
  BY DEF TypeInv, ControlTypes, ConnectedInv
<1>a. FinishedQueued(t) <=> Queued(Event("finished", t))
  BY DEF FinishedQueued, Queued
<1>b. FinishedQueued(t)' <=> Queued(Event("finished", t))'
  BY DEF FinishedQueued, Queued, Event
<1>1. ASSUME UNCHANGED <<phase, events>> PROVE Heard(t)
  BY <1>1 DEF Heard, Running, FinishedQueued, Event
<1>2. ASSUME NEW u \in Threads, events' = events \/ \E kind \in Kinds : Emit(kind, u),
           Running(t) => Running(t)'
      PROVE  Heard(t)
  <2>1. Queued(Event("finished", t)) => Queued(Event("finished", t))'
    <3>1. CASE events' = events
      BY <3>1 DEF Queued, Event
    <3>2. CASE \E kind \in Kinds : Emit(kind, u)
      <4>1. PICK kind \in Kinds : Emit(kind, u)
        BY <3>2
      <4>2. \A e : Queued(e) => Queued(e)'
        BY <4>1, QueueGrows DEF TypeInv
      <4>3. Queued(Event("finished", t)) => (\E i \in DOMAIN events' : events'[i] = Event("finished", t))
        BY <4>2 DEF Queued
      <4>4. QED
        BY <4>3 DEF Queued, Event
    <3>3. QED
      BY <1>2, <3>1, <3>2
  <2>2. QED
    BY <1>2, <1>a, <1>b, <2>1 DEF Heard
<1>3. ASSUME NEW kind \in Kinds \ {"finished"}, Deliver(kind), UNCHANGED phase
      PROVE  Heard(t)
  <2>1. Event("finished", t).kind # kind
    BY DEF Event
  <2>2. Queued(Event("finished", t)) => (\E i \in DOMAIN events' : events'[i] = Event("finished", t))
    BY <1>3, <2>1, QueueShrinks DEF TypeInv, Queued
  <2>3. Queued(Event("finished", t)) => Queued(Event("finished", t))'
    BY <2>2 DEF Queued, Event
  <2>4. QED
    BY <1>3, <1>a, <1>b, <2>3 DEF Heard, Running
<1>4. ASSUME NEW u \in Threads, Identify(u) PROVE Heard(t)
  BY <1>4, <1>0, <1>2 DEF Identify, Move, Kinds, Running, TypeInv, ThreadTypes
<1>5. ASSUME NEW u \in Threads, IdentifyFails(u) PROVE Heard(t)
  BY <1>5, <1>0, <1>2 DEF IdentifyFails, Move, Kinds, Running, TypeInv, ThreadTypes
<1>6. ASSUME NEW u \in Threads, AssignTask(u) PROVE Heard(t)
  BY <1>6, <1>0, <1>2 DEF AssignTask, Move, Kinds, Running, TypeInv, ThreadTypes
<1>7. ASSUME NEW u \in Threads, CheckStop(u) PROVE Heard(t)
  BY <1>7, <1>0, <1>2 DEF CheckStop, Move, Kinds, Running, TypeInv, ThreadTypes
<1>8. ASSUME NEW u \in Threads, Produce(u) PROVE Heard(t)
  BY <1>8, <1>1 DEF Produce
<1>9. ASSUME NEW u \in Threads, NEW link \in {"STREAMING", "RECONNECTING"},
           ReportLink(u, link)
      PROVE  Heard(t)
  <2>1. link \in Kinds
    BY DEF Kinds
  <2>2. QED
    BY <1>9, <1>2, <2>1 DEF ReportLink, Running
<1>10. ASSUME NEW u \in Threads, NEW how \in {"completed", "failed"}, EndByItself(u, how)
      PROVE  Heard(t)
  BY <1>10, <1>0, <1>2 DEF EndByItself, Move, Kinds, Running, TypeInv, ThreadTypes
<1>11. ASSUME NEW u \in Threads, BeCancelled(u) PROVE Heard(t)
  BY <1>11, <1>0, <1>2 DEF BeCancelled, Move, Kinds, Running, TypeInv, ThreadTypes
<1>12. ASSUME NEW u \in Threads, NEW how \in {"completed", "failed", "cancelled"},
           WindDown(u, how)
      PROVE  Heard(t)
  BY <1>12, <1>0, <1>2 DEF WindDown, Move, Kinds, Running, TypeInv, ThreadTypes
<1>13. ASSUME NEW u \in Threads, Exit(u) PROVE Heard(t)
  <2>1. CASE u = t
    <3>1. Emit("finished", t)
      BY <1>13, <1>0, <2>1 DEF Exit
    <3>2. Queued(Event("finished", t))'
      BY <1>0, <3>1, QueueGrows DEF TypeInv, Kinds
    <3>3. QED
      BY <1>b, <3>2 DEF Heard
  <2>2. CASE u # t
    <3>1. phase'[t] = phase[t]
      BY <1>13, <1>0, <2>2 DEF Exit, Move, TypeInv, ThreadTypes
    <3>2. events' = events \/ \E kind \in Kinds : Emit(kind, u)
      BY <1>13 DEF Exit, Kinds
    <3>3. QED
      BY <1>2, <3>1, <3>2 DEF Running
  <2>3. QED
    BY <2>1, <2>2
<1>14. ASSUME NEW u \in Threads, Tick(u) PROVE Heard(t)
  BY <1>14, <1>1 DEF Tick, life
<1>15. ASSUME NEW on \in BOOLEAN, SetPaused(on) PROVE Heard(t)
  BY <1>15, <1>1 DEF SetPaused, life
<1>16. CASE Disconnect \/ Shutdown \/ Start
  BY <1>16, <1>1 DEF Disconnect, Shutdown, Start, life
<1>17. CASE Launch
  <2>1. Started # Threads /\ gui.pc = "launching" /\ UNCHANGED events
    BY <1>17 DEF Launch, ControlInv
  <2>2. /\ current' \in Threads \ Started
        /\ phase' = [phase EXCEPT ![current'] = "identifying"]
    BY <1>17, <2>1, LaunchTakesANewThread
  <2>3. Running(t) => Running(t)'
    BY <1>0, <2>2 DEF Running, Started, TypeInv, ThreadTypes
  <2>4. QED
    BY <1>0, <1>2, <2>1, <2>3
<1>18. CASE Join
  BY <1>18, <1>1 DEF Join, life
<1>19. CASE StopStep
  BY <1>19, <1>1 DEF StopStep, AskTask, WaitReturns, WaitTimesOut, Park, life
<1>20. CASE OnIdentified
  BY <1>20, <1>3 DEF OnIdentified, life, Kinds
<1>21. CASE OnLink
  BY <1>21, <1>3 DEF OnLink, life, Kinds
<1>22. CASE OnFinished
  <2>1. parked' = {u \in parked : Running(u)} /\ UNCHANGED phase
    BY <1>22 DEF OnFinished, Reap, life
  <2>2. QED
    BY <2>1 DEF Heard, Running
<1>23. ASSUME NEW kind \in {"failed", "completed"}, OnOver(kind) PROVE Heard(t)
  BY <1>23, <1>3 DEF OnOver, life, Kinds
<1>24. CASE UNCHANGED vars
  BY <1>24, <1>1 DEF vars, life
<1>25. QED
  BY <1>4, <1>5, <1>6, <1>7, <1>8, <1>9, <1>10, <1>11, <1>12, <1>13, <1>14,
     <1>15, <1>16, <1>17, <1>18, <1>19, <1>20, <1>21, <1>22, <1>23, <1>24
     DEF Next, ThreadStep, Handler

-----------------------------------------------------------------------------
(* The invariant, and what follows from it.                                *)

IInv ==
    /\ TypeInv /\ ControlInv
    /\ NoRunningThreadDropped
    /\ PumpOutlivesThread /\ AnnouncedInv
    /\ RunningReadsActive
    /\ TaskInv /\ StopIsNotLost
    /\ ConnectedInv

LEMMA InitIInv == Init => IInv
<1> SUFFICES ASSUME Init PROVE IInv
  OBVIOUS
<1>1. TypeInv
  BY EmptySeq DEF Init, TypeInv, ThreadTypes, PumpTypes, ControlTypes, Phases, Pcs,
     Reasons, Lifecycle, Free, Nobody
<1>2. ControlInv
  BY DEF Init, ControlInv, Stopping, Held, Free
<1>3. NoRunningThreadDropped /\ PumpOutlivesThread /\ AnnouncedInv /\ RunningReadsActive
  BY DEF Init, NoRunningThreadDropped, Running, PumpOutlivesThread, AnnouncedInv,
     RunningReadsActive
<1>4. TaskInv /\ StopIsNotLost /\ ConnectedInv
  BY DEF Init, TaskInv, StopIsNotLost, ConnectedInv, Free
<1>5. QED
  BY <1>1, <1>2, <1>3, <1>4 DEF IInv

LEMMA IInvHolds == Spec => []IInv
<1>1. IInv /\ [Next]_vars => IInv'
  <2> SUFFICES ASSUME IInv, [Next]_vars PROVE IInv'
    OBVIOUS
  <2>1. TypeInv'
    BY ThreadTypesStep, PumpTypesStep, ControlTypesStep DEF IInv, TypeInv
  <2>2. ControlInv'
    BY ControlStep DEF IInv
  <2>3. NoRunningThreadDropped' /\ PumpOutlivesThread' /\ AnnouncedInv'
    BY DropStep, PumpStep DEF IInv
  <2>4. RunningReadsActive' /\ TaskInv' /\ StopIsNotLost'
    BY ActiveStep, NotLostStep DEF IInv
  <2>5. ConnectedInv'
    BY ConnectedStep DEF IInv
  <2>6. QED
    BY <2>1, <2>2, <2>3, <2>4, <2>5 DEF IInv
<1>2. QED
  BY <1>1, InitIInv, PTL DEF Spec

(* Every variable keeps its type, and every item is on its queue, in the    *)
(* model or evicted.                                                        *)
THEOREM ControllerTypeCorrect == Spec => []TypeOK
<1>1. IInv => TypeOK
  <2> SUFFICES ASSUME IInv PROVE TypeOK
    OBVIOUS
  <2>1. events \in Seq([kind : Kinds, thread : Threads])
    BY DEF IInv, TypeInv, ThreadTypes
  <2>2. \A i \in DOMAIN events : events[i] \in [kind : Kinds, thread : Threads]
    BY <2>1, ElementOfSeq, LenProperties
  <2>3. QED
    BY <2>2 DEF IInv, TypeInv, ThreadTypes, PumpTypes, ControlTypes, TypeOK, Pcs
<1>2. QED
  BY <1>1, IInvHolds, PTL

(* The controller never drops the last reference to a thread that still     *)
(* runs, whatever stops time out and in whatever order captures end.        *)
THEOREM RunningThreadsAreHeld == Spec => []NoRunningThreadDropped
<1>1. IInv => NoRunningThreadDropped
  BY DEF IInv
<1>2. QED
  BY <1>1, IInvHolds, PTL

(* A pump outlives its thread and is let go with an empty queue.            *)
THEOREM PumpsOutliveThreads == Spec => []PumpOutlivesThread
<1>1. IInv => PumpOutlivesThread
  BY DEF IInv
<1>2. QED
  BY <1>1, IInvHolds, PTL

(* A session that is announced is one whose items are all accounted for:    *)
(* its pump was let go, so its queue is empty, and nothing else holds any.  *)
THEOREM AnnouncedIsComplete == Spec => []SessionAnnouncedComplete
<1>1. IInv => SessionAnnouncedComplete
  <2> SUFFICES ASSUME IInv, NEW t \in announced
               PROVE  phase[t] = "ended" /\ shown[t] + evicted[t] = produced[t]
    BY DEF SessionAnnouncedComplete
  <2>1. t \in Threads /\ released[t]
    BY DEF IInv, TypeInv, ControlTypes, AnnouncedInv
  <2>2. phase[t] = "ended" /\ queue[t] = 0
    BY <2>1 DEF IInv, PumpOutlivesThread
  <2>3. produced[t] = queue[t] + shown[t] + evicted[t]
    BY <2>1 DEF IInv, TypeInv, PumpTypes
  <2>4. shown[t] \in Nat /\ evicted[t] \in Nat
    BY <2>1 DEF IInv, TypeInv, PumpTypes
  <2>5. QED
    BY <2>2, <2>3, <2>4
<1>2. QED
  BY <1>1, IInvHolds, PTL

(* The lifecycle reads as active while a capture runs.                      *)
THEOREM LifecycleFollowsCapture == Spec => []RunningReadsActive
<1>1. IInv => RunningReadsActive
  BY DEF IInv
<1>2. QED
  BY <1>1, IInvHolds, PTL

(* A Disconnect is never lost, wherever the start of the capture is.        *)
THEOREM DisconnectIsNotLost == Spec => []StopIsNotLost
<1>1. IInv => StopIsNotLost
  BY DEF IInv
<1>2. QED
  BY <1>1, IInvHolds, PTL

(* The end of a parked capture is put on the queue by the step that ends    *)
(* it, and stays there until _reap has let go of it.                        *)
THEOREM ParkedEndQueued == Spec => ParkedEndIsHeard
<1>1. IInv /\ [Next]_vars
        => [\A t \in parked :
              /\ Running(t) /\ ~Running(t)' => FinishedQueued(t)'
              /\ ~Running(t) /\ FinishedQueued(t) /\ ~FinishedQueued(t)'
                    => t \notin parked']_vars
  BY HeardStep DEF IInv, Heard
<1>2. QED
  BY <1>1, IInvHolds, PTL DEF Spec, ParkedEndIsHeard
=============================================================================
