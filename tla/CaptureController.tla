------------------------- MODULE CaptureController -------------------------
(***************************************************************************)
(* The window's capture controller (gui/capture_controller.py), the        *)
(* capture threads it starts (gui/live.py) and the pumps that drain them   *)
(* (gui/pump.py).                                                          *)
(*                                                                         *)
(* Two kinds of thread take steps.  A capture thread identifies the        *)
(* device, creates the capture task, looks at the stop flag, captures,     *)
(* winds down and ends.  The interface thread runs one handler at a time;  *)
(* stop() blocks it in QThread.wait(), and between two handlers it takes   *)
(* the next queued signal or a press.  Signals of a capture thread reach   *)
(* it through `events`, in the order they were emitted.                    *)
(***************************************************************************)
EXTENDS Naturals, Sequences, Functions

CONSTANTS
    MaxThreads,     \* bound: captures started
    MaxReports,     \* bound: items queued and link states reported, together
    PauseLimit      \* Pump.pause_limit

ASSUME BoundsAssumption == MaxThreads \in Nat /\ MaxReports \in Nat
ASSUME PauseAssumption == PauseLimit \in Nat

VARIABLES
    phase,          \* where each capture thread is
    outcome,        \* what a capture winding down will end with
    flag,           \* CaptureThread._stopping
    task,           \* CaptureThread._task is assigned
    cancelled,      \* a cancellation of the task is pending
    produced,       \* items put on CaptureThread.queue
    links,          \* link states the sources have reported
    queue,          \* items on the queue now
    paused,         \* Pump.paused
    shown, evicted, \* items its pump gave to the model, or dropped
    released,       \* its pump has been stopped and let go
    connected,      \* thread.finished is connected to _reap
    events,         \* signals queued for the interface thread
    gui,            \* what the interface thread is doing
    current,        \* _thread
    parked,         \* _parked
    state,          \* _state
    announced       \* captures session_at was emitted for

life == <<phase, outcome, produced, links>>
pump == <<queue, paused, shown, evicted, released>>
control == <<current, parked, state, announced, connected>>
vars == <<life, flag, task, cancelled, pump, events, gui, control>>

Threads == 1..MaxThreads
Nobody == 0

Phases == {"new", "identifying", "assigning", "checking", "capturing",
           "winding", "exiting", "ended"}
Active == {"STARTING", "IDENTIFIED", "STREAMING", "RECONNECTING"}
Lifecycle == Active \cup {"IDLE", "STOPPING", "PARKED"}
Reasons == {"user", "start", "failed", "completed", "shutdown"}

(* QThread.isRunning(). *)
Running(t) == phase[t] \notin {"new", "ended"}

Free == [pc |-> "free", thread |-> Nobody, then |-> "user"]
Started == {t \in Threads : phase[t] # "new"}

Event(kind, t) == [kind |-> kind, thread |-> t]
Emit(kind, t) == events' = Append(events, Event(kind, t))

Init ==
    /\ phase = [t \in Threads |-> "new"]
    /\ outcome = [t \in Threads |-> "none"]
    /\ flag = [t \in Threads |-> FALSE]
    /\ task = [t \in Threads |-> FALSE]
    /\ cancelled = [t \in Threads |-> FALSE]
    /\ produced = [t \in Threads |-> 0]
    /\ links = 0
    /\ queue = [t \in Threads |-> 0]
    /\ paused = [t \in Threads |-> FALSE]
    /\ shown = [t \in Threads |-> 0]
    /\ evicted = [t \in Threads |-> 0]
    /\ released = [t \in Threads |-> FALSE]
    /\ connected = [t \in Threads |-> FALSE]
    /\ events = <<>>
    /\ gui = Free
    /\ current = Nobody /\ parked = {} /\ state = "IDLE" /\ announced = {}

-----------------------------------------------------------------------------
(* The capture thread: run() and _capture().                               *)

Move(t, from, to) == phase[t] = from /\ phase' = [phase EXCEPT ![t] = to]

(* device_info() answered, and `identified` is emitted. *)
Identify(t) ==
    /\ Move(t, "identifying", "assigning")
    /\ Emit("identified", t)
    /\ UNCHANGED <<outcome, produced, links, flag, task, cancelled,
                   pump, gui, control>>

(* device_info() raised: run() emits `failed`. *)
IdentifyFails(t) ==
    /\ Move(t, "identifying", "exiting")
    /\ Emit("failed", t)
    /\ UNCHANGED <<outcome, produced, links, flag, task, cancelled, pump, gui,
                   control>>

AssignTask(t) ==
    /\ Move(t, "assigning", "checking")
    /\ task' = [task EXCEPT ![t] = TRUE]
    /\ UNCHANGED <<outcome, produced, links, flag, cancelled, pump,
                   events, gui, control>>

(* Mutation of CheckStop: the flag is not looked at again. *)
CheckNothing(t) ==
    /\ Move(t, "checking", "capturing")
    /\ UNCHANGED <<outcome, produced, links, flag, task, cancelled, pump,
                   events, gui, control>>

(* A Disconnect that found no task to cancel left the flag instead. *)
CheckStop(t) ==
    /\ Move(t, "checking", "capturing")
    /\ cancelled' = [cancelled EXCEPT ![t] = @ \/ flag[t]]
    /\ UNCHANGED <<outcome, produced, links, flag, task, pump, events,
                   gui, control>>

MayReport == links + FoldFunction(+, 0, produced) < MaxReports

(* on_item: the item goes on the queue. *)
Produce(t) ==
    /\ phase[t] = "capturing"
    /\ MayReport
    /\ produced' = [produced EXCEPT ![t] = @ + 1]
    /\ queue' = [queue EXCEPT ![t] = @ + 1]
    /\ UNCHANGED <<phase, outcome, links, flag, task, cancelled, paused,
                   shown, evicted, released, events, gui, control>>

(* The source's on_state, which the window relays to link_state(). *)
ReportLink(t, link) ==
    /\ phase[t] = "capturing"
    /\ MayReport
    /\ links' = links + 1
    /\ Emit(link, t)
    /\ UNCHANGED <<phase, outcome, produced, flag, task, cancelled, pump,
                   gui, control>>

(* A limit, the end of the stream, or an error: nobody asked. *)
EndByItself(t, how) ==
    /\ Move(t, "capturing", "winding")
    /\ outcome' = [outcome EXCEPT ![t] = how]
    /\ UNCHANGED <<produced, links, flag, task, cancelled, pump, events,
                   gui, control>>

BeCancelled(t) ==
    /\ cancelled[t]
    /\ Move(t, "capturing", "winding")
    /\ outcome' = [outcome EXCEPT ![t] = "cancelled"]
    /\ UNCHANGED <<produced, links, flag, task, cancelled, pump, events,
                   gui, control>>

(* The capture's finally blocks are done.  A cancellation that arrives      *)
(* during them replaces the result, and an error in them replaces a         *)
(* cancellation.                                                            *)
WindDown(t, how) ==
    /\ \/ how \in {outcome[t], "failed"}
       \/ how = "cancelled" /\ cancelled[t]
    /\ Move(t, "winding", "exiting")
    /\ outcome' = [outcome EXCEPT ![t] = "none"]
    /\ cancelled' = [cancelled EXCEPT ![t] = FALSE]
    /\ IF how = "cancelled" THEN UNCHANGED events ELSE Emit(how, t)
    /\ UNCHANGED <<produced, links, flag, task, pump, gui, control>>

(* run() returned.  Qt emits `finished`, to whoever is connected by then: a *)
(* thread that ends after its wait gave up and before _park() connected it  *)
(* is heard by nobody.                                                      *)
Exit(t) ==
    /\ Move(t, "exiting", "ended")
    /\ IF connected[t] THEN Emit("finished", t) ELSE UNCHANGED events
    /\ UNCHANGED <<outcome, produced, links, flag, task, cancelled, pump,
                   gui, control>>

-----------------------------------------------------------------------------
(* The pump.                                                               *)

(* Mutation of Drained: the batch is copied, and stays on the queue. *)
DrainedByCopy(P) ==
    /\ shown' = [t \in Threads |->
                    IF t \in P THEN shown[t] + queue[t] ELSE shown[t]]
    /\ UNCHANGED queue

(* drain() of a running pump, for the pumps in P. *)
Drained(P) ==
    /\ queue' = [t \in Threads |-> IF t \in P THEN 0 ELSE queue[t]]
    /\ shown' = [t \in Threads |->
                    IF t \in P THEN shown[t] + queue[t] ELSE shown[t]]

(* _release(): Pump.stop() unpauses, drains once more and is deleted. *)
Release(P) ==
    /\ Drained(P)
    /\ paused' = [t \in Threads |-> t \notin P /\ paused[t]]
    /\ released' = [t \in Threads |-> t \in P \/ released[t]]
    /\ UNCHANGED evicted

(* The pump's timer: drain(), or _enforce_pause_limit() while paused. *)
Tick(t) ==
    /\ gui.pc = "free"
    /\ t \in Started /\ ~released[t]
    /\ queue[t] > IF paused[t] THEN PauseLimit ELSE 0
    /\ IF paused[t]
       THEN /\ queue' = [queue EXCEPT ![t] = PauseLimit]
            /\ evicted' = [evicted EXCEPT ![t] = @ + queue[t] - PauseLimit]
            /\ UNCHANGED shown
       ELSE /\ Drained({t})
            /\ UNCHANGED evicted
    /\ UNCHANGED <<paused, released, life, flag, task, cancelled, events, gui,
                   control>>

(* The Pause button. *)
SetPaused(on) ==
    /\ gui.pc = "free" /\ current # Nobody
    /\ paused[current] # on
    /\ paused' = [paused EXCEPT ![current] = on]
    /\ IF on THEN UNCHANGED <<queue, shown>> ELSE Drained({current})
    /\ UNCHANGED <<evicted, released, life, flag, task, cancelled, events, gui,
                   control>>

-----------------------------------------------------------------------------
(* stop(), one action for each stretch the interface thread runs without   *)
(* giving the capture thread a say.                                        *)

(* What the interface thread does once stop() has returned. *)
After(reason) ==
    CASE reason = "start"    -> [Free EXCEPT !.pc = "launching"]
      [] reason = "shutdown" -> [Free EXCEPT !.pc = "joining"]
      [] OTHER               -> Free

(* Up to and including the store to CaptureThread._stopping.  STOPPING      *)
(* makes the window release its Pause button, and the pump drains.          *)
BeginStop(reason) ==
    IF current = Nobody
    THEN /\ gui' = After(reason)
         /\ UNCHANGED <<flag, pump, current, state>>
    ELSE /\ gui' = [pc |-> "asking", thread |-> current, then |-> reason]
         /\ current' = Nobody
         /\ state' = "STOPPING"
         /\ flag' = [flag EXCEPT ![current] = TRUE]
         /\ IF paused[current]
            THEN Drained({current}) /\ paused' = [paused EXCEPT ![current] = FALSE]
            ELSE UNCHANGED <<queue, shown, paused>>
         /\ UNCHANGED <<evicted, released>>

(* The rest of CaptureThread.stop(): no task yet, or a loop already closed, *)
(* and there is nothing to cancel.                                          *)
AskTask ==
    /\ gui.pc = "asking"
    /\ gui' = [gui EXCEPT !.pc = "waiting"]
    /\ cancelled' = [cancelled EXCEPT ![gui.thread] =
                        @ \/ (task[gui.thread] /\
                              phase[gui.thread] \notin {"exiting", "ended"})]
    /\ UNCHANGED <<life, flag, task, pump, events, control>>

(* Mutation of WaitReturns: the session is announced without the wait. *)
WaitForNothing ==
    /\ gui.pc = "waiting"
    /\ Release({gui.thread})
    /\ announced' = announced \cup {gui.thread}
    /\ state' = "IDLE"
    /\ gui' = After(gui.then)
    /\ UNCHANGED <<life, flag, task, cancelled, events, current, parked,
                   connected>>

WaitReturns ==
    /\ gui.pc = "waiting" /\ phase[gui.thread] = "ended"
    /\ Release({gui.thread})
    /\ announced' = announced \cup {gui.thread}
    /\ state' = "IDLE"
    /\ gui' = After(gui.then)
    /\ UNCHANGED <<life, flag, task, cancelled, events, current, parked,
                   connected>>

(* STOP_TIMEOUT_MS passed first. *)
WaitTimesOut ==
    /\ gui.pc = "waiting" /\ phase[gui.thread] # "ended"
    /\ gui' = [gui EXCEPT !.pc = "parking"]
    /\ UNCHANGED <<life, flag, task, cancelled, pump, events, control>>

(* Mutation of Park: the pump is let go while its thread still produces. *)
ParkWithoutPump ==
    /\ gui.pc = "parking"
    /\ parked' = parked \cup {gui.thread}
    /\ Release({gui.thread})
    /\ connected' = [connected EXCEPT ![gui.thread] = TRUE]
    /\ state' = "PARKED"
    /\ gui' = After(gui.then)
    /\ UNCHANGED <<life, flag, task, cancelled, events, current, announced>>

(* Mutation of Park: nobody hears the parked thread end. *)
ParkUnconnected ==
    /\ gui.pc = "parking"
    /\ parked' = parked \cup {gui.thread}
    /\ paused' = [paused EXCEPT ![gui.thread] = TRUE]
    /\ state' = "PARKED"
    /\ gui' = After(gui.then)
    /\ UNCHANGED <<life, flag, task, cancelled, queue, shown, evicted,
                   released, events, current, announced, connected>>

(* _park(): hold the thread, pause its pump, connect `finished`. *)
Park ==
    /\ gui.pc = "parking"
    /\ parked' = parked \cup {gui.thread}
    /\ paused' = [paused EXCEPT ![gui.thread] = TRUE]
    /\ connected' = [connected EXCEPT ![gui.thread] = TRUE]
    /\ state' = "PARKED"
    /\ gui' = After(gui.then)
    /\ UNCHANGED <<life, flag, task, cancelled, queue, shown, evicted,
                   released, events, current, announced>>

(* Mutation of Reap: whoever ends, the controller reads IDLE. *)
ReapToIdle ==
    LET gone == {t \in parked : ~Running(t)}
    IN  /\ Release(gone)
        /\ parked' = parked \ gone
        /\ state' = IF parked' = {} THEN "IDLE" ELSE state

(* Mutation of Reap: a wait that timed out is taken for one that worked. *)
ReapEverything ==
    /\ Release(parked)
    /\ parked' = {}
    /\ state' = IF state = "PARKED" THEN "IDLE" ELSE state

(* _reap(): let go of the parked captures that have ended. *)
Reap ==
    LET gone == {t \in parked : ~Running(t)}
    IN  /\ Release(gone)
        /\ parked' = parked \ gone
        /\ state' = IF parked' = {} /\ state = "PARKED" THEN "IDLE" ELSE state

-----------------------------------------------------------------------------
(* What the interface thread is asked to do.                               *)

(* Disconnect, and closing the window. *)
Disconnect ==
    /\ gui.pc = "free" /\ current # Nobody
    /\ BeginStop("user")
    /\ UNCHANGED <<life, task, cancelled, events, parked, announced, connected>>

Shutdown ==
    /\ gui.pc = "free"
    /\ BeginStop("shutdown")
    /\ UNCHANGED <<life, task, cancelled, events, parked, announced, connected>>

(* start(): stop() first, whether or not something is running. *)
Start ==
    /\ gui.pc = "free" /\ Started # Threads
    /\ BeginStop("start")
    /\ UNCHANGED <<life, task, cancelled, events, parked, announced, connected>>

(* The rest of start(): a thread and a pump of its own. *)
Launch ==
    /\ gui.pc = "launching"
    /\ LET t == CHOOSE u \in Threads \ Started :
                    \A v \in Threads \ Started : u <= v
       IN  /\ Move(t, "new", "identifying")
           /\ current' = t
    /\ state' = "STARTING"
    /\ gui' = Free
    /\ UNCHANGED <<outcome, produced, links, flag, task, cancelled, pump,
                   events, parked, announced, connected>>

(* The rest of shutdown(): each parked thread is waited for once more, and *)
(* _reap() decides; the window is gone after it.                           *)
Join ==
    /\ gui.pc = "joining"
    /\ Reap
    /\ gui' = [Free EXCEPT !.pc = "closed"]
    /\ UNCHANGED <<life, flag, task, cancelled, events, current, announced,
                   connected>>

-----------------------------------------------------------------------------
(* What the capture threads' signals do, once they are delivered.          *)

Deliver(kind) ==
    /\ gui.pc = "free" /\ events # <<>>
    /\ Head(events).kind = kind
    /\ events' = Tail(events)

(* _on_identified() *)
OnIdentified ==
    /\ Deliver("identified")
    /\ state' = "IDENTIFIED"
    /\ UNCHANGED <<life, flag, task, cancelled, pump, gui, current, parked,
                   announced, connected>>

(* link_state(): ignored with nothing running. *)
OnLink ==
    /\ \/ Deliver("STREAMING")
       \/ Deliver("RECONNECTING")
    /\ state' = IF current = Nobody THEN state ELSE Head(events).kind
    /\ UNCHANGED <<life, flag, task, cancelled, pump, gui, current, parked,
                   announced, connected>>

(* _on_failed() and _on_completed(): stop() whatever is current. *)
OnOver(kind) ==
    /\ Deliver(kind)
    /\ BeginStop(kind)
    /\ UNCHANGED <<life, task, cancelled, parked, announced, connected>>

OnFinished ==
    /\ Deliver("finished")
    /\ Reap
    /\ UNCHANGED <<life, flag, task, cancelled, gui, current, announced,
                   connected>>

-----------------------------------------------------------------------------
ThreadStep(t) ==
    \/ Identify(t) \/ IdentifyFails(t) \/ AssignTask(t) \/ CheckStop(t)
    \/ Produce(t)
    \/ \E link \in {"STREAMING", "RECONNECTING"} : ReportLink(t, link)
    \/ \E how \in {"completed", "failed"} : EndByItself(t, how)
    \/ BeCancelled(t)
    \/ \E how \in {"completed", "failed", "cancelled"} : WindDown(t, how)
    \/ Exit(t)

StopStep == AskTask \/ WaitReturns \/ WaitTimesOut \/ Park

Handler ==
    OnIdentified \/ OnLink \/ OnFinished
    \/ \E kind \in {"failed", "completed"} : OnOver(kind)

Next ==
    \/ \E t \in Threads : ThreadStep(t) \/ Tick(t)
    \/ \E on \in BOOLEAN : SetPaused(on)
    \/ Disconnect \/ Shutdown \/ Start \/ Launch \/ Join
    \/ StopStep \/ Handler

Spec == Init /\ [][Next]_vars

(* Identification may hang and a capture may run for ever; everything else  *)
(* a thread does is local, and the event loop gets to every signal.         *)
Winding(t) ==
    \/ AssignTask(t) \/ CheckStop(t) \/ BeCancelled(t) \/ Exit(t)
    \/ \E how \in {"completed", "failed", "cancelled"} : WindDown(t, how)

FairSpec ==
    /\ Spec
    /\ \A t \in Threads : WF_vars(Winding(t))
    /\ WF_vars(StopStep) /\ WF_vars(Launch) /\ WF_vars(Join)
    /\ WF_vars(Handler)

-----------------------------------------------------------------------------
(* Every variable stays in its type, and an item is on its queue, in the    *)
(* model, or evicted, and nowhere else.                                     *)
TypeOK ==
    /\ phase \in [Threads -> Phases]
    /\ outcome \in [Threads -> {"none", "failed", "completed", "cancelled"}]
    /\ {flag, task, cancelled, paused, released, connected}
            \subseteq [Threads -> BOOLEAN]
    /\ {produced, queue, shown, evicted} \subseteq [Threads -> Nat]
    /\ links \in Nat
    /\ \A t \in Threads : produced[t] = queue[t] + shown[t] + evicted[t]
    /\ \A i \in DOMAIN events : events[i].thread \in Threads
    /\ gui.thread \in Threads \cup {Nobody} /\ gui.then \in Reasons
    /\ gui.pc \in {"free", "asking", "waiting", "parking", "launching",
                   "joining", "closed"}
    /\ current \in Threads \cup {Nobody}
    /\ parked \subseteq Threads /\ announced \subseteq Threads
    /\ state \in Lifecycle

(* The controller holds a reference to every capture thread that is still   *)
(* running -- Qt aborts the process when the last one to a running QThread  *)
(* is dropped -- also after shutdown() gave up on one (_park, shutdown).    *)
NoRunningThreadDropped ==
    \A t \in Threads : Running(t) => t \in parked \cup {current, gui.thread}

(* A pump is let go only after its thread stopped producing, with nothing   *)
(* left on the queue (_reap, _release).                                     *)
PumpOutlivesThread ==
    \A t \in Threads : released[t] => phase[t] = "ended" /\ queue[t] = 0

(* session_at is emitted for captures that are over, when the view and the  *)
(* drop notices account for all the file holds (stop).                      *)
SessionAnnouncedComplete ==
    \A t \in announced :
        phase[t] = "ended" /\ shown[t] + evicted[t] = produced[t]

(* While a capture runs the controller never reads idle, stopping or        *)
(* parked, whatever an older capture does meanwhile (_reap, link_state).    *)
RunningReadsActive ==
    gui.pc = "free" /\ current # Nobody => state \in Active

(* A Disconnect pressed while the device is being identified still ends the *)
(* capture once there is one to end (CaptureThread._capture and stop).      *)
StopReachesTheCapture ==
    \A t \in Threads : flag[t] /\ task[t] ~> phase[t] = "ended"

LetGo(t) == t \notin parked \/ gui.pc = "closed"

(* A parked capture that comes to its end is let go of without being asked  *)
(* for: its thread, its pump and the PARKED state do not outlive it (_park).*)
ParkedEndIsReaped ==
    \A t \in Threads : t \in parked /\ phase[t] = "exiting" ~> LetGo(t)

(* What _park() promises of every thread it holds: it is disposed of once   *)
(* it has ended.  One that ended before it was connected waits for another  *)
(* capture to end, or for shutdown().                                       *)
ParkedIsReaped ==
    \A t \in Threads : t \in parked /\ phase[t] = "ended" ~> LetGo(t)

FinishedQueued(t) ==
    \E i \in DOMAIN events : events[i] = Event("finished", t)

(* The end of a parked capture is put on the queue by the step that ends    *)
(* it, and stays there until _reap has let go of it (_park, _reap).         *)
ParkedEndIsHeard ==
    [][\A t \in parked :
          /\ Running(t) /\ ~Running(t)' => FinishedQueued(t)'
          /\ ~Running(t) /\ FinishedQueued(t) /\ ~FinishedQueued(t)'
                => t \notin parked']_vars

-----------------------------------------------------------------------------
(* link_state() says that recording a late notification of a capture that   *)
(* was let go of would move the lifecycle backwards: with no capture        *)
(* running, the lifecycle is not at a stage of one.                         *)
ActiveMeansRunning ==
    gui.pc = "free" /\ current = Nobody => state \notin Active

(* _on_completed() says that its thread has already ended: a capture is     *)
(* wound down as over only when it is the one that is over.                 *)
OnlyItsOwnEnd ==
    [][current # Nobody /\ current' = Nobody
          /\ gui'.then = "completed"
        => phase[current] \in {"exiting", "ended"}]_vars

=============================================================================
