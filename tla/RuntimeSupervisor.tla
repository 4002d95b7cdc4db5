--------------------------- MODULE RuntimeSupervisor ---------------------------
(***************************************************************************)
(* The native task owner of the firmware: one pinned FreeRTOS task and one *)
(* bounded queue per lane, zero-wait admission, generation cancellation,   *)
(* results routed to Control, start/stop/shutdown, and the Portal lane's   *)
(* deep-sleep barrier.                                                     *)
(*                                                                         *)
(* Every portENTER_CRITICAL ... portEXIT_CRITICAL section of the C++ is    *)
(* one atomic step; everything between two sections may be interleaved     *)
(* with the other core.  Telemetry and diagnostic counters are left out,   *)
(* so a refused post() changes nothing and is a stuttering step.           *)
(***************************************************************************)
EXTENDS Integers, Sequences

CONSTANTS
  Lane,           \* the lanes of the instance, among AllLanes
  QueueDepth,     \* kTaskQueueDepths: 32, 32, 32, 16, 8, 4, 8 and 4 in the product
  TimedClass,     \* work classes whose producers set a deadline (buttons do)
  HandlerReturn,  \* the dispositions handlers return
  RequestId,      \* identities of commands: each is posted at most once
  MaxGeneration,  \* bound on generations
  CancelFloor,    \* the generation floors cancellations ask for
  TickLane        \* lanes whose owner registers a tick

LaneIndex == [Input |-> 0, Voice |-> 1, Control |-> 2, Led |-> 3, Storage |-> 4,
              Display |-> 5, Network |-> 6, Portal |-> 7]
AllLanes == DOMAIN LaneIndex

\* RuntimeAdmission::routeFor for commands.
RouteOf == [Button |-> "Input", Voice |-> "Voice", Control |-> "Control",
            LedStatus |-> "Led", Display |-> "Display", Storage |-> "Storage",
            InkloopNetwork |-> "Network", MyAiNetwork |-> "Network",
            Portal |-> "Portal"]

WorkClass == {c \in DOMAIN RouteOf : RouteOf[c] \in Lane}
Disposition == {"Accepted", "Busy", "Cancelled", "TimedOut", "Failed",
                "Complete"}
Lifecycle == {"Uninitialized", "Initializing", "Ready", "Starting", "Running",
              "Stopping"}

ASSUME LaneAssumption == Lane \subseteq AllLanes /\ {"Control", "Portal"} \subseteq Lane
ASSUME DepthAssumption == QueueDepth \in [Lane -> Nat \ {0}]
ASSUME GenerationAssumption == MaxGeneration \in Nat \ {0}
ASSUME FloorAssumption == CancelFloor \subseteq 1 .. MaxGeneration
ASSUME TickAssumption == TickLane \subseteq Lane
ASSUME HandlerAssumption == HandlerReturn \subseteq Disposition

Envelope == [id : RequestId, class : WorkClass, generation : 1 .. MaxGeneration,
             kind : {"Command", "Result"}, disposition : Disposition]
NoEnvelope == [id |-> "none"]

\* Where a task stands between two critical sections of run().
TaskPoint == {"absent", "loop", "receive", "received", "dequeued", "handler",
              "result", "finish", "reject", "tickcheck", "tickarm", "tick",
              "quiescent"}
InHand == {"received", "dequeued", "handler", "result", "reject"}
Fate == {"unused", "open", "closed", "undelivered", "dropped"}

VARIABLES
  lifecycle,       \* lifecycle_
  teardown,        \* how far stop() or shutdown() is
  handlers,        \* lanes with a registered WorkHandler
  tickers,         \* lanes with a registered TickHandler
  used,            \* admission_.state_.used
  floor,           \* admission_.state_.generation_floor
  queue,           \* the FreeRTOS queues
  pc,              \* where each task is; "absent" when there is none
  held,            \* the envelope a task's stack holds
  callbackActive,  \* callback_active_
  frozen,          \* sleep_admission_frozen_
  buttonPending,   \* sleep_button_event_pending_
  fate,            \* history: what became of each command
  cancelled        \* history: what cancelBefore() has promised per class

admissionVars == <<used, floor, queue>>
taskVars == <<pc, held, callbackActive>>
sleepVars == <<frozen, buttonPending>>
setupVars == <<lifecycle, teardown, handlers, tickers>>
historyVars == <<fate, cancelled>>
vars == <<admissionVars, taskVars, sleepVars, setupVars, historyVars>>

Init ==
  /\ lifecycle = "Uninitialized"
  /\ teardown = "none"
  /\ handlers = {}
  /\ tickers = {}
  /\ used = [l \in Lane |-> 0]
  /\ floor = [c \in WorkClass |-> 0]
  /\ queue = [l \in Lane |-> <<>>]
  /\ pc = [l \in Lane |-> "absent"]
  /\ held = [l \in Lane |-> NoEnvelope]
  /\ callbackActive = [l \in Lane |-> FALSE]
  /\ frozen = FALSE
  /\ buttonPending = FALSE
  /\ fate = [i \in RequestId |-> "unused"]
  /\ cancelled = [c \in WorkClass |-> 0]

-----------------------------------------------------------------------------
(* Admission *)

LaneFor(e) == IF e.kind = "Result" THEN "Control" ELSE RouteOf[e.class]
Stale(e) == e.generation < floor[e.class]

\* Mutant of Admits: the counter may reach one past the depth.
AdmitsOneTooMany(e) ==
  LET l == LaneFor(e) IN
  /\ lifecycle = "Running"
  /\ ~frozen
  /\ ~Stale(e)
  /\ used[l] <= QueueDepth[l]
  /\ Len(queue[l]) < QueueDepth[l]

\* post() up to its acceptance: lifecycle, barrier, admit() and xQueueSend.
Admits(e) ==
  LET l == LaneFor(e) IN
  /\ lifecycle = "Running"
  /\ ~frozen
  /\ ~Stale(e)
  /\ used[l] < QueueDepth[l]
  /\ Len(queue[l]) < QueueDepth[l]

\* Mutant of Enqueue: results are queued without being counted.
EnqueueUncountedResult(e) ==
  LET l == LaneFor(e) IN
  /\ used' = [used EXCEPT ![l] = IF e.kind = "Result" THEN @ ELSE @ + 1]
  /\ queue' = [queue EXCEPT ![l] = Append(@, e)]

Enqueue(e) ==
  LET l == LaneFor(e) IN
  /\ used' = [used EXCEPT ![l] = @ + 1]
  /\ queue' = [queue EXCEPT ![l] = Append(@, e)]

\* Any producer, from any core: a callback, an HTTP task, a serial command.
Post(e) ==
  /\ e.kind = "Command"
  /\ fate[e.id] = "unused"
  /\ Admits(e)
  /\ Enqueue(e)
  /\ fate' = [fate EXCEPT ![e.id] = "open"]
  /\ UNCHANGED <<floor, taskVars, sleepVars, setupVars, cancelled>>

Command(i, c, g) == [id |-> i, class |-> c, generation |-> g,
                     kind |-> "Command", disposition |-> "Accepted"]

\* postButtonFromIsr() under the barrier; elsewhere it admits like post().
LatchButtonFromIsr ==
  /\ lifecycle = "Running"
  /\ frozen
  /\ buttonPending' = TRUE
  /\ UNCHANGED <<admissionVars, taskVars, frozen, setupVars, historyVars>>

CancelBefore(c, g) ==
  /\ floor' = [floor EXCEPT ![c] = IF g > @ THEN g ELSE @]
  /\ cancelled' = [cancelled EXCEPT ![c] = IF g > @ THEN g ELSE @]
  /\ UNCHANGED <<used, queue, taskVars, sleepVars, setupVars, fate>>

-----------------------------------------------------------------------------
(* The loop of a lane's task *)

GoTo(l, point) == pc' = [pc EXCEPT ![l] = point]
Discard(l) == held' = [held EXCEPT ![l] = NoEnvelope]
Settle(e, outcome) ==
  fate' = IF e.kind = "Command" THEN [fate EXCEPT ![e.id] = outcome] ELSE fate

LoopTop(l) ==
  /\ pc[l] = "loop"
  /\ GoTo(l, IF lifecycle = "Stopping" THEN "quiescent" ELSE "receive")
  /\ UNCHANGED <<admissionVars, held, callbackActive, sleepVars, setupVars,
                 historyVars>>

\* Mutant of ReceiveEnvelope: xQueuePeek for xQueueReceive.
PeekEnvelope(l) ==
  /\ pc[l] = "receive"
  /\ queue[l] # <<>>
  /\ held' = [held EXCEPT ![l] = Head(queue[l])]
  /\ GoTo(l, "received")
  /\ UNCHANGED <<admissionVars, callbackActive, sleepVars, setupVars, historyVars>>

ReceiveEnvelope(l) ==
  /\ pc[l] = "receive"
  /\ queue[l] # <<>>
  /\ held' = [held EXCEPT ![l] = Head(queue[l])]
  /\ queue' = [queue EXCEPT ![l] = Tail(@)]
  /\ GoTo(l, "received")
  /\ UNCHANGED <<used, floor, callbackActive, sleepVars, setupVars, historyVars>>

\* The bounded wait ends, or stop() aborts it.
ReceiveNothing(l) ==
  /\ pc[l] = "receive"
  /\ queue[l] = <<>>
  /\ GoTo(l, "tickcheck")
  /\ UNCHANGED <<admissionVars, held, callbackActive, sleepVars, setupVars,
                 historyVars>>

\* stop_before_handler: the envelope is lost with the task's stack.
StopBeforeHandler(l) ==
  /\ pc[l] = "received"
  /\ lifecycle = "Stopping"
  /\ Settle(held[l], "dropped")
  /\ Discard(l)
  /\ GoTo(l, "quiescent")
  /\ UNCHANGED <<admissionVars, callbackActive, sleepVars, setupVars, cancelled>>

ProceedToHandle(l) ==
  /\ pc[l] = "received"
  /\ lifecycle # "Stopping"
  /\ GoTo(l, "dequeued")
  /\ UNCHANGED <<admissionVars, held, callbackActive, sleepVars, setupVars,
                 historyVars>>

NeedsResult(l, e) == l # "Control" /\ e.kind = "Command"

\* release() and shouldExecute(); a deadline may have passed since admission.
Verdicts(l, e) ==
  IF used[l] = 0 THEN {"Underflow"}
  ELSE IF Stale(e) THEN {"StaleGeneration"}
  ELSE IF e.kind = "Command" /\ e.class \in TimedClass THEN {"Admitted", "Expired"}
  ELSE {"Admitted"}

\* Mutant of RejectionDisposition: the admission verdict is passed on as it is.
RejectionVerdict(verdict, c) == verdict

RejectionDisposition(verdict, c) ==
  CASE verdict = "StaleGeneration" -> IF c = "Button" THEN "Failed" ELSE "Cancelled"
    [] verdict = "Expired" -> "TimedOut"
    [] OTHER -> "Failed"

MakeResult(e, d) == [e EXCEPT !.kind = "Result", !.disposition = d]

Release(l) == used' = [used EXCEPT ![l] = IF @ = 0 THEN 0 ELSE @ - 1]

BeginHandler(l) ==
  /\ pc[l] = "dequeued"
  /\ "Admitted" \in Verdicts(l, held[l])
  /\ Release(l)
  /\ callbackActive' = [callbackActive EXCEPT ![l] = TRUE]
  /\ GoTo(l, "handler")
  /\ UNCHANGED <<floor, queue, held, sleepVars, setupVars, historyVars>>

\* A refused command of a service lane still owes Control a result; a refused
\* envelope on Control itself is only counted.
RefuseDequeued(l) ==
  /\ pc[l] = "dequeued"
  /\ \E verdict \in Verdicts(l, held[l]) \ {"Admitted"} :
       IF NeedsResult(l, held[l])
       THEN /\ held' = [held EXCEPT ![l] =
                 MakeResult(@, RejectionDisposition(verdict, @.class))]
            /\ GoTo(l, "reject")
            /\ UNCHANGED fate
       ELSE /\ Settle(held[l], "dropped")
            /\ Discard(l)
            /\ GoTo(l, "tickcheck")
  /\ Release(l)
  /\ UNCHANGED <<floor, queue, callbackActive, sleepVars, setupVars, cancelled>>

\* The handler runs outside the lock; Accepted is not an answer.
HandlerReturns(l) ==
  /\ pc[l] = "handler"
  /\ \E d \in HandlerReturn :
       IF NeedsResult(l, held[l])
       THEN /\ held' = [held EXCEPT ![l] =
                 MakeResult(@, IF d = "Accepted" THEN "Failed" ELSE d)]
            /\ GoTo(l, "result")
            /\ UNCHANGED fate
       ELSE /\ Settle(held[l], "closed")
            /\ Discard(l)
            /\ GoTo(l, "finish")
  /\ UNCHANGED <<admissionVars, callbackActive, sleepVars, setupVars, cancelled>>

\* Mutant of DeliverResult: the callback counts as over once it has a result.
DeliverResultInactive(l) ==
  /\ pc[l] \in {"result", "reject"}
  /\ IF Admits(held[l])
     THEN Enqueue(held[l]) /\ fate' = [fate EXCEPT ![held[l].id] = "closed"]
     ELSE /\ fate' = [fate EXCEPT ![held[l].id] = "undelivered"]
          /\ UNCHANGED <<used, queue>>
  /\ Discard(l)
  /\ callbackActive' = [callbackActive EXCEPT ![l] = FALSE]
  /\ GoTo(l, IF pc[l] = "result" THEN "finish" ELSE "tickcheck")
  /\ UNCHANGED <<floor, sleepVars, setupVars, cancelled>>

\* post(result), whose refusal is counted in result_delivery_failed.
DeliverResult(l) ==
  /\ pc[l] \in {"result", "reject"}
  /\ IF Admits(held[l])
     THEN Enqueue(held[l]) /\ fate' = [fate EXCEPT ![held[l].id] = "closed"]
     ELSE /\ fate' = [fate EXCEPT ![held[l].id] = "undelivered"]
          /\ UNCHANGED <<used, queue>>
  /\ Discard(l)
  /\ GoTo(l, IF pc[l] = "result" THEN "finish" ELSE "tickcheck")
  /\ UNCHANGED <<floor, callbackActive, sleepVars, setupVars, cancelled>>

FinishCallback(l) ==
  /\ pc[l] = "finish"
  /\ callbackActive' = [callbackActive EXCEPT ![l] = FALSE]
  /\ GoTo(l, "tickcheck")
  /\ UNCHANGED <<admissionVars, held, sleepVars, setupVars, historyVars>>

\* stop_before_tick, then ticks_frozen or an interval that has not elapsed.
SkipTick(l) ==
  /\ pc[l] = "tickcheck"
  /\ GoTo(l, IF lifecycle = "Stopping" THEN "quiescent" ELSE "loop")
  /\ UNCHANGED <<admissionVars, held, callbackActive, sleepVars, setupVars,
                 historyVars>>

TickDue(l) ==
  /\ pc[l] = "tickcheck"
  /\ lifecycle # "Stopping"
  /\ l \in tickers
  /\ ~frozen
  /\ GoTo(l, "tickarm")
  /\ UNCHANGED <<admissionVars, held, callbackActive, sleepVars, setupVars,
                 historyVars>>

\* can_run_tick, decided in a section of its own.
ArmTick(l) ==
  LET canRunTick == lifecycle = "Running" /\ ~frozen /\ ~callbackActive[l] IN
  /\ pc[l] = "tickarm"
  /\ callbackActive' = [callbackActive EXCEPT ![l] = @ \/ canRunTick]
  /\ GoTo(l, IF canRunTick THEN "tick" ELSE "loop")
  /\ UNCHANGED <<admissionVars, held, sleepVars, setupVars, historyVars>>

TickReturns(l) ==
  /\ pc[l] = "tick"
  /\ callbackActive' = [callbackActive EXCEPT ![l] = FALSE]
  /\ GoTo(l, "loop")
  /\ UNCHANGED <<admissionVars, held, sleepVars, setupVars, historyVars>>

TaskStep(l) ==
  \/ LoopTop(l)
  \/ ReceiveEnvelope(l)
  \/ ReceiveNothing(l)
  \/ StopBeforeHandler(l)
  \/ ProceedToHandle(l)
  \/ BeginHandler(l)
  \/ RefuseDequeued(l)
  \/ HandlerReturns(l)
  \/ DeliverResult(l)
  \/ FinishCallback(l)
  \/ SkipTick(l)
  \/ TickDue(l)
  \/ ArmTick(l)
  \/ TickReturns(l)

-----------------------------------------------------------------------------
(* The deep-sleep barrier, called from the body of a Portal callback *)

InPortalCallback == pc["Portal"] \in {"handler", "tick"}

\* Mutant of AllAdmissionIdle: looks at the queues, not at the counters.
AllQueuesEmpty == \A l \in Lane : queue[l] = <<>>

AllAdmissionIdle == \A l \in Lane : used[l] = 0
AllOtherCallbacksIdle ==
  /\ \A l \in Lane \ {"Portal"} : ~callbackActive[l]
  /\ callbackActive["Portal"]

FreezeEligible ==
  /\ lifecycle = "Running"
  /\ ~frozen
  /\ InPortalCallback
  /\ AllAdmissionIdle
  /\ AllOtherCallbacksIdle

FreezeAdmissionForSleep ==
  /\ FreezeEligible
  /\ frozen' = TRUE
  /\ buttonPending' = FALSE
  /\ UNCHANGED <<admissionVars, taskVars, setupVars, historyVars>>

SleepAdmissionStillSafe ==
  /\ lifecycle = "Running"
  /\ frozen
  /\ ~buttonPending
  /\ InPortalCallback
  /\ AllAdmissionIdle
  /\ AllOtherCallbacksIdle

\* Unguarded in the code, and callable by any task.
ThawAdmissionAfterSleepAbort ==
  /\ frozen' = FALSE
  /\ buttonPending' = FALSE
  /\ UNCHANGED <<admissionVars, taskVars, setupVars, historyVars>>

-----------------------------------------------------------------------------
(* Lifecycle, driven from outside the managed tasks *)

InitializeBegin ==
  /\ lifecycle = "Uninitialized"
  /\ lifecycle' = "Initializing"
  /\ UNCHANGED <<teardown, handlers, tickers, admissionVars, taskVars,
                 sleepVars, historyVars>>

\* The event group or one of the static queues may fail to be created.
InitializeEnd ==
  /\ lifecycle = "Initializing"
  /\ lifecycle' \in {"Ready", "Uninitialized"}
  /\ UNCHANGED <<teardown, handlers, tickers, admissionVars, taskVars,
                 sleepVars, historyVars>>

RegisterHandler(l) ==
  /\ lifecycle = "Ready"
  /\ handlers' = handlers \cup {l}
  /\ UNCHANGED <<lifecycle, teardown, tickers, admissionVars, taskVars,
                 sleepVars, historyVars>>

RegisterTickHandler(l) ==
  /\ lifecycle = "Ready"
  /\ tickers' = tickers \cup {l}
  /\ UNCHANGED <<lifecycle, teardown, handlers, admissionVars, taskVars,
                 sleepVars, historyVars>>

StartBegin ==
  /\ lifecycle = "Ready"
  /\ handlers = Lane
  /\ lifecycle' = "Starting"
  /\ UNCHANGED <<teardown, handlers, tickers, admissionVars, taskVars,
                 sleepVars, historyVars>>

\* A task that could not be created: those created so far are deleted before
\* any of them was notified.
StartFails ==
  /\ lifecycle = "Starting"
  /\ lifecycle' = "Ready"
  /\ UNCHANGED <<teardown, handlers, tickers, admissionVars, taskVars,
                 sleepVars, historyVars>>

StartCommits ==
  /\ lifecycle = "Starting"
  /\ lifecycle' = "Running"
  /\ frozen' = FALSE
  /\ buttonPending' = FALSE
  /\ callbackActive' = [l \in Lane |-> FALSE]
  /\ pc' = [l \in Lane |-> "loop"]
  /\ UNCHANGED <<teardown, handlers, tickers, admissionVars, held, historyVars>>

StopBegin ==
  /\ lifecycle = "Running"
  /\ lifecycle' = "Stopping"
  /\ teardown' = "wait"
  /\ UNCHANGED <<handlers, tickers, admissionVars, taskVars, sleepVars,
                 historyVars>>

\* Mutant of StopWaitEnds: the wait has no timeout.
StopWaitsForEveryTask ==
  /\ teardown = "wait"
  /\ \A l \in Lane : pc[l] = "quiescent"
  /\ teardown' = "delete"
  /\ UNCHANGED <<lifecycle, handlers, tickers, admissionVars, taskVars,
                 sleepVars, historyVars>>

\* Every task has set its stop bit, or the 65-second wait has timed out.
StopWaitEnds ==
  /\ teardown = "wait"
  /\ teardown' = "delete"
  /\ UNCHANGED <<lifecycle, handlers, tickers, admissionVars, taskVars,
                 sleepVars, historyVars>>

\* Where a command that is still open can be.
Queued(l, i) ==
  \E n \in 1 .. Len(queue[l]) : queue[l][n].id = i /\ queue[l][n].kind = "Command"
Carried(l, i) ==
  /\ pc[l] \in InHand
  /\ held[l].id = i
  /\ held[l].kind = "Command" \/ pc[l] \in {"result", "reject"}

\* Mutant of StopDeletesTask: the queue is not reset.
StopKeepsQueue(l) ==
  /\ teardown = "delete"
  /\ pc[l] # "absent"
  /\ fate' = [i \in RequestId |-> IF Carried(l, i) THEN "dropped" ELSE fate[i]]
  /\ Discard(l)
  /\ GoTo(l, "absent")
  /\ UNCHANGED <<admissionVars, callbackActive, sleepVars, setupVars, cancelled>>

\* vTaskDelete, wherever the task is, and xQueueReset, lane after lane.
StopDeletesTask(l) ==
  /\ teardown = "delete"
  /\ pc[l] # "absent"
  /\ \A m \in Lane : LaneIndex[m] < LaneIndex[l] => pc[m] = "absent"
  /\ fate' = [i \in RequestId |-> 
                            IF Queued(l, i) \/ Carried(l, i) THEN "dropped" ELSE fate[i]]
  /\ Discard(l)
  /\ GoTo(l, "absent")
  /\ queue' = [queue EXCEPT ![l] = <<>>]
  /\ UNCHANGED <<used, floor, callbackActive, sleepVars, setupVars, cancelled>>

\* Mutant of StopEnds: the admission counters survive the stop.
StopKeepsCounters ==
  /\ teardown = "delete"
  /\ \A l \in Lane : pc[l] = "absent"
  /\ callbackActive' = [l \in Lane |-> FALSE]
  /\ frozen' = FALSE
  /\ buttonPending' = FALSE
  /\ lifecycle' = "Ready"
  /\ teardown' = "none"
  /\ UNCHANGED <<handlers, tickers, admissionVars, pc, held, historyVars>>

\* Mutant of StopEnds: admission_ is rebuilt without its generation floors.
StopForgetsFloors ==
  /\ teardown = "delete"
  /\ \A l \in Lane : pc[l] = "absent"
  /\ used' = [l \in Lane |-> 0]
  /\ floor' = [c \in WorkClass |-> 0]
  /\ callbackActive' = [l \in Lane |-> FALSE]
  /\ frozen' = FALSE
  /\ buttonPending' = FALSE
  /\ lifecycle' = "Ready"
  /\ teardown' = "none"
  /\ UNCHANGED <<handlers, tickers, queue, pc, held, historyVars>>

\* admission_ is rebuilt, the generation floors carried over.
StopEnds ==
  /\ teardown = "delete"
  /\ \A l \in Lane : pc[l] = "absent"
  /\ used' = [l \in Lane |-> 0]
  /\ callbackActive' = [l \in Lane |-> FALSE]
  /\ frozen' = FALSE
  /\ buttonPending' = FALSE
  /\ lifecycle' = "Ready"
  /\ teardown' = "none"
  /\ UNCHANGED <<handlers, tickers, floor, queue, pc, held, historyVars>>

ShutdownBegin ==
  /\ lifecycle = "Ready"
  /\ lifecycle' = "Stopping"
  /\ teardown' = "dismantle"
  /\ UNCHANGED <<handlers, tickers, admissionVars, taskVars, sleepVars,
                 historyVars>>

\* Queues and callbacks are gone and admission_ starts afresh, floors included.
ShutdownEnds ==
  /\ teardown = "dismantle"
  /\ lifecycle' = "Uninitialized"
  /\ teardown' = "none"
  /\ handlers' = {}
  /\ tickers' = {}
  /\ used' = [l \in Lane |-> 0]
  /\ floor' = [c \in WorkClass |-> 0]
  /\ queue' = [l \in Lane |-> <<>>]
  /\ callbackActive' = [l \in Lane |-> FALSE]
  /\ frozen' = FALSE
  /\ buttonPending' = FALSE
  /\ cancelled' = [c \in WorkClass |-> 0]
  /\ UNCHANGED <<pc, held, fate>>

LifecycleStep ==
  \/ InitializeBegin
  \/ InitializeEnd
  \/ \E l \in Lane : RegisterHandler(l)
  \/ \E l \in TickLane : RegisterTickHandler(l)
  \/ StartBegin
  \/ StartFails
  \/ StartCommits
  \/ StopBegin
  \/ StopWaitEnds
  \/ \E l \in Lane : StopDeletesTask(l)
  \/ StopEnds
  \/ ShutdownBegin
  \/ ShutdownEnds

ProducerStep ==
  \/ \E i \in RequestId, c \in WorkClass, g \in 1 .. MaxGeneration :
       Post(Command(i, c, g))
  \/ LatchButtonFromIsr
  \/ \E c \in WorkClass, g \in CancelFloor : CancelBefore(c, g)

Next ==
  \/ \E l \in Lane : TaskStep(l)
  \/ ProducerStep
  \/ FreezeAdmissionForSleep
  \/ ThawAdmissionAfterSleepAbort
  \/ LifecycleStep

Spec == Init /\ [][Next]_vars

\* A teardown that has begun goes on: its only wait is bounded by
\* kSupervisorStopTimeoutMs.  Nothing is assumed of the tasks.
TeardownFairness ==
  /\ \A l \in Lane : WF_vars(StopDeletesTask(l))
  /\ WF_vars(StopWaitEnds) /\ WF_vars(StopEnds) /\ WF_vars(ShutdownEnds)
TeardownSpec == Spec /\ TeardownFairness

\* FreeRTOS runs every ready task in the end: handlers are cooperative and the
\* application tasks block on their queues.
TaskFairness == \A l \in Lane : WF_vars(TaskStep(l))

-----------------------------------------------------------------------------
(* Properties *)

TypeOK ==
  /\ lifecycle \in Lifecycle
  /\ teardown \in {"none", "wait", "delete", "dismantle"}
  /\ handlers \subseteq Lane
  /\ tickers \subseteq Lane
  /\ used \in [Lane -> Nat]
  /\ floor \in [WorkClass -> 0 .. MaxGeneration]
  /\ queue \in [Lane -> Seq(Envelope)]
  /\ pc \in [Lane -> TaskPoint]
  /\ held \in [Lane -> Envelope \cup {NoEnvelope}]
  /\ callbackActive \in [Lane -> BOOLEAN]
  /\ frozen \in BOOLEAN
  /\ buttonPending \in BOOLEAN
  /\ fate \in [RequestId -> Fate]
  /\ cancelled \in [WorkClass -> 0 .. MaxGeneration]

\* The deep-sleep barrier of runtime_supervisor.hpp:73-76: while admission is
\* frozen no lane but Portal is inside a callback, no queue holds work and no
\* admitted envelope is on its way from a queue to a handler.
SleepBarrier ==
  frozen => \A l \in Lane :
    /\ queue[l] = <<>>
    /\ pc[l] \notin {"received", "dequeued"}
    /\ l # "Portal" => pc[l] \notin {"handler", "result", "finish", "tick"}

\* Received, and not yet released.
InFlight(l) == IF pc[l] \in {"received", "dequeued"} THEN 1 ELSE 0

\* The admission counter and the FreeRTOS queue it stands for never drift
\* apart: what is counted is what is queued plus what was received and not yet
\* released, so an admitted envelope always finds room in its queue.
AdmissionAccounting ==
  lifecycle = "Running" => \A l \in Lane :
    used[l] = Len(queue[l]) + InFlight(l)

QueueBounded == \A l \in Lane : Len(queue[l]) <= used[l] /\ used[l] <= QueueDepth[l]

\* Whatever stop() interrupted, a supervisor that is Ready again has no task,
\* no queued envelope, no admission count, no active callback and no barrier.
ReadyIsQuiescent ==
  lifecycle \in {"Uninitialized", "Initializing", "Ready", "Starting"} =>
    /\ ~frozen /\ ~buttonPending
    /\ \A l \in Lane : /\ pc[l] = "absent"
                       /\ queue[l] = <<>>
                       /\ used[l] = 0
                       /\ ~callbackActive[l]

\* Every admitted command is in exactly one place - a queue or one task's hand -
\* until it is handled, its result is admitted or refused, or a teardown drops
\* it: nothing is lost in between, nothing is delivered twice.
CommandConservation ==
  \A i \in RequestId :
    /\ fate[i] = "open" <=> \E l \in Lane : Queued(l, i) \/ Carried(l, i)
    /\ \A l, m \in Lane : (Queued(l, i) \/ Carried(l, i)) /\ Carried(m, i) =>
         l = m /\ ~Queued(l, i)

\* The parts of the inductive invariant the proofs rest on.
CallbackPoint == {"handler", "result", "finish", "tick"}
Dormant == lifecycle \in {"Uninitialized", "Initializing", "Ready", "Starting"}

TeardownPhase == lifecycle = "Stopping" <=> teardown # "none"
HandsFull == \A l \in Lane : pc[l] \in InHand => held[l] \in Envelope
NeverUndercounts == \A l \in Lane :
  Len(queue[l]) + InFlight(l) <= used[l] /\ used[l] <= QueueDepth[l]
CallbacksFlagged == \A l \in Lane : pc[l] \in CallbackPoint => callbackActive[l]
FrozenIdle == frozen =>
  /\ lifecycle \in {"Running", "Stopping"}
  /\ \A l \in Lane : used[l] = 0 /\ (l # "Portal" => pc[l] \notin CallbackPoint)
DormantIsEmpty == Dormant \/ teardown = "dismantle" =>
  /\ ~frozen /\ ~buttonPending
  /\ \A l \in Lane :
       pc[l] = "absent" /\ queue[l] = <<>> /\ used[l] = 0 /\ ~callbackActive[l]
AbsentIsEmpty == \A l \in Lane : pc[l] = "absent" =>
  Dormant \/ teardown = "dismantle" \/ (teardown = "delete" /\ queue[l] = <<>>)

\* What every critical section preserves: enough to show the barrier, the
\* accounting and the quiescence after a stop() for every number of lanes,
\* queue depth and command.
SupervisorInv ==
  /\ TypeOK
  /\ TeardownPhase
  /\ HandsFull
  /\ AdmissionAccounting
  /\ NeverUndercounts
  /\ CallbacksFlagged
  /\ FrozenIdle
  /\ DormantIsEmpty
  /\ AbsentIsEmpty
  /\ floor = cancelled

\* A generation cancelled with cancelBefore() never reaches a handler again,
\* whichever queue it sat in and however often the tasks are stopped and
\* started; only shutdown() forgets.
CancelledNeverStarts ==
  [][\A l \in Lane : pc[l] # "handler" /\ pc'[l] = "handler" =>
       held'[l].generation >= cancelled[held'[l].class]]_vars

\* runtime_supervisor.cpp:50-52 - a stale Button command "must reach Control
\* as a fail-closed NotReady outcome" - whenever Control can take it.
StaleButtonReachesControl ==
  [][\A l \in Lane :
       /\ DeliverResult(l) /\ pc[l] = "reject"
       /\ held[l].class = "Button" /\ held[l].disposition = "Failed"
       /\ lifecycle = "Running" /\ ~frozen /\ used["Control"] < QueueDepth["Control"]
       => fate'[held[l].id] = "closed"]_vars

\* If tasks run, no admitted command waits for ever: its lane handles it, refuses
\* it, or a teardown drops it, whatever other lanes, cancellations and barriers do.
EveryCommandSettles ==
  TaskFairness => \A i \in RequestId : fate[i] = "open" ~> fate[i] # "open"

\* stop() and shutdown() always come to an end: nothing is assumed of the tasks,
\* so a handler that hangs does not stop them.
TeardownEnds == lifecycle = "Stopping" ~> lifecycle \in {"Ready", "Uninitialized"}

=============================================================================
