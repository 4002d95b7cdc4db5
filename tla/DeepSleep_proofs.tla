---------------------------- MODULE DeepSleep_proofs ----------------------------
(***************************************************************************)
(* Proofs about the task owner and about the sleep attempt, for every set  *)
(* of lanes, every queue depth, every set of commands and every bound on   *)
(* generations.                                                            *)
(*                                                                         *)
(* Part one is about the supervisor alone: its theorems start from its own *)
(* Spec.  Part two is about the attempt: the product uses the supervisor   *)
(* as its specification allows, so the supervisor's invariant is available *)
(* there, and with it that no callback runs on a board that is down and    *)
(* that no press behind the barrier is slept through.                      *)
(***************************************************************************)
EXTENDS DeepSleep, SequenceTheorems, TLAPS

-----------------------------------------------------------------------------
(* PART ONE: the supervisor *)

-----------------------------------------------------------------------------
(* Admission *)

\* Routing never leaves the instance's lanes.
LEMMA LaneForInLane == ASSUME NEW e \in Envelope PROVE LaneFor(e) \in Lane
BY LaneAssumption DEF LaneFor, Envelope, WorkClass

\* A result keeps the identity, class and generation of its command.
LEMMA MakeResultType ==
  ASSUME NEW e \in Envelope, NEW d \in Disposition
  PROVE  /\ MakeResult(e, d) \in Envelope
         /\ MakeResult(e, d).kind = "Result"
BY DEF MakeResult, Envelope

LEMMA RejectionType ==
  ASSUME NEW c \in WorkClass, NEW verdict
  PROVE  RejectionDisposition(verdict, c) \in Disposition
BY DEF RejectionDisposition, Disposition

LEMMA CommandType ==
  ASSUME NEW i \in RequestId, NEW c \in WorkClass, NEW g \in 1 .. MaxGeneration
  PROVE  Command(i, c, g) \in Envelope
BY DEF Command, Envelope, Disposition

LEMMA EnqueueType ==
  ASSUME TypeOK, NEW e \in Envelope, Enqueue(e)
  PROVE  used' \in [Lane -> Nat] /\ queue' \in [Lane -> Seq(Envelope)]
<1>1. LaneFor(e) \in Lane
  BY LaneForInLane
<1>2. \A s \in Seq(Envelope) : Append(s, e) \in Seq(Envelope)
  OBVIOUS
<1> QED
  BY <1>1, <1>2 DEF TypeOK, Enqueue

-----------------------------------------------------------------------------
(* Type correctness *)

\* A task's step keeps every variable in its type.
LEMMA TaskStepType ==
  ASSUME TypeOK, HandsFull, NEW l \in Lane, TaskStep(l)
  PROVE  TypeOK'
<1> USE DEF TypeOK, HandsFull, InHand, TaskPoint, GoTo, Discard, taskVars,
            admissionVars, sleepVars, setupVars, historyVars
<1>1. CASE LoopTop(l)
  BY <1>1 DEF LoopTop
<1>2. CASE ReceiveEnvelope(l)
  <2>1. Head(queue[l]) \in Envelope /\ Tail(queue[l]) \in Seq(Envelope)
    BY <1>2 DEF ReceiveEnvelope
  <2> QED
    BY <1>2, <2>1 DEF ReceiveEnvelope
<1>3. CASE ReceiveNothing(l)
  BY <1>3 DEF ReceiveNothing
<1>4. CASE StopBeforeHandler(l)
  BY <1>4 DEF StopBeforeHandler, Settle, Fate, Envelope
<1>5. CASE ProceedToHandle(l)
  BY <1>5 DEF ProceedToHandle
<1>6. CASE BeginHandler(l)
  BY <1>6 DEF BeginHandler, Release
<1>7. CASE RefuseDequeued(l)
  <2>1. held[l] \in Envelope /\ held[l].class \in WorkClass /\ held[l].id \in RequestId
    BY <1>7 DEF RefuseDequeued, Envelope
  <2>2. PICK verdict : 
       IF NeedsResult(l, held[l])
       THEN /\ held' = [held EXCEPT ![l] =
                 MakeResult(@, RejectionDisposition(verdict, @.class))]
            /\ GoTo(l, "reject")
            /\ UNCHANGED fate
       ELSE /\ Settle(held[l], "dropped")
            /\ Discard(l)
            /\ GoTo(l, "tickcheck")
    BY <1>7 DEF RefuseDequeued
  <2>3. MakeResult(held[l], RejectionDisposition(verdict, held[l].class)) \in Envelope
    BY <2>1, MakeResultType, RejectionType
  <2>4. held' \in [Lane -> Envelope \cup {NoEnvelope}]
    BY <2>2, <2>3
  <2>5. fate' \in [RequestId -> Fate]
    BY <2>1, <2>2 DEF Settle, Fate
  <2>6. pc' \in [Lane -> TaskPoint]
    BY <2>2
  <2> QED
    BY <1>7, <2>4, <2>5, <2>6 DEF RefuseDequeued, Release
<1>8. CASE HandlerReturns(l)
  <2>1. held[l] \in Envelope /\ held[l].id \in RequestId
    BY <1>8 DEF HandlerReturns, Envelope
  <2>2. PICK d \in HandlerReturn : 
       IF NeedsResult(l, held[l])
       THEN /\ held' = [held EXCEPT ![l] =
                 MakeResult(@, IF d = "Accepted" THEN "Failed" ELSE d)]
            /\ GoTo(l, "result")
            /\ UNCHANGED fate
       ELSE /\ Settle(held[l], "closed")
            /\ Discard(l)
            /\ GoTo(l, "finish")
    BY <1>8 DEF HandlerReturns
  <2>3. MakeResult(held[l], IF d = "Accepted" THEN "Failed" ELSE d) \in Envelope
    BY <2>1, MakeResultType, HandlerAssumption DEF Disposition
  <2>4. held' \in [Lane -> Envelope \cup {NoEnvelope}]
    BY <2>2, <2>3
  <2>5. fate' \in [RequestId -> Fate]
    BY <2>1, <2>2 DEF Settle, Fate
  <2>6. pc' \in [Lane -> TaskPoint]
    BY <2>2
  <2> QED
    BY <1>8, <2>4, <2>5, <2>6 DEF HandlerReturns
<1>9. CASE DeliverResult(l)
  <2>1. held[l] \in Envelope /\ held[l].id \in RequestId
    BY <1>9 DEF DeliverResult, Envelope
  <2>2. used' \in [Lane -> Nat] /\ queue' \in [Lane -> Seq(Envelope)]
    BY <1>9, <2>1, EnqueueType DEF DeliverResult
  <2> QED
    BY <1>9, <2>1, <2>2 DEF DeliverResult, Fate
<1>10. CASE FinishCallback(l)
  BY <1>10 DEF FinishCallback
<1>11. CASE SkipTick(l)
  BY <1>11 DEF SkipTick
<1>12. CASE TickDue(l)
  BY <1>12 DEF TickDue
<1>13. CASE ArmTick(l)
  BY <1>13 DEF ArmTick
<1>14. CASE TickReturns(l)
  BY <1>14 DEF TickReturns
<1> QED
  BY <1>1, <1>2, <1>3, <1>4, <1>5, <1>6, <1>7, <1>8, <1>9, <1>10, <1>11, <1>12,
     <1>13, <1>14 DEF TaskStep

\* So does a step of a producer.
LEMMA ProducerStepType ==
  ASSUME TypeOK, ProducerStep
  PROVE  TypeOK'
<1> USE DEF TypeOK, taskVars, admissionVars, sleepVars, setupVars, historyVars
<1>1. ASSUME NEW i \in RequestId, NEW c \in WorkClass, NEW g \in 1 .. MaxGeneration,
             Post(Command(i, c, g))
      PROVE  TypeOK'
  <2>1. Command(i, c, g) \in Envelope /\ Command(i, c, g).id = i
    BY CommandType DEF Command
  <2> DEFINE e == Command(i, c, g)
  <2> HIDE DEF e
  <2>2. Post(e) /\ e \in Envelope /\ e.id \in RequestId
    BY <1>1, <2>1 DEF e
  <2>3. used' \in [Lane -> Nat] /\ queue' \in [Lane -> Seq(Envelope)]
    BY <2>2, EnqueueType DEF Post
  <2> QED
    BY <2>2, <2>3 DEF Post, Fate
<1>2. CASE LatchButtonFromIsr
  BY <1>2 DEF LatchButtonFromIsr
<1>3. ASSUME NEW c \in WorkClass, NEW g \in CancelFloor, CancelBefore(c, g)
      PROVE  TypeOK'
  <2>1. g \in 0 .. MaxGeneration
    BY FloorAssumption, GenerationAssumption
  <2> QED
    BY <1>3, <2>1 DEF CancelBefore
<1> QED
  BY <1>1, <1>2, <1>3 DEF ProducerStep

\* And a step of initialize(), start(), stop() or shutdown().
LEMMA LifecycleStepType ==
  ASSUME TypeOK, LifecycleStep
  PROVE  TypeOK'
<1> USE DEF TypeOK, taskVars, admissionVars, sleepVars, setupVars, historyVars,
            Lifecycle
<1>1. CASE InitializeBegin \/ InitializeEnd
  BY <1>1 DEF InitializeBegin, InitializeEnd
<1>2. ASSUME NEW l \in Lane, RegisterHandler(l) PROVE TypeOK'
  BY <1>2 DEF RegisterHandler
<1>3. ASSUME NEW l \in TickLane, RegisterTickHandler(l) PROVE TypeOK'
  BY <1>3, TickAssumption DEF RegisterTickHandler
<1>4. CASE StartBegin \/ StartFails
  BY <1>4 DEF StartBegin, StartFails
<1>5. CASE StartCommits
  BY <1>5 DEF StartCommits, TaskPoint
<1>6. CASE StopBegin \/ StopWaitEnds
  BY <1>6 DEF StopBegin, StopWaitEnds
<1>7. ASSUME NEW l \in Lane, StopDeletesTask(l) PROVE TypeOK'
  <2>1. queue' \in [Lane -> Seq(Envelope)]
    BY <1>7, EmptySeq DEF StopDeletesTask
  <2>2. fate' \in [RequestId -> Fate]
    BY <1>7 DEF StopDeletesTask, Fate
  <2>3. /\ held' \in [Lane -> Envelope \cup {NoEnvelope}]
        /\ pc' \in [Lane -> TaskPoint]
    BY <1>7 DEF StopDeletesTask, Discard, GoTo, TaskPoint
  <2>4. UNCHANGED <<used, floor, callbackActive, sleepVars, setupVars, cancelled>>
    BY <1>7 DEF StopDeletesTask
  <2> QED
    BY <2>1, <2>2, <2>3, <2>4
<1>8. CASE StopEnds
  BY <1>8 DEF StopEnds
<1>9. CASE ShutdownBegin
  BY <1>9 DEF ShutdownBegin
<1>10. CASE ShutdownEnds
  <2>1. queue' \in [Lane -> Seq(Envelope)]
    BY <1>10, EmptySeq DEF ShutdownEnds
  <2>2. 0 \in 0 .. MaxGeneration
    BY GenerationAssumption
  <2>3. /\ used' \in [Lane -> Nat]
        /\ floor' \in [WorkClass -> 0 .. MaxGeneration]
        /\ cancelled' \in [WorkClass -> 0 .. MaxGeneration]
        /\ callbackActive' \in [Lane -> BOOLEAN]
    BY <1>10, <2>2 DEF ShutdownEnds
  <2> QED
    BY <1>10, <2>1, <2>3 DEF ShutdownEnds
<1> HIDE DEF TypeOK
<1> QED
  BY <1>1, <1>2, <1>3, <1>4, <1>5, <1>6, <1>7, <1>8, <1>9, <1>10 DEF LifecycleStep

LEMMA BarrierStepType ==
  ASSUME TypeOK, FreezeAdmissionForSleep \/ ThawAdmissionAfterSleepAbort
  PROVE  TypeOK'
BY DEF TypeOK, FreezeAdmissionForSleep, ThawAdmissionAfterSleepAbort,
       admissionVars, taskVars, setupVars, historyVars

LEMMA NextType == ASSUME TypeOK, HandsFull, [Next]_vars PROVE TypeOK'
<1>1. CASE UNCHANGED vars
  BY <1>1 DEF TypeOK, vars, admissionVars, taskVars, sleepVars, setupVars, historyVars
<1> QED
  BY <1>1, TaskStepType, ProducerStepType, LifecycleStepType, BarrierStepType DEF Next

-----------------------------------------------------------------------------
(* The inductive invariant *)

\* Counting an envelope in and queueing it go together, within the depth.
LEMMA EnqueueCounts ==
  ASSUME TypeOK, NEW e \in Envelope, Admits(e), Enqueue(e), NEW m \in Lane
  PROVE  /\ used'[m] - Len(queue'[m]) = used[m] - Len(queue[m])
         /\ used[m] <= QueueDepth[m] => used'[m] <= QueueDepth[m]
         /\ Len(queue[m]) \in Nat /\ Len(queue'[m]) \in Nat
<1>1. LaneFor(e) \in Lane
  BY LaneForInLane
<1>2. \A s \in Seq(Envelope) : Len(Append(s, e)) = Len(s) + 1 /\ Len(s) \in Nat
  OBVIOUS
<1>3. QueueDepth \in [Lane -> Nat]
  BY DepthAssumption
<1>4. queue[m] \in Seq(Envelope) /\ used[m] \in Nat
  BY DEF TypeOK
<1>5. CASE m = LaneFor(e)
  <2>1. used'[m] = used[m] + 1 /\ queue'[m] = Append(queue[m], e)
    BY <1>1, <1>5 DEF TypeOK, Enqueue
  <2>2. used[m] < QueueDepth[m]
    BY <1>5 DEF Admits
  <2>3. Len(queue'[m]) = Len(queue[m]) + 1 /\ Len(queue[m]) \in Nat
    BY <1>2, <1>4, <2>1
  <2>4. QueueDepth[m] \in Nat
    BY <1>3
  <2> QED
    BY <1>4, <2>1, <2>2, <2>3, <2>4
<1>6. CASE m # LaneFor(e)
  BY <1>1, <1>2, <1>3, <1>4, <1>6 DEF TypeOK, Enqueue
<1> QED
  BY <1>5, <1>6

\* A task that goes on to handle, answer or refuse has its envelope.
LEMMA HeldAfterTask ==
  ASSUME TypeOK', HandsFull, NEW l \in Lane, TypeOK,
         RefuseDequeued(l) \/ HandlerReturns(l)
  PROVE  HandsFull'
<1>1. held[l] \in Envelope /\ held[l].class \in WorkClass
  BY DEF HandsFull, InHand, RefuseDequeued, HandlerReturns, Envelope
<1>2. \/ /\ held'[l] \in Envelope
         /\ pc' \in {[pc EXCEPT ![l] = "reject"], [pc EXCEPT ![l] = "result"]}
      \/ pc' \in {[pc EXCEPT ![l] = "tickcheck"], [pc EXCEPT ![l] = "finish"]}
  <2>1. \A d \in Disposition : MakeResult(held[l], d) \in Envelope
    BY <1>1, MakeResultType
  <2>2. \A verdict : RejectionDisposition(verdict, held[l].class) \in Disposition
    BY <1>1, RejectionType
  <2>3. \A d \in HandlerReturn : (IF d = "Accepted" THEN "Failed" ELSE d) \in Disposition
    BY HandlerAssumption DEF Disposition
  <2>4. CASE RefuseDequeued(l)
    BY <2>1, <2>2, <2>4 DEF RefuseDequeued, GoTo, TypeOK
  <2>5. CASE HandlerReturns(l)
    BY <2>1, <2>3, <2>5 DEF HandlerReturns, GoTo, TypeOK
  <2> QED
    BY <2>4, <2>5
<1>3. \A m \in Lane \ {l} : held'[m] = held[m]
  BY DEF RefuseDequeued, HandlerReturns, Discard, TypeOK
<1> QED
  BY <1>2, <1>3 DEF HandsFull, InHand, TypeOK

\* A task's step preserves the invariant.
LEMMA TaskStepInv ==
  ASSUME SupervisorInv, TypeOK', NEW l \in Lane, TaskStep(l)
  PROVE  SupervisorInv'
<1> USE DepthAssumption DEF SupervisorInv, TypeOK, TeardownPhase, HandsFull, AdmissionAccounting,
      NeverUndercounts, CallbacksFlagged, FrozenIdle, DormantIsEmpty,
      AbsentIsEmpty, Dormant,
      InFlight, CallbackPoint, InHand, GoTo, Discard, taskVars, admissionVars,
      sleepVars, setupVars, historyVars
<1>1. CASE LoopTop(l)
  BY <1>1 DEF LoopTop
<1>2. CASE ReceiveEnvelope(l)
  <2>1. queue[l] \in Seq(Envelope) /\ queue[l] # <<>>
    BY <1>2 DEF ReceiveEnvelope
  <2>2. Len(queue[l]) \in Nat \ {0} /\ Len(Tail(queue[l])) = Len(queue[l]) - 1
        /\ Head(queue[l]) \in Envelope
    BY <2>1
  <2>3. used' = used /\ queue' = [queue EXCEPT ![l] = Tail(@)]
        /\ pc[l] = "receive" /\ pc' = [pc EXCEPT ![l] = "received"]
        /\ held' = [held EXCEPT ![l] = Head(queue[l])]
    BY <1>2 DEF ReceiveEnvelope
  <2>4. ASSUME NEW m \in Lane
        PROVE  Len(queue'[m]) + InFlight(m)' = Len(queue[m]) + InFlight(m)
    <3>1. CASE m = l
      <4>1. queue'[m] = Tail(queue[l]) /\ InFlight(m) = 0 /\ InFlight(m)' = 1
        BY <2>3, <3>1
      <4> QED
        BY <2>2, <3>1, <4>1
    <3>2. CASE m # l
      BY <2>3, <3>2
    <3> QED
      BY <3>1, <3>2
  <2>5. AdmissionAccounting' /\ NeverUndercounts'
    BY <1>2, <2>3, <2>4 DEF ReceiveEnvelope
  <2>6. HandsFull'
    BY <2>2, <2>3
  <2>7. AbsentIsEmpty'
    BY <1>2, <2>3 DEF ReceiveEnvelope
  <2>8. UNCHANGED <<floor, callbackActive, sleepVars, setupVars, historyVars>>
    BY <1>2 DEF ReceiveEnvelope
  <2>9. CallbacksFlagged' /\ FrozenIdle'
    BY <2>3, <2>8
  <2>10. TeardownPhase' /\ DormantIsEmpty' /\ floor' = cancelled'
    BY <2>3, <2>8
  <2> QED
    BY <2>5, <2>6, <2>7, <2>9, <2>10
<1>3. CASE ReceiveNothing(l)
  BY <1>3 DEF ReceiveNothing
<1>4. CASE StopBeforeHandler(l)
  BY <1>4 DEF StopBeforeHandler
<1>5. CASE ProceedToHandle(l)
  BY <1>5 DEF ProceedToHandle
<1>6. CASE BeginHandler(l)
  BY <1>6 DEF BeginHandler, Release
<1>7. CASE RefuseDequeued(l)
  <2>1. HandsFull'
    BY <1>7, HeldAfterTask
  <2>2. /\ pc[l] = "dequeued"
        /\ pc' \in {[pc EXCEPT ![l] = "reject"], [pc EXCEPT ![l] = "tickcheck"]}
        /\ used' = [used EXCEPT ![l] = IF @ = 0 THEN 0 ELSE @ - 1]
        /\ UNCHANGED <<floor, queue, callbackActive, sleepVars, setupVars, cancelled>>
    BY <1>7 DEF RefuseDequeued, Release
  <2> QED
    BY <2>1, <2>2
<1>8. CASE HandlerReturns(l)
  <2>1. HandsFull'
    BY <1>8, HeldAfterTask
  <2>2. /\ pc[l] = "handler"
        /\ pc' \in {[pc EXCEPT ![l] = "result"], [pc EXCEPT ![l] = "finish"]}
        /\ UNCHANGED <<admissionVars, callbackActive, sleepVars, setupVars, cancelled>>
    BY <1>8 DEF HandlerReturns
  <2>3. AbsentIsEmpty' /\ AdmissionAccounting' /\ NeverUndercounts'
    BY <2>2
  <2> QED
    BY <2>1, <2>2, <2>3
<1>9. CASE DeliverResult(l)
  <2>1. held[l] \in Envelope
    BY <1>9 DEF DeliverResult
  <2>2. /\ \/ pc[l] = "result" /\ pc' = [pc EXCEPT ![l] = "finish"]
           \/ pc[l] = "reject" /\ pc' = [pc EXCEPT ![l] = "tickcheck"]
        /\ held' = [held EXCEPT ![l] = NoEnvelope]
        /\ UNCHANGED <<floor, callbackActive, sleepVars, setupVars, cancelled>>
    BY <1>9 DEF DeliverResult
  <2>3. CASE Admits(held[l])
    <3>1. Enqueue(held[l]) /\ lifecycle = "Running" /\ ~frozen
      BY <1>9, <2>3 DEF DeliverResult, Admits
    <3>2. \A m \in Lane : /\ used'[m] - Len(queue'[m]) = used[m] - Len(queue[m])
                          /\ used[m] <= QueueDepth[m] => used'[m] <= QueueDepth[m]
                          /\ Len(queue[m]) \in Nat /\ Len(queue'[m]) \in Nat
      BY <2>1, <2>3, <3>1, EnqueueCounts
    <3>3. \A m \in Lane : InFlight(m)' = InFlight(m)
      BY <2>2
    <3>4. AdmissionAccounting' /\ NeverUndercounts'
      <4>1. \A m \in Lane : InFlight(m) \in Nat /\ used[m] \in Nat /\ used'[m] \in Nat
                           /\ QueueDepth[m] \in Nat
        OBVIOUS
      <4>2. lifecycle' = "Running"
        BY <2>2, <3>1
      <4> HIDE DEF InFlight
      <4>3. ASSUME NEW m \in Lane
            PROVE  /\ used'[m] = Len(queue'[m]) + InFlight(m)'
                   /\ used'[m] <= QueueDepth[m]
        <5>1. used[m] = Len(queue[m]) + InFlight(m) /\ used[m] <= QueueDepth[m]
          BY <3>1
        <5>2. /\ used'[m] - Len(queue'[m]) = used[m] - Len(queue[m])
              /\ used'[m] <= QueueDepth[m]
              /\ Len(queue[m]) \in Nat /\ Len(queue'[m]) \in Nat
          BY <3>2, <5>1
        <5>3. InFlight(m)' = InFlight(m)
          BY <3>3
        <5>4. InFlight(m) \in Nat /\ used[m] \in Nat /\ used'[m] \in Nat
          BY <4>1
        <5> QED
          BY <5>1, <5>2, <5>3, <5>4, SMT
      <4> QED
        BY <4>1, <4>2, <4>3, <3>2
    <3> QED
      BY <2>2, <3>1, <3>4
  <2>4. CASE ~Admits(held[l])
    BY <1>9, <2>2, <2>4 DEF DeliverResult
  <2> QED
    BY <2>3, <2>4
<1>10. CASE FinishCallback(l)
  BY <1>10 DEF FinishCallback
<1>11. CASE SkipTick(l)
  BY <1>11 DEF SkipTick
<1>12. CASE TickDue(l)
  BY <1>12 DEF TickDue
<1>13. CASE ArmTick(l)
  BY <1>13 DEF ArmTick
<1>14. CASE TickReturns(l)
  BY <1>14 DEF TickReturns
<1> HIDE DEF SupervisorInv
<1> QED
  BY <1>1, <1>2, <1>3, <1>4, <1>5, <1>6, <1>7, <1>8, <1>9, <1>10, <1>11, <1>12,
     <1>13, <1>14 DEF TaskStep

\* So does a step of a producer.
LEMMA ProducerStepInv ==
  ASSUME SupervisorInv, TypeOK', ProducerStep
  PROVE  SupervisorInv'
<1> USE DEF SupervisorInv, TypeOK, TeardownPhase, HandsFull, AdmissionAccounting,
      NeverUndercounts, CallbacksFlagged, FrozenIdle, DormantIsEmpty,
      AbsentIsEmpty, Dormant,
      taskVars, admissionVars, sleepVars, setupVars, historyVars
<1>1. ASSUME NEW i \in RequestId, NEW c \in WorkClass, NEW g \in 1 .. MaxGeneration,
             Post(Command(i, c, g))
      PROVE  SupervisorInv'
  <2> DEFINE e == Command(i, c, g)
  <2>1. e \in Envelope
    BY CommandType
  <2> HIDE DEF e
  <2>2. /\ Admits(e) /\ Enqueue(e) /\ lifecycle = "Running" /\ ~frozen
        /\ UNCHANGED <<floor, taskVars, sleepVars, setupVars, cancelled>>
    BY <1>1 DEF Post, Admits, e
  <2>3. ASSUME NEW m \in Lane
        PROVE  /\ InFlight(m)' = InFlight(m)
               /\ used'[m] = Len(queue'[m]) + InFlight(m)'
               /\ used'[m] <= QueueDepth[m]
    <3>1. InFlight(m)' = InFlight(m) /\ InFlight(m) \in Nat
      BY <2>2 DEF InFlight
    <3>2. used[m] = Len(queue[m]) + InFlight(m) /\ used[m] <= QueueDepth[m]
          /\ used[m] \in Nat /\ used'[m] \in Nat
      BY <2>2
    <3>3. /\ used'[m] - Len(queue'[m]) = used[m] - Len(queue[m])
          /\ used[m] <= QueueDepth[m] => used'[m] <= QueueDepth[m]
          /\ Len(queue[m]) \in Nat /\ Len(queue'[m]) \in Nat
      BY <2>1, <2>2, EnqueueCounts
    <3> QED
      BY <3>1, <3>2, <3>3
  <2>4. \A m \in Lane : used'[m] \in Nat /\ InFlight(m)' \in Nat
    BY DEF InFlight
  <2> QED
    BY <2>2, <2>3, <2>4
<1>2. CASE LatchButtonFromIsr
  BY <1>2 DEF LatchButtonFromIsr, InFlight
<1>3. ASSUME NEW c \in WorkClass, NEW g \in CancelFloor, CancelBefore(c, g)
      PROVE  SupervisorInv'
  BY <1>3 DEF CancelBefore, InFlight
<1> HIDE DEF SupervisorInv
<1> QED
  BY <1>1, <1>2, <1>3 DEF ProducerStep

\* The barrier goes up only over an idle supervisor.
LEMMA BarrierStepInv ==
  ASSUME SupervisorInv, TypeOK', FreezeAdmissionForSleep \/ ThawAdmissionAfterSleepAbort
  PROVE  SupervisorInv'
BY DEF SupervisorInv, TypeOK, TeardownPhase, HandsFull, AdmissionAccounting,
      NeverUndercounts, CallbacksFlagged, FrozenIdle, DormantIsEmpty,
      AbsentIsEmpty, Dormant,
      InFlight, FreezeAdmissionForSleep, FreezeEligible, AllAdmissionIdle,
      AllOtherCallbacksIdle, ThawAdmissionAfterSleepAbort, taskVars, admissionVars,
      setupVars, historyVars

\* initialize(), start(), stop() and shutdown() preserve the invariant.
LEMMA LifecycleStepInv ==
  ASSUME SupervisorInv, TypeOK', LifecycleStep
  PROVE  SupervisorInv'
<1> USE DepthAssumption DEF SupervisorInv, TypeOK, TeardownPhase, HandsFull,
      AdmissionAccounting, NeverUndercounts, CallbacksFlagged, FrozenIdle,
      DormantIsEmpty, AbsentIsEmpty, Dormant, InFlight, CallbackPoint, InHand, taskVars,
      admissionVars, sleepVars, setupVars, historyVars
<1>1. CASE InitializeBegin \/ InitializeEnd
  BY <1>1 DEF InitializeBegin, InitializeEnd
<1>2. ASSUME NEW l \in Lane, RegisterHandler(l) PROVE SupervisorInv'
  BY <1>2 DEF RegisterHandler
<1>3. ASSUME NEW l \in TickLane, RegisterTickHandler(l) PROVE SupervisorInv'
  BY <1>3 DEF RegisterTickHandler
<1>4. CASE StartBegin \/ StartFails
  BY <1>4 DEF StartBegin, StartFails
<1>5. CASE StartCommits
  BY <1>5 DEF StartCommits
<1>6. CASE StopBegin \/ StopWaitEnds
  BY <1>6 DEF StopBegin, StopWaitEnds
<1>7. ASSUME NEW l \in Lane, StopDeletesTask(l) PROVE SupervisorInv'
  <2>1. /\ teardown = "delete"
        /\ held' = [held EXCEPT ![l] = NoEnvelope]
        /\ pc' = [pc EXCEPT ![l] = "absent"]
        /\ queue' = [queue EXCEPT ![l] = <<>>]
        /\ UNCHANGED <<used, floor, callbackActive, sleepVars, setupVars, cancelled>>
    BY <1>7 DEF StopDeletesTask, Discard, GoTo
  <2>2. ASSUME NEW m \in Lane
        PROVE  Len(queue'[m]) + InFlight(m)' <= used'[m] /\ used'[m] <= QueueDepth[m]
    <3>1. Len(queue[m]) \in Nat /\ used[m] \in Nat /\ used'[m] = used[m]
          /\ Len(queue[m]) + InFlight(m) <= used[m] /\ used[m] <= QueueDepth[m]
      BY <2>1
    <3>2. CASE m = l
      <4>1. queue'[m] = <<>> /\ InFlight(m)' = 0 /\ InFlight(m) \in {0, 1}
        BY <2>1, <3>2
      <4> QED
        BY <3>1, <4>1, EmptySeq
    <3>3. CASE m # l
      BY <2>1, <3>1, <3>3
    <3> QED
      BY <3>2, <3>3
  <2>3. lifecycle = "Stopping" /\ lifecycle' = "Stopping"
    BY <2>1
  <2> QED
    BY <2>1, <2>2, <2>3
<1>8. CASE StopEnds
  BY <1>8 DEF StopEnds
<1>9. CASE ShutdownBegin
  BY <1>9 DEF ShutdownBegin
<1>10. CASE ShutdownEnds
  BY <1>10 DEF ShutdownEnds
<1> HIDE DEF SupervisorInv
<1> QED
  BY <1>1, <1>2, <1>3, <1>4, <1>5, <1>6, <1>7, <1>8, <1>9, <1>10 DEF LifecycleStep

LEMMA InitInv == Init => SupervisorInv
<1> SUFFICES ASSUME Init PROVE SupervisorInv
  OBVIOUS
<1>1. TypeOK
  <2>1. 0 \in 0 .. MaxGeneration
    BY GenerationAssumption
  <2>2. queue \in [Lane -> Seq(Envelope)]
    BY EmptySeq DEF Init
  <2>3. /\ floor \in [WorkClass -> 0 .. MaxGeneration]
        /\ cancelled \in [WorkClass -> 0 .. MaxGeneration]
    BY <2>1 DEF Init
  <2> QED
    BY <2>2, <2>3 DEF Init, TypeOK, Lifecycle, TaskPoint, Fate
<1> QED
  BY <1>1, DepthAssumption DEF Init, SupervisorInv, TeardownPhase, HandsFull,
      AdmissionAccounting, NeverUndercounts, CallbacksFlagged, FrozenIdle,
      DormantIsEmpty, AbsentIsEmpty, Dormant, InFlight, CallbackPoint, InHand

LEMMA NextInv == ASSUME SupervisorInv, [Next]_vars PROVE SupervisorInv'
<1>1. TypeOK'
  BY NextType DEF SupervisorInv
<1>2. CASE UNCHANGED vars
  BY <1>1, <1>2 DEF SupervisorInv, TeardownPhase, HandsFull, AdmissionAccounting,
      NeverUndercounts, CallbacksFlagged, FrozenIdle, DormantIsEmpty,
      AbsentIsEmpty, Dormant,
      InFlight, vars, admissionVars, taskVars, sleepVars, setupVars, historyVars
<1> QED
  BY <1>1, <1>2, TaskStepInv, ProducerStepInv, LifecycleStepInv, BarrierStepInv DEF Next

-----------------------------------------------------------------------------
(* Theorems *)

\* Only the step that found its envelope fit to run enters a handler.
LEMMA OnlyBeginStarts ==
  ASSUME TypeOK, [Next]_vars, NEW l \in Lane, pc[l] # "handler", pc'[l] = "handler"
  PROVE  BeginHandler(l)
<1> USE DEF TypeOK, GoTo, taskVars, admissionVars, sleepVars, setupVars, historyVars
<1>1. ASSUME NEW m \in Lane, TaskStep(m) PROVE BeginHandler(l)
  <2>1. \E point \in TaskPoint : pc' = [pc EXCEPT ![m] = point]
    BY <1>1 DEF TaskStep, TaskPoint, LoopTop, ReceiveEnvelope, ReceiveNothing,
       StopBeforeHandler, ProceedToHandle, BeginHandler, RefuseDequeued,
       HandlerReturns, DeliverResult, FinishCallback, SkipTick, TickDue, ArmTick,
       TickReturns
  <2>2. m = l
    BY <2>1
  <2> QED
    BY <1>1, <2>2 DEF TaskStep, TaskPoint, LoopTop, ReceiveEnvelope, ReceiveNothing,
       StopBeforeHandler, ProceedToHandle, RefuseDequeued,
       HandlerReturns, DeliverResult, FinishCallback, SkipTick, TickDue, ArmTick,
       TickReturns
<1>2. ASSUME ProducerStep PROVE FALSE
  BY <1>2 DEF ProducerStep, Post, LatchButtonFromIsr, CancelBefore
<1>3. ASSUME LifecycleStep PROVE FALSE
  BY <1>3 DEF LifecycleStep, InitializeBegin, InitializeEnd, RegisterHandler,
     RegisterTickHandler, StartBegin, StartFails, StartCommits, StopBegin,
     StopWaitEnds, StopDeletesTask, StopEnds, ShutdownBegin, ShutdownEnds
<1>4. ASSUME FreezeAdmissionForSleep \/ ThawAdmissionAfterSleepAbort PROVE FALSE
  BY <1>4 DEF FreezeAdmissionForSleep, ThawAdmissionAfterSleepAbort
<1>5. ASSUME UNCHANGED vars PROVE FALSE
  BY <1>5 DEF vars
<1> QED
  BY <1>1, <1>2, <1>3, <1>4, <1>5 DEF Next

\* The invariant holds in every state of every instance of the supervisor.
THEOREM Inductive == Spec => []SupervisorInv
<1>1. SupervisorInv /\ [Next]_vars => SupervisorInv'
  BY NextInv
<1> QED
  BY InitInv, <1>1, PTL DEF Spec

\* Every variable keeps its type.
THEOREM TypeCorrectness == Spec => []TypeOK
<1>1. SupervisorInv => TypeOK
  BY DEF SupervisorInv
<1> QED
  BY Inductive, <1>1, PTL

\* While admission is frozen for sleep no other lane is in a callback and no
\* command is queued or on its way to a handler, however many lanes there are
\* and whichever ISR, producer, stop() or thaw intervenes.
THEOREM SleepBarrierHolds == Spec => []SleepBarrier
<1>1. SupervisorInv => SleepBarrier
  <2> SUFFICES ASSUME SupervisorInv, frozen, NEW l \in Lane
               PROVE  /\ queue[l] = <<>>
                      /\ pc[l] \notin {"received", "dequeued"}
                      /\ l # "Portal" => pc[l] \notin CallbackPoint
    BY DEF SleepBarrier, CallbackPoint
  <2>1. used[l] = 0 /\ (l # "Portal" => pc[l] \notin CallbackPoint)
    BY DEF SupervisorInv, FrozenIdle
  <2>2. queue[l] \in Seq(Envelope) /\ Len(queue[l]) + InFlight(l) <= 0
    BY <2>1 DEF SupervisorInv, TypeOK, NeverUndercounts
  <2>3. Len(queue[l]) \in Nat /\ InFlight(l) \in {0, 1}
    BY <2>2 DEF InFlight
  <2>4. Len(queue[l]) = 0 /\ InFlight(l) = 0
    BY <2>2, <2>3
  <2> QED
    BY <2>1, <2>2, <2>4, EmptySeq DEF InFlight
<1> QED
  BY Inductive, <1>1, PTL

\* The admission counter is exactly what is queued or received and unreleased.
THEOREM AccountingHolds == Spec => []AdmissionAccounting
<1>1. SupervisorInv => AdmissionAccounting
  BY DEF SupervisorInv
<1> QED
  BY Inductive, <1>1, PTL

\* No queue ever outgrows its counter, nor the counter its depth.
THEOREM QueuesStayBounded == Spec => []QueueBounded
<1>1. SupervisorInv => QueueBounded
  <2> SUFFICES ASSUME SupervisorInv, NEW l \in Lane
               PROVE  Len(queue[l]) <= used[l] /\ used[l] <= QueueDepth[l]
    BY DEF QueueBounded
  <2>1. Len(queue[l]) \in Nat /\ InFlight(l) \in {0, 1} /\ used[l] \in Nat
    BY DEF SupervisorInv, TypeOK, InFlight
  <2> QED
    BY <2>1 DEF SupervisorInv, NeverUndercounts
<1> QED
  BY Inductive, <1>1, PTL

\* A supervisor that can be started holds nothing of an earlier run.
THEOREM ReadyIsQuiescentHolds == Spec => []ReadyIsQuiescent
<1>1. SupervisorInv => ReadyIsQuiescent
  BY DEF SupervisorInv, DormantIsEmpty, Dormant, ReadyIsQuiescent
<1> QED
  BY Inductive, <1>1, PTL

\* A cancelled generation never starts, over any number of stops and starts.
THEOREM CancellationHolds == Spec => CancelledNeverStarts
<1> DEFINE StartsOn(l) == pc[l] # "handler" /\ pc'[l] = "handler"
<1>1. ASSUME SupervisorInv, [Next]_vars, NEW l \in Lane, StartsOn(l)
      PROVE  held'[l].generation >= cancelled[held'[l].class]
  <2>1. BeginHandler(l)
    BY <1>1, OnlyBeginStarts DEF SupervisorInv
  <2>2. held[l] \in Envelope /\ ~Stale(held[l]) /\ held' = held
    BY <1>1, <2>1 DEF BeginHandler, Verdicts, SupervisorInv, HandsFull, InHand
  <2>3. held[l].generation \in Int /\ floor[held[l].class] \in Int
    BY <1>1, <2>2 DEF SupervisorInv, TypeOK, Envelope
  <2> QED
    BY <1>1, <2>2, <2>3 DEF Stale, SupervisorInv
<1>2. SupervisorInv /\ [Next]_vars =>
        [\A l \in Lane : pc[l] # "handler" /\ pc'[l] = "handler" =>
           held'[l].generation >= cancelled[held'[l].class]]_vars
  BY <1>1
<1> QED
  BY Inductive, <1>2, PTL DEF Spec, CancelledNeverStarts

-----------------------------------------------------------------------------
(* Conservation of commands *)

\* Command i sits at place n of lane l's queue.
Sits(l, n, i) == n \in 1 .. Len(queue[l]) /\ queue[l][n].id = i /\ queue[l][n].kind = "Command"

LEMMA QueuedSits ==
  ASSUME NEW l \in Lane, NEW i \in RequestId
  PROVE  Queued(l, i) <=> \E n \in Nat : Sits(l, n, i)
BY DEF Queued, Sits

\* No command is in two places of one queue, in two queues, in two tasks'
\* hands, or in a queue and in a hand.
OnePlace ==
  /\ \A i \in RequestId, l, m \in Lane, n, k \in Nat :
       Sits(l, n, i) /\ Sits(m, k, i) => l = m /\ n = k
  /\ \A i \in RequestId, l, m \in Lane : Carried(l, i) /\ Carried(m, i) => l = m
  /\ \A i \in RequestId, l, m \in Lane, n \in Nat : ~(Carried(l, i) /\ Sits(m, n, i))

\* A command is open exactly while it is somewhere.
OpenIsSomewhere ==
  \A i \in RequestId :
    fate[i] = "open" <=> \E l \in Lane : Carried(l, i) \/ \E n \in Nat : Sits(l, n, i)

ResultsInHand == \A l \in Lane : pc[l] \in {"result", "reject"} => held[l].kind = "Result"

Conserved == OnePlace /\ OpenIsSomewhere /\ ResultsInHand

LEMMA ConservedEnough == Conserved => CommandConservation
BY QueuedSits DEF Conserved, OnePlace, OpenIsSomewhere, CommandConservation

\* Nothing moves.
LEMMA NothingMoves ==
  ASSUME Conserved, ResultsInHand',
         \A l \in Lane, i \in RequestId : Carried(l, i)' <=> Carried(l, i),
         \A l \in Lane, n \in Nat, i \in RequestId : Sits(l, n, i)' <=> Sits(l, n, i),
         \A i \in RequestId : fate'[i] = "open" <=> fate[i] = "open"
  PROVE  Conserved'
<1>1. OnePlace'
  BY DEF Conserved, OnePlace
<1>2. OpenIsSomewhere'
  BY DEF Conserved, OpenIsSomewhere
<1> QED
  BY <1>1, <1>2 DEF Conserved

\* What lane l's task carried is settled, or it carried nothing.
LEMMA HandEmptied ==
  ASSUME Conserved, ResultsInHand', NEW l \in Lane,
         \A m \in Lane, i \in RequestId : Carried(m, i)' <=> Carried(m, i) /\ m # l,
         \A m \in Lane, n \in Nat, i \in RequestId : Sits(m, n, i)' <=> Sits(m, n, i),
         \A i \in RequestId :
           fate'[i] = "open" <=> fate[i] = "open" /\ ~Carried(l, i)
  PROVE  Conserved'
<1>1. OnePlace'
  BY DEF Conserved, OnePlace
<1>2. OpenIsSomewhere'
  <2> SUFFICES ASSUME NEW i \in RequestId
               PROVE  fate'[i] = "open" <=>
                        \E m \in Lane : Carried(m, i)' \/ \E n \in Nat : Sits(m, n, i)'
    BY DEF OpenIsSomewhere
  <2>1. CASE Carried(l, i)
    BY <2>1 DEF Conserved, OnePlace
  <2>2. CASE ~Carried(l, i)
    <3>1. \A m \in Lane : Carried(m, i)' <=> Carried(m, i)
      BY <2>2
    <3> QED
      BY <2>2, <3>1 DEF Conserved, OpenIsSomewhere
  <2> QED
    BY <2>1, <2>2
<1> QED
  BY <1>1, <1>2 DEF Conserved

\* Command j, which was nowhere, is put at place p of lane t's queue.
LEMMA Arrives ==
  ASSUME Conserved, ResultsInHand', NEW t \in Lane, NEW j \in RequestId, NEW p \in Nat,
         fate[j] # "open",
         \A m \in Lane, i \in RequestId : Carried(m, i)' <=> Carried(m, i),
         \A m \in Lane, n \in Nat, i \in RequestId :
           Sits(m, n, i)' <=> Sits(m, n, i) \/ (m = t /\ n = p /\ i = j),
         \A i \in RequestId : fate'[i] = "open" <=> fate[i] = "open" \/ i = j
  PROVE  Conserved'
<1>1. \A m \in Lane : ~Carried(m, j) /\ \A n \in Nat : ~Sits(m, n, j)
  BY DEF Conserved, OpenIsSomewhere
<1>2. OnePlace'
  BY <1>1 DEF Conserved, OnePlace
<1>3. OpenIsSomewhere'
  BY <1>1 DEF Conserved, OpenIsSomewhere
<1> QED
  BY <1>2, <1>3 DEF Conserved

\* The head of lane l's queue goes into the empty hand of its task.
LEMMA Received ==
  ASSUME Conserved, ResultsInHand', NEW l \in Lane,
         \A i \in RequestId : ~Carried(l, i),
         \A m \in Lane, i \in RequestId :
           Carried(m, i)' <=> Carried(m, i) \/ (m = l /\ Sits(l, 1, i)),
         \A m \in Lane, n \in Nat, i \in RequestId :
           Sits(m, n, i)' <=> IF m = l THEN n # 0 /\ Sits(m, n + 1, i) ELSE Sits(m, n, i),
         \A i \in RequestId : ~Sits(l, 0, i),
         UNCHANGED fate
  PROVE  Conserved'
<1>1. OnePlace'
  <2>1. ASSUME NEW i \in RequestId, NEW a \in Lane, NEW m \in Lane, NEW n \in Nat,
               NEW k \in Nat, Sits(a, n, i)', Sits(m, k, i)'
        PROVE  a = m /\ n = k
    <3>1. a = m
      BY <2>1 DEF Conserved, OnePlace
    <3>2. CASE a = l
      <4>1. Sits(l, n + 1, i) /\ Sits(l, k + 1, i)
        BY <2>1, <3>1, <3>2
      <4> QED
        BY <3>1, <4>1 DEF Conserved, OnePlace
    <3>3. CASE a # l
      BY <2>1, <3>1, <3>3 DEF Conserved, OnePlace
    <3> QED
      BY <3>2, <3>3
  <2>2. ASSUME NEW i \in RequestId, NEW a \in Lane, NEW m \in Lane, NEW n \in Nat,
               Carried(a, i)', Sits(m, n, i)'
        PROVE  FALSE
    <3>1. CASE Carried(a, i)
      BY <2>2, <3>1 DEF Conserved, OnePlace
    <3>2. CASE a = l /\ Sits(l, 1, i)
      <4>1. CASE m = l
        <5>1. Sits(l, n + 1, i) /\ n # 0
          BY <2>2, <4>1
        <5>2. n + 1 = 1
          BY <3>2, <5>1 DEF Conserved, OnePlace
        <5> QED
          BY <5>1, <5>2
      <4>2. CASE m # l
        BY <2>2, <3>2, <4>2 DEF Conserved, OnePlace
      <4> QED
        BY <4>1, <4>2
    <3> QED
      BY <2>2, <3>1, <3>2
  <2>3. ASSUME NEW i \in RequestId, NEW a \in Lane, NEW m \in Lane,
               Carried(a, i)', Carried(m, i)'
        PROVE  a = m
    BY <2>3 DEF Conserved, OnePlace
  <2> QED
    BY <2>1, <2>2, <2>3 DEF OnePlace
<1>2. OpenIsSomewhere'
  <2> SUFFICES ASSUME NEW i \in RequestId
               PROVE  (\E m \in Lane : Carried(m, i)' \/ \E n \in Nat : Sits(m, n, i)') <=>
                      (\E m \in Lane : Carried(m, i) \/ \E n \in Nat : Sits(m, n, i))
    BY DEF Conserved, OpenIsSomewhere
  <2>1. ASSUME NEW m \in Lane, Carried(m, i)' \/ \E n \in Nat : Sits(m, n, i)'
        PROVE  Carried(m, i) \/ \E n \in Nat : Sits(m, n, i)
    BY <2>1
  <2>2. ASSUME NEW m \in Lane, NEW n \in Nat, Sits(m, n, i)
        PROVE  Carried(m, i)' \/ \E k \in Nat : Sits(m, k, i)'
    <3>1. CASE m = l /\ n # 1
      <4>1. n # 0 /\ n - 1 \in Nat /\ n - 1 # 0 /\ (n - 1) + 1 = n
        BY <2>2, <3>1
      <4>2. Sits(m, n - 1, i)'
        BY <2>2, <3>1, <4>1
      <4> QED
        BY <4>1, <4>2
    <3>2. CASE m # l \/ n = 1
      BY <2>2, <3>2
    <3> QED
      BY <3>1, <3>2
  <2>3. ASSUME NEW m \in Lane, Carried(m, i) PROVE Carried(m, i)'
    BY <2>3
  <2> QED
    BY <2>1, <2>2, <2>3
<1> QED
  BY <1>1, <1>2 DEF Conserved

\* Lane l's task and queue are discarded, and what was there is accounted for.
LEMMA LaneEmptied ==
  ASSUME Conserved, ResultsInHand', NEW l \in Lane,
         \A m \in Lane, i \in RequestId : Carried(m, i)' <=> Carried(m, i) /\ m # l,
         \A m \in Lane, n \in Nat, i \in RequestId : Sits(m, n, i)' <=> Sits(m, n, i) /\ m # l,
         \A i \in RequestId :
           fate'[i] = "open" <=> fate[i] = "open" /\ ~Carried(l, i) /\ ~Queued(l, i)
  PROVE  Conserved'
<1>1. OnePlace'
  BY DEF Conserved, OnePlace
<1>2. OpenIsSomewhere'
  <2> SUFFICES ASSUME NEW i \in RequestId
               PROVE  fate'[i] = "open" <=>
                        \E m \in Lane : Carried(m, i)' \/ \E n \in Nat : Sits(m, n, i)'
    BY DEF OpenIsSomewhere
  <2>1. CASE Carried(l, i) \/ \E n \in Nat : Sits(l, n, i)
    <3>1. fate'[i] # "open"
      BY <2>1, QueuedSits
    <3>2. \A m \in Lane : ~Carried(m, i)' /\ \A n \in Nat : ~Sits(m, n, i)'
      BY <2>1 DEF Conserved, OnePlace
    <3> QED
      BY <3>1, <3>2
  <2>2. CASE ~(Carried(l, i) \/ \E n \in Nat : Sits(l, n, i))
    <3>1. \A m \in Lane : /\ Carried(m, i)' <=> Carried(m, i)
                          /\ \A n \in Nat : Sits(m, n, i)' <=> Sits(m, n, i)
      BY <2>2
    <3>2. fate'[i] = "open" <=> fate[i] = "open"
      BY <2>2, QueuedSits
    <3> QED
      BY <3>1, <3>2 DEF Conserved, OpenIsSomewhere
  <2> QED
    BY <2>1, <2>2
<1> QED
  BY <1>1, <1>2 DEF Conserved

LEMMA SameQueues ==
  ASSUME UNCHANGED queue
  PROVE  \A m \in Lane, n \in Nat, i \in RequestId : Sits(m, n, i)' <=> Sits(m, n, i)
BY DEF Sits

LEMMA Undisturbed ==
  ASSUME Conserved, UNCHANGED <<queue, pc, held, fate>>
  PROVE  Conserved'
<1>1. \A m \in Lane, i \in RequestId : Carried(m, i)' <=> Carried(m, i)
  BY DEF Carried
<1>2. ResultsInHand'
  BY DEF Conserved, ResultsInHand
<1> QED
  BY <1>1, <1>2, SameQueues, NothingMoves

\* A queue grows at its end.
LEMMA EnqueueSits ==
  ASSUME TypeOK, NEW e \in Envelope, Enqueue(e), NEW m \in Lane, NEW n \in Nat,
         NEW i \in RequestId
  PROVE  Sits(m, n, i)' <=>
           \/ Sits(m, n, i)
           \/ /\ m = LaneFor(e) /\ n = Len(queue[LaneFor(e)]) + 1
              /\ i = e.id /\ e.kind = "Command"
<1> DEFINE t == LaneFor(e)
<1>1. t \in Lane /\ queue[t] \in Seq(Envelope)
  BY LaneForInLane DEF TypeOK
<1>2. queue' = [queue EXCEPT ![t] = Append(queue[t], e)]
  BY DEF Enqueue
<1> HIDE DEF t
<1>3. CASE m # t
  BY <1>1, <1>2, <1>3 DEF Sits, TypeOK, t
<1>4. CASE m = t
  <2> DEFINE s == queue[t]
  <2>1. queue'[m] = Append(s, e)
    BY <1>1, <1>2, <1>4 DEF TypeOK
  <2>2. s \in Seq(Envelope)
    BY <1>1
  <2> HIDE DEF s
  <2>3. /\ Len(s) \in Nat /\ Len(Append(s, e)) = Len(s) + 1
        /\ Append(s, e)[Len(s) + 1] = e
        /\ \A k \in 1 .. Len(s) : Append(s, e)[k] = s[k]
    BY <2>2
  <2>4. CASE n \in 1 .. Len(s)
    BY <1>4, <2>1, <2>3, <2>4 DEF Sits, s, t
  <2>5. CASE n = Len(s) + 1
    <3>1. queue'[m][n] = e /\ n \in 1 .. Len(queue'[m]) /\ ~Sits(m, n, i)
      BY <1>4, <2>1, <2>3, <2>5 DEF Sits, s
    <3> QED
      BY <1>4, <2>5, <3>1 DEF Sits, s, t
  <2>6. CASE n \notin 1 .. Len(s) /\ n # Len(s) + 1
    <3>1. n \notin 1 .. Len(queue'[m])
      BY <2>1, <2>3, <2>6
    <3> QED
      BY <1>4, <2>6, <3>1 DEF Sits, s, t
  <2> QED
    BY <2>4, <2>5, <2>6
<1> QED
  BY <1>3, <1>4

\* A lane's task that keeps what it has in hand, or nothing.
LEMMA HandKept ==
  ASSUME TypeOK, Conserved, NEW l \in Lane, NEW p \in TaskPoint, GoTo(l, p),
         UNCHANGED <<held, queue, fate>>,
         \/ pc[l] \notin InHand /\ p \notin InHand
         \/ pc[l] \in {"received", "dequeued"} /\ p \in {"dequeued", "handler"}
  PROVE  Conserved'
<1>1. \A m \in Lane, i \in RequestId : Carried(m, i)' <=> Carried(m, i)
  BY DEF TypeOK, GoTo, Carried, InHand
<1>2. ResultsInHand'
  BY DEF TypeOK, GoTo, Conserved, ResultsInHand, InHand
<1> QED
  BY <1>1, <1>2, SameQueues, NothingMoves

\* A lane's task that settles what it has in hand and lets it go.
LEMMA HandSettled ==
  ASSUME TypeOK, Conserved, NEW l \in Lane, held[l] \in Envelope,
         pc[l] \in {"received", "dequeued", "handler"},
         NEW outcome \in Fate \ {"open"}, Settle(held[l], outcome), Discard(l),
         NEW p \in {"quiescent", "tickcheck", "finish"}, GoTo(l, p), UNCHANGED queue
  PROVE  Conserved'
<1>1. \A m \in Lane, i \in RequestId : Carried(m, i)' <=> Carried(m, i) /\ m # l
  BY DEF TypeOK, GoTo, Discard, Carried, InHand
<1>2. \A i \in RequestId : fate'[i] = "open" <=> fate[i] = "open" /\ ~Carried(l, i)
  BY DEF TypeOK, Settle, Carried, InHand, Envelope
<1>3. ResultsInHand'
  BY DEF TypeOK, GoTo, Discard, Conserved, ResultsInHand
<1> QED
  BY <1>1, <1>2, <1>3, SameQueues, HandEmptied

\* A lane's task that turns the command in its hand into its result.
LEMMA HandAnswered ==
  ASSUME TypeOK, Conserved, NEW l \in Lane, held[l] \in Envelope,
         NeedsResult(l, held[l]), pc[l] \in {"dequeued", "handler"},
         NEW d \in Disposition, held' = [held EXCEPT ![l] = MakeResult(@, d)],
         NEW p \in {"result", "reject"}, GoTo(l, p), UNCHANGED <<queue, fate>>
  PROVE  Conserved'
<1>1. held'[l].id = held[l].id /\ held'[l].kind = "Result"
  BY DEF TypeOK, MakeResult, Envelope
<1>2. \A m \in Lane, i \in RequestId : Carried(m, i)' <=> Carried(m, i)
  BY <1>1 DEF TypeOK, GoTo, Carried, InHand, NeedsResult
<1>3. ResultsInHand'
  BY <1>1 DEF TypeOK, GoTo, Conserved, ResultsInHand
<1> QED
  BY <1>2, <1>3, SameQueues, NothingMoves

LEMMA TaskConserves ==
  ASSUME SupervisorInv, Conserved, NEW l \in Lane, TaskStep(l)
  PROVE  Conserved'
<1> USE DEF taskVars, admissionVars, sleepVars, setupVars, historyVars
<1>1. TypeOK /\ (pc[l] \in InHand => held[l] \in Envelope)
  BY DEF SupervisorInv, HandsFull
<1>2. CASE LoopTop(l) \/ ReceiveNothing(l) \/ ProceedToHandle(l) \/ BeginHandler(l)
           \/ FinishCallback(l) \/ SkipTick(l) \/ TickDue(l) \/ ArmTick(l) \/ TickReturns(l)
  BY <1>1, <1>2, HandKept DEF LoopTop, ReceiveNothing, ProceedToHandle, BeginHandler,
     FinishCallback, SkipTick, TickDue, ArmTick, TickReturns, TaskPoint, InHand
<1>3. CASE StopBeforeHandler(l)
  BY <1>1, <1>3, HandSettled DEF StopBeforeHandler, InHand, Fate
<1>4. CASE RefuseDequeued(l)
  <2>1. pc[l] = "dequeued" /\ held[l] \in Envelope /\ UNCHANGED queue
    BY <1>1, <1>4 DEF RefuseDequeued, InHand
  <2>2. CASE NeedsResult(l, held[l])
    <3>1. PICK verdict : /\ held' = [held EXCEPT ![l] =
                              MakeResult(@, RejectionDisposition(verdict, @.class))]
                         /\ GoTo(l, "reject") /\ UNCHANGED fate
      BY <1>4, <2>2 DEF RefuseDequeued
    <3>2. RejectionDisposition(verdict, held[l].class) \in Disposition
      BY <2>1, RejectionType DEF Envelope
    <3>3. held' = [held EXCEPT ![l] = MakeResult(@, RejectionDisposition(verdict, held[l].class))]
      BY <3>1
    <3> QED
      BY <1>1, <2>1, <2>2, <3>1, <3>2, <3>3, HandAnswered
  <2>3. CASE ~NeedsResult(l, held[l])
    <3>1. Settle(held[l], "dropped") /\ Discard(l) /\ GoTo(l, "tickcheck")
      BY <1>4, <2>3 DEF RefuseDequeued
    <3> QED
      BY <1>1, <2>1, <3>1, HandSettled DEF Fate
  <2> QED
    BY <2>2, <2>3
<1>5. CASE HandlerReturns(l)
  <2>1. pc[l] = "handler" /\ held[l] \in Envelope /\ UNCHANGED queue
    BY <1>1, <1>5 DEF HandlerReturns, InHand
  <2>2. CASE NeedsResult(l, held[l])
    <3>1. PICK d \in HandlerReturn :
            /\ held' = [held EXCEPT ![l] = MakeResult(@, IF d = "Accepted" THEN "Failed" ELSE d)]
            /\ GoTo(l, "result") /\ UNCHANGED fate
      BY <1>5, <2>2 DEF HandlerReturns
    <3>2. (IF d = "Accepted" THEN "Failed" ELSE d) \in Disposition
      BY HandlerAssumption DEF Disposition
    <3> QED
      BY <1>1, <2>1, <2>2, <3>1, <3>2, HandAnswered
  <2>3. CASE ~NeedsResult(l, held[l])
    <3>1. Settle(held[l], "closed") /\ Discard(l) /\ GoTo(l, "finish")
      BY <1>5, <2>3 DEF HandlerReturns
    <3> QED
      BY <1>1, <2>1, <3>1, HandSettled DEF Fate
  <2> QED
    BY <2>2, <2>3
<1>6. CASE DeliverResult(l)
  <2>1. pc[l] \in {"result", "reject"} /\ held[l] \in Envelope /\ held[l].kind = "Result"
    BY <1>1, <1>6 DEF DeliverResult, InHand, Conserved, ResultsInHand
  <2>2. \A m \in Lane, n \in Nat, i \in RequestId : Sits(m, n, i)' <=> Sits(m, n, i)
    <3>1. CASE Enqueue(held[l])
      BY <1>1, <2>1, <3>1, EnqueueSits
    <3>2. CASE UNCHANGED queue
      BY <3>2, SameQueues
    <3> QED
      BY <1>6, <3>1, <3>2 DEF DeliverResult
  <2>3. \A m \in Lane, i \in RequestId : Carried(m, i)' <=> Carried(m, i) /\ m # l
    BY <1>1, <1>6 DEF DeliverResult, TypeOK, GoTo, Discard, Carried, InHand
  <2>4. \A i \in RequestId : fate'[i] = "open" <=> fate[i] = "open" /\ ~Carried(l, i)
    BY <1>1, <1>6, <2>1 DEF DeliverResult, TypeOK, Carried, InHand, Envelope
  <2>5. ResultsInHand'
    BY <1>1, <1>6 DEF DeliverResult, TypeOK, GoTo, Discard, Conserved, ResultsInHand
  <2> QED
    BY <2>2, <2>3, <2>4, <2>5, HandEmptied
<1>7. CASE ReceiveEnvelope(l)
  <2> DEFINE s == queue[l]
  <2>1. /\ s \in Seq(Envelope) /\ s # <<>>
        /\ pc[l] = "receive" /\ pc' = [pc EXCEPT ![l] = "received"]
        /\ held' = [held EXCEPT ![l] = Head(s)] /\ queue' = [queue EXCEPT ![l] = Tail(s)]
        /\ UNCHANGED fate
    BY <1>1, <1>7 DEF ReceiveEnvelope, GoTo, TypeOK
  <2>2. /\ Len(s) \in Nat \ {0} /\ Head(s) = s[1] /\ Len(Tail(s)) = Len(s) - 1
        /\ \A k \in 1 .. Len(s) - 1 : Tail(s)[k] = s[k + 1]
    BY <2>1, HeadTailProperties
  <2>3. \A i \in RequestId : ~Carried(l, i) /\ ~Sits(l, 0, i)
    BY <2>1 DEF Carried, InHand, Sits
  <2>4. queue'[l] = Tail(s) /\ \A m \in Lane \ {l} : queue'[m] = queue[m]
    BY <1>1, <2>1 DEF TypeOK
  <2> HIDE DEF s
  <2>5. ASSUME NEW i \in RequestId, NEW n \in Nat
        PROVE  Sits(l, n, i)' <=> n # 0 /\ Sits(l, n + 1, i)
    <3>1. n \in 1 .. Len(s) - 1 <=> n # 0 /\ n + 1 \in 1 .. Len(s)
      BY <2>2
    <3>2. n \in 1 .. Len(s) - 1 => queue'[l][n] = s[n + 1]
      BY <2>2, <2>4
    <3>3. Len(queue'[l]) = Len(s) - 1
      BY <2>2, <2>4
    <3> QED
      BY <3>1, <3>2, <3>3 DEF Sits, s
  <2>6. \A m \in Lane, n \in Nat, i \in RequestId :
          Sits(m, n, i)' <=> IF m = l THEN n # 0 /\ Sits(m, n + 1, i) ELSE Sits(m, n, i)
    <3>1. \A m \in Lane \ {l}, n \in Nat, i \in RequestId : Sits(m, n, i)' <=> Sits(m, n, i)
      BY <2>4 DEF Sits
    <3> QED
      BY <2>5, <3>1
  <2>7. \A m \in Lane, i \in RequestId :
          Carried(m, i)' <=> Carried(m, i) \/ (m = l /\ Sits(l, 1, i))
    <3>1. \A i \in RequestId : Sits(l, 1, i) <=> Head(s).id = i /\ Head(s).kind = "Command"
      BY <2>2 DEF Sits, s
    <3>2. ASSUME NEW m \in Lane \ {l} PROVE pc'[m] = pc[m] /\ held'[m] = held[m]
      BY <1>1, <2>1 DEF TypeOK
    <3>3. pc'[l] = "received" /\ held'[l] = Head(s)
      BY <1>1, <2>1 DEF TypeOK
    <3>4. \A i \in RequestId : Carried(l, i)' <=> Sits(l, 1, i)
      BY <3>1, <3>3 DEF Carried, InHand
    <3>5. \A m \in Lane \ {l}, i \in RequestId : Carried(m, i)' <=> Carried(m, i)
      BY <3>2 DEF Carried
    <3> QED
      BY <2>3, <3>4, <3>5
  <2>8. ResultsInHand'
    BY <1>1, <2>1 DEF TypeOK, Conserved, ResultsInHand
  <2> QED
    BY <2>1, <2>3, <2>6, <2>7, <2>8, Received
<1> QED
  BY <1>2, <1>3, <1>4, <1>5, <1>6, <1>7 DEF TaskStep

\* A command that is posted was nowhere before.
LEMMA ProducerConserves ==
  ASSUME SupervisorInv, Conserved, ProducerStep
  PROVE  Conserved'
<1>1. TypeOK
  BY DEF SupervisorInv
<1>2. CASE UNCHANGED <<queue, pc, held, fate>>
  BY <1>2, Undisturbed
<1>3. ASSUME NEW j \in RequestId, NEW c \in WorkClass, NEW g \in 1 .. MaxGeneration,
             Post(Command(j, c, g))
      PROVE  Conserved'
  <2> DEFINE e == Command(j, c, g)
  <2>1. /\ e \in Envelope /\ e.id = j /\ e.kind = "Command" /\ fate[j] = "unused"
        /\ Enqueue(e) /\ fate' = [fate EXCEPT ![j] = "open"] /\ UNCHANGED <<pc, held>>
    BY <1>3 DEF Post, Command, Envelope, Disposition, taskVars
  <2> HIDE DEF e
  <2>2. LaneFor(e) \in Lane /\ Len(queue[LaneFor(e)]) + 1 \in Nat
    BY <1>1, <2>1, LaneForInLane DEF TypeOK
  <2>3. \A m \in Lane, n \in Nat, i \in RequestId :
          Sits(m, n, i)' <=>
            Sits(m, n, i) \/ (m = LaneFor(e) /\ n = Len(queue[LaneFor(e)]) + 1 /\ i = j)
    BY <1>1, <2>1, EnqueueSits
  <2>4. \A m \in Lane, i \in RequestId : Carried(m, i)' <=> Carried(m, i)
    BY <2>1 DEF Carried
  <2>5. \A i \in RequestId : fate'[i] = "open" <=> fate[i] = "open" \/ i = j
    BY <1>1, <2>1 DEF TypeOK
  <2>6. ResultsInHand'
    BY <2>1 DEF Conserved, ResultsInHand
  <2> QED
    BY <2>1, <2>2, <2>3, <2>4, <2>5, <2>6, Arrives
<1>4. CASE LatchButtonFromIsr
  BY <1>2, <1>4 DEF LatchButtonFromIsr, admissionVars, taskVars, historyVars
<1>5. ASSUME NEW c \in WorkClass, NEW g \in CancelFloor, CancelBefore(c, g)
      PROVE  Conserved'
  BY <1>2, <1>5 DEF CancelBefore, taskVars
<1> QED
  BY <1>3, <1>4, <1>5 DEF ProducerStep

\* A teardown drops what it finds; nothing else moves a command.
LEMMA LifecycleConserves ==
  ASSUME SupervisorInv, Conserved, LifecycleStep
  PROVE  Conserved'
<1> USE DEF taskVars, admissionVars, sleepVars, setupVars, historyVars
<1>1. TypeOK
  BY DEF SupervisorInv
<1>2. CASE UNCHANGED <<queue, pc, held, fate>>
  BY <1>2, Undisturbed
<1>3. CASE StartCommits
  <2>1. \A l \in Lane : pc[l] = "absent" /\ pc'[l] = "loop"
    BY <1>1, <1>3 DEF StartCommits, SupervisorInv, DormantIsEmpty, Dormant
  <2>2. \A l \in Lane, i \in RequestId : Carried(l, i)' <=> Carried(l, i)
    BY <2>1 DEF Carried, InHand
  <2>3. ResultsInHand'
    BY <2>1 DEF ResultsInHand
  <2>4. UNCHANGED <<queue, fate>>
    BY <1>3 DEF StartCommits
  <2> QED
    BY <2>2, <2>3, <2>4, SameQueues, NothingMoves
<1>4. ASSUME NEW l \in Lane, StopDeletesTask(l)
      PROVE  Conserved'
  <2>1. /\ GoTo(l, "absent") /\ Discard(l) /\ queue' = [queue EXCEPT ![l] = <<>>]
        /\ fate' = [i \in RequestId |->
                       IF Queued(l, i) \/ Carried(l, i) THEN "dropped" ELSE fate[i]]
    BY <1>4 DEF StopDeletesTask
  <2>2. \A m \in Lane, i \in RequestId : Carried(m, i)' <=> Carried(m, i) /\ m # l
    BY <1>1, <2>1 DEF TypeOK, GoTo, Discard, Carried, InHand
  <2>3. queue'[l] = <<>> /\ \A m \in Lane \ {l} : queue'[m] = queue[m]
    BY <1>1, <2>1 DEF TypeOK
  <2>4. \A m \in Lane, n \in Nat, i \in RequestId : Sits(m, n, i)' <=> Sits(m, n, i) /\ m # l
    BY <2>3 DEF Sits
  <2>5. \A i \in RequestId :
          fate'[i] = "open" <=> fate[i] = "open" /\ ~Carried(l, i) /\ ~Queued(l, i)
    BY <2>1
  <2>6. ResultsInHand'
    BY <1>1, <2>1 DEF TypeOK, GoTo, Discard, Conserved, ResultsInHand
  <2> QED
    BY <2>2, <2>4, <2>5, <2>6, LaneEmptied
<1>5. CASE ShutdownEnds
  <2>1. UNCHANGED <<pc, held, fate>> /\ \A l \in Lane : queue[l] = <<>> /\ queue'[l] = <<>>
    BY <1>5 DEF ShutdownEnds, SupervisorInv, DormantIsEmpty
  <2>2. \A m \in Lane, n \in Nat, i \in RequestId : Sits(m, n, i)' <=> Sits(m, n, i)
    BY <2>1 DEF Sits
  <2>3. \A m \in Lane, i \in RequestId : Carried(m, i)' <=> Carried(m, i)
    BY <2>1 DEF Carried
  <2>4. ResultsInHand'
    BY <2>1 DEF Conserved, ResultsInHand
  <2> QED
    BY <2>1, <2>2, <2>3, <2>4, NothingMoves
<1>6. CASE InitializeBegin \/ InitializeEnd \/ StartBegin \/ StartFails \/ StopBegin
           \/ StopWaitEnds \/ StopEnds \/ ShutdownBegin
  BY <1>2, <1>6 DEF InitializeBegin, InitializeEnd, StartBegin, StartFails, StopBegin,
     StopWaitEnds, StopEnds, ShutdownBegin
<1>7. ASSUME NEW l \in Lane, RegisterHandler(l) \/ RegisterTickHandler(l)
      PROVE  Conserved'
  BY <1>2, <1>7 DEF RegisterHandler, RegisterTickHandler
<1> QED
  BY <1>3, <1>4, <1>5, <1>6, <1>7, TickAssumption DEF LifecycleStep

\* Every admitted command is in exactly one place - a queue or one task's hand -
\* until it is handled, answered or dropped by a teardown, for every number of
\* lanes, commands and queue depths.
THEOREM CommandConservationHolds == Spec => []CommandConservation
<1>1. Init => Conserved
  BY DEF Init, Conserved, OnePlace, OpenIsSomewhere, ResultsInHand, Sits, Carried, InHand
<1>2. SupervisorInv /\ Conserved /\ [Next]_vars => Conserved'
  <2> SUFFICES ASSUME SupervisorInv, Conserved, [Next]_vars PROVE Conserved'
    OBVIOUS
  <2> USE DEF taskVars, admissionVars, sleepVars, setupVars, historyVars
  <2>1. CASE \E l \in Lane : TaskStep(l)
    BY <2>1, TaskConserves
  <2>2. CASE ProducerStep
    BY <2>2, ProducerConserves
  <2>3. CASE LifecycleStep
    BY <2>3, LifecycleConserves
  <2>4. CASE FreezeAdmissionForSleep \/ ThawAdmissionAfterSleepAbort \/ UNCHANGED vars
    <3>1. UNCHANGED <<queue, pc, held, fate>>
      BY <2>4 DEF FreezeAdmissionForSleep, ThawAdmissionAfterSleepAbort, vars
    <3> QED
      BY <3>1, Undisturbed
  <2> QED
    BY <2>1, <2>2, <2>3, <2>4 DEF Next
<1> QED
  BY <1>1, <1>2, Inductive, ConservedEnough, PTL DEF Spec

-----------------------------------------------------------------------------
(* PART TWO: the attempt *)

-----------------------------------------------------------------------------
(* Refinement *)

\* restoreAwakeServices() touches the supervisor only to thaw it.
LEMMA RestoreIsThaw ==
  ASSUME NEW b \in BOOLEAN, NEW n \in BOOLEAN, RestoreAwakeServices(b, n)
  PROVE  ThawAdmissionAfterSleepAbort \/ UNCHANGED vars
BY DEF RestoreAwakeServices

\* A step of the attempt freezes, thaws, or leaves the supervisor alone.
LEMMA PowerStepRefines == ASSUME PowerStep PROVE [Next]_vars
<1>1. ASSUME NEW b \in BOOLEAN, NEW n \in BOOLEAN,
             RetryRestore(b, n) \/ RestoreAfterAbort(b, n)
      PROVE  [Next]_vars
  BY <1>1, RestoreIsThaw DEF RetryRestore, RestoreAfterAbort, Next
<1>2. CASE SkipAttempt \/ BeginAttempt \/ SettleTasksAndSync \/ QuiesceDisplay
           \/ QuiesceVoiceAndAudio \/ Recapture
  BY <1>2 DEF SkipAttempt, BeginAttempt, SettleTasksAndSync, QuiesceDisplay,
     QuiesceVoiceAndAudio, Recapture, Look
<1>3. ASSUME NEW ok \in BOOLEAN, QuiesceNetwork(ok) \/ QuiesceBoardHardware(ok)
      PROVE  [Next]_vars
  BY <1>3 DEF QuiesceNetwork, QuiesceBoardHardware
<1>4. CASE FreezeWorkAdmission
  BY <1>4 DEF FreezeWorkAdmission, Next
<1>5. CASE Recheck \/ RecheckEdges \/ EnterDeepSleep \/ DeepSleepRejected \/ DeclineAttempt
  BY <1>5 DEF Recheck, RecheckEdges, EnterDeepSleep, DeepSleepRejected, DeclineAttempt
<1> QED
  BY <1>1, <1>2, <1>3, <1>4, <1>5 DEF PowerStep

\* Every step of the product is a step of the supervisor, or none.
LEMMA StepRefines == ASSUME [SleepNext]_allVars PROVE [Next]_vars
<1>1. ASSUME NEW l \in Lane, LaneStep(l) PROVE [Next]_vars
  BY <1>1 DEF LaneStep, Next
<1>2. ASSUME NEW o \in Owner, FinishWork(o) \/ \E l \in Lane : StartWork(l, o)
      PROVE  [Next]_vars
  BY <1>2 DEF StartWork, FinishWork
<1>3. CASE HttpMutation \/ ButtonEdge
  BY <1>3 DEF HttpMutation, ButtonEdge
<1>4. CASE DrainEdge
  <2>1. "Button" \in WorkClass /\ 1 \in 1 .. MaxGeneration
    BY OwnerAssumption, GenerationAssumption DEF WorkClass, RouteOf
  <2> QED
    BY <1>4, <2>1 DEF DrainEdge, Next, ProducerStep
<1>5. CASE PowerStep
  BY <1>5, PowerStepRefines
<1>6. CASE Produce
  <2>1. 1 \in 1 .. MaxGeneration
    BY GenerationAssumption
  <2> QED
    BY <1>6, <2>1 DEF Produce, Next, ProducerStep
<1>7. CASE Begin
  BY <1>7 DEF Begin, Next, LifecycleStep
<1>8. CASE Started \/ Stop \/ PowerShutdown \/ SupervisorShutdown
  BY <1>8 DEF Started, Stop, PowerShutdown, SupervisorShutdown, Next, LifecycleStep
<1>9. CASE Stopping
  BY <1>9 DEF Stopping, Next, LifecycleStep
<1>10. CASE UNCHANGED allVars
  BY <1>10 DEF allVars
<1> QED
  BY <1>1, <1>2, <1>3, <1>4, <1>5, <1>6, <1>7, <1>8, <1>9, <1>10 DEF SleepNext

\* The product implements the supervisor's specification, whatever its owners,
\* its lanes and the size of its mailbox.
THEOREM SleepRefinesSupervisor == SleepSpec => SupervisorSpec
<1>1. SleepInit => Init
  BY DEF SleepInit
<1>2. [SleepNext]_allVars => [Next]_vars
  BY StepRefines
<1> QED
  BY <1>1, <1>2, PTL DEF SleepSpec, SupervisorSpec, Spec

-----------------------------------------------------------------------------
(* The attempt's own invariant *)

Up == powered = "up" /\ lifecycle \in {"Running", "Stopping"} /\ teardown # "dismantle"
BehindBarrier == powerPc \in {"hardware", "recheck", "edges", "enter"}

NewIsCold == powered = "new" =>
  Dormant /\ powerPc = "idle" /\ ~boardDown /\ ~workAdmissionFrozen /\ ~boardRestoreNeeded
DownIsOver == powered = "down" =>
  lifecycle \in {"Ready", "Uninitialized"} \/ teardown = "dismantle"
RunningIsUp ==
  /\ lifecycle = "Running" => powered = "up"
  /\ powered = "up" => Up \/ lifecycle = "Ready"
SameBarrier == Up => workAdmissionFrozen = frozen
RestoreIsOwed == powered = "up" /\ boardDown => boardRestoreNeeded /\ workAdmissionFrozen
BarrierIsHeld == Up /\ BehindBarrier => workAdmissionFrozen
PressIsKept ==
  /\ Up /\ lifecycle = "Running" /\ heard /\ powerPc \in {"hardware", "recheck", "edges"}
       => edges > 0
  /\ Up /\ lifecycle = "Running" /\ powerPc = "enter" => ~heard
  /\ asleep => powerPc = "enter"

\* What every step of the attempt and of the world around it preserves.
SleepInv ==
  /\ SupervisorInv
  /\ SleepTypeOK
  /\ NewIsCold
  /\ DownIsOver
  /\ RunningIsUp
  /\ SameBarrier
  /\ RestoreIsOwed
  /\ BarrierIsHeld
  /\ PressIsKept

\* The attempt only runs while the product is up.
LEMMA TickIsUp ==
  ASSUME SleepInv, pc["Portal"] = "tick"
  PROVE  Up
<1>1. "Portal" \in Lane
  BY LaneAssumption
<1>2. ~Dormant /\ teardown # "dismantle"
  BY <1>1 DEF SleepInv, SupervisorInv, DormantIsEmpty
<1>3. lifecycle \in {"Running", "Stopping"}
  BY <1>2 DEF SleepInv, SupervisorInv, TypeOK, Lifecycle, Dormant
<1> QED
  BY <1>2, <1>3 DEF SleepInv, SleepTypeOK, NewIsCold, DownIsOver, Up

\* A rollback lifts both barriers or neither, and none while rails are off.
LEMMA RestoreKeepsInv ==
  ASSUME SleepInv, SupervisorInv', pc["Portal"] = "tick", ~asleep,
         NEW b \in BOOLEAN, NEW n \in BOOLEAN, RestoreAwakeServices(b, n),
         powerPc' = "done", UNCHANGED <<powered, busy, edges, heard, asleep>>
  PROVE  SleepInv'
<1>1. Up
  BY TickIsUp
<1>2. /\ UNCHANGED <<lifecycle, teardown>>
      /\ frozen' \in BOOLEAN
  BY RestoreIsThaw DEF ThawAdmissionAfterSleepAbort, vars, setupVars, SleepInv,
     SupervisorInv, TypeOK, sleepVars
<1>3. SameBarrier'
  BY <1>1, <1>2 DEF RestoreAwakeServices, ThawAdmissionAfterSleepAbort, SleepInv,
     SameBarrier, Up, vars, sleepVars
<1>4. RestoreIsOwed'
  BY <1>1, <1>2 DEF RestoreAwakeServices, SleepInv, RestoreIsOwed
<1>5. SleepTypeOK'
  BY DEF RestoreAwakeServices, SleepInv, SleepTypeOK, PowerPoint
<1> QED
  BY <1>1, <1>2, <1>3, <1>4, <1>5 DEF SleepInv, NewIsCold, DownIsOver, RunningIsUp, Up,
     BarrierIsHeld, BehindBarrier, PressIsKept

\* A step that leaves the supervisor's lifecycle and barrier, the owner's flags
\* and the mailbox alone, and does not go behind the barrier.
LEMMA PlainKeepsInv ==
  ASSUME SleepInv, SupervisorInv', ~asleep,
         powerPc' \in PowerPoint,
         Up \/ powerPc' \in {powerPc, "idle"},
         powerPc' \in {"hardware", "recheck", "edges", "enter"} =>
           /\ powerPc \in {"hardware", "recheck", "edges", "enter"}
           /\ powerPc' = "enter" => powerPc = "enter" \/ edges = 0
           /\ powerPc = "enter" => powerPc' = "enter",
         busy' \subseteq Owner,
         UNCHANGED <<lifecycle, teardown, frozen>>,
         UNCHANGED <<powered, edges, ownerVars, heard, asleep>>
  PROVE  SleepInv'
<1> USE DEF SleepInv, ownerVars
<1>1. SleepTypeOK'
  BY DEF SleepTypeOK
<1>2. SameBarrier' /\ RestoreIsOwed' /\ RunningIsUp' /\ DownIsOver'
  BY DEF SameBarrier, RestoreIsOwed, RunningIsUp, DownIsOver, Up
<1>3. NewIsCold' /\ BarrierIsHeld'
  BY DEF NewIsCold, BarrierIsHeld, BehindBarrier, Up, Dormant
<1>4. PressIsKept'
  BY DEF PressIsKept, Up, SleepTypeOK
<1> QED
  BY <1>1, <1>2, <1>3, <1>4

LEMMA PowerStepKeepsInv ==
  ASSUME SleepInv, SupervisorInv', ~asleep, PowerStep
  PROVE  SleepInv'
<1>1. ASSUME NEW b \in BOOLEAN, NEW n \in BOOLEAN,
             RetryRestore(b, n) \/ RestoreAfterAbort(b, n)
      PROVE  SleepInv'
  BY <1>1, RestoreKeepsInv DEF RetryRestore, RestoreAfterAbort, At
<1>2. CASE SkipAttempt \/ BeginAttempt \/ Recheck \/ RecheckEdges \/ DeepSleepRejected
           \/ DeclineAttempt
  <2>1. Up
    BY <1>2, TickIsUp DEF SkipAttempt, BeginAttempt, Recheck, RecheckEdges,
       DeepSleepRejected, DeclineAttempt, At
  <2>2. busy' \subseteq Owner
    BY <1>2 DEF SleepInv, SleepTypeOK, SkipAttempt, BeginAttempt, Recheck, RecheckEdges,
       DeepSleepRejected, DeclineAttempt
  <2> QED
    BY <1>2, <2>1, <2>2, PlainKeepsInv DEF SkipAttempt, BeginAttempt, Recheck,
       RecheckEdges, DeepSleepRejected, DeclineAttempt, At, PowerPoint, vars,
       setupVars, sleepVars
<1>3. CASE SettleTasksAndSync \/ QuiesceDisplay \/ QuiesceVoiceAndAudio \/ Recapture
  <2>1. Up
    BY <1>3, TickIsUp DEF SettleTasksAndSync, QuiesceDisplay, QuiesceVoiceAndAudio,
       Recapture, Look, At
  <2>2. busy' \subseteq Owner
    BY <1>3 DEF SleepInv, SleepTypeOK, SettleTasksAndSync, QuiesceDisplay,
       QuiesceVoiceAndAudio, Recapture, Look
  <2> QED
    BY <1>3, <2>1, <2>2, PlainKeepsInv DEF SettleTasksAndSync, QuiesceDisplay,
       QuiesceVoiceAndAudio, Recapture, Look, At, PowerPoint, vars, setupVars,
       sleepVars
<1>4. ASSUME NEW ok \in BOOLEAN, QuiesceNetwork(ok) PROVE SleepInv'
  <2>1. Up
    BY <1>4, TickIsUp DEF QuiesceNetwork, At
  <2> QED
    BY <1>4, <2>1 DEF QuiesceNetwork, At, SleepInv, SleepTypeOK, PowerPoint, NewIsCold,
       DownIsOver, RunningIsUp, SameBarrier, RestoreIsOwed, BarrierIsHeld,
       BehindBarrier, PressIsKept, Up, vars, setupVars, sleepVars
<1>5. ASSUME NEW ok \in BOOLEAN, QuiesceBoardHardware(ok) PROVE SleepInv'
  <2>1. Up
    BY <1>5, TickIsUp DEF QuiesceBoardHardware, At
  <2> QED
    BY <1>5, <2>1 DEF QuiesceBoardHardware, At, SleepInv, SleepTypeOK, PowerPoint,
       NewIsCold, DownIsOver, RunningIsUp, SameBarrier, RestoreIsOwed, BarrierIsHeld,
       BehindBarrier, PressIsKept, Up, vars, setupVars, sleepVars
<1>6. CASE FreezeWorkAdmission
  <2>1. Up
    BY <1>6, TickIsUp DEF FreezeWorkAdmission, At
  <2>2. UNCHANGED <<lifecycle, teardown>>
    BY <1>6 DEF FreezeWorkAdmission, FreezeAdmissionForSleep, vars, setupVars
  <2> QED
    BY <1>6, <2>1, <2>2 DEF FreezeWorkAdmission, FreezeAdmissionForSleep, At, SleepInv,
       SleepTypeOK, PowerPoint, NewIsCold, DownIsOver, RunningIsUp, SameBarrier,
       RestoreIsOwed, BarrierIsHeld, BehindBarrier, PressIsKept, Up, vars, sleepVars
<1>7. CASE EnterDeepSleep
  BY <1>7 DEF EnterDeepSleep, At, SleepInv, SleepTypeOK, PowerPoint, NewIsCold,
     DownIsOver, RunningIsUp, SameBarrier, RestoreIsOwed, BarrierIsHeld, BehindBarrier,
     PressIsKept, Up, vars, ownerVars, setupVars, sleepVars
<1> QED
  BY <1>1, <1>2, <1>3, <1>4, <1>5, <1>6, <1>7 DEF PowerStep

-----------------------------------------------------------------------------
(* The world around the attempt *)

\* A lane's task never touches the lifecycle or the barrier.
LEMMA TaskStepFrame ==
  ASSUME NEW l \in Lane, TaskStep(l)
  PROVE  UNCHANGED <<lifecycle, teardown, frozen>>
BY DEF TaskStep, LoopTop, ReceiveEnvelope, ReceiveNothing, StopBeforeHandler,
   ProceedToHandle, BeginHandler, RefuseDequeued, HandlerReturns, DeliverResult,
   FinishCallback, SkipTick, TickDue, ArmTick, TickReturns, setupVars, sleepVars

LEMMA WorldKeepsInv ==
  ASSUME SleepInv, SupervisorInv', ~asleep,
         \/ \E l \in Lane : LaneStep(l)
         \/ \E l \in Lane, o \in Owner : StartWork(l, o)
         \/ \E o \in Owner : FinishWork(o)
         \/ HttpMutation \/ ButtonEdge \/ DrainEdge \/ Produce
  PROVE  SleepInv'
<1> USE DEF vars, setupVars, sleepVars, powerVars
<1>1. ASSUME NEW l \in Lane, LaneStep(l) PROVE SleepInv'
  <2>1. UNCHANGED <<lifecycle, teardown, frozen>>
    BY <1>1, TaskStepFrame DEF LaneStep
  <2>2. powerPc' \in {powerPc, "idle"} /\ powerPc' \in PowerPoint /\ busy' \subseteq Owner
    BY <1>1 DEF LaneStep, SleepInv, SleepTypeOK, PowerPoint
  <2> QED
    BY <1>1, <2>1, <2>2, PlainKeepsInv DEF LaneStep
<1>2. ASSUME \/ \E l \in Lane, o \in Owner : StartWork(l, o)
             \/ \E o \in Owner : FinishWork(o)
             \/ HttpMutation
      PROVE  SleepInv'
  <2>1. powerPc' = powerPc /\ powerPc' \in PowerPoint /\ busy' \subseteq Owner
    BY <1>2 DEF StartWork, FinishWork, HttpMutation, SleepInv, SleepTypeOK
  <2> QED
    BY <1>2, <2>1, PlainKeepsInv DEF StartWork, FinishWork, HttpMutation
<1>3. CASE ButtonEdge
  BY <1>3, EdgesAssumption DEF ButtonEdge, SleepInv, SleepTypeOK, NewIsCold, DownIsOver,
     RunningIsUp, SameBarrier, RestoreIsOwed, BarrierIsHeld, BehindBarrier,
     PressIsKept, Up, ownerVars
<1>4. CASE DrainEdge
  <2>1. UNCHANGED <<lifecycle, teardown, frozen>>
    BY <1>4 DEF DrainEdge, Post
  <2>2. "Input" \in Lane /\ "Input" # "Portal" /\ pc["Input"] \in CallbackPoint
    BY <1>4, OwnerAssumption DEF DrainEdge, CallbackPoint
  <2>3. ~frozen
    BY <2>2 DEF SleepInv, SupervisorInv, FrozenIdle
  <2>4. lifecycle = "Running" => ~(Up /\ BehindBarrier)
    BY <2>3 DEF SleepInv, SameBarrier, BarrierIsHeld
  <2>5. PressIsKept'
    BY <1>4, <2>1, <2>4 DEF DrainEdge, SleepInv, PressIsKept, Up, BehindBarrier
  <2>6. SleepTypeOK'
    BY <1>4, EdgesAssumption DEF DrainEdge, SleepInv, SleepTypeOK, ownerVars
  <2> QED
    BY <1>4, <2>1, <2>5, <2>6 DEF DrainEdge, SleepInv, NewIsCold, DownIsOver, Dormant,
       RunningIsUp, SameBarrier, RestoreIsOwed, BarrierIsHeld, BehindBarrier, Up,
       ownerVars
<1>5. CASE Produce
  <2>1. UNCHANGED <<lifecycle, teardown, frozen>>
    BY <1>5 DEF Produce, Post
  <2>2. powerPc' = powerPc /\ powerPc' \in PowerPoint /\ busy' \subseteq Owner
    BY <1>5 DEF Produce, SleepInv, SleepTypeOK
  <2> QED
    BY <1>5, <2>1, <2>2, PlainKeepsInv DEF Produce
<1> QED
  BY <1>1, <1>2, <1>3, <1>4, <1>5

\* begin(), stop() and the shutdowns.
LEMMA LifecycleKeepsInv ==
  ASSUME SleepInv, SupervisorInv', ~asleep,
         Begin \/ Started \/ Stop \/ Stopping \/ PowerShutdown \/ SupervisorShutdown
  PROVE  SleepInv'
<1> USE DEF SleepInv, SleepTypeOK, NewIsCold, DownIsOver, RunningIsUp, SameBarrier,
      RestoreIsOwed, BarrierIsHeld, BehindBarrier, PressIsKept, Up, Dormant, vars,
      setupVars, sleepVars, powerVars, ownerVars
<1>1. CASE Begin
  BY <1>1 DEF Begin, InitializeBegin, InitializeEnd, StartFails, StartBegin,
     RegisterHandler, RegisterTickHandler
<1>2. CASE Started
  BY <1>2 DEF Started, StartCommits, SupervisorInv, TeardownPhase
<1>3. CASE Stop
  <2>1. 0 \in 0 .. MaxEdges
    BY EdgesAssumption
  <2>2. /\ lifecycle' = "Stopping" /\ teardown' = "wait" /\ frozen' = frozen
        /\ lifecycle = "Running" /\ powered = "up" /\ edges' = 0
        /\ UNCHANGED <<powered, powerPc, busy, ownerVars, heard, asleep>>
    BY <1>3 DEF Stop, StopBegin
  <2>3. teardown # "dismantle"
    BY <2>2 DEF SupervisorInv, TeardownPhase
  <2>4. SleepTypeOK'
    BY <2>1, <2>2
  <2>5. NewIsCold' /\ DownIsOver' /\ RunningIsUp' /\ RestoreIsOwed'
    BY <2>2
  <2>6. SameBarrier' /\ BarrierIsHeld'
    BY <2>2, <2>3
  <2>7. PressIsKept'
    BY <2>2
  <2> QED
    BY <2>4, <2>5, <2>6, <2>7
<1>4. CASE Stopping
  <2>1. CASE StopWaitEnds
    BY <1>4, <2>1 DEF Stopping, StopWaitEnds
  <2>2. CASE StopEnds
    <3>1. teardown = "delete" /\ lifecycle = "Stopping" /\ lifecycle' = "Ready"
      BY <1>4, <2>2 DEF Stopping, StopEnds, SupervisorInv, TeardownPhase
    <3>2. UNCHANGED powerVars
      BY <1>4 DEF Stopping
    <3> QED
      BY <3>1, <3>2
  <2>3. CASE \E l \in Lane : StopDeletesTask(l)
    BY <1>4, <2>3 DEF Stopping, StopDeletesTask
  <2> QED
    BY <1>4, <2>1, <2>2, <2>3 DEF Stopping
<1>5. CASE PowerShutdown
  BY <1>5 DEF PowerShutdown, ThawAdmissionAfterSleepAbort
<1>6. CASE SupervisorShutdown
  BY <1>6 DEF SupervisorShutdown, ShutdownBegin, ShutdownEnds
<1> QED
  BY <1>1, <1>2, <1>3, <1>4, <1>5, <1>6

-----------------------------------------------------------------------------
(* Theorems *)

\* The attempt's invariant holds in every state of the product.
THEOREM SleepInductive == SleepSpec => []SleepInv
<1>1. SleepInit => SleepInv
  <2> SUFFICES ASSUME SleepInit PROVE SleepInv
    OBVIOUS
  <2>1. SupervisorInv
    BY InitInv DEF SleepInit
  <2>2. SleepTypeOK
    <3>1. 0 \in 0 .. MaxEdges
      BY EdgesAssumption
    <3> QED
      BY <3>1 DEF SleepInit, SleepTypeOK, PowerPoint
  <2> QED
    BY <2>1, <2>2 DEF SleepInit, Init, SleepInv, NewIsCold, DownIsOver, RunningIsUp,
       SameBarrier, RestoreIsOwed, BarrierIsHeld, BehindBarrier, PressIsKept, Up, Dormant
<1>2. SleepInv /\ [SleepNext]_allVars => SleepInv'
  <2> SUFFICES ASSUME SleepInv, [SleepNext]_allVars PROVE SleepInv'
    OBVIOUS
  <2>1. SupervisorInv'
    BY StepRefines, NextInv DEF SleepInv
  <2>2. CASE SleepNext
    BY <2>1, <2>2, PowerStepKeepsInv, WorldKeepsInv, LifecycleKeepsInv DEF SleepNext
  <2>3. CASE UNCHANGED allVars
    BY <2>1, <2>3 DEF allVars, powerVars, ownerVars, vars, setupVars, sleepVars, SleepInv,
       SleepTypeOK, NewIsCold, DownIsOver, RunningIsUp, SameBarrier, RestoreIsOwed,
       BarrierIsHeld, BehindBarrier, PressIsKept, Up, Dormant
  <2> QED
    BY <2>2, <2>3
<1> QED
  BY <1>1, <1>2, PTL DEF SleepSpec

\* No callback of another lane runs while the board is down, for every set of
\* lanes and owners and through any number of failed rollbacks.
THEOREM NoCallbackOnDeadBoardHolds == SleepSpec => []NoCallbackOnDeadBoard
<1>1. SleepInv => NoCallbackOnDeadBoard
  <2> SUFFICES ASSUME SleepInv, boardDown, NEW l \in Lane, l # "Portal"
               PROVE  pc[l] \notin CallbackPoint
    BY DEF NoCallbackOnDeadBoard, CallbackPoint
  <2>1. CASE Dormant \/ teardown = "dismantle"
    BY <2>1 DEF SleepInv, SupervisorInv, DormantIsEmpty, CallbackPoint
  <2>2. CASE ~Dormant /\ teardown # "dismantle"
    <3>1. lifecycle \in {"Running", "Stopping"}
      BY <2>2 DEF SleepInv, SupervisorInv, TypeOK, Lifecycle, Dormant
    <3>2. Up
      BY <2>2, <3>1 DEF SleepInv, SleepTypeOK, NewIsCold, DownIsOver, Up
    <3>3. frozen
      BY <3>2 DEF SleepInv, SameBarrier, RestoreIsOwed, Up, SupervisorInv, TypeOK,
         SleepTypeOK
    <3> QED
      BY <3>3 DEF SleepInv, SupervisorInv, FrozenIdle
  <2> QED
    BY <2>1, <2>2
<1> QED
  BY SleepInductive, <1>1, PTL

\* The owner's idea of the barrier is the supervisor's until a stop() has lifted
\* it: only then does shutdown() thaw what is not frozen.
THEOREM BarrierAgreementHolds == SleepSpec => []BarrierAgreement
<1>1. SleepInv => BarrierAgreement
  BY DEF SleepInv, SupervisorInv, TypeOK, SleepTypeOK, RunningIsUp, SameBarrier, FrozenIdle,
     BarrierAgreement
<1> QED
  BY SleepInductive, <1>1, PTL

\* No press between the freeze and the last look is slept through, whatever the
\* size of the mailbox.
THEOREM PressKeepsAwakeHolds == SleepSpec => []PressKeepsAwake
<1>1. SleepInv => PressKeepsAwake
  BY DEF SleepInv, SupervisorInv, TeardownPhase, RunningIsUp, PressIsKept,
     PressKeepsAwake, Up
<1> QED
  BY SleepInductive, <1>1, PTL

-----------------------------------------------------------------------------
(* What the device leaves behind when it sleeps *)

\* Once Wi-Fi is stopped, and once the board is down, they stay so for as long
\* as the attempt goes on; behind the last look only Portal can have got work.
QuietInv ==
  /\ Up /\ powerPc \in {"recapture", "freeze"} \cup
             {"hardware", "recheck", "edges", "enter"} => networkQuiesced
  /\ Up /\ powerPc \in {"recheck", "edges", "enter"} => boardDown
  /\ Up /\ powerPc \in {"edges", "enter"} => busy \subseteq {"Portal"}
  /\ asleep => Up /\ powerPc = "enter" /\ pc["Portal"] = "tick"

\* A step that only lets the attempt be, or ends it, and leaves the owners so.
LEMMA PlainKeepsQuiet ==
  ASSUME SleepInv, QuietInv, ~asleep, ~asleep', Up' => Up,
         powerPc' \in {powerPc, "idle", "abort", "done"},
         Up /\ powerPc' = powerPc => UNCHANGED <<networkQuiesced, boardDown>>,
         Up /\ powerPc \in {"edges", "enter"} /\ powerPc' = powerPc =>
           busy' \subseteq busy \cup {"Portal"}
  PROVE  QuietInv'
BY DEF QuietInv

LEMMA PowerStepKeepsQuiet ==
  ASSUME SleepInv, QuietInv, ~asleep, PowerStep PROVE QuietInv'
<1> USE DEF vars, setupVars, sleepVars, ownerVars, At
<1>1. Up
  <2>1. pc["Portal"] = "tick"
    BY DEF PowerStep, RetryRestore, RestoreAfterAbort, SkipAttempt, BeginAttempt,
       SettleTasksAndSync, QuiesceDisplay, QuiesceVoiceAndAudio, Recapture, Look,
       QuiesceNetwork, QuiesceBoardHardware, FreezeWorkAdmission, Recheck, RecheckEdges,
       EnterDeepSleep, DeepSleepRejected, DeclineAttempt
  <2> QED
    BY <2>1, TickIsUp
<1>2. ASSUME NEW b \in BOOLEAN, NEW n \in BOOLEAN,
             RetryRestore(b, n) \/ RestoreAfterAbort(b, n)
      PROVE  QuietInv'
  <2>1. powerPc' = "done" /\ powerPc \in {"idle", "abort"} /\ UNCHANGED asleep
    BY <1>2 DEF RetryRestore, RestoreAfterAbort
  <2> QED
    BY <1>1, <2>1, PlainKeepsQuiet
<1>3. CASE SkipAttempt \/ BeginAttempt \/ DeepSleepRejected \/ DeclineAttempt
           \/ SettleTasksAndSync \/ QuiesceDisplay \/ QuiesceVoiceAndAudio
  <2>1. powerPc' \in {"settle", "display", "voice", "network", "abort", "done"}
          /\ UNCHANGED asleep
    BY <1>3 DEF SkipAttempt, BeginAttempt, DeepSleepRejected, DeclineAttempt,
       SettleTasksAndSync, QuiesceDisplay, QuiesceVoiceAndAudio, Look
  <2> QED
    BY <2>1 DEF QuietInv
<1>4. CASE Recapture \/ Recheck \/ RecheckEdges
  BY <1>1, <1>4 DEF Recapture, Look, Recheck, RecheckEdges, QuietInv, Up
<1>5. ASSUME NEW ok \in BOOLEAN, QuiesceNetwork(ok) PROVE QuietInv'
  <2>1. powerPc' = "abort" \/ (powerPc' = "recapture" /\ networkQuiesced')
    BY <1>5 DEF QuiesceNetwork
  <2> QED
    BY <1>5, <2>1 DEF QuiesceNetwork, QuietInv
<1>8. ASSUME NEW ok \in BOOLEAN, QuiesceBoardHardware(ok) PROVE QuietInv'
  <2>1. powerPc' = "abort" \/ (powerPc' = "recheck" /\ boardDown')
    BY <1>8 DEF QuiesceBoardHardware
  <2>2. powerPc = "hardware" /\ UNCHANGED <<asleep, networkQuiesced>>
    BY <1>8 DEF QuiesceBoardHardware
  <2> QED
    BY <1>1, <2>1, <2>2 DEF QuietInv
<1>6. CASE FreezeWorkAdmission
  <2>1. powerPc = "freeze" /\ powerPc' \in {"hardware", "abort"}
    BY <1>6, Zenon DEF FreezeWorkAdmission
  <2>2. UNCHANGED <<asleep, networkQuiesced>>
    BY <1>6 DEF FreezeWorkAdmission
  <2> QED
    BY <1>1, <2>1, <2>2 DEF QuietInv
<1>7. CASE EnterDeepSleep
  BY <1>1, <1>7 DEF EnterDeepSleep, taskVars, QuietInv, Up
<1> QED
  BY <1>2, <1>3, <1>4, <1>5, <1>6, <1>7, <1>8 DEF PowerStep

LEMMA WorldKeepsQuiet ==
  ASSUME SleepInv, QuietInv, ~asleep,
         \/ \E l \in Lane : LaneStep(l)
         \/ \E l \in Lane, o \in Owner : StartWork(l, o)
         \/ \E o \in Owner : FinishWork(o)
         \/ HttpMutation \/ ButtonEdge \/ DrainEdge \/ Produce
  PROVE  QuietInv'
<1> USE DEF vars, setupVars, sleepVars, powerVars, ownerVars
<1>1. UNCHANGED <<lifecycle, teardown, powered, networkQuiesced, boardDown, asleep>>
      /\ powerPc' \in {powerPc, "idle"}
  BY TaskStepFrame DEF LaneStep, StartWork, FinishWork, HttpMutation, ButtonEdge,
     DrainEdge, Produce, Post
<1>2. ASSUME NEW l \in Lane, NEW o \in Owner, StartWork(l, o),
             Up, powerPc \in {"edges", "enter"}
      PROVE  FALSE
  <2>1. l # "Portal" /\ pc[l] \in CallbackPoint
    BY <1>2 DEF StartWork, InCallback, CallbackPoint
  <2>2. frozen
    BY <1>2 DEF SleepInv, BarrierIsHeld, BehindBarrier, SameBarrier
  <2> QED
    BY <2>1, <2>2 DEF SleepInv, SupervisorInv, FrozenIdle
<1>3. Up /\ powerPc \in {"edges", "enter"} => busy' \subseteq busy \cup {"Portal"}
  BY <1>2 DEF LaneStep, FinishWork, HttpMutation, ButtonEdge, DrainEdge, Produce
<1> QED
  BY <1>1, <1>3, PlainKeepsQuiet DEF Up

LEMMA LifecycleKeepsQuiet ==
  ASSUME SleepInv, QuietInv, ~asleep,
         Begin \/ Started \/ Stop \/ Stopping \/ PowerShutdown \/ SupervisorShutdown
  PROVE  QuietInv'
<1> USE DEF vars, setupVars, sleepVars, powerVars, ownerVars
<1>1. UNCHANGED <<powerPc, busy, boardDown, asleep>>
  BY DEF Begin, Started, Stop, Stopping, PowerShutdown, SupervisorShutdown
<1>2. CASE Begin \/ Started
  <2>1. powerPc = "idle"
    BY <1>2 DEF Begin, Started, SleepInv, NewIsCold
  <2> QED
    BY <1>1, <2>1 DEF QuietInv
<1>3. CASE Stop
  <2>1. Up
    BY <1>3 DEF Stop, StopBegin, SleepInv, SupervisorInv, TeardownPhase, Up
  <2> QED
    BY <1>1, <1>3, <2>1, PlainKeepsQuiet DEF Stop
<1>4. CASE Stopping
  <2>1. Up' => Up
    BY <1>4 DEF Stopping, StopWaitEnds, StopEnds, StopDeletesTask, SleepInv, SupervisorInv,
       TeardownPhase, Up
  <2> QED
    BY <1>1, <1>4, <2>1, PlainKeepsQuiet DEF Stopping
<1>5. CASE PowerShutdown
  BY <1>1, <1>5 DEF PowerShutdown, Up, QuietInv
<1>6. CASE SupervisorShutdown
  BY <1>1, <1>6 DEF SupervisorShutdown, ShutdownBegin, ShutdownEnds, Up, QuietInv
<1> QED
  BY <1>2, <1>3, <1>4, <1>5, <1>6

\* The device sleeps only with Wi-Fi stopped, the board down, no owner but
\* Portal at work and no admitted command waiting to run, whichever owners were
\* given work and whoever asked for a stop during the attempt.
THEOREM SleepsOnlyQuietHolds == SleepSpec => []SleepsOnlyQuiet
<1>1. SleepInit => QuietInv
  BY DEF SleepInit, QuietInv
<1>2. SleepInv /\ QuietInv /\ [SleepNext]_allVars => QuietInv'
  <2>1. ASSUME QuietInv, UNCHANGED allVars PROVE QuietInv'
    BY <2>1 DEF allVars, powerVars, ownerVars, vars, setupVars, sleepVars, taskVars, admissionVars,
       historyVars, QuietInv, Up
  <2> QED
    BY <2>1, PowerStepKeepsQuiet, WorldKeepsQuiet, LifecycleKeepsQuiet DEF SleepNext
<1>3. SleepInv /\ QuietInv /\ SleepBarrier => SleepsOnlyQuiet
  <2> SUFFICES ASSUME SleepInv, QuietInv, SleepBarrier, asleep
               PROVE  /\ networkQuiesced /\ boardDown /\ busy \subseteq {"Portal"}
                      /\ \A i \in RequestId, l \in Lane :
                           ~Queued(l, i) /\ (Carried(l, i) => pc[l] = "reject")
    BY DEF SleepsOnlyQuiet
  <2>1. Up /\ powerPc = "enter" /\ pc["Portal"] = "tick"
    BY DEF QuietInv
  <2>2. frozen
    BY <2>1 DEF SleepInv, BarrierIsHeld, BehindBarrier, SameBarrier
  <2>3. ASSUME NEW i \in RequestId, NEW l \in Lane
        PROVE  ~Queued(l, i) /\ (Carried(l, i) => pc[l] = "reject")
    <3>1. queue[l] = <<>> /\ pc[l] \notin {"received", "dequeued", "handler", "result"}
      BY <2>1, <2>2 DEF SleepBarrier
    <3> QED
      BY <3>1 DEF Queued, Carried, InHand
  <2> QED
    BY <2>1, <2>3 DEF QuietInv
<1>4. SleepSpec => []SleepBarrier
  BY SleepRefinesSupervisor, SleepBarrierHolds, PTL DEF SupervisorSpec
<1> QED
  BY <1>1, <1>2, <1>3, <1>4, SleepInductive, PTL DEF SleepSpec
=============================================================================
