------------------------------- MODULE DeepSleep -------------------------------
(***************************************************************************)
(* NativePowerOwner and executeSleepAttempt() composed with the supervisor *)
(* they put to sleep.  The Portal lane's tick runs one sleep attempt: it   *)
(* looks at every owner, stops Wi-Fi, looks again, freezes admission,      *)
(* powers the board down, looks a last time and enters deep sleep; any     *)
(* failure rolls back.  Buttons arrive by interrupt into a raw-edge        *)
(* mailbox that the Input lane's tick drains.                              *)
(*                                                                         *)
(* One boot is modelled: the product starts its runtime once, and deep     *)
(* sleep, OTA and Recovery all end in a fresh boot.  Timing (idle period,  *)
(* retry backoff) is a choice: an attempt may be skipped at any tick.      *)
(***************************************************************************)
EXTENDS RuntimeSupervisor

CONSTANTS
  Owner,     \* lanes whose owner can have background work (busy())
  MaxEdges   \* bound on the raw-edge mailbox (kRawEdgeCapacity in the product)

ASSUME OwnerAssumption == Owner \subseteq Lane /\ "Input" \in Lane
ASSUME EdgesAssumption == MaxEdges \in Nat \ {0}

PowerPoint == {"idle", "settle", "display", "voice", "network", "recapture",
               "freeze", "hardware", "recheck", "edges", "enter", "abort", "done"}

VARIABLES
  powered,              \* initialized_: "new", then "up", then "down"
  powerPc,              \* where the Portal tick is inside tick()
  busy,                 \* owners with work outstanding
  edges,                \* raw_edge_count_
  networkQuiesced,      \* network_quiesced_
  workAdmissionFrozen,  \* work_admission_frozen_
  boardRestoreNeeded,   \* board_restore_needed_
  boardDown,            \* rails, panel or codecs are off
  heard,                \* history: a press since the freeze, before the last look
  asleep

ownerVars == <<networkQuiesced, workAdmissionFrozen, boardRestoreNeeded, boardDown>>
powerVars == <<powered, powerPc, busy, edges, ownerVars, heard, asleep>>
allVars == <<vars, powerVars>>

SleepInit ==
  /\ Init
  /\ powered = "new"
  /\ powerPc = "idle"
  /\ busy = {}
  /\ edges = 0
  /\ networkQuiesced = FALSE
  /\ workAdmissionFrozen = FALSE
  /\ boardRestoreNeeded = FALSE
  /\ boardDown = FALSE
  /\ heard = FALSE
  /\ asleep = FALSE

-----------------------------------------------------------------------------
(* The world around the attempt *)

InCallback(l) ==
  /\ pc[l] \in {"handler", "tick"}
  /\ l = "Portal" => powerPc = "idle"

\* A callback of any lane may hand an owner work (Control selects an image,
\* Portal starts a sync); the owner's own callback finishes it.
StartWork(l, o) ==
  /\ InCallback(l)
  /\ busy' = busy \cup {o}
  /\ UNCHANGED <<vars, powered, powerPc, edges, ownerVars, heard, asleep>>

FinishWork(o) ==
  /\ InCallback(o)
  /\ busy' = busy \ {o}
  /\ UNCHANGED <<vars, powered, powerPc, edges, ownerVars, heard, asleep>>

\* The HTTP server's own task admits a mutation: no lane callback is involved.
HttpMutation ==
  /\ powered = "up"
  /\ "Portal" \in Owner
  /\ busy' = busy \cup {"Portal"}
  /\ UNCHANGED <<vars, powered, powerPc, edges, ownerVars, heard, asleep>>

\* Mutant of ButtonEdge: the mailbox takes one edge too many.
ButtonEdgeOverrun ==
  /\ powered = "up"
  /\ lifecycle = "Running"
  /\ edges <= MaxEdges
  /\ edges' = edges + 1
  /\ heard' = (heard \/ powerPc \in {"hardware", "recheck", "edges"})
  /\ UNCHANGED <<vars, powered, powerPc, busy, ownerVars, asleep>>

\* captureRawEdgeFromIsr(); the mailbox accepts from arm() on.
ButtonEdge ==
  /\ powered = "up"
  /\ lifecycle = "Running"
  /\ edges < MaxEdges
  /\ edges' = edges + 1
  /\ heard' = (heard \/ powerPc \in {"hardware", "recheck", "edges"})
  /\ UNCHANGED <<vars, powered, powerPc, busy, ownerVars, asleep>>

\* serviceRawEdges(): pop, then post() - whose refusal loses the press.
DrainEdge ==
  /\ pc["Input"] = "tick"
  /\ edges > 0
  /\ edges' = edges - 1
  /\ \/ \E i \in RequestId : Post(Command(i, "Button", 1))
     \/ UNCHANGED vars
  /\ UNCHANGED <<powered, powerPc, busy, ownerVars, heard, asleep>>

-----------------------------------------------------------------------------
(* tick(): rollback of an earlier attempt, then executeSleepAttempt() *)

At(from) == pc["Portal"] = "tick" /\ powerPc = from

\* Mutant of RestorePending: a Wi-Fi stopped by an attempt is forgotten.
BoardRestorePending == boardRestoreNeeded \/ workAdmissionFrozen

RestorePending == boardRestoreNeeded \/ networkQuiesced \/ workAdmissionFrozen

\* Mutant of RestoreAwakeServices: thaws although an owner is not back.
ThawAnyway(boardOk, networkOk) ==
  /\ boardRestoreNeeded' = (boardRestoreNeeded /\ ~boardOk)
  /\ boardDown' = (boardDown /\ ~(boardRestoreNeeded /\ boardOk))
  /\ networkQuiesced' = (networkQuiesced /\ ~networkOk)
  /\ IF workAdmissionFrozen
     THEN ThawAdmissionAfterSleepAbort /\ workAdmissionFrozen' = FALSE
     ELSE UNCHANGED <<vars, workAdmissionFrozen>>

\* Mutant of RestoreAwakeServices: thaws and forgets that it did.
ThawUnrecorded(boardOk, networkOk) ==
  LET restored == /\ boardRestoreNeeded => boardOk
                  /\ networkQuiesced => networkOk
  IN
  /\ boardRestoreNeeded' = (boardRestoreNeeded /\ ~boardOk)
  /\ boardDown' = (boardDown /\ ~(boardRestoreNeeded /\ boardOk))
  /\ networkQuiesced' = (networkQuiesced /\ ~networkOk)
  /\ UNCHANGED workAdmissionFrozen
  /\ IF restored /\ workAdmissionFrozen
     THEN ThawAdmissionAfterSleepAbort
     ELSE UNCHANGED vars

\* restoreAwakeServices(): each owner may fail to come back; the supervisor is
\* thawed only when both are back.
RestoreAwakeServices(boardOk, networkOk) ==
  LET restored == /\ boardRestoreNeeded => boardOk
                  /\ networkQuiesced => networkOk
  IN
  /\ boardRestoreNeeded' = (boardRestoreNeeded /\ ~boardOk)
  /\ boardDown' = (boardDown /\ ~(boardRestoreNeeded /\ boardOk))
  /\ networkQuiesced' = (networkQuiesced /\ ~networkOk)
  /\ IF restored /\ workAdmissionFrozen
     THEN ThawAdmissionAfterSleepAbort /\ workAdmissionFrozen' = FALSE
     ELSE UNCHANGED <<vars, workAdmissionFrozen>>

\* A successful retry notes activity, so this tick attempts no sleep.
RetryRestore(boardOk, networkOk) ==
  /\ At("idle")
  /\ RestorePending
  /\ RestoreAwakeServices(boardOk, networkOk)
  /\ powerPc' = "done"
  /\ UNCHANGED <<powered, busy, edges, heard, asleep>>

\* Not due, or not eligible: no restore is attempted.
SkipAttempt ==
  /\ At("idle")
  /\ ~RestorePending
  /\ powerPc' = "done"
  /\ UNCHANGED <<vars, powered, busy, edges, ownerVars, heard, asleep>>

\* capturePowerInputs() and evaluate() with no blocker.
BeginAttempt ==
  /\ At("idle")
  /\ ~RestorePending
  /\ busy = {}
  /\ powerPc' = "settle"
  /\ UNCHANGED <<vars, powered, busy, edges, ownerVars, heard, asleep>>

\* A look at some owners: on to the next step, or abort when one is busy.
Look(from, owners, next) ==
  /\ At(from)
  /\ powerPc' = IF busy \cap owners = {} THEN next ELSE "abort"
  /\ UNCHANGED <<vars, powered, busy, edges, ownerVars, heard, asleep>>

SettleTasksAndSync == Look("settle", Owner, "display")
QuiesceDisplay == Look("display", {"Display"}, "voice")
QuiesceVoiceAndAudio == Look("voice", {"Voice"}, "network")
\* The second capturePowerInputs().
Recapture == Look("recapture", Owner, "freeze")

QuiesceNetwork(stopped) ==
  /\ At("network")
  /\ networkQuiesced' = (busy = {} /\ stopped)
  /\ powerPc' = IF networkQuiesced' THEN "recapture" ELSE "abort"
  /\ UNCHANGED <<vars, powered, busy, edges, workAdmissionFrozen,
                 boardRestoreNeeded, boardDown, heard, asleep>>

\* Mutant of FreezeWorkAdmission: raises the barrier over running callbacks.
FreezeBlindly ==
  /\ At("freeze")
  /\ frozen' = TRUE
  /\ buttonPending' = FALSE
  /\ workAdmissionFrozen' = TRUE
  /\ powerPc' = "hardware"
  /\ heard' = FALSE
  /\ UNCHANGED <<admissionVars, taskVars, setupVars, historyVars, powered, busy,
                 edges, networkQuiesced, boardRestoreNeeded, boardDown, asleep>>

FreezeWorkAdmission ==
  /\ At("freeze")
  /\ IF FreezeEligible
     THEN /\ FreezeAdmissionForSleep
          /\ workAdmissionFrozen' = TRUE
          /\ powerPc' = "hardware"
     ELSE /\ powerPc' = "abort"
          /\ UNCHANGED <<vars, workAdmissionFrozen>>
  /\ heard' = FALSE
  /\ UNCHANGED <<powered, busy, edges, networkQuiesced, boardRestoreNeeded,
                 boardDown, asleep>>

\* A failed preparation may already have changed a rail.
QuiesceBoardHardware(prepared) ==
  /\ At("hardware")
  /\ boardRestoreNeeded' = TRUE
  /\ boardDown' \in (IF prepared THEN {TRUE} ELSE BOOLEAN)
  /\ powerPc' = IF prepared THEN "recheck" ELSE "abort"
  /\ UNCHANGED <<vars, powered, busy, edges, networkQuiesced,
                 workAdmissionFrozen, heard, asleep>>

\* Mutant of Recheck: the owners are not looked at again.
RecheckSupervisorOnly ==
  /\ At("recheck")
  /\ powerPc' = IF workAdmissionFrozen /\ SleepAdmissionStillSafe
                THEN "edges" ELSE "abort"
  /\ UNCHANGED <<vars, powered, busy, edges, ownerVars, heard, asleep>>

\* The supervisor and the owners first, the interrupt's mailbox last.
Recheck ==
  /\ At("recheck")
  /\ powerPc' = IF workAdmissionFrozen /\ SleepAdmissionStillSafe /\ busy = {}
                THEN "edges" ELSE "abort"
  /\ UNCHANGED <<vars, powered, busy, edges, ownerVars, heard, asleep>>

\* Mutant of RecheckEdges: the raw mailbox is not consulted.
TrustLatchedButton ==
  /\ At("edges")
  /\ powerPc' = "enter"
  /\ UNCHANGED <<vars, powered, busy, edges, ownerVars, heard, asleep>>

RecheckEdges ==
  /\ At("edges")
  /\ powerPc' = IF edges = 0 THEN "enter" ELSE "abort"
  /\ UNCHANGED <<vars, powered, busy, edges, ownerVars, heard, asleep>>

EnterDeepSleep ==
  /\ At("enter")
  /\ asleep' = TRUE
  /\ UNCHANGED <<vars, powered, powerPc, busy, edges, ownerVars, heard>>

\* A held button or a wake source that cannot be configured.
DeepSleepRejected ==
  /\ At("enter")
  /\ powerPc' = "abort"
  /\ UNCHANGED <<vars, powered, busy, edges, ownerVars, heard, asleep>>

\* A busy panel, an image on its way to the LEDs, a policy that has changed its
\* mind, a task store that cannot be read, a button still held down.
DeclineAttempt ==
  /\ \E point \in {"display", "voice", "recapture", "recheck"} : At(point)
  /\ powerPc' = "abort"
  /\ UNCHANGED <<vars, powered, busy, edges, ownerVars, heard, asleep>>

RestoreAfterAbort(boardOk, networkOk) ==
  /\ At("abort")
  /\ RestoreAwakeServices(boardOk, networkOk)
  /\ powerPc' = "done"
  /\ UNCHANGED <<powered, busy, edges, heard, asleep>>

PowerStep ==
  \/ \E b, n \in BOOLEAN : RetryRestore(b, n) \/ RestoreAfterAbort(b, n)
  \/ SkipAttempt
  \/ BeginAttempt
  \/ SettleTasksAndSync
  \/ QuiesceDisplay
  \/ QuiesceVoiceAndAudio
  \/ Recapture
  \/ \E ok \in BOOLEAN : QuiesceNetwork(ok) \/ QuiesceBoardHardware(ok)
  \/ FreezeWorkAdmission
  \/ Recheck
  \/ RecheckEdges
  \/ EnterDeepSleep
  \/ DeepSleepRejected
  \/ DeclineAttempt

-----------------------------------------------------------------------------
(* The supervisor's own steps in this product *)

\* Lanes other than a Portal tick that is still inside tick().
LaneStep(l) ==
  /\ TaskStep(l)
  /\ (l = "Portal" /\ pc[l] = "tick") => powerPc = "done"
  /\ powerPc' = IF l = "Portal" /\ pc[l] = "tick" THEN "idle" ELSE powerPc
  /\ UNCHANGED <<powered, busy, edges, ownerVars, heard, asleep>>

Produce ==
  /\ \E i \in RequestId, c \in WorkClass \ {"Button"} : Post(Command(i, c, 1))
  /\ UNCHANGED powerVars

\* begin(): initialize() comes before supervisor_.start(), once per boot.
Begin ==
  /\ powered = "new"
  /\ \/ InitializeBegin \/ InitializeEnd \/ StartFails
     \/ \E l \in Lane : RegisterHandler(l)
     \/ \E l \in TickLane : RegisterTickHandler(l)
     \/ (StartBegin /\ tickers = TickLane)
  /\ UNCHANGED powerVars

Started ==
  /\ powered = "new"
  /\ StartCommits
  /\ powered' = "up"
  /\ UNCHANGED <<powerPc, busy, edges, ownerVars, heard, asleep>>

\* stop(), on the way to OTA or Recovery; buttons_.disarm() comes first.
Stop ==
  /\ powered = "up"
  /\ StopBegin
  /\ edges' = 0
  /\ UNCHANGED <<powered, powerPc, busy, ownerVars, heard, asleep>>

Stopping ==
  /\ StopWaitEnds \/ StopEnds \/ \E l \in Lane : StopDeletesTask(l)
  /\ UNCHANGED powerVars

\* power_.shutdown(), once the supervisor has stopped, lifts the barrier it still
\* believes in and clears the flags; the rails stay as they are.
PowerShutdown ==
  /\ powered = "up" /\ lifecycle = "Ready"
  /\ IF workAdmissionFrozen THEN ThawAdmissionAfterSleepAbort ELSE UNCHANGED vars
  /\ powered' = "down"
  /\ networkQuiesced' = FALSE
  /\ workAdmissionFrozen' = FALSE
  /\ boardRestoreNeeded' = FALSE
  /\ UNCHANGED <<powerPc, busy, edges, boardDown, heard, asleep>>

SupervisorShutdown ==
  /\ powered = "down"
  /\ ShutdownBegin \/ ShutdownEnds
  /\ UNCHANGED powerVars

SleepNext ==
  /\ ~asleep
  /\ \/ \E l \in Lane : LaneStep(l)
     \/ \E l \in Lane, o \in Owner : StartWork(l, o)
     \/ \E o \in Owner : FinishWork(o)
     \/ HttpMutation
     \/ ButtonEdge
     \/ DrainEdge
     \/ PowerStep
     \/ Produce
     \/ Begin
     \/ Started
     \/ Stop
     \/ Stopping
     \/ PowerShutdown
     \/ SupervisorShutdown

SleepSpec == SleepInit /\ [][SleepNext]_allVars

\* Tasks run, the Portal tick becomes due again and again, tick() ends, and
\* hardware that is asked again and again to come back does so in the end.
SleepFairSpec ==
  /\ SleepSpec
  /\ \A l \in Lane : WF_allVars(LaneStep(l))
  /\ SF_allVars(LaneStep("Portal") /\ TickDue("Portal"))
  /\ WF_allVars(PowerStep)
  /\ SF_allVars(RetryRestore(TRUE, TRUE))

-----------------------------------------------------------------------------
(* Properties *)

SleepTypeOK ==
  /\ powered \in {"new", "up", "down"}
  /\ powerPc \in PowerPoint
  /\ busy \subseteq Owner
  /\ edges \in 0 .. MaxEdges
  /\ networkQuiesced \in BOOLEAN
  /\ workAdmissionFrozen \in BOOLEAN
  /\ boardRestoreNeeded \in BOOLEAN
  /\ boardDown \in BOOLEAN
  /\ heard \in BOOLEAN
  /\ asleep \in BOOLEAN

\* The composition only makes steps the supervisor allows: what was checked and
\* proved of RuntimeSupervisor holds in the product's use of it.
SupervisorSpec == Spec

\* native_power_owner.cpp:321-324: no Display, Voice or Network callback ever
\* runs on a board whose rails may be off, through every failed rollback.
NoCallbackOnDeadBoard ==
  boardDown => \A l \in Lane \ {"Portal"} :
    pc[l] \notin {"handler", "result", "finish", "tick"}

\* The device sleeps only with Wi-Fi stopped, the board down, every lane's
\* owner idle, and no admitted command waiting to run; only an HTTP request of
\* the last instants (Portal) can still be in flight.
SleepsOnlyQuiet ==
  asleep => /\ networkQuiesced /\ boardDown
            /\ busy \subseteq {"Portal"}
            /\ \A i \in RequestId, l \in Lane :
                 ~Queued(l, i) /\ (Carried(l, i) => pc[l] = "reject")

\* A press between the freeze and the last look keeps the device awake: the
\* mailbox cannot be drained behind the barrier, where its post() would fail.
\* (A stop() that overtakes the attempt disarms the buttons first.)
PressKeepsAwake == asleep /\ lifecycle = "Running" => ~heard

\* The owner's idea of the barrier is the supervisor's, except after a stop(),
\* which lifts the barrier on its own.
BarrierAgreement ==
  powered = "up" /\ workAdmissionFrozen # frozen => workAdmissionFrozen /\ lifecycle = "Ready"

\* An attempt that failed before the barrier is rolled back: Wi-Fi comes back.
UnfrozenRollbackCompletes ==
  (networkQuiesced /\ powerPc = "idle" /\ ~frozen /\ lifecycle = "Running")
    ~> (~networkQuiesced \/ lifecycle # "Running")

\* native_power_owner.cpp:321-324 - "The Portal tick itself continues while
\* admission is frozen and retries on the next bounded tick" - so a failed
\* rollback ends once the hardware comes back.
FrozenRollbackRetried ==
  (RestorePending /\ powerPc = "idle" /\ frozen /\ lifecycle = "Running")
    ~> (~RestorePending \/ lifecycle # "Running")

=============================================================================
