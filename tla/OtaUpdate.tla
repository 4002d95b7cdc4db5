------------------------------- MODULE OtaUpdate -------------------------------
(***************************************************************************)
(* One device over many boots: the update owner that acquires an image     *)
(* into the other slot and selects it, the boot-health gate that confirms  *)
(* the new image or rolls it back, and the two-slot journal that tells the *)
(* user after the reboot what became of the attempt.  The bootloader and   *)
(* the slots' states are ESP-IDF's, modelled from how the code uses them.  *)
(*                                                                         *)
(* Manifest, download, digest and signature either pass or fail.  Time is  *)
(* two events: the pending deadline passes, and SoakTicks healthy ticks in *)
(* a row make the soak.  The power may be cut at any point; a flash call   *)
(* may fail, with or without having taken effect.                          *)
(***************************************************************************)
EXTENDS Naturals

CONSTANTS
  None, Torn,   \* an empty journal slot, one whose record does not verify
  MaxVersion,   \* bound on firmware versions
  MaxRequests,  \* bound on update requests
  MaxCuts,      \* bound on power cuts
  MaxFaults,    \* bound on failing flash calls
  SoakTicks,    \* healthy ticks in soak_window_ms
  MaxBootAge    \* kMaximumOtaOutcomeBootAge

ASSUME OtaBounds ==
  /\ MaxVersion \in Nat \ {0}
  /\ {MaxRequests, MaxCuts, MaxFaults, SoakTicks, MaxBootAge} \subseteq Nat

VARIABLES
  app,       \* per slot: the image's version, its OTA state, who installed it
  selected,  \* the slot the bootloader is told to start
  running,   \* the slot that runs
  slots,     \* the journal's two records
  shown,     \* snapshot_: the record published in this boot
  owner,     \* OtaUpdateOwner's state and request
  main,      \* where app_main() is, the attempt's result, journal attempts
  health,    \* ota_pending and the gate's soak, confirmation and rollback
  expired,   \* pending_deadline_ms has passed
  past,      \* history: requests made, images selected and confirmed
  budget     \* power cuts and faults left

image == <<app, selected, running>>
journal == <<slots, shown>>
vars == <<image, journal, owner, main, health, expired, past, budget>>

Slot == {0, 1}
Other(s) == 1 - s
Places == {"start", "stages", "journal", "product", "loop", "confirmed", "quiesce",
           "acquire", "stream", "select", "record", "restart", "recovery"}

At(place) == [at |-> place, result |-> "none", tries |-> 0]
Goes(place) == main' = [main EXCEPT !.at = place]
Fresh == [pending |-> FALSE, soak |-> 0, confirm |-> FALSE, rollback |-> FALSE]

Init ==
  /\ app = [s \in Slot |-> [version |-> IF s = 0 THEN 1 ELSE 0, request |-> 0,
                            state |-> IF s = 0 THEN "Valid" ELSE "Partial"]]
  /\ selected = 0 /\ running = 0
  /\ slots = [s \in Slot |-> None] /\ shown = None
  /\ owner = [state |-> "Idle", request |-> 0]
  /\ main = At("start")
  /\ health = Fresh /\ expired = FALSE
  /\ past = [asked |-> 0, selected |-> {}, confirmed |-> {}]
  /\ budget = [cuts |-> MaxCuts, faults |-> MaxFaults]

-----------------------------------------------------------------------------
(* OtaOutcomeJournal *)

Records(j) == {j[s] : s \in Slot} \ {None, Torn}

\* inspect(): the valid record with the higher sequence; commit() gives two
\* neighbours different sequences.
Latest(j) ==
  IF Records(j) = {} THEN None
  ELSE CHOOSE r \in Records(j) : \A q \in Records(j) : q.seq <= r.seq

Corrupt(j) == Records(j) = {} /\ \E s \in Slot : j[s] = Torn

\* Mutant: every record goes to one slot.
PlaceFixed(seq) == 0

Place(seq) == seq % 2

\* commit(): what is in flash after it, and what a failure or a cut can leave.
Committed(j, r) == [j EXCEPT ![Place(r.seq + 1)] = [r EXCEPT !.seq = @ + 1]]
Commits(j, r) == {j, [j EXCEPT ![Place(r.seq + 1)] = Torn], Committed(j, r)}

Cleared == [s \in Slot |-> None]
Clears(j) == {j, [j EXCEPT ![0] = None], Cleared}

TooOld(r) == r.age >= MaxBootAge

\* Mutant: an image still pending is taken for a confirmed one.
OutcomeAtBootEager(r) ==
  IF r.kind # "ImageSelected" THEN r.kind
  ELSE IF r.source = app[running].version THEN "RollbackObserved" ELSE "Confirmed"

\* beginBoot(): what a selected image came to.
OutcomeAtBoot(r) ==
  IF r.kind # "ImageSelected" \/ health.pending THEN r.kind
  ELSE IF r.source = app[running].version THEN "RollbackObserved" ELSE "Confirmed"

AgedRecord(r) == [r EXCEPT !.kind = OutcomeAtBoot(r), !.age = @ + 1]

PriorSequence(j) == IF Latest(j) = None THEN 0 ELSE Latest(j).seq

\* recordTerminal(): the outcome of this attempt.
TerminalRecord(j) ==
  [seq |-> PriorSequence(j), request |-> owner.request, age |-> 0,
   source |-> app[running].version,
   kind |-> IF main.result = "selected" THEN "ImageSelected" ELSE "AcquisitionFailed"]

\* recordTerminal(), on a journal that is cleared first if nothing in it verifies.
Terminal(j) == Committed(IF Corrupt(j) THEN Cleared ELSE j, TerminalRecord(j))
Terminals(j) ==
  IF Corrupt(j) THEN Clears(j) \cup Commits(Cleared, TerminalRecord(j))
                ELSE Commits(j, TerminalRecord(j))

\* beginBoot(): no record, or an old one, clears the journal.
Expired(j) == Latest(j) = None \/ TooOld(Latest(j))
Aged(j) == IF Expired(j) THEN Cleared ELSE Committed(j, AgedRecord(Latest(j)))
Ageings(j) == IF Expired(j) THEN Clears(j) ELSE Commits(j, AgedRecord(Latest(j)))

\* recordConfirmed(): only a selected image is confirmed.
Selects(j) == Latest(j) # None /\ Latest(j).kind = "ImageSelected"
AsConfirmed(j) == [Latest(j) EXCEPT !.kind = "Confirmed"]
Confirmation(j) == IF Selects(j) THEN Committed(j, AsConfirmed(j)) ELSE j
Confirmations(j) == IF Selects(j) THEN Commits(j, AsConfirmed(j)) ELSE {j}

\* What the journal operation that app_main() is at does to flash, ...
Write(j) == CASE main.at = "record" -> Terminal(j)
              [] main.at = "journal" -> Aged(j)
              [] main.at = "confirmed" -> Confirmation(j)

\* ... and what it may leave when it fails or the power is cut under it.
Writes(j) == CASE main.at = "record" -> Terminals(j)
               [] main.at = "journal" -> Ageings(j)
               [] main.at = "confirmed" -> Confirmations(j)

Journalling == main.at \in {"journal", "record", "confirmed"}

-----------------------------------------------------------------------------
(* The bootloader *)

\* A reset: a new image starts once as pending, a pending one is given up.
Reset(images) ==
  LET state == images[selected].state IN
  /\ app' = [images EXCEPT ![selected].state =
               CASE state = "New" -> "Pending" [] state = "Pending" -> "Invalid"
                 [] OTHER -> state]
  /\ running' = IF state \in {"New", "Valid"} THEN selected ELSE Other(selected)
  /\ selected' = running'
  /\ shown' = None
  /\ owner' = [state |-> "Idle", request |-> 0]
  /\ main' = At("start")
  /\ health' = Fresh /\ expired' = FALSE

Faulty == budget.faults > 0 /\ budget' = [budget EXCEPT !.faults = @ - 1]

PowerCut ==
  /\ budget.cuts > 0
  /\ budget' = [budget EXCEPT !.cuts = @ - 1]
  /\ slots' \in IF Journalling THEN Writes(slots) ELSE {slots}
  /\ Reset(app)
  /\ UNCHANGED past

\* Mutant: only a selected image is a reason to restart.
RestartSelected ==
  /\ main.at = "restart"
  /\ main.result = "selected"
  /\ Reset(app)
  /\ UNCHANGED <<slots, past, budget>>

\* Both the success and the failure of an attempt end in a restart.
Restart ==
  /\ main.at = "restart"
  /\ Reset(app)
  /\ UNCHANGED <<slots, past, budget>>

-----------------------------------------------------------------------------
(* The boot-health gate *)

Pending == app[running].state = "Pending"

\* tick() asks for a rollback, once: the image is marked invalid and the device
\* restarts into the other one, which has to be valid; or the state cannot be
\* read or written, and the device goes on.
RollBack(place) ==
  \/ /\ app[Other(running)].state = "Valid"
     /\ Reset([app EXCEPT ![running].state = "Invalid"])
     /\ UNCHANGED <<slots, past, budget>>
  \/ /\ Faulty
     /\ app' \in {app, [app EXCEPT ![running].state = "Invalid"]}
     /\ health' = [health EXCEPT !.pending = TRUE, !.rollback = TRUE]
     /\ Goes(place)
     /\ UNCHANGED <<selected, running, journal, owner, expired, past>>

\* The first tick, before any storage: an image whose state cannot be read is
\* not started, a fatal reset before a pending image rolls it back.
FirstTick ==
  /\ main.at = "start"
  /\ \/ /\ health' = [Fresh EXCEPT !.pending = Pending]
        /\ Goes("stages")
        /\ UNCHANGED <<image, journal, owner, expired, past, budget>>
     \/ Pending /\ RollBack("stages")
     \/ /\ Faulty
        /\ Goes("recovery")
        /\ UNCHANGED <<image, journal, owner, health, expired, past>>

\* A stage of the boot before or after the journal's passes, ...
StagePasses ==
  /\ main.at \in {"stages", "product"}
  /\ Goes(IF main.at = "stages" THEN "journal" ELSE "loop")
  /\ UNCHANGED <<image, journal, owner, health, expired, past, budget>>

\* ... or fails: failPendingBoot(), then the recovery network.
StageFails ==
  /\ main.at \in {"stages", "product"}
  /\ IF health.pending /\ ~health.rollback /\ Pending
       THEN RollBack("recovery")
       ELSE /\ Goes("recovery")
            /\ UNCHANGED <<image, journal, owner, health, expired, past, budget>>

DeadlinePasses ==
  /\ Pending /\ health.pending /\ ~expired
  /\ expired' = TRUE
  /\ UNCHANGED <<image, journal, owner, main, health, past, budget>>

\* Mutant: the deadline is not looked at.
OverdueNever == FALSE

Overdue == expired

Trial == main.at = "loop" /\ health.pending /\ Pending /\ ~health.rollback

\* A tick of the main loop rolls a pending image back at the deadline, or at a
\* fatal failure, whatever else has been decided.
TickOverdue == Trial /\ Overdue /\ RollBack("loop")

TickFatal == Trial /\ RollBack("loop")

\* Evidence that is missing or stale starts the soak again.
TickSoaks ==
  /\ Trial /\ ~Overdue /\ ~health.confirm
  /\ \/ health' = [health EXCEPT !.soak = 0]
     \/ health.soak < SoakTicks /\ health' = [health EXCEPT !.soak = @ + 1]
  /\ UNCHANGED <<image, journal, owner, main, expired, past, budget>>

\* The soak is complete: confirmation is tried once.
TickConfirms ==
  /\ Trial /\ ~Overdue /\ ~health.confirm
  /\ health.soak = SoakTicks
  /\ health' = [health EXCEPT !.confirm = TRUE]
  /\ LET valid == [app EXCEPT ![running].state = "Valid"] IN
     \/ /\ app' = valid
        /\ Goes("confirmed")
        /\ UNCHANGED budget
     \/ /\ Faulty
        /\ app' \in {app, valid}
        /\ UNCHANGED main
  /\ past' = IF app' = app THEN past
             ELSE [past EXCEPT !.confirmed = @ \cup {app[running].request}]
  /\ UNCHANGED <<selected, running, journal, owner, expired>>

\* A confirmation that was reported as failed shows in the image's state.
TickFindsConfirmed ==
  /\ main.at = "loop" /\ health.pending
  /\ app[running].state = "Valid"
  /\ Goes("confirmed")
  /\ UNCHANGED <<image, journal, owner, health, expired, past, budget>>

-----------------------------------------------------------------------------
(* The journal's three calls *)

\* beginBoot(): publishes only what it has committed.
BeginBoot ==
  /\ main.at = "journal"
  /\ \/ /\ slots' = Write(slots)
        /\ shown' = Latest(slots')
        /\ UNCHANGED budget
     \/ /\ Faulty
        /\ slots' \in Writes(slots)
        /\ shown' = None
  /\ Goes("product")
  /\ UNCHANGED <<image, owner, health, expired, past>>

\* recordConfirmed(), after which updates are allowed.
RecordConfirmed ==
  /\ main.at = "confirmed"
  /\ \/ /\ slots' = Write(slots)
        /\ LET last == Latest(slots') IN
           shown' = IF last # None /\ last.kind = "Confirmed" THEN last ELSE shown
        /\ UNCHANGED budget
     \/ /\ Faulty
        /\ slots' \in Writes(slots)
        /\ UNCHANGED shown
  /\ health' = [health EXCEPT !.pending = FALSE]
  /\ Goes("loop")
  /\ UNCHANGED <<image, owner, expired, past>>

\* recordTerminal(): up to three attempts, a fault may last for all of them.
RecordTerminal ==
  /\ main.at = "record"
  /\ \/ /\ slots' = Write(slots)
        /\ shown' = Latest(slots')
        /\ Goes("restart")
        /\ UNCHANGED budget
     \/ /\ IF main.tries = 0 THEN Faulty ELSE UNCHANGED budget
        /\ slots' \in Writes(slots)
        /\ main' = [main EXCEPT !.tries = @ + 1,
                      !.at = IF main.tries = 2 THEN "restart" ELSE @]
        /\ UNCHANGED shown
  /\ UNCHANGED <<image, owner, health, expired, past>>

-----------------------------------------------------------------------------
(* The update owner *)

\* Mutant: an update is accepted while the running image is on trial.
AllowedAlways == TRUE

\* ota_update_allowed
Allowed == ~health.pending

\* request(), from the Portal lane; one that finds the owner busy changes nothing.
Request ==
  /\ main.at = "loop"
  /\ Allowed /\ owner.state = "Idle"
  /\ past.asked < MaxRequests
  /\ past' = [past EXCEPT !.asked = @ + 1]
  /\ owner' = [state |-> "Requested", request |-> past.asked + 1]
  /\ UNCHANGED <<image, journal, main, health, expired, budget>>

\* take()
Take ==
  /\ main.at = "loop"
  /\ owner.state = "Requested"
  /\ owner' = [owner EXCEPT !.state = "Running"]
  /\ Goes("quiesce")
  /\ UNCHANGED <<image, journal, health, expired, past, budget>>

\* finishTerminal() with a failure.
Fails ==
  /\ owner' = [owner EXCEPT !.state = "Failed"]
  /\ main' = [main EXCEPT !.at = "record", !.result = "failed"]

\* The runtime is shut down for the acquisition; it may refuse.
Quiesce ==
  /\ main.at = "quiesce"
  /\ \/ Fails
     \/ owner' = [owner EXCEPT !.state = "Acquiring"] /\ Goes("acquire")
  /\ UNCHANGED <<image, journal, health, expired, past, budget>>

\* The manifest must be valid and name a newer version; ota_begin() then erases
\* the other slot.
BeginImage ==
  /\ main.at = "acquire"
  /\ \/ Fails /\ UNCHANGED app
     \/ \E v \in app[running].version + 1 .. MaxVersion :
          /\ app' = [app EXCEPT ![Other(running)] =
                       [version |-> v, request |-> owner.request, state |-> "Partial"]]
          /\ Goes("stream") /\ UNCHANGED owner
  /\ UNCHANGED <<selected, running, journal, health, expired, past, budget>>

\* The stream is complete, its digest and signature verify, ota_end() succeeds.
FinishImage ==
  /\ main.at = "stream"
  /\ \/ Fails /\ UNCHANGED app
     \/ /\ app' = [app EXCEPT ![Other(running)].state = "Written"]
        /\ Goes("select") /\ UNCHANGED owner
  /\ UNCHANGED <<selected, running, journal, health, expired, past, budget>>

Chosen == [app EXCEPT ![Other(running)].state = "New"]

\* set_boot_partition()
SelectImage ==
  /\ main.at = "select"
  /\ \/ /\ app' = Chosen /\ selected' = Other(running)
        /\ owner' = [owner EXCEPT !.state = "ImageSelected"]
        /\ main' = [main EXCEPT !.at = "record", !.result = "selected"]
        /\ UNCHANGED budget
     \/ /\ Faulty
        /\ Fails
        /\ \/ app' = Chosen /\ selected' = Other(running)
           \/ UNCHANGED <<app, selected>>
  /\ past' = IF selected' = selected THEN past
             ELSE [past EXCEPT !.selected = @ \cup {owner.request}]
  /\ UNCHANGED <<running, journal, health, expired>>

-----------------------------------------------------------------------------
Main ==
  \/ FirstTick \/ StagePasses \/ StageFails \/ BeginBoot
  \/ TickOverdue \/ TickFatal \/ TickSoaks \/ TickConfirms \/ TickFindsConfirmed
  \/ RecordConfirmed \/ RecordTerminal \/ Restart
  \/ Take \/ Quiesce \/ BeginImage \/ FinishImage \/ SelectImage

Next == Main \/ Request \/ DeadlinePasses \/ PowerCut

Spec == Init /\ [][Next]_vars

\* app_main() goes on and the clock runs.
FairSpec == Spec /\ WF_vars(Main) /\ WF_vars(DeadlinePasses)

-----------------------------------------------------------------------------
Images == [version: 0 .. MaxVersion, request: 0 .. MaxRequests,
           state: {"Valid", "New", "Pending", "Invalid", "Partial", "Written"}]
OutcomeRecord == [seq: Nat, request: 1 .. MaxRequests, age: 0 .. MaxBootAge,
                  source: 1 .. MaxVersion,
                  kind: {"ImageSelected", "AcquisitionFailed", "Confirmed",
                         "RollbackObserved"}]

ASSUME JournalMarks == \A mark \in {None, Torn} : mark \notin OutcomeRecord

\* The types of the slots, the journal, the owner, app_main() and the gate.
TypeOK ==
  /\ app \in [Slot -> Images] /\ selected \in Slot /\ running \in Slot
  /\ slots \in [Slot -> OutcomeRecord \cup {None, Torn}]
  /\ shown \in OutcomeRecord \cup {None}
  /\ owner \in [state: {"Idle", "Requested", "Running", "Acquiring", "Failed",
                        "ImageSelected"}, request: 0 .. MaxRequests]
  /\ main \in [at: Places, result: {"none", "failed", "selected"}, tries: 0 .. 3]
  /\ health \in [pending: BOOLEAN, soak: 0 .. SoakTicks, confirm: BOOLEAN,
                 rollback: BOOLEAN]
  /\ past \in [asked: 0 .. MaxRequests, selected: SUBSET (0 .. MaxRequests),
               confirmed: SUBSET (0 .. MaxRequests)]

\* Wherever the power is cut, the device starts an image that is confirmed, or
\* one on trial with a confirmed one to fall back to.  It needs updates to wait
\* for the trial's end: an acquisition erases the slot that is the way back.
FallbackKept ==
  /\ app[running].state = "Pending" => app[Other(running)].state = "Valid"
  /\ app[selected].state # "Valid" => app[Other(selected)].state = "Valid"

\* Without a failing flash call, and however often the power is cut, an outcome
\* in the journal or on the screen is true of the request it names: confirmed
\* if its image was, rolled back if it was selected and never confirmed, failed
\* if it was not selected.
OutcomeTrue ==
  budget.faults = MaxFaults =>
    \A r \in {Latest(slots), shown} \ {None} :
      CASE r.kind = "Confirmed" -> r.request \in past.confirmed
        [] r.kind = "RollbackObserved" -> r.request \in past.selected \ past.confirmed
        [] r.kind = "ImageSelected" -> r.request \in past.selected
        [] OTHER -> r.request \notin past.selected

\* An attempt that reaches its restart with no failing flash call is the one the
\* next boot reads, whatever the journal held before.
AttemptRecorded ==
  main.at = "restart" /\ budget.faults = MaxFaults =>
    Latest(slots) # None /\ Latest(slots).request = owner.request

\* A write torn by a power cut or a fault leaves the record before it: the
\* journal's sequence never goes back, except when an expired journal, or one
\* with no valid record, is cleared.
NeverRewound ==
  [][Latest(slots) # None /\ Latest(slots).age < MaxBootAge =>
       Latest(slots') # None /\ Latest(slots').seq >= Latest(slots).seq]_vars

\* A pending image is confirmed or rolled back, if no flash call fails on the way.
TrialEnds == Pending ~> ~Pending \/ budget.faults < MaxFaults

\* An accepted request ends in a fresh boot, which accepts requests again.
RequestEnds == owner.state = "Requested" ~> owner.state = "Idle"

\* "Records [...] are replaced by the next deliberate OTA attempt": the screen
\* does not tell of a rollback once a later attempt's image is confirmed.
ShownOutcomeCurrent ==
  main.at = "loop" /\ ~health.pending /\ shown # None =>
    ~(shown.kind = "RollbackObserved" /\ app[running].request > shown.request)
=============================================================================
