---------------------------- MODULE OtaUpdate_proofs ----------------------------
(***************************************************************************)
(* Proofs about updates: over any number of requests, power cuts and flash *)
(* faults, the device always has a confirmed image to fall back to, the    *)
(* journal never goes back and holds only records of requests that were    *)
(* made, and, unless a flash call fails, what they say is so.              *)
(***************************************************************************)
EXTENDS OtaUpdate, TLAPS

Attempting == {"quiesce", "acquire", "stream", "select", "record", "restart"}

\* An image that runs unconfirmed was selected, and has a confirmed one behind
\* it.
RunningHasFallback ==
  /\ app[running].state \in {"Valid", "Pending", "Invalid"}
  /\ app[running].state # "Valid" =>
       selected = running /\ app[Other(running)].state = "Valid"

\* The gate knows of a trial before anything that may ask for an update runs.
TrialIsKnown ==
  /\ main.at = "start" => app[running].state # "Invalid"
  /\ app[running].state # "Valid" /\ main.at \notin {"start", "recovery"} => health.pending
  /\ main.at = "confirmed" => app[running].state = "Valid"

\* An attempt is made for a request, and by a confirmed image only.
AttemptIsConfirmed ==
  /\ main.at \in Attempting => owner.state # "Idle"
  /\ owner.state # "Idle" =>
       owner.request \in 1 .. MaxRequests /\ app[running].state = "Valid"

\* Another image is selected only at the end of an attempt.
SelectionIsNew ==
  selected # running =>
    app[selected].state = "New" /\ main.at \in {"record", "restart"}

\* Only a slot that never held an image has version 0.
ImageHasVersion ==
  /\ \A s \in Slot : app[s].state # "Partial" => app[s].version # 0
  /\ main.at \in {"stream", "select"} => app[Other(running)].version # 0

TriesAreThree == main.at # "restart" => main.tries \in 0 .. 2

OtaInv ==
  /\ TypeOK
  /\ RunningHasFallback
  /\ TrialIsKnown
  /\ AttemptIsConfirmed
  /\ SelectionIsNew
  /\ ImageHasVersion
  /\ TriesAreThree

LEMMA OtherSlot == \A s \in Slot : Other(s) \in Slot /\ Other(s) # s /\ Other(Other(s)) = s
BY DEF Slot, Other

-----------------------------------------------------------------------------
(* The journal *)

JournalType == [Slot -> OutcomeRecord \cup {None, Torn}]

LEMMA LatestIsRecord ==
  ASSUME NEW j \in JournalType, Latest(j) # None
  PROVE  Latest(j) \in OutcomeRecord
<1>1. Records(j) \subseteq OutcomeRecord /\ Records(j) # {}
  BY DEF Records, JournalType, Latest
<1>2. Records(j) \subseteq {j[0], j[1]}
  BY DEF Records, Slot
<1>3. \A r \in Records(j) : r.seq \in Nat
  BY <1>1 DEF OutcomeRecord
<1>4. \E r \in Records(j) : \A q \in Records(j) : q.seq <= r.seq
  BY <1>1, <1>2, <1>3
<1> QED
  BY <1>1, <1>4 DEF Latest

LEMMA PlaceIsSlot == ASSUME NEW n \in Nat PROVE Place(n) \in Slot
BY DEF Place, Slot

LEMMA CommitKeepsType ==
  ASSUME NEW j \in JournalType, NEW r \in OutcomeRecord
  PROVE  Committed(j, r) \in JournalType /\ Commits(j, r) \subseteq JournalType
<1>1. r.seq + 1 \in Nat /\ Place(r.seq + 1) \in Slot
  BY PlaceIsSlot DEF OutcomeRecord
<1>2. [r EXCEPT !.seq = @ + 1] \in OutcomeRecord
  BY <1>1 DEF OutcomeRecord
<1>3. Committed(j, r) \in JournalType
  BY <1>1, <1>2 DEF Committed, JournalType
<1>4. [j EXCEPT ![Place(r.seq + 1)] = Torn] \in JournalType
  BY <1>1 DEF JournalType
<1> QED
  BY <1>3, <1>4 DEF Commits

LEMMA ClearKeepsType ==
  ASSUME NEW j \in JournalType
  PROVE  Cleared \in JournalType /\ Clears(j) \subseteq JournalType
<1>1. Cleared \in JournalType
  BY DEF Cleared, JournalType
<1>2. [j EXCEPT ![0] = None] \in JournalType
  BY DEF JournalType, Slot
<1> QED
  BY <1>1, <1>2 DEF Clears

LEMMA AgedIsRecord ==
  ASSUME NEW r \in OutcomeRecord, ~TooOld(r)
  PROVE  AgedRecord(r) \in OutcomeRecord
<1>1. r.age + 1 \in 0 .. MaxBootAge
  BY OtaBounds DEF OutcomeRecord, TooOld
<1>2. OutcomeAtBoot(r) \in {"ImageSelected", "AcquisitionFailed", "Confirmed",
                            "RollbackObserved"}
  BY DEF OutcomeAtBoot, OutcomeRecord
<1> QED
  BY <1>1, <1>2 DEF AgedRecord, OutcomeRecord

LEMMA TerminalIsRecord ==
  ASSUME OtaInv, main.at = "record"
  PROVE  TerminalRecord(slots) \in OutcomeRecord
<1>1. slots \in JournalType /\ MaxBootAge \in Nat /\ MaxVersion \in Nat
  BY OtaBounds DEF OtaInv, TypeOK, JournalType
<1>2. PriorSequence(slots) \in Nat
  BY <1>1, LatestIsRecord DEF PriorSequence, OutcomeRecord
<1>3. app[running] \in Images /\ app[running].version # 0
  BY DEF OtaInv, TypeOK, RunningHasFallback, ImageHasVersion
<1>4. app[running].version \in 1 .. MaxVersion
  BY <1>1, <1>3 DEF Images
<1>5. owner.request \in 1 .. MaxRequests
  BY DEF OtaInv, AttemptIsConfirmed, Attempting
<1> QED
  BY <1>1, <1>2, <1>4, <1>5 DEF TerminalRecord, OutcomeRecord

\* Whatever a journal operation writes, wholly or in part, is a journal.
LEMMA WritesKeepType ==
  ASSUME OtaInv, Journalling
  PROVE  Write(slots) \in JournalType /\ Writes(slots) \subseteq JournalType
<1>1. slots \in JournalType
  BY DEF OtaInv, TypeOK, JournalType
<1>2. CASE main.at = "record"
  <2>1. TerminalRecord(slots) \in OutcomeRecord
    BY <1>2, TerminalIsRecord
  <2>2. Terminal(slots) \in JournalType /\ Terminals(slots) \subseteq JournalType
    BY <1>1, <2>1, ClearKeepsType, CommitKeepsType DEF Terminal, Terminals
  <2> QED
    BY <1>2, <2>2 DEF Write, Writes
<1>3. CASE main.at = "journal"
  <2>1. ~Expired(slots) => AgedRecord(Latest(slots)) \in OutcomeRecord
    BY <1>1, LatestIsRecord, AgedIsRecord DEF Expired
  <2>2. Aged(slots) \in JournalType /\ Ageings(slots) \subseteq JournalType
    BY <1>1, <2>1, ClearKeepsType, CommitKeepsType DEF Aged, Ageings
  <2> QED
    BY <1>3, <2>2 DEF Write, Writes
<1>4. CASE main.at = "confirmed"
  <2>1. Selects(slots) => AsConfirmed(slots) \in OutcomeRecord
    BY <1>1, LatestIsRecord DEF Selects, AsConfirmed, OutcomeRecord
  <2>2. Confirmation(slots) \in JournalType /\ Confirmations(slots) \subseteq JournalType
    BY <1>1, <2>1, CommitKeepsType DEF Confirmation, Confirmations
  <2> QED
    BY <1>4, <2>2 DEF Write, Writes
<1> QED
  BY <1>2, <1>3, <1>4 DEF Journalling

-----------------------------------------------------------------------------
(* The bootloader *)

\* A reset starts a confirmed image, or a new one in front of a confirmed one,
\* if what it finds selected is one or has one behind it.
LEMMA ResetKeepsInv ==
  ASSUME NEW images \in [Slot -> Images], Reset(images), selected \in Slot,
         slots' \in JournalType, UNCHANGED past, TypeOK,
         images[selected].state \in {"Valid", "New", "Pending", "Invalid"},
         images[selected].state # "Valid" => images[Other(selected)].state = "Valid",
         \A s \in Slot : images[s].state # "Partial" => images[s].version # 0
  PROVE  OtaInv'
<1> DEFINE state == images[selected].state
           reset == CASE state = "New" -> "Pending" [] state = "Pending" -> "Invalid"
                      [] OTHER -> state
<1>1. Other(selected) \in Slot /\ Other(selected) # selected
      /\ Other(Other(selected)) = selected
  BY OtherSlot
<1>2. /\ app' = [images EXCEPT ![selected].state = reset]
      /\ running' = IF state \in {"New", "Valid"} THEN selected ELSE Other(selected)
      /\ selected' = running' /\ shown' = None
      /\ owner' = [state |-> "Idle", request |-> 0]
      /\ main' = [at |-> "start", result |-> "none", tries |-> 0]
      /\ health' = [pending |-> FALSE, soak |-> 0, confirm |-> FALSE, rollback |-> FALSE]
  BY DEF Reset, At, Fresh
<1>3. reset \in {"Valid", "Pending", "Invalid"}
  OBVIOUS
<1>4. /\ app' \in [Slot -> Images]
      /\ app'[selected].state = reset
      /\ app'[Other(selected)] = images[Other(selected)]
      /\ app'[selected].version = images[selected].version
  BY <1>1, <1>2, <1>3 DEF Images
<1> HIDE DEF reset
<1>5. TypeOK'
  <2>1. running' \in Slot
    BY <1>1, <1>2
  <2>2. health' \in [pending: BOOLEAN, soak: 0 .. SoakTicks, confirm: BOOLEAN,
                     rollback: BOOLEAN]
    BY <1>2, OtaBounds
  <2>3. owner' \in [state: {"Idle", "Requested", "Running", "Acquiring", "Failed",
                            "ImageSelected"}, request: 0 .. MaxRequests]
    BY <1>2, OtaBounds
  <2>4. main' \in [at: Places, result: {"none", "failed", "selected"}, tries: 0 .. 3]
    BY <1>2 DEF Places
  <2> QED
    BY <1>2, <1>4, <2>1, <2>2, <2>3, <2>4 DEF TypeOK, JournalType
<1>6. RunningHasFallback' /\ app'[running'].state # "Invalid"
  BY <1>1, <1>2, <1>3, <1>4 DEF RunningHasFallback, reset
<1>7. TrialIsKnown' /\ AttemptIsConfirmed' /\ TriesAreThree' /\ SelectionIsNew'
  BY <1>2, <1>6 DEF TrialIsKnown, AttemptIsConfirmed, TriesAreThree, SelectionIsNew,
     Attempting
<1>8. ImageHasVersion'
  <2>1. \A s \in Slot : s = selected \/ s = Other(selected)
    BY DEF Slot, Other
  <2> QED
    BY <1>2, <1>3, <1>4, <2>1 DEF ImageHasVersion
<1> QED
  BY <1>5, <1>6, <1>7, <1>8 DEF OtaInv

\* What is selected may be reset into, at any time.
LEMMA SelectedHasFallback ==
  ASSUME OtaInv
  PROVE  /\ app[selected].state \in {"Valid", "New", "Pending", "Invalid"}
         /\ app[selected].state # "Valid" => app[Other(selected)].state = "Valid"
<1>1. CASE selected = running
  BY <1>1 DEF OtaInv, RunningHasFallback
<1>2. CASE selected # running
  <2>1. Other(selected) = running
    BY <1>2 DEF OtaInv, TypeOK, Slot, Other
  <2> QED
    BY <1>2, <2>1 DEF OtaInv, SelectionIsNew, AttemptIsConfirmed, Attempting
<1> QED
  BY <1>1, <1>2

LEMMA CutKeepsInv == ASSUME OtaInv, PowerCut \/ Restart PROVE OtaInv'
<1>1. /\ app \in [Slot -> Images] /\ selected \in Slot /\ TypeOK
      /\ \A s \in Slot : app[s].state # "Partial" => app[s].version # 0
  BY DEF OtaInv, TypeOK, ImageHasVersion
<1>2. slots' \in JournalType /\ UNCHANGED past /\ Reset(app)
  BY WritesKeepType DEF PowerCut, Restart, OtaInv, TypeOK, JournalType
<1> QED
  BY <1>1, <1>2, SelectedHasFallback, ResetKeepsInv

-----------------------------------------------------------------------------
(* The boot-health gate *)

LEMMA RollBackKeepsInv ==
  ASSUME OtaInv, NEW place \in {"stages", "recovery", "loop"}, Pending, RollBack(place),
         main.at \in {"start", "stages", "product", "loop"}
  PROVE  OtaInv'
<1>1. /\ running \in Slot /\ selected = running /\ app[Other(running)].state = "Valid"
      /\ TypeOK
      /\ \A s \in Slot : app[s].state # "Partial" => app[s].version # 0
  BY DEF OtaInv, TypeOK, RunningHasFallback, ImageHasVersion, Pending
<1>2. Other(running) \in Slot /\ Other(running) # running
  BY <1>1, OtherSlot
<1> DEFINE marked == [app EXCEPT ![running].state = "Invalid"]
<1>3. /\ app \in [Slot -> Images] /\ marked \in [Slot -> Images]
      /\ marked[running].state = "Invalid"
      /\ marked[running].version = app[running].version
      /\ marked[Other(running)] = app[Other(running)]
  BY <1>1, <1>2 DEF TypeOK, Images
<1>4. \A s \in Slot : marked[s].state # "Partial" => marked[s].version # 0
  <2>1. \A s \in Slot : s = running \/ s = Other(running)
    BY <1>1 DEF Slot, Other
  <2> QED
    BY <1>1, <1>3, <2>1 DEF Pending
<1>5. slots \in JournalType
  BY <1>1 DEF TypeOK, JournalType
<1>6. CASE Reset(marked) /\ UNCHANGED <<slots, past>>
  <2> HIDE DEF marked
  <2> QED
    BY <1>1, <1>3, <1>4, <1>5, <1>6, ResetKeepsInv
<1>7. CASE /\ app' \in {app, marked}
           /\ health' = [health EXCEPT !.pending = TRUE, !.rollback = TRUE]
           /\ main' = [main EXCEPT !.at = place]
           /\ UNCHANGED <<selected, running, slots, shown, owner, past>>
  <2>1. /\ app' \in [Slot -> Images]
        /\ app'[running].state \in {"Pending", "Invalid"}
        /\ app'[Other(running)].state = "Valid"
        /\ \A s \in Slot : app'[s].state # "Partial" => app'[s].version # 0
    BY <1>1, <1>3, <1>4, <1>7 DEF Pending
  <2>2. owner.state = "Idle"
    BY DEF OtaInv, AttemptIsConfirmed, Pending
  <2>3. /\ health' \in [pending: BOOLEAN, soak: 0 .. SoakTicks, confirm: BOOLEAN,
                         rollback: BOOLEAN]
        /\ health'.pending
    BY <1>1, <1>7 DEF TypeOK
  <2>4. /\ main' \in [at: Places, result: {"none", "failed", "selected"}, tries: 0 .. 3]
        /\ main'.at = place /\ main'.tries \in 0 .. 2
    BY <1>1, <1>7 DEF TypeOK, Places, OtaInv, TriesAreThree
  <2>5. TypeOK'
    BY <1>1, <1>7, <2>1, <2>3, <2>4 DEF TypeOK
  <2> HIDE DEF marked
  <2>6. RunningHasFallback' /\ SelectionIsNew' /\ TrialIsKnown'
    BY <1>1, <1>7, <2>1, <2>3 DEF RunningHasFallback, SelectionIsNew, TrialIsKnown
  <2>7. AttemptIsConfirmed' /\ ImageHasVersion' /\ TriesAreThree'
    BY <1>7, <2>1, <2>2, <2>4 DEF AttemptIsConfirmed, Attempting, ImageHasVersion,
       TriesAreThree
  <2> QED
    BY <2>5, <2>6, <2>7 DEF OtaInv
<1> QED
  BY <1>6, <1>7 DEF RollBack, Goes, journal

LEMMA GateKeepsInv ==
  ASSUME OtaInv,
         \/ FirstTick \/ StagePasses \/ StageFails \/ DeadlinePasses
         \/ TickOverdue \/ TickFatal \/ TickSoaks \/ TickConfirms \/ TickFindsConfirmed
  PROVE  OtaInv'
<1>1. ASSUME NEW place \in {"stages", "recovery", "loop"}, Pending, RollBack(place),
             main.at \in {"start", "stages", "product", "loop"}
      PROVE  OtaInv'
  BY <1>1, RollBackKeepsInv
<1>2. CASE TickOverdue \/ TickFatal
  BY <1>1, <1>2 DEF TickOverdue, TickFatal, Trial
<1>3. running \in Slot /\ app \in [Slot -> Images]
  BY DEF OtaInv, TypeOK
<1>4. ASSUME NEW place \in {"stages", "journal", "product", "loop", "recovery", "confirmed"},
             main' = [main EXCEPT !.at = place]
      PROVE  /\ main' \in [at: Places, result: {"none", "failed", "selected"}, tries: 0 .. 3]
             /\ main'.at = place
  BY <1>4 DEF OtaInv, TypeOK, Places
<1> USE DEF OtaInv, RunningHasFallback, TrialIsKnown, AttemptIsConfirmed, SelectionIsNew,
    ImageHasVersion, TriesAreThree, Attempting, image, journal, Goes
<1>5. CASE FirstTick
  <2>1. CASE /\ health' = [Fresh EXCEPT !.pending = Pending]
             /\ Goes("stages")
             /\ UNCHANGED <<image, journal, owner, expired, past, budget>>
    <3>1. /\ health' \in [pending: BOOLEAN, soak: 0 .. SoakTicks, confirm: BOOLEAN,
                           rollback: BOOLEAN]
          /\ health'.pending = Pending
      <4>1. Pending \in BOOLEAN
        BY DEF Pending
      <4>2. 0 \in 0 .. SoakTicks
        BY OtaBounds
      <4> QED
        BY <2>1, <4>1, <4>2 DEF Fresh
    <3>2. app[running].state # "Valid" => Pending
      BY <1>5 DEF FirstTick, Pending
    <3> QED
      BY <1>4, <1>5, <2>1, <3>1, <3>2 DEF TypeOK, Pending, FirstTick
  <2>2. CASE /\ Goes("recovery")
             /\ UNCHANGED <<image, journal, owner, health, expired, past>>
    BY <1>4, <1>5, <2>2 DEF TypeOK, FirstTick
  <2> QED
    BY <1>1, <1>5, <2>1, <2>2 DEF FirstTick
<1>6. CASE StagePasses
  BY <1>4, <1>6 DEF StagePasses, TypeOK
<1>7. CASE StageFails
  <2>1. CASE Goes("recovery") /\ UNCHANGED <<image, journal, owner, health, expired, past>>
    BY <1>4, <1>7, <2>1 DEF StageFails, TypeOK
  <2> QED
    BY <1>1, <1>7, <2>1 DEF StageFails
<1>8. CASE DeadlinePasses
  BY <1>8 DEF DeadlinePasses, TypeOK
<1>9. CASE TickSoaks
  <2>1. health' \in [pending: BOOLEAN, soak: 0 .. SoakTicks, confirm: BOOLEAN,
                     rollback: BOOLEAN]
        /\ health'.pending = health.pending
    BY <1>9, OtaBounds DEF TickSoaks, TypeOK
  <2> QED
    BY <1>9, <2>1 DEF TickSoaks, TypeOK
<1>10. CASE TickConfirms
  <2> DEFINE valid == [app EXCEPT ![running].state = "Valid"]
  <2>1. /\ Pending /\ main.at = "loop" /\ health.pending
        /\ app' \in {app, valid}
        /\ \/ main' = main
           \/ Goes("confirmed") /\ app' = valid
        /\ health' = [health EXCEPT !.confirm = TRUE]
        /\ past' = IF app' = app THEN past
                   ELSE [past EXCEPT !.confirmed = @ \cup {app[running].request}]
        /\ UNCHANGED <<selected, running, journal, owner>>
    BY <1>10 DEF TickConfirms, Trial
  <2>2. /\ valid \in [Slot -> Images] /\ valid[running].state = "Valid"
        /\ \A s \in Slot : valid[s].version = app[s].version
        /\ \A s \in Slot : s # running => valid[s] = app[s]
    BY <1>3 DEF Images
  <2>3. health' \in [pending: BOOLEAN, soak: 0 .. SoakTicks, confirm: BOOLEAN,
                     rollback: BOOLEAN]
        /\ health'.pending = health.pending
    BY <2>1 DEF TypeOK
  <2>4. past' \in [asked: 0 .. MaxRequests, selected: SUBSET (0 .. MaxRequests),
                   confirmed: SUBSET (0 .. MaxRequests)]
    BY <1>3, <2>1 DEF TypeOK, Images
  <2>5. /\ main' \in [at: Places, result: {"none", "failed", "selected"}, tries: 0 .. 3]
        /\ main'.at \in {"loop", "confirmed"}
        /\ main'.at = "confirmed" => app' = valid
    BY <1>4, <2>1 DEF TypeOK
  <2> HIDE DEF valid
  <2>6. TypeOK'
    BY <1>3, <2>1, <2>2, <2>3, <2>4, <2>5 DEF TypeOK
  <2>7. owner.state = "Idle" /\ selected = running
    BY <2>1 DEF Pending
  <2>8. ImageHasVersion'
    BY <1>3, <2>1, <2>2, <2>5 DEF Pending
  <2> QED
    BY <1>3, <2>1, <2>2, <2>3, <2>5, <2>6, <2>7, <2>8, OtherSlot
<1>11. CASE TickFindsConfirmed
  BY <1>4, <1>11 DEF TickFindsConfirmed, TypeOK
<1> QED
  BY <1>2, <1>5, <1>6, <1>7, <1>8, <1>9, <1>10, <1>11

-----------------------------------------------------------------------------
(* The journal's calls and the update owner *)

LEMMA JournalKeepsInv ==
  ASSUME OtaInv, BeginBoot \/ RecordConfirmed \/ RecordTerminal
  PROVE  OtaInv'
<1>1. Journalling
  BY DEF BeginBoot, RecordConfirmed, RecordTerminal, Journalling
<1>2. slots' \in JournalType
  BY <1>1, WritesKeepType DEF BeginBoot, RecordConfirmed, RecordTerminal
<1>3. shown' \in OutcomeRecord \cup {None}
  BY <1>2, LatestIsRecord DEF BeginBoot, RecordConfirmed, RecordTerminal, OtaInv, TypeOK
<1>4. UNCHANGED <<app, selected, running, owner, past>>
  BY DEF BeginBoot, RecordConfirmed, RecordTerminal, image
<1>5. /\ health' \in [pending: BOOLEAN, soak: 0 .. SoakTicks, confirm: BOOLEAN,
                      rollback: BOOLEAN]
      /\ health'.pending = health.pending \/ main.at = "confirmed"
  BY DEF BeginBoot, RecordConfirmed, RecordTerminal, OtaInv, TypeOK
<1>6. /\ main' \in [at: Places, result: {"none", "failed", "selected"}, tries: 0 .. 3]
      /\ main'.at # "restart" => main'.tries \in 0 .. 2
      /\ \/ main.at = "journal" /\ main'.at = "product"
         \/ main.at = "confirmed" /\ main'.at = "loop"
         \/ main.at = "record" /\ main'.at = "restart"
         \/ main.at = "record" /\ main'.at = "record"
  <2>1. CASE BeginBoot \/ RecordConfirmed
    BY <2>1 DEF BeginBoot, RecordConfirmed, Goes, OtaInv, TypeOK, Places, TriesAreThree
  <2>2. CASE RecordTerminal
    <3>1. CASE Goes("restart") /\ main.at = "record"
      BY <3>1 DEF Goes, OtaInv, TypeOK, Places
    <3>2. CASE /\ main.at = "record"
               /\ main' = [main EXCEPT !.tries = @ + 1,
                             !.at = IF main.tries = 2 THEN "restart" ELSE @]
      <4>1. main.tries \in 0 .. 2 /\ main.tries + 1 \in 0 .. 3
        BY <3>2 DEF OtaInv, TriesAreThree
      <4> QED
        <5>1. main \in [at: Places, result: {"none", "failed", "selected"}, tries: 0 .. 3]
              /\ {"restart", "record"} \subseteq Places
          BY DEF OtaInv, TypeOK, Places
        <5>2. CASE main.tries = 2
          BY <3>2, <4>1, <5>1, <5>2
        <5>3. CASE main.tries # 2
          <6>1. main.tries + 1 \in 0 .. 2
            BY <4>1, <5>3
          <6> QED
            BY <3>2, <4>1, <5>1, <5>3, <6>1
        <5> QED
          BY <5>2, <5>3
    <3> QED
      BY <2>2, <3>1, <3>2 DEF RecordTerminal
  <2> QED
    BY <2>1, <2>2
<1>7. TypeOK'
  BY <1>2, <1>3, <1>4, <1>5, <1>6 DEF OtaInv, TypeOK, JournalType
<1> QED
  BY <1>4, <1>5, <1>6, <1>7 DEF OtaInv, RunningHasFallback, TrialIsKnown, AttemptIsConfirmed,
     SelectionIsNew, ImageHasVersion, TriesAreThree, Attempting

LEMMA OwnerKeepsInv ==
  ASSUME OtaInv,
         Request \/ Take \/ Quiesce \/ BeginImage \/ FinishImage \/ SelectImage
  PROVE  OtaInv'
<1> DEFINE MainType == [at: Places, result: {"none", "failed", "selected"}, tries: 0 .. 3]
           OwnerType == [state: {"Idle", "Requested", "Running", "Acquiring", "Failed",
                                 "ImageSelected"}, request: 0 .. MaxRequests]
<1>1. main \in MainType /\ owner \in OwnerType /\ running \in Slot /\ Other(running) \in Slot
      /\ Other(running) # running /\ app \in [Slot -> Images]
  BY OtherSlot DEF OtaInv, TypeOK
<1>2. ASSUME NEW place \in Places, Goes(place)
      PROVE  main' \in MainType /\ main'.at = place /\ main'.tries = main.tries
  BY <1>1, <1>2 DEF Goes
<1>3. ASSUME Fails
      PROVE  /\ main' \in MainType /\ main'.at = "record" /\ main'.tries = main.tries
             /\ owner' \in OwnerType /\ owner'.state = "Failed"
             /\ owner'.request = owner.request
  BY <1>1, <1>3 DEF Fails, Places
<1>4. /\ slots' = slots /\ shown' = shown /\ health' = health /\ running' = running
  BY DEF Request, Take, Quiesce, BeginImage, FinishImage, SelectImage, image, journal
<1>5. {"quiesce", "acquire", "stream", "select", "record"} \subseteq Places
  BY DEF Places
<1> USE DEF OtaInv, RunningHasFallback, TrialIsKnown, AttemptIsConfirmed, SelectionIsNew,
    ImageHasVersion, TriesAreThree, Attempting
<1>6. CASE Request
  <2>1. /\ past.asked + 1 \in 1 .. MaxRequests
        /\ past' \in [asked: 0 .. MaxRequests, selected: SUBSET (0 .. MaxRequests),
                      confirmed: SUBSET (0 .. MaxRequests)]
    BY <1>6, OtaBounds DEF Request, TypeOK
  <2>2. /\ owner' \in OwnerType /\ owner'.request \in 1 .. MaxRequests
        /\ main.at = "loop"
        /\ UNCHANGED <<app, selected, main>>
    BY <1>6, <2>1, OtaBounds DEF Request, image
  <2>3. app[running].state = "Valid"
    BY <1>6 DEF Request, Allowed
  <2> QED
    BY <1>4, <2>1, <2>2, <2>3 DEF TypeOK
<1>7. CASE Take
  <2>1. /\ owner' \in OwnerType /\ owner'.state # "Idle" /\ owner.state # "Idle"
        /\ owner'.request = owner.request
        /\ Goes("quiesce") /\ UNCHANGED <<app, selected, past>> /\ main.at = "loop"
    BY <1>1, <1>7 DEF Take, image
  <2> QED
    BY <1>2, <1>4, <1>5, <2>1 DEF TypeOK
<1>8. ASSUME main.at \in {"quiesce", "acquire", "stream"}, Fails,
             UNCHANGED <<app, selected, past>>
      PROVE  OtaInv'
  BY <1>3, <1>4, <1>8 DEF TypeOK
<1>9. CASE Quiesce
  <2>1. CASE owner' = [owner EXCEPT !.state = "Acquiring"] /\ Goes("acquire")
    <3>1. owner' \in OwnerType /\ owner'.state # "Idle" /\ owner'.request = owner.request
      BY <1>1, <2>1
    <3> QED
      BY <1>2, <1>4, <1>5, <1>9, <2>1, <3>1 DEF Quiesce, image, TypeOK
  <2> QED
    BY <1>8, <1>9, <2>1 DEF Quiesce, image
<1>10. CASE BeginImage
  <2>1. ASSUME NEW v \in app[running].version + 1 .. MaxVersion,
               app' = [app EXCEPT ![Other(running)] =
                         [version |-> v, request |-> owner.request, state |-> "Partial"]],
               Goes("stream"), UNCHANGED owner
        PROVE  OtaInv'
    <3>1. v \in 0 .. MaxVersion /\ v # 0
      BY <1>1, <2>1, OtaBounds DEF Images
    <3>2. [version |-> v, request |-> owner.request, state |-> "Partial"] \in Images
      BY <1>1, <3>1 DEF Images
    <3>3. /\ app' \in [Slot -> Images] /\ app'[running] = app[running]
          /\ app'[Other(running)].version # 0
          /\ \A s \in Slot : app'[s].state # "Partial" => app'[s] = app[s]
      BY <1>1, <2>1, <3>1, <3>2
    <3>4. main.at = "acquire" /\ UNCHANGED <<selected, past>>
      BY <1>10 DEF BeginImage
    <3>5. selected = running
      BY <3>4
    <3>6. main' \in MainType /\ main'.at = "stream" /\ main'.tries = main.tries
      BY <1>2, <1>5, <2>1
    <3>7. TypeOK'
      BY <1>4, <2>1, <3>3, <3>4, <3>6 DEF TypeOK
    <3> QED
      BY <1>1, <1>4, <2>1, <3>3, <3>4, <3>5, <3>6, <3>7
  <2> QED
    BY <1>8, <1>10, <2>1 DEF BeginImage
<1>11. CASE FinishImage
  <2>1. CASE /\ app' = [app EXCEPT ![Other(running)].state = "Written"]
             /\ Goes("select") /\ UNCHANGED owner
    <3>1. /\ app' \in [Slot -> Images] /\ app'[running] = app[running]
          /\ \A s \in Slot : app'[s].version = app[s].version
          /\ \A s \in Slot : s = Other(running) \/ app'[s] = app[s]
      BY <1>1, <2>1 DEF Images
    <3>2. main.at = "stream" /\ UNCHANGED <<selected, past>>
      BY <1>11 DEF FinishImage
    <3>3. selected = running
      BY <3>2
    <3>4. main' \in MainType /\ main'.at = "select" /\ main'.tries = main.tries
      BY <1>2, <1>5, <2>1
    <3>5. TypeOK'
      BY <1>4, <2>1, <3>1, <3>2, <3>4 DEF TypeOK
    <3> QED
      BY <1>1, <1>4, <2>1, <3>1, <3>2, <3>3, <3>4, <3>5
  <2> QED
    BY <1>8, <1>11, <2>1 DEF FinishImage
<1>12. CASE SelectImage
  <2>1. main.at = "select" /\ selected = running
    BY <1>12 DEF SelectImage
  <2>2. /\ Chosen \in [Slot -> Images] /\ Chosen[running] = app[running]
        /\ Chosen[Other(running)].state = "New"
        /\ \A s \in Slot : Chosen[s].version = app[s].version
        /\ \A s \in Slot : s = Other(running) \/ Chosen[s] = app[s]
    BY <1>1 DEF Chosen, Images
  <2>3. /\ main' \in MainType /\ main'.at = "record" /\ main'.tries = main.tries
        /\ owner' \in OwnerType /\ owner'.state # "Idle" /\ owner'.request = owner.request
    BY <1>1, <1>3, <1>5, <1>12 DEF SelectImage
  <2>4. past' \in [asked: 0 .. MaxRequests, selected: SUBSET (0 .. MaxRequests),
                   confirmed: SUBSET (0 .. MaxRequests)]
    BY <1>1, <1>12 DEF SelectImage, TypeOK
  <2>5. \/ app' = Chosen /\ selected' = Other(running)
        \/ UNCHANGED <<app, selected>>
    BY <1>12 DEF SelectImage
  <2>6. TypeOK'
    BY <1>1, <1>4, <2>2, <2>3, <2>4, <2>5 DEF TypeOK
  <2>7. CASE app' = Chosen /\ selected' = Other(running)
    BY <1>1, <1>4, <2>1, <2>2, <2>3, <2>6, <2>7
  <2>8. CASE UNCHANGED <<app, selected>>
    BY <1>4, <2>1, <2>3, <2>6, <2>8
  <2> QED
    BY <2>5, <2>7, <2>8
<1> QED
  BY <1>6, <1>7, <1>9, <1>10, <1>11, <1>12

-----------------------------------------------------------------------------
(* The theorems *)

\* The inductive invariant of updates: which image may run, be selected, be on
\* trial, at each place of app_main().
THEOREM OtaInductive == Spec => []OtaInv
<1>1. ASSUME Init PROVE OtaInv
  <2>1. /\ app \in [Slot -> Images] /\ app[0].state = "Valid"
        /\ app[0].version = 1 /\ app[1].state = "Partial"
    BY <1>1, OtaBounds DEF Init, Slot, Images
  <2>2. /\ main.at = "start" /\ main.tries = 0
        /\ main \in [at: Places, result: {"none", "failed", "selected"}, tries: 0 .. 3]
    BY <1>1 DEF Init, At, Places
  <2>3. TypeOK
    <3>1. health \in [pending: BOOLEAN, soak: 0 .. SoakTicks, confirm: BOOLEAN,
                      rollback: BOOLEAN]
      BY <1>1, OtaBounds DEF Init, Fresh
    <3>2. owner.request \in 0 .. MaxRequests /\ past.asked \in 0 .. MaxRequests
      BY <1>1, OtaBounds DEF Init
    <3> QED
      BY <1>1, <2>1, <2>2, <3>1, <3>2 DEF Init, TypeOK, Slot
  <2> QED
    BY <1>1, <2>1, <2>2, <2>3 DEF Init, OtaInv, RunningHasFallback, TrialIsKnown,
       AttemptIsConfirmed, SelectionIsNew, ImageHasVersion, TriesAreThree, Attempting, Slot
<1>2. ASSUME OtaInv, [Next]_vars PROVE OtaInv'
  <2>1. CASE UNCHANGED vars
    BY <1>2, <2>1 DEF vars, image, journal, OtaInv, TypeOK, RunningHasFallback, TrialIsKnown,
       AttemptIsConfirmed, SelectionIsNew, ImageHasVersion, TriesAreThree
  <2> QED
    BY <1>2, <2>1, CutKeepsInv, GateKeepsInv, JournalKeepsInv, OwnerKeepsInv DEF Next, Main
<1> QED
  BY <1>1, <1>2, PTL DEF Spec

\* The types; above all, a journal record is of a request that was made and is
\* never older than kMaximumOtaOutcomeBootAge.
THEOREM OtaTypeCorrect == Spec => []TypeOK
BY OtaInductive, PTL DEF OtaInv

\* Wherever the power is cut and whichever flash call fails, there is a
\* confirmed image to start or to fall back to.
THEOREM FallbackKeptHolds == Spec => []FallbackKept
<1>1. OtaInv => FallbackKept
  BY SelectedHasFallback DEF OtaInv, RunningHasFallback, FallbackKept
<1> QED
  BY <1>1, OtaInductive, PTL

-----------------------------------------------------------------------------
(* The journal never goes back *)

\* A record lies in the slot of its sequence's parity, so that the next one is
\* written to the other slot.
Placed(j) == \A s \in Slot : j[s] \notin {None, Torn} => Place(j[s].seq) = s

LEMMA NextPlace == ASSUME NEW n \in Nat PROVE Place(n + 1) \in Slot /\ Place(n + 1) # Place(n)
BY DEF Place, Slot

LEMMA LatestIsHighest ==
  ASSUME NEW j \in JournalType, Records(j) # {}
  PROVE  Latest(j) \in Records(j) /\ \A q \in Records(j) : q.seq <= Latest(j).seq
<1>1. Records(j) \subseteq OutcomeRecord
  BY DEF Records, JournalType
<1>2. Records(j) \subseteq {j[0], j[1]}
  BY DEF Records, Slot
<1>3. \A r \in Records(j) : r.seq \in Nat
  BY <1>1 DEF OutcomeRecord
<1>4. \E r \in Records(j) : \A q \in Records(j) : q.seq <= r.seq
  BY <1>2, <1>3
<1> QED
  BY <1>4 DEF Latest

\* A journal that still holds the record that was the latest has not gone back.
LEMMA HoldsLatest ==
  ASSUME NEW k \in JournalType, NEW r \in Records(k)
  PROVE  Latest(k) # None /\ Latest(k).seq >= r.seq
<1>1. Latest(k) \in Records(k) /\ r.seq <= Latest(k).seq
  BY LatestIsHighest
<1>2. Latest(k).seq \in Nat /\ r.seq \in Nat
  BY <1>1 DEF Records, JournalType, OutcomeRecord
<1> QED
  BY <1>1, <1>2 DEF Records

\* A commit, even a torn one, writes the slot that the latest record is not in.
LEMMA CommitKeepsLatest ==
  ASSUME NEW j \in JournalType, Placed(j), NEW r \in OutcomeRecord,
         Latest(j) # None => r.seq = Latest(j).seq,
         NEW k \in Commits(j, r) \cup {Committed(j, r)}
  PROVE  Placed(k) /\ (Latest(j) # None => Latest(j) \in Records(k))
<1>1. r.seq \in Nat /\ r.seq + 1 \in Nat
  BY DEF OutcomeRecord
<1>2. Place(r.seq + 1) \in Slot /\ Place(r.seq + 1) # Place(r.seq)
  BY <1>1, NextPlace
<1>3. [r EXCEPT !.seq = @ + 1].seq = r.seq + 1
  BY DEF OutcomeRecord
<1>4. k \in {j, [j EXCEPT ![Place(r.seq + 1)] = Torn],
            [j EXCEPT ![Place(r.seq + 1)] = [r EXCEPT !.seq = @ + 1]]}
  BY DEF Commits, Committed
<1>5. Placed(k)
  <2> DEFINE p == Place(r.seq + 1)
             next == [r EXCEPT !.seq = @ + 1]
  <2>1. p \in Slot /\ Place(next.seq) = p
    BY <1>2, <1>3
  <2> HIDE DEF p, next
  <2>2. k \in {j, [j EXCEPT ![p] = Torn], [j EXCEPT ![p] = next]}
    BY <1>4 DEF p, next
  <2>3. \A s \in Slot : k[s] = j[s] \/ k[s] = Torn \/ (s = p /\ k[s] = next)
    BY <2>1, <2>2 DEF JournalType
  <2> QED
    BY <2>1, <2>3 DEF Placed
<1>6. ASSUME Latest(j) # None PROVE Latest(j) \in Records(k)
  <2>1. Latest(j) \in Records(j)
    BY <1>6, LatestIsHighest DEF Latest
  <2>2. PICK s \in Slot : j[s] = Latest(j) /\ j[s] \notin {None, Torn}
    BY <2>1 DEF Records
  <2>3. s = Place(r.seq)
    BY <1>6, <2>2 DEF Placed
  <2>4. k[s] = j[s]
    BY <1>2, <1>4, <2>3 DEF JournalType
  <2> QED
    BY <2>2, <2>4 DEF Records
<1> QED
  BY <1>5, <1>6

LEMMA ClearIsPlaced ==
  ASSUME NEW j \in JournalType, Placed(j), NEW k \in Clears(j) \cup {Cleared}
  PROVE  Placed(k)
BY DEF Clears, Cleared, Placed, JournalType, Slot

\* Each of the three operations, whole or torn.
LEMMA WriteKeepsLatest ==
  ASSUME OtaInv, Journalling, Placed(slots), NEW k \in Writes(slots) \cup {Write(slots)}
  PROVE  /\ Placed(k)
         /\ Latest(slots) # None /\ Latest(slots).age < MaxBootAge =>
              Latest(slots) \in Records(k)
<1>1. slots \in JournalType
  BY DEF OtaInv, TypeOK, JournalType
<1>2. CASE main.at = "record"
  <2>1. TerminalRecord(slots) \in OutcomeRecord
    BY <1>2, TerminalIsRecord
  <2>2. TerminalRecord(slots).seq = PriorSequence(slots)
    BY DEF TerminalRecord
  <2>3. k \in Terminals(slots) \cup {Terminal(slots)}
    BY <1>2 DEF Write, Writes
  <2>4. CASE Corrupt(slots)
    <3>1. Latest(slots) = None
      BY <2>4 DEF Corrupt, Latest
    <3>2. Cleared \in JournalType /\ Placed(Cleared) /\ Latest(Cleared) = None
      BY <1>1, ClearKeepsType DEF Placed, Cleared, Latest, Records
    <3>3. Placed(k)
      BY <1>1, <2>1, <2>3, <2>4, <3>2, ClearIsPlaced, CommitKeepsLatest
      DEF Terminals, Terminal
    <3> QED
      BY <3>1, <3>3
  <2>5. CASE ~Corrupt(slots)
    <3>1. Latest(slots) # None => TerminalRecord(slots).seq = Latest(slots).seq
      BY <2>2 DEF PriorSequence
    <3>2. k \in Commits(slots, TerminalRecord(slots)) \cup {Committed(slots, TerminalRecord(slots))}
      BY <2>3, <2>5 DEF Terminals, Terminal
    <3> QED
      BY <1>1, <2>1, <3>1, <3>2, CommitKeepsLatest
  <2> QED
    BY <2>4, <2>5
<1>3. CASE main.at = "journal"
  <2>1. k \in Ageings(slots) \cup {Aged(slots)}
    BY <1>3 DEF Write, Writes
  <2>2. CASE Expired(slots)
    <3>1. Placed(k)
      BY <1>1, <2>1, <2>2, ClearIsPlaced DEF Ageings, Aged
    <3>2. ~(Latest(slots) # None /\ Latest(slots).age < MaxBootAge)
      BY <1>1, <2>2, LatestIsRecord, OtaBounds DEF Expired, TooOld, OutcomeRecord
    <3> QED
      BY <3>1, <3>2
  <2>3. CASE ~Expired(slots)
    <3>1. /\ Latest(slots) \in OutcomeRecord
          /\ AgedRecord(Latest(slots)) \in OutcomeRecord
          /\ AgedRecord(Latest(slots)).seq = Latest(slots).seq
      <4>1. Latest(slots) \in OutcomeRecord
        BY <1>1, <2>3, LatestIsRecord DEF Expired
      <4> QED
        BY <2>3, <4>1, AgedIsRecord DEF Expired, AgedRecord, OutcomeRecord
    <3>2. k \in Commits(slots, AgedRecord(Latest(slots)))
                 \cup {Committed(slots, AgedRecord(Latest(slots)))}
      BY <2>1, <2>3 DEF Ageings, Aged
    <3> QED
      BY <1>1, <3>1, <3>2, CommitKeepsLatest
  <2> QED
    BY <2>2, <2>3
<1>4. CASE main.at = "confirmed"
  <2>1. k \in Confirmations(slots) \cup {Confirmation(slots)}
    BY <1>4 DEF Write, Writes
  <2>2. CASE ~Selects(slots)
    <3>1. k = slots
      BY <2>1, <2>2 DEF Confirmations, Confirmation
    <3>2. Latest(slots) # None => Latest(slots) \in Records(slots)
      BY <1>1, LatestIsHighest DEF Latest
    <3> QED
      BY <3>1, <3>2
  <2>3. CASE Selects(slots)
    <3>1. /\ AsConfirmed(slots) \in OutcomeRecord
          /\ AsConfirmed(slots).seq = Latest(slots).seq
      BY <1>1, <2>3, LatestIsRecord DEF Selects, AsConfirmed, OutcomeRecord
    <3>2. k \in Commits(slots, AsConfirmed(slots)) \cup {Committed(slots, AsConfirmed(slots))}
      BY <2>1, <2>3 DEF Confirmations, Confirmation
    <3> QED
      BY <1>1, <3>1, <3>2, CommitKeepsLatest
  <2> QED
    BY <2>2, <2>3
<1> QED
  BY <1>2, <1>3, <1>4 DEF Journalling

LEMMA StepKeepsLatest ==
  ASSUME OtaInv, Placed(slots), [Next]_vars
  PROVE  /\ Placed(slots')
         /\ Latest(slots) # None /\ Latest(slots).age < MaxBootAge =>
              Latest(slots) \in Records(slots')
<1>1. CASE slots' = slots
  <2>1. Latest(slots) # None => Latest(slots) \in Records(slots)
    BY LatestIsHighest DEF Latest, OtaInv, TypeOK, JournalType
  <2> QED
    BY <1>1, <2>1
<1>2. CASE Journalling /\ slots' \in Writes(slots) \cup {Write(slots)}
  BY <1>2, WriteKeepsLatest
<1>3. CASE BeginBoot \/ RecordConfirmed \/ RecordTerminal \/ PowerCut
  BY <1>1, <1>2, <1>3 DEF BeginBoot, RecordConfirmed, RecordTerminal, PowerCut, Journalling
<1>4. CASE FirstTick \/ StagePasses \/ StageFails \/ DeadlinePasses
  BY <1>1, <1>4 DEF FirstTick, StagePasses, StageFails, DeadlinePasses, RollBack, journal
<1>5. CASE TickOverdue \/ TickFatal \/ TickSoaks \/ TickConfirms \/ TickFindsConfirmed
  BY <1>1, <1>5 DEF TickOverdue, TickFatal, TickSoaks, TickConfirms, TickFindsConfirmed,
     RollBack, journal
<1>6. CASE Request \/ Take \/ Quiesce \/ BeginImage \/ FinishImage \/ SelectImage \/ Restart
  BY <1>1, <1>6 DEF Request, Take, Quiesce, BeginImage, FinishImage, SelectImage, Restart,
     journal
<1>7. CASE UNCHANGED vars
  BY <1>1, <1>7 DEF vars, journal
<1> QED
  BY <1>3, <1>4, <1>5, <1>6, <1>7 DEF Next, Main

\* Neither a power cut nor a failing flash call, at whatever point of a journal
\* write, takes back a record that has not expired: commit() writes the slot the
\* latest record is not in.
THEOREM NeverRewoundHolds == Spec => NeverRewound
<1>1. Init => Placed(slots)
  BY DEF Init, Placed
<1>2. OtaInv /\ Placed(slots) /\ [Next]_vars => Placed(slots')
  BY StepKeepsLatest
<1>3. Placed(slots)' <=> Placed(slots')
  BY DEF Placed
<1>4. ASSUME OtaInv, OtaInv', Placed(slots), [Next]_vars,
             Latest(slots) # None, Latest(slots).age < MaxBootAge
      PROVE  Latest(slots') # None /\ Latest(slots').seq >= Latest(slots).seq
  BY <1>4, StepKeepsLatest, HoldsLatest DEF OtaInv, TypeOK, JournalType
<1>5. OtaInv /\ OtaInv' /\ Placed(slots) /\ [Next]_vars =>
        [Latest(slots) # None /\ Latest(slots).age < MaxBootAge =>
           Latest(slots') # None /\ Latest(slots').seq >= Latest(slots).seq]_vars
  BY <1>4
<1> QED
  BY <1>1, <1>2, <1>3, <1>5, OtaInductive, PTL DEF Spec, NeverRewound

-----------------------------------------------------------------------------
(* What the outcomes say *)

\* A selected image of which nothing more is recorded yet.
Open(r) == r.kind = "ImageSelected"

\* The records in the journal and on the screen.
Known == (Records(slots) \cup {shown}) \ {None}

\* What a record says is so.
Truthful(r) ==
  /\ r.kind = "Confirmed" => r.request \in past.confirmed
  /\ r.kind = "RollbackObserved" => r.request \in past.selected \ past.confirmed
  /\ r.kind = "ImageSelected" => r.request \in past.selected
  /\ r.kind = "AcquisitionFailed" => r.request \notin past.selected

\* The slot that runs if the image on trial is given up.
Home == IF Pending THEN Other(running) ELSE running

\* The places at which an attempt's result is known.
Attempted == {"record", "restart"}

\* An attempt is for a request of which nothing is recorded and nothing selected
\* before its end.
RequestsDiffer ==
  /\ past.confirmed \subseteq past.selected
  /\ \A q \in past.selected : q <= past.asked
  /\ \A r \in Known : r.request <= past.asked
  /\ owner.state # "Idle" =>
       /\ owner.request = past.asked
       /\ owner.request \notin past.confirmed
       /\ main.at # "restart" => \A r \in Known : r.request # owner.request
       /\ main.at \notin Attempted => owner.request \notin past.selected
       /\ main.at \in Attempted => (main.result = "selected" <=> owner.request \in past.selected)
  /\ main.tries = 0

\* The image of an attempt, and then the one on trial, is newer than the one that
\* made it.
ImagesAhead ==
  /\ app[running].state \in {"Valid", "Pending"}
  /\ main.at \in {"stream", "select"} =>
       /\ app[Other(running)].request = owner.request
       /\ app[Other(running)].version > app[running].version
  /\ selected # running =>
       /\ main.result = "selected"
       /\ app[selected].request = owner.request
       /\ app[selected].version > app[running].version
  /\ Pending =>
       /\ app[running].version > app[Other(running)].version
       /\ app[running].request \in past.selected \ past.confirmed

\* Of an image that has not been tried, nothing but its selection is known.
TrialIsOpen ==
  /\ Pending => \A r \in Known : r.request = app[running].request => Open(r)
  /\ selected # running => \A r \in Known : r.request = owner.request => Open(r)

\* ota_pending is what it was read from.
PendingIsRead ==
  main.at \notin {"start", "confirmed"} => (health.pending <=> Pending)

\* A boot without a trial tells from the running version what a selected image
\* came to, even if it reads the older of the journal's records.
OpenResolves ==
  /\ \A r \in Records(slots) : Open(r) =>
       (app[Home].version = r.source <=> r.request \notin past.confirmed)
  /\ Pending /\ main.at \in {"product", "loop"} =>
       \A r \in Records(slots) : Open(r) => r.request = app[running].request
  /\ main.at = "confirmed" =>
       \A r \in Records(slots) : Open(r) => r.request \in past.confirmed

\* No attempt starts before the one before it is resolved.
LatestResolved ==
  Latest(slots) # None /\ Open(Latest(slots)) =>
    /\ Pending /\ main.at \in {"start", "stages", "journal"} =>
         Latest(slots).request = app[running].request
    /\ main.at = "restart" => Latest(slots).request = owner.request
    /\ ~Pending => main.at \notin {"product", "loop", "quiesce", "acquire", "stream", "select",
                                   "record"}

\* The outcomes, as long as no flash call has failed.
OutcomesTold ==
  /\ \A r \in Known : Truthful(r)
  /\ RequestsDiffer
  /\ ImagesAhead
  /\ TrialIsOpen
  /\ PendingIsRead
  /\ OpenResolves
  /\ LatestResolved

-----------------------------------------------------------------------------
(* The records a journal operation leaves *)

\* The same outcome, whatever the sequence and the age.
Same(q, r) == q.kind = r.kind /\ q.request = r.request /\ q.source = r.source

\* What a commit of r to j, whole, torn or not begun, may leave in k.
CommitLeaves(j, r, k) ==
  /\ \A q \in Records(k) : q \in Records(j) \/ Same(q, r)
  /\ Latest(k) = Latest(j) \/ Same(Latest(k), r)

LEMMA CommittedRecords ==
  ASSUME NEW j \in JournalType, Placed(j), NEW r \in OutcomeRecord,
         Latest(j) # None => r.seq = Latest(j).seq
  PROVE  /\ Latest(Committed(j, r)) # None /\ Same(Latest(Committed(j, r)), r)
         /\ \A q \in Records(Committed(j, r)) :
              (q = Latest(j) /\ Latest(j) # None) \/ Same(q, r)
<1> DEFINE p == Place(r.seq + 1)
           new == [r EXCEPT !.seq = @ + 1]
           k == Committed(j, r)
<1>1. r.seq \in Nat /\ p \in Slot /\ p # Place(r.seq) /\ Place(r.seq) \in Slot
  BY NextPlace, PlaceIsSlot DEF OutcomeRecord
<1>2. new \in OutcomeRecord /\ new.seq = r.seq + 1 /\ Same(new, r)
  BY DEF OutcomeRecord, Same
<1>3. k = [j EXCEPT ![p] = new] /\ k \in JournalType
  BY CommitKeepsType DEF Committed
<1>4. new \notin {None, Torn}
  BY <1>2, JournalMarks
<1> HIDE DEF p, new, k
<1>5. new \in Records(k)
  BY <1>1, <1>3, <1>4 DEF Records, JournalType
<1>6. \A q \in Records(k) : q = new \/ (q \in Records(j) /\ q = j[Place(r.seq)])
  <2>1. \A s \in Slot : s = p \/ s = Place(r.seq)
    BY <1>1 DEF Slot
  <2> QED
    BY <1>1, <1>3, <2>1 DEF Records, JournalType
<1>7. \A q \in Records(j) : Latest(j) # None /\ (q = j[Place(r.seq)] => q = Latest(j))
  <2>1. ASSUME NEW q \in Records(j) PROVE Latest(j) # None /\ Latest(j) \in Records(j)
    BY <2>1, LatestIsHighest DEF Records
  <2>2. ASSUME NEW q \in Records(j), q = j[Place(r.seq)] PROVE q = Latest(j)
    <3>1. PICK s \in Slot : j[s] = Latest(j) /\ j[s] \notin {None, Torn}
      BY <2>1 DEF Records
    <3>2. s = Place(r.seq)
      BY <2>1, <3>1 DEF Placed
    <3> QED
      BY <2>2, <3>1, <3>2
  <2> QED
    BY <2>1, <2>2
<1>8. \A q \in Records(k) : (q = Latest(j) /\ Latest(j) # None) \/ q = new
  BY <1>6, <1>7
<1>9. Latest(k) = new
  <2>1. Latest(k) \in Records(k) /\ new.seq <= Latest(k).seq
    BY <1>3, <1>5, LatestIsHighest
  <2>2. Latest(j) # None => Latest(j).seq = r.seq
    OBVIOUS
  <2> QED
    BY <1>1, <1>2, <1>8, <2>1, <2>2
<1> QED
  BY <1>2, <1>4, <1>8, <1>9 DEF k

LEMMA CommitRecords ==
  ASSUME NEW j \in JournalType, Placed(j), NEW r \in OutcomeRecord,
         Latest(j) # None => r.seq = Latest(j).seq,
         NEW k \in Commits(j, r) \cup {Committed(j, r)}
  PROVE  CommitLeaves(j, r, k)
<1> DEFINE p == Place(r.seq + 1)
<1>1. r.seq \in Nat /\ p \in Slot
  BY PlaceIsSlot DEF OutcomeRecord
<1>2. CASE k = j
  BY <1>2 DEF CommitLeaves
<1>3. CASE k = Committed(j, r)
  <2>1. Latest(j) # None => Latest(j) \in Records(j)
    BY LatestIsHighest DEF Latest
  <2> QED
    BY <1>3, <2>1, CommittedRecords DEF CommitLeaves
<1>4. CASE k = [j EXCEPT ![p] = Torn]
  <2>1. k \in JournalType
    BY <1>1, <1>4 DEF JournalType
  <2>2. Records(k) \subseteq Records(j)
    BY <1>1, <1>4 DEF Records, JournalType
  <2>3. Latest(k) = Latest(j)
    <3>1. CASE Latest(j) = None
      <4>1. Records(j) = {}
        BY <3>1, LatestIsHighest DEF Records
      <4> QED
        BY <2>2, <3>1, <4>1 DEF Latest
    <3>2. CASE Latest(j) # None
      <4>1. Latest(j) \in Records(k)
        BY <3>2, CommitKeepsLatest, <1>4 DEF Commits
      <4>2. Latest(k) \in Records(k) /\ Latest(j).seq <= Latest(k).seq
        BY <2>1, <4>1, LatestIsHighest
      <4>3. Latest(k).seq <= Latest(j).seq /\ Latest(k) \in Records(j) /\ Latest(j) \in Records(j)
        BY <2>2, <4>1, <4>2, LatestIsHighest
      <4>4. Latest(k).seq = Latest(j).seq
        BY <4>2, <4>3 DEF Records, JournalType, OutcomeRecord
      <4>5. \A s \in Slot, t \in Slot : j[s] \in Records(j) /\ j[t] \in Records(j) /\ j[s].seq = j[t].seq
              => s = t
        BY DEF Placed, Records
      <4> QED
        BY <4>3, <4>4, <4>5 DEF Records
    <3> QED
      BY <3>1, <3>2
  <2> QED
    BY <2>2, <2>3 DEF CommitLeaves
<1> QED
  BY <1>2, <1>3, <1>4 DEF Commits

LEMMA ClearRecords ==
  ASSUME NEW j \in JournalType, NEW k \in Clears(j) \cup {Cleared}
  PROVE  Records(k) \subseteq Records(j)
BY DEF Clears, Cleared, Records, JournalType, Slot

LEMMA ClearedIsEmpty == Records(Cleared) = {} /\ Latest(Cleared) = None
BY DEF Records, Cleared, Latest

\* What recordTerminal() leaves.
LEMMA TerminalRecords ==
  ASSUME OtaInv, Placed(slots), main.at = "record",
         NEW k \in Writes(slots) \cup {Write(slots)}
  PROVE  /\ \A q \in Records(k) : q \in Records(slots) \/ Same(q, TerminalRecord(slots))
         /\ Latest(k) \in {None, Latest(slots)} \/ Same(Latest(k), TerminalRecord(slots))
         /\ k = Write(slots) => Same(Latest(k), TerminalRecord(slots))
<1> DEFINE r == TerminalRecord(slots)
<1>1. slots \in JournalType /\ r \in OutcomeRecord
  BY TerminalIsRecord DEF OtaInv, TypeOK, JournalType
<1>2. Latest(slots) # None => r.seq = Latest(slots).seq
  BY DEF TerminalRecord, PriorSequence
<1>3. k \in Terminals(slots) \cup {Terminal(slots)} /\ Write(slots) = Terminal(slots)
  BY DEF Write, Writes
<1> HIDE DEF r
<1>4. CASE Corrupt(slots)
  <2>1. Latest(slots) = None
    BY <1>4 DEF Corrupt, Latest
  <2>2. Cleared \in JournalType /\ Placed(Cleared) /\ Latest(Cleared) = None
    BY <1>1, ClearKeepsType, ClearedIsEmpty DEF Placed, Cleared
  <2>3. Records(slots) = {} /\ Records(Cleared) = {}
    BY <1>4, ClearedIsEmpty DEF Corrupt
  <2>4. ASSUME k \in Clears(slots)
        PROVE  Records(k) = {} /\ Latest(k) = None
    BY <1>1, <2>3, <2>4, ClearRecords DEF Latest
  <2>5. ASSUME k \in Commits(Cleared, r) \cup {Committed(Cleared, r)}
        PROVE  CommitLeaves(Cleared, r, k)
    BY <1>1, <2>2, <2>5, CommitRecords
  <2>6. Same(Latest(Committed(Cleared, r)), r)
    BY <1>1, <2>2, CommittedRecords
  <2>7. Terminal(slots) = Committed(Cleared, r)
        /\ Terminals(slots) = Clears(slots) \cup Commits(Cleared, r)
    BY <1>4 DEF Terminal, Terminals, r
  <2>8. /\ \A q \in Records(k) : q \in Records(slots) \/ Same(q, r)
        /\ Latest(k) \in {None, Latest(slots)} \/ Same(Latest(k), r)
    BY <1>3, <2>2, <2>3, <2>4, <2>5, <2>7 DEF CommitLeaves
  <2> QED
    BY <1>3, <2>6, <2>7, <2>8 DEF r
<1>5. CASE ~Corrupt(slots)
  <2>1. Terminal(slots) = Committed(slots, r) /\ Terminals(slots) = Commits(slots, r)
    BY <1>5 DEF Terminal, Terminals, r
  <2>2. CommitLeaves(slots, r, k)
    BY <1>1, <1>2, <1>3, <2>1, CommitRecords
  <2>3. Same(Latest(Committed(slots, r)), r)
    BY <1>1, <1>2, CommittedRecords
  <2> QED
    BY <1>3, <2>1, <2>2, <2>3 DEF CommitLeaves, r
<1> QED
  BY <1>4, <1>5

\* What beginBoot() leaves.
LEMMA AgedRecords ==
  ASSUME OtaInv, Placed(slots), main.at = "journal",
         NEW k \in Writes(slots) \cup {Write(slots)}
  PROVE  /\ \A q \in Records(k) :
              \/ q \in Records(slots)
              \/ Latest(slots) # None /\ Same(q, AgedRecord(Latest(slots)))
         /\ k = Write(slots) =>
              /\ \A q \in Records(k) :
                   Latest(slots) # None /\ (q = Latest(slots) \/ Same(q, AgedRecord(Latest(slots))))
              /\ \/ Latest(k) = None
                 \/ Latest(slots) # None /\ Same(Latest(k), AgedRecord(Latest(slots)))
<1>1. slots \in JournalType
  BY DEF OtaInv, TypeOK, JournalType
<1>2. k \in Ageings(slots) \cup {Aged(slots)} /\ Write(slots) = Aged(slots)
  BY DEF Write, Writes
<1>3. CASE Expired(slots)
  <2>1. Aged(slots) = Cleared /\ Ageings(slots) = Clears(slots)
    BY <1>3 DEF Aged, Ageings
  <2>2. Records(k) \subseteq Records(slots)
    BY <1>1, <1>2, <2>1, ClearRecords
  <2>3. k = Write(slots) => Records(k) = {} /\ Latest(k) = None
    BY <1>2, <2>1, ClearedIsEmpty
  <2> QED
    BY <2>2, <2>3
<1>4. CASE ~Expired(slots)
  <2> DEFINE r == AgedRecord(Latest(slots))
  <2>1. Latest(slots) # None /\ Latest(slots) \in OutcomeRecord /\ ~TooOld(Latest(slots))
    BY <1>1, <1>4, LatestIsRecord DEF Expired
  <2>2. r \in OutcomeRecord /\ r.seq = Latest(slots).seq
    BY <2>1, AgedIsRecord DEF AgedRecord, OutcomeRecord
  <2>3. Aged(slots) = Committed(slots, r) /\ Ageings(slots) = Commits(slots, r)
    BY <1>4 DEF Aged, Ageings
  <2> HIDE DEF r
  <2>4. CommitLeaves(slots, r, k)
    BY <1>1, <1>2, <2>2, <2>3, CommitRecords
  <2>5. /\ Same(Latest(Committed(slots, r)), r)
        /\ \A q \in Records(Committed(slots, r)) : q = Latest(slots) \/ Same(q, r)
    BY <1>1, <2>2, CommittedRecords
  <2> QED
    BY <1>2, <2>1, <2>3, <2>4, <2>5 DEF CommitLeaves, r
<1> QED
  BY <1>3, <1>4

\* What recordConfirmed() leaves.
LEMMA ConfirmedRecords ==
  ASSUME OtaInv, Placed(slots), main.at = "confirmed",
         NEW k \in Writes(slots) \cup {Write(slots)}
  PROVE  /\ \A q \in Records(k) :
              q \in Records(slots) \/ (Selects(slots) /\ Same(q, AsConfirmed(slots)))
         /\ k = Write(slots) /\ Latest(k) # None => ~Open(Latest(k))
<1>1. slots \in JournalType
  BY DEF OtaInv, TypeOK, JournalType
<1>2. k \in Confirmations(slots) \cup {Confirmation(slots)} /\ Write(slots) = Confirmation(slots)
  BY DEF Write, Writes
<1>3. CASE ~Selects(slots)
  BY <1>2, <1>3 DEF Confirmations, Confirmation, Selects, Open
<1>4. CASE Selects(slots)
  <2> DEFINE r == AsConfirmed(slots)
  <2>1. r \in OutcomeRecord /\ r.seq = Latest(slots).seq /\ r.kind = "Confirmed"
    BY <1>1, <1>4, LatestIsRecord DEF Selects, AsConfirmed, OutcomeRecord
  <2>2. Confirmation(slots) = Committed(slots, r) /\ Confirmations(slots) = Commits(slots, r)
    BY <1>4 DEF Confirmation, Confirmations
  <2> HIDE DEF r
  <2>3. CommitLeaves(slots, r, k) /\ Same(Latest(Committed(slots, r)), r)
    BY <1>1, <1>2, <2>1, <2>2, CommitRecords, CommittedRecords
  <2> QED
    BY <1>2, <1>4, <2>1, <2>2, <2>3 DEF CommitLeaves, Open, Same, r
<1> QED
  BY <1>3, <1>4

-----------------------------------------------------------------------------
(* The steps that leave the journal alone *)

\* Where app_main() goes without an outcome changing.
Onward == {<<"start", "stages">>, <<"stages", "journal">>, <<"product", "loop">>,
           <<"stages", "recovery">>, <<"product", "recovery">>, <<"loop", "quiesce">>,
           <<"quiesce", "acquire">>}

LEMMA MovesTellOutcomes ==
  ASSUME OtaInv, OutcomesTold, UNCHANGED <<app, selected, running, slots, shown, past>>,
         main'.result = main.result, main'.tries = main.tries,
         owner'.request = owner.request, owner'.state = "Idle" <=> owner.state = "Idle",
         main'.at = main.at \/ <<main.at, main'.at>> \in Onward,
         \/ health'.pending = health.pending /\ main.at # "start"
         \/ health'.pending = Pending
  PROVE  OutcomesTold'
<1>1. Known' = Known /\ Pending' = Pending /\ Home' = Home
  BY DEF Known, Pending, Home
<1>2. \A r : Truthful(r)' <=> Truthful(r)
  BY DEF Truthful
<1>3. (\A r \in Known : Truthful(r))'
  BY <1>1, <1>2 DEF OutcomesTold, Truthful
<1>4. RequestsDiffer'
  BY <1>1 DEF OutcomesTold, RequestsDiffer, Attempted, Onward
<1>5. ImagesAhead'
  BY <1>1 DEF OutcomesTold, ImagesAhead, Onward
<1>6. TrialIsOpen'
  BY <1>1 DEF OutcomesTold, TrialIsOpen, Open
<1>7. PendingIsRead'
  BY <1>1 DEF OutcomesTold, PendingIsRead, Onward
<1>8. OpenResolves'
  BY <1>1 DEF OutcomesTold, OpenResolves, Open, Onward
<1>9. LatestResolved'
  BY <1>1 DEF OutcomesTold, LatestResolved, Open, Onward
<1> QED
  BY <1>3, <1>4, <1>5, <1>6, <1>7, <1>8, <1>9 DEF OutcomesTold

LEMMA MainGoes ==
  ASSUME TypeOK, NEW place, Goes(place)
  PROVE  main'.at = place /\ main'.result = main.result /\ main'.tries = main.tries
BY DEF TypeOK, Goes

LEMMA BootTellsOutcomes ==
  ASSUME OtaInv, OutcomesTold, ~Faulty,
         \/ FirstTick /\ ~RollBack("stages")
         \/ StagePasses
         \/ StageFails /\ ~RollBack("recovery")
         \/ DeadlinePasses \/ TickSoaks
  PROVE  OutcomesTold'
<1>0. TypeOK
  BY DEF OtaInv
<1> USE DEF image, journal, Onward
<1>1. CASE FirstTick /\ ~RollBack("stages")
  <2>1. /\ main.at = "start" /\ health' = [Fresh EXCEPT !.pending = Pending] /\ Goes("stages")
        /\ UNCHANGED <<image, journal, owner, past>>
    BY <1>1 DEF FirstTick
  <2>2. health'.pending = Pending
    BY <2>1 DEF Fresh
  <2> QED
    BY <1>0, <2>1, <2>2, MainGoes, MovesTellOutcomes
<1>2. CASE StagePasses \/ (StageFails /\ ~RollBack("recovery"))
  <2>1. \E place : /\ Goes(place) /\ <<main.at, place>> \in Onward /\ main.at # "start"
                   /\ UNCHANGED <<image, journal, owner, health, past>>
    BY <1>2 DEF StagePasses, StageFails
  <2> QED
    BY <1>0, <2>1, MainGoes, MovesTellOutcomes
<1>3. CASE DeadlinePasses
  <2>1. UNCHANGED <<image, journal, owner, main, health, past>> /\ health.pending /\ Pending
    BY <1>3 DEF DeadlinePasses
  <2>2. main.at # "start" \/ health'.pending = Pending
    <3>1. health.pending \in BOOLEAN /\ Pending \in BOOLEAN
      BY <1>0 DEF TypeOK, Pending
    <3> QED
      BY <2>1, <3>1
  <2> QED
    BY <2>1, <2>2, MovesTellOutcomes
<1>4. CASE TickSoaks
  <2>1. /\ UNCHANGED <<image, journal, owner, main, past>> /\ health'.pending = health.pending
        /\ main.at = "loop"
    BY <1>0, <1>4 DEF TickSoaks, Trial, TypeOK
  <2> QED
    BY <2>1, MovesTellOutcomes
<1> QED
  BY <1>1, <1>2, <1>3, <1>4

\* An image is confirmed: what was known of its request was its selection, and
\* it is newer than the version each record would compare it with.
LEMMA ConfirmTellsOutcomes ==
  ASSUME OtaInv, OutcomesTold, ~Faulty, TickConfirms
  PROVE  OutcomesTold'
<1> DEFINE valid == [app EXCEPT ![running].state = "Valid"]
           q == app[running].request
<1>1. /\ running \in Slot /\ Other(running) \in Slot /\ Other(running) # running
      /\ app \in [Slot -> Images] /\ Pending /\ main.at = "loop" /\ health.pending
      /\ selected = running /\ owner.state = "Idle"
  BY OtherSlot DEF OtaInv, TypeOK, TickConfirms, Trial, RunningHasFallback, AttemptIsConfirmed,
     Pending
<1>2. /\ app' = valid /\ main'.at = "confirmed" /\ main'.tries = main.tries
      /\ UNCHANGED <<selected, running, slots, shown, owner>>
      /\ health'.pending = health.pending
      /\ past' = IF valid = app THEN past ELSE [past EXCEPT !.confirmed = @ \cup {q}]
  BY <1>1, MainGoes DEF TickConfirms, journal, OtaInv, TypeOK
<1>3. /\ valid[running].state = "Valid" /\ valid[running].request = q
      /\ \A s \in Slot : valid[s].version = app[s].version
      /\ valid # app
  BY <1>1 DEF Images, Pending
<1>4. /\ past'.confirmed = past.confirmed \cup {q}
      /\ past'.selected = past.selected /\ past'.asked = past.asked
  BY <1>2, <1>3 DEF OtaInv, TypeOK
<1> HIDE DEF valid, q
<1>5. Known' = Known /\ ~Pending' /\ Home = Other(running) /\ Home' = running
  BY <1>1, <1>2, <1>3 DEF Known, Pending, Home
<1>6. \A r \in Known : r.request = q => Open(r)
  BY <1>1 DEF OutcomesTold, TrialIsOpen, q
<1>7. \A r \in Records(slots) : Open(r) => r.request = q
  BY <1>1 DEF OutcomesTold, OpenResolves, q
<1>8. (\A r \in Known : Truthful(r))'
  <2>1. ASSUME NEW r \in Known PROVE Truthful(r)'
    BY <1>4, <1>6, <2>1 DEF OutcomesTold, Truthful, Open
  <2> QED
    BY <1>5, <2>1 DEF Truthful
<1>9. RequestsDiffer'
  <2>1. q \in past.selected
    BY <1>1 DEF OutcomesTold, ImagesAhead, q
  <2> QED
    BY <1>1, <1>2, <1>4, <1>5, <2>1 DEF OutcomesTold, RequestsDiffer
<1>10. ImagesAhead' /\ TrialIsOpen' /\ PendingIsRead'
  BY <1>1, <1>2, <1>3, <1>5 DEF ImagesAhead, TrialIsOpen, PendingIsRead
<1>11. OpenResolves'
  <2>1. ASSUME NEW r \in Records(slots), Open(r)
        PROVE  r.request \in past'.confirmed /\ app'[running].version # r.source
    <3>1. r.request = q /\ q \notin past.confirmed
      BY <1>1, <1>7, <2>1 DEF OutcomesTold, ImagesAhead, q
    <3>2. app[Other(running)].version = r.source
      BY <1>5, <2>1, <3>1 DEF OutcomesTold, OpenResolves
    <3>3. app[running].version > app[Other(running)].version
      BY <1>1 DEF OutcomesTold, ImagesAhead
    <3>4. app[running].version # app[Other(running)].version
      BY <1>1, <3>3 DEF Images
    <3> QED
      BY <1>1, <1>2, <1>3, <1>4, <3>1, <3>2, <3>4
  <2> QED
    BY <1>2, <1>5, <2>1 DEF OpenResolves, Open
<1>12. LatestResolved'
  BY <1>2, <1>5 DEF LatestResolved
<1> QED
  BY <1>8, <1>9, <1>10, <1>11, <1>12 DEF OutcomesTold

LEMMA NoConfirmationFound ==
  ASSUME OutcomesTold, TickFindsConfirmed PROVE FALSE
BY DEF OutcomesTold, TickFindsConfirmed, PendingIsRead, Pending

-----------------------------------------------------------------------------
(* The steps of an attempt *)

LEMMA RequestTellsOutcomes ==
  ASSUME OtaInv, OutcomesTold, Request PROVE OutcomesTold'
<1>1. /\ main.at = "loop" /\ past.asked \in Nat
      /\ past' = [past EXCEPT !.asked = @ + 1]
      /\ owner' = [state |-> "Requested", request |-> past.asked + 1]
      /\ UNCHANGED <<app, selected, running, slots, shown, main, health>>
  BY OtaBounds DEF Request, OtaInv, TypeOK, image, journal
<1>2. /\ past'.asked = past.asked + 1 /\ past'.selected = past.selected
      /\ past'.confirmed = past.confirmed
  BY <1>1 DEF OtaInv, TypeOK
<1>3. Known' = Known /\ Pending' = Pending /\ Home' = Home
  BY <1>1 DEF Known, Pending, Home
<1>4. (\A r \in Known : Truthful(r))'
  BY <1>2, <1>3 DEF OutcomesTold, Truthful
<1>5. RequestsDiffer'
  <2>1. \A q \in past.selected : q <= past.asked + 1 /\ q # past.asked + 1
    BY <1>1 DEF OutcomesTold, RequestsDiffer, OtaInv, TypeOK
  <2>2. \A r \in Known : r.request <= past.asked + 1 /\ r.request # past.asked + 1
    <3>1. Known \subseteq OutcomeRecord
      BY DEF Known, Records, OtaInv, TypeOK
    <3>2. \A r \in Known : r.request \in Nat
      BY <3>1, OtaBounds DEF OutcomeRecord
    <3> QED
      BY <1>1, <3>2 DEF OutcomesTold, RequestsDiffer
  <2> QED
    BY <1>1, <1>2, <1>3, <2>1, <2>2 DEF OutcomesTold, RequestsDiffer, Attempted
<1>6. selected = running
  BY <1>1 DEF OtaInv, SelectionIsNew
<1>7. ImagesAhead' /\ TrialIsOpen' /\ PendingIsRead'
  BY <1>1, <1>2, <1>3, <1>6 DEF OutcomesTold, ImagesAhead, TrialIsOpen, PendingIsRead, Open
<1>8. OpenResolves' /\ LatestResolved'
  BY <1>1, <1>2, <1>3 DEF OutcomesTold, OpenResolves, LatestResolved, Open
<1> QED
  BY <1>4, <1>5, <1>7, <1>8 DEF OutcomesTold

\* The running image of an attempt is confirmed.
LEMMA AttemptIsSettled ==
  ASSUME OtaInv, owner.state # "Idle" PROVE ~Pending
BY DEF OtaInv, AttemptIsConfirmed, Pending

LEMMA FailTellsOutcomes ==
  ASSUME OtaInv, OutcomesTold, main.at \in {"quiesce", "acquire", "stream"}, Fails,
         UNCHANGED <<app, selected, running, slots, shown, past, health>>
  PROVE  OutcomesTold'
<1>1. /\ main'.at = "record" /\ main'.result = "failed" /\ main'.tries = main.tries
      /\ owner'.state = "Failed" /\ owner'.request = owner.request
  BY DEF Fails, OtaInv, TypeOK
<1>2. owner.state # "Idle" /\ selected = running /\ ~Pending
  BY AttemptIsSettled DEF OtaInv, AttemptIsConfirmed, Attempting, SelectionIsNew
<1>3. Known' = Known /\ Pending' = Pending /\ Home' = Home
  BY DEF Known, Pending, Home
<1>4. (\A r \in Known : Truthful(r))'
  BY <1>3 DEF OutcomesTold, Truthful
<1>5. RequestsDiffer'
  BY <1>1, <1>2, <1>3 DEF OutcomesTold, RequestsDiffer, Attempted
<1>6. ImagesAhead' /\ TrialIsOpen' /\ PendingIsRead'
  BY <1>1, <1>2, <1>3 DEF OutcomesTold, ImagesAhead, TrialIsOpen, PendingIsRead, Open
<1>7. OpenResolves' /\ LatestResolved'
  BY <1>1, <1>2, <1>3 DEF OutcomesTold, OpenResolves, LatestResolved, Open
<1> QED
  BY <1>4, <1>5, <1>6, <1>7 DEF OutcomesTold

\* The other slot's image is no concern of any record until it is selected.
LEMMA ImageTellsOutcomes ==
  ASSUME OtaInv, OutcomesTold, main.at \in {"acquire", "stream"},
         main'.at \in {"stream", "select"},
         main'.result = main.result, main'.tries = main.tries,
         app'[running] = app[running],
         app'[Other(running)].request = owner.request,
         app'[Other(running)].version > app[running].version,
         UNCHANGED <<selected, running, slots, shown, past, health, owner>>
  PROVE  OutcomesTold'
<1>1. owner.state # "Idle" /\ selected = running /\ ~Pending
  BY AttemptIsSettled DEF OtaInv, AttemptIsConfirmed, Attempting, SelectionIsNew
<1>2. Known' = Known /\ ~Pending' /\ Home' = running /\ Home = running
  BY <1>1 DEF Known, Pending, Home
<1>3. (\A r \in Known : Truthful(r))'
  BY <1>2 DEF OutcomesTold, Truthful
<1>4. RequestsDiffer'
  BY <1>2 DEF OutcomesTold, RequestsDiffer, Attempted
<1>5. ImagesAhead' /\ TrialIsOpen' /\ PendingIsRead'
  BY <1>1, <1>2 DEF OutcomesTold, ImagesAhead, TrialIsOpen, PendingIsRead, Open
<1>6. OpenResolves' /\ LatestResolved'
  BY <1>1, <1>2 DEF OutcomesTold, OpenResolves, LatestResolved, Open
<1> QED
  BY <1>3, <1>4, <1>5, <1>6 DEF OutcomesTold

LEMMA SelectTellsOutcomes ==
  ASSUME OtaInv, OutcomesTold, ~Faulty, SelectImage PROVE OutcomesTold'
<1>1. /\ running \in Slot /\ Other(running) \in Slot /\ Other(running) # running
      /\ app \in [Slot -> Images] /\ main.at = "select"
      /\ owner.state # "Idle" /\ selected = running /\ ~Pending
  BY AttemptIsSettled, OtherSlot DEF OtaInv, TypeOK, SelectImage, AttemptIsConfirmed, Attempting,
     SelectionIsNew
<1>2. /\ app' = Chosen /\ selected' = Other(running)
      /\ main'.at = "record" /\ main'.result = "selected" /\ main'.tries = main.tries
      /\ owner'.state # "Idle" /\ owner'.request = owner.request
      /\ past' = [past EXCEPT !.selected = @ \cup {owner.request}]
      /\ UNCHANGED <<running, slots, shown, health>>
  BY <1>1 DEF SelectImage, journal, OtaInv, TypeOK
<1>3. Chosen[running] = app[running]
      /\ \A s \in Slot : Chosen[s].version = app[s].version /\ Chosen[s].request = app[s].request
  BY <1>1 DEF Chosen, Images
<1>4. /\ past'.selected = past.selected \cup {owner.request}
      /\ past'.asked = past.asked /\ past'.confirmed = past.confirmed
  BY <1>2 DEF OtaInv, TypeOK
<1>5. Known' = Known /\ ~Pending' /\ Home' = running /\ Home = running
  BY <1>1, <1>2, <1>3 DEF Known, Pending, Home
<1>6. /\ \A r \in Known : r.request # owner.request
      /\ owner.request \notin past.confirmed /\ owner.request = past.asked
  BY <1>1 DEF OutcomesTold, RequestsDiffer
<1>7. (\A r \in Known : Truthful(r))'
  <2>1. ASSUME NEW r \in Known PROVE Truthful(r)'
    BY <1>4, <1>6, <2>1 DEF OutcomesTold, Truthful
  <2> QED
    BY <1>5, <2>1 DEF Truthful
<1>8. RequestsDiffer'
  <2>1. past.asked <= past.asked
    BY DEF OtaInv, TypeOK
  <2> QED
    BY <1>2, <1>4, <1>5, <1>6, <2>1 DEF OutcomesTold, RequestsDiffer, Attempted
<1>9. ImagesAhead'
  BY <1>1, <1>2, <1>3, <1>5 DEF OutcomesTold, ImagesAhead
<1>10. TrialIsOpen' /\ PendingIsRead'
  BY <1>1, <1>2, <1>5, <1>6 DEF OutcomesTold, TrialIsOpen, PendingIsRead
<1>11. OpenResolves' /\ LatestResolved'
  BY <1>1, <1>2, <1>3, <1>4, <1>5 DEF OutcomesTold, OpenResolves, LatestResolved, Open
<1> QED
  BY <1>7, <1>8, <1>9, <1>10, <1>11 DEF OutcomesTold

LEMMA AttemptTellsOutcomes ==
  ASSUME OtaInv, OutcomesTold, ~Faulty,
         Take \/ Quiesce \/ BeginImage \/ FinishImage
  PROVE  OutcomesTold'
<1>0. TypeOK /\ running \in Slot /\ Other(running) \in Slot /\ Other(running) # running
      /\ app \in [Slot -> Images]
  BY OtherSlot DEF OtaInv, TypeOK
<1> USE DEF image, journal
<1>1. CASE Take
  <2>1. /\ main.at = "loop" /\ Goes("quiesce") /\ UNCHANGED <<image, journal, health, past>>
        /\ owner'.request = owner.request /\ owner'.state # "Idle" /\ owner.state # "Idle"
    BY <1>0, <1>1 DEF Take, TypeOK
  <2> QED
    BY <1>0, <2>1, MainGoes, MovesTellOutcomes DEF Onward
<1>2. CASE Quiesce
  <2>1. CASE Fails
    BY <1>2, <2>1, FailTellsOutcomes DEF Quiesce
  <2>2. CASE owner' = [owner EXCEPT !.state = "Acquiring"] /\ Goes("acquire")
    <3>1. /\ main.at = "quiesce" /\ UNCHANGED <<image, journal, health, past>>
          /\ owner'.request = owner.request /\ owner'.state # "Idle" /\ owner.state # "Idle"
      BY <1>0, <1>2, <2>2 DEF Quiesce, TypeOK, OtaInv, AttemptIsConfirmed, Attempting
    <3> QED
      BY <1>0, <2>2, <3>1, MainGoes, MovesTellOutcomes DEF Onward
  <2> QED
    BY <1>2, <2>1, <2>2 DEF Quiesce
<1>3. CASE BeginImage
  <2>1. CASE Fails /\ UNCHANGED app
    BY <1>3, <2>1, FailTellsOutcomes DEF BeginImage
  <2>2. ASSUME NEW v \in app[running].version + 1 .. MaxVersion,
               app' = [app EXCEPT ![Other(running)] =
                         [version |-> v, request |-> owner.request, state |-> "Partial"]],
               Goes("stream"), UNCHANGED owner
        PROVE  OutcomesTold'
    <3>1. v > app[running].version
      BY <1>0, <2>2, OtaBounds DEF Images
    <3>2. /\ app'[running] = app[running] /\ app'[Other(running)].request = owner.request
          /\ app'[Other(running)].version > app[running].version
      BY <1>0, <2>2, <3>1
    <3> QED
      BY <1>0, <1>3, <2>2, <3>2, MainGoes, ImageTellsOutcomes DEF BeginImage
  <2> QED
    BY <1>3, <2>1, <2>2 DEF BeginImage
<1>4. CASE FinishImage
  <2>1. CASE Fails /\ UNCHANGED app
    BY <1>4, <2>1, FailTellsOutcomes DEF FinishImage
  <2>2. CASE /\ app' = [app EXCEPT ![Other(running)].state = "Written"]
             /\ Goes("select") /\ UNCHANGED owner
    <3>1. /\ app'[running] = app[running]
          /\ app'[Other(running)].request = app[Other(running)].request
          /\ app'[Other(running)].version = app[Other(running)].version
      BY <1>0, <2>2 DEF Images
    <3>2. /\ app[Other(running)].request = owner.request
          /\ app[Other(running)].version > app[running].version
      BY <1>4 DEF FinishImage, OutcomesTold, ImagesAhead
    <3> QED
      BY <1>0, <1>4, <2>2, <3>1, <3>2, MainGoes, ImageTellsOutcomes DEF FinishImage
  <2> QED
    BY <1>4, <2>1, <2>2 DEF FinishImage
<1> QED
  BY <1>1, <1>2, <1>3, <1>4

-----------------------------------------------------------------------------
(* The resets *)

\* What a journal must hold for the boot that finds it.
Carried(k) ==
  /\ \A q \in Records(k) :
       /\ Truthful(q) /\ q.request <= past.asked
       /\ selected # running /\ q.request = owner.request => Open(q)
       /\ Open(q) => (app[Home].version = q.source <=> q.request \notin past.confirmed)
  /\ selected # running /\ Latest(k) # None /\ Open(Latest(k)) => Latest(k).request = owner.request

LEMMA KnownRecords == \A j : None \notin Records(j)
BY DEF Records

LEMMA JournalIsCarried ==
  ASSUME OtaInv, OutcomesTold PROVE Carried(slots)
<1>1. Records(slots) \subseteq Known
  BY KnownRecords DEF Known
<1>2. selected # running => ~Pending /\ main.at \in {"record", "restart"}
  BY AttemptIsSettled DEF OtaInv, SelectionIsNew, AttemptIsConfirmed, Attempting
<1>3. selected # running /\ Latest(slots) # None /\ Open(Latest(slots))
        => Latest(slots).request = owner.request
  BY <1>2 DEF OutcomesTold, LatestResolved
<1> QED
  BY <1>1, <1>3 DEF OutcomesTold, Carried, RequestsDiffer, TrialIsOpen, OpenResolves

LEMMA SameTells ==
  ASSUME NEW q, NEW r, Same(q, r)
  PROVE  /\ Truthful(r) => Truthful(q)
         /\ Open(q) <=> Open(r)
BY DEF Same, Truthful, Open

\* The record of an attempt says what the attempt came to.
LEMMA TerminalTells ==
  ASSUME OtaInv, OutcomesTold, main.at = "record", NEW q, Same(q, TerminalRecord(slots))
  PROVE  /\ Truthful(q) /\ q.request = owner.request /\ q.request <= past.asked
         /\ selected # running => Open(q)
         /\ app[Home].version = q.source /\ q.request \notin past.confirmed
<1>1. owner.state # "Idle" /\ ~Pending /\ Home = running
  BY AttemptIsSettled DEF OtaInv, AttemptIsConfirmed, Attempting, Home
<1>2. /\ q.request = owner.request /\ q.source = app[running].version
      /\ q.kind = IF main.result = "selected" THEN "ImageSelected" ELSE "AcquisitionFailed"
  BY DEF Same, TerminalRecord
<1>3. /\ owner.request = past.asked /\ owner.request \notin past.confirmed
      /\ main.result = "selected" <=> owner.request \in past.selected
      /\ past.asked \in Nat
  BY <1>1, OtaBounds DEF OutcomesTold, RequestsDiffer, Attempted, OtaInv, TypeOK
<1>4. selected # running => main.result = "selected"
  BY DEF OutcomesTold, ImagesAhead
<1> QED
  BY <1>1, <1>2, <1>3, <1>4 DEF Truthful, Open

\* A boot that is not a trial resolves the image selected before it.
LEMMA AgedTells ==
  ASSUME OtaInv, OutcomesTold, main.at = "journal", Latest(slots) # None,
         NEW q, Same(q, AgedRecord(Latest(slots)))
  PROVE  /\ Truthful(q) /\ q.request = Latest(slots).request /\ q.request <= past.asked
         /\ q.source = Latest(slots).source
         /\ Open(q) => Open(Latest(slots)) /\ Pending
         /\ Pending => q.kind = Latest(slots).kind
<1> DEFINE last == Latest(slots)
<1>1. last \in Known /\ last \in Records(slots) /\ last \in OutcomeRecord
  BY LatestIsHighest, LatestIsRecord, KnownRecords DEF Latest, Known, OtaInv, TypeOK, JournalType
<1>2. Truthful(last) /\ last.request <= past.asked
  BY <1>1 DEF OutcomesTold, RequestsDiffer
<1>3. /\ q.kind = OutcomeAtBoot(last) /\ q.request = last.request /\ q.source = last.source
  BY <1>1 DEF Same, AgedRecord, OutcomeRecord
<1>4. health.pending <=> Pending
  BY DEF OutcomesTold, PendingIsRead
<1> HIDE DEF last
<1>5. CASE last.kind # "ImageSelected" \/ Pending
  <2>1. q.kind = last.kind
    BY <1>3, <1>4, <1>5 DEF OutcomeAtBoot
  <2> QED
    BY <1>2, <1>3, <1>5, <2>1 DEF Truthful, Open, last
<1>6. CASE last.kind = "ImageSelected" /\ ~Pending
  <2>1. q.kind = IF last.source = app[running].version THEN "RollbackObserved" ELSE "Confirmed"
    BY <1>3, <1>4, <1>6 DEF OutcomeAtBoot
  <2>2. app[running].version = last.source <=> last.request \notin past.confirmed
    BY <1>1, <1>6 DEF OutcomesTold, OpenResolves, Open, Home
  <2>3. last.request \in past.selected
    BY <1>2, <1>6 DEF Truthful
  <2> QED
    BY <1>2, <1>3, <1>6, <2>1, <2>2, <2>3 DEF Truthful, Open, last
<1> QED
  BY <1>5, <1>6

\* recordConfirmed() runs for a confirmed image.
LEMMA ConfirmedTells ==
  ASSUME OtaInv, OutcomesTold, main.at = "confirmed", Selects(slots),
         NEW q, Same(q, AsConfirmed(slots))
  PROVE  /\ Truthful(q) /\ q.request <= past.asked /\ ~Open(q)
         /\ q.request = Latest(slots).request
<1> DEFINE last == Latest(slots)
<1>1. last \in Known /\ last \in Records(slots) /\ last \in OutcomeRecord
  BY LatestIsHighest, LatestIsRecord, KnownRecords
     DEF Selects, Latest, Known, OtaInv, TypeOK, JournalType
<1>2. last.request \in past.confirmed /\ last.request <= past.asked
  BY <1>1 DEF OutcomesTold, RequestsDiffer, OpenResolves, Selects, Open
<1>3. q.kind = "Confirmed" /\ q.request = last.request
  BY <1>1 DEF Same, AsConfirmed, OutcomeRecord
<1> QED
  BY <1>2, <1>3 DEF Truthful, Open

\* Whatever a cut leaves of a journal operation.
LEMMA CutIsCarried ==
  ASSUME OtaInv, Placed(slots), OutcomesTold, Journalling, NEW k \in Writes(slots)
  PROVE  Carried(k)
<1>1. Carried(slots)
  BY JournalIsCarried
<1>2. CASE main.at = "record"
  <2>1. /\ \A q \in Records(k) : q \in Records(slots) \/ Same(q, TerminalRecord(slots))
        /\ Latest(k) \in {None, Latest(slots)} \/ Same(Latest(k), TerminalRecord(slots))
    BY <1>2, TerminalRecords
  <2>2. \A q : Same(q, TerminalRecord(slots)) =>
          /\ Truthful(q) /\ q.request = owner.request /\ q.request <= past.asked
          /\ selected # running => Open(q)
          /\ app[Home].version = q.source /\ q.request \notin past.confirmed
    BY <1>2, TerminalTells
  <2> QED
    BY <1>1, <2>1, <2>2 DEF Carried
<1>3. CASE main.at = "journal"
  <2>1. \A q \in Records(k) :
          \/ q \in Records(slots)
          \/ Latest(slots) # None /\ Same(q, AgedRecord(Latest(slots)))
    BY <1>3, AgedRecords
  <2>2. selected = running
    BY <1>3 DEF OtaInv, SelectionIsNew
  <2>3. ASSUME NEW q, Latest(slots) # None, Same(q, AgedRecord(Latest(slots)))
        PROVE  /\ Truthful(q) /\ q.request <= past.asked
               /\ Open(q) => (app[Home].version = q.source <=> q.request \notin past.confirmed)
    <3>1. Latest(slots) \in Records(slots)
      BY <2>3, LatestIsHighest DEF Latest, OtaInv, TypeOK, JournalType
    <3> QED
      BY <1>1, <1>3, <2>3, <3>1, AgedTells DEF Carried
  <2> QED
    BY <1>1, <2>1, <2>2, <2>3 DEF Carried
<1>4. CASE main.at = "confirmed"
  <2>1. \A q \in Records(k) :
          q \in Records(slots) \/ (Selects(slots) /\ Same(q, AsConfirmed(slots)))
    BY <1>4, ConfirmedRecords
  <2>2. selected = running
    BY <1>4 DEF OtaInv, SelectionIsNew
  <2>3. \A q : Selects(slots) /\ Same(q, AsConfirmed(slots)) =>
          Truthful(q) /\ q.request <= past.asked /\ ~Open(q)
    BY <1>4, ConfirmedTells
  <2> QED
    BY <1>1, <2>1, <2>2, <2>3 DEF Carried
<1> QED
  BY <1>2, <1>3, <1>4 DEF Journalling

\* A reset puts a selected image on trial, or gives up the one that is on trial.
LEMMA ResetGoesHome ==
  ASSUME OtaInv, OutcomesTold, NEW images, Reset(images),
         images = app \/ (Pending /\ images = [app EXCEPT ![running].state = "Invalid"])
  PROVE  /\ running' \in Slot /\ Home' = Home
         /\ \A s \in Slot : app'[s].version = app[s].version /\ app'[s].request = app[s].request
         /\ selected' = running' /\ app'[running'].state \in {"Valid", "Pending"}
         /\ Pending' => selected # running /\ running' = selected /\ Other(running') = running
<1>1. /\ running \in Slot /\ Other(running) \in Slot /\ Other(running) # running
      /\ Other(Other(running)) = running /\ selected \in {running, Other(running)}
      /\ app \in [Slot -> Images] /\ selected \in Slot
  BY OtherSlot DEF OtaInv, TypeOK, Slot, Other
<1>2. /\ images \in [Slot -> Images]
      /\ \A s \in Slot : images[s].version = app[s].version /\ images[s].request = app[s].request
      /\ images[Other(running)].state = app[Other(running)].state
  BY <1>1 DEF Images
<1> DEFINE state == images[selected].state
           reset == CASE state = "New" -> "Pending" [] state = "Pending" -> "Invalid"
                      [] OTHER -> state
<1>3. /\ app' = [images EXCEPT ![selected].state = reset]
      /\ running' = IF state \in {"New", "Valid"} THEN selected ELSE Other(selected)
      /\ selected' = running'
  BY DEF Reset
<1>4. /\ \A s \in Slot : app'[s].version = app[s].version /\ app'[s].request = app[s].request
      /\ app'[selected].state = reset
      /\ \A s \in Slot : s # selected => app'[s].state = images[s].state
  BY <1>1, <1>2, <1>3 DEF Images
<1>5. CASE selected # running
  <2>1. state = "New" /\ ~Pending
    <3>1. app[selected].state = "New" /\ ~Pending
      BY <1>5, AttemptIsSettled DEF OtaInv, SelectionIsNew, AttemptIsConfirmed, Attempting
    <3> QED
      BY <3>1
  <2>2. running' = selected /\ app'[running'].state = "Pending" /\ Pending'
    BY <1>3, <1>4, <2>1 DEF Pending
  <2>3. Home = running /\ Home' = Other(running')
    BY <2>1, <2>2 DEF Home
  <2> QED
    BY <1>1, <1>3, <1>4, <1>5, <2>2, <2>3
<1>6. CASE selected = running /\ state = "Valid"
  <2>1. ~Pending /\ images = app
    <3>1. [app EXCEPT ![running].state = "Invalid"][running].state = "Invalid"
      BY <1>1 DEF Images
    <3> QED
      BY <1>1, <1>6, <3>1 DEF Pending
  <2>2. running' = running /\ app'[running'].state = "Valid"
    BY <1>3, <1>4, <1>6
  <2> QED
    BY <1>1, <1>3, <1>4, <2>1, <2>2 DEF Home, Pending
<1>7. CASE selected = running /\ state # "Valid"
  <2>1. Pending /\ state \in {"Pending", "Invalid"}
    <3>1. app[running].state \in {"Valid", "Pending"}
      BY DEF OutcomesTold, ImagesAhead
    <3> QED
      BY <1>1, <1>7, <3>1 DEF Pending, Images
  <2>2. running' = Other(running)
    BY <1>3, <1>7, <2>1
  <2>3. app'[running'].state = "Valid"
    BY <1>1, <1>2, <1>4, <1>7, <2>1, <2>2 DEF OtaInv, RunningHasFallback, Pending
  <2> QED
    BY <1>1, <1>3, <1>4, <2>1, <2>2, <2>3 DEF Home, Pending
<1> QED
  BY <1>5, <1>6, <1>7

LEMMA ResetTellsOutcomes ==
  ASSUME OtaInv, OutcomesTold, Carried(slots'), UNCHANGED past, NEW images, Reset(images),
         images = app \/ (Pending /\ images = [app EXCEPT ![running].state = "Invalid"])
  PROVE  OutcomesTold'
<1>1. /\ running' \in Slot /\ Home' = Home /\ Home \in Slot
      /\ \A s \in Slot : app'[s].version = app[s].version /\ app'[s].request = app[s].request
      /\ selected' = running' /\ app'[running'].state \in {"Valid", "Pending"}
      /\ Pending' => selected # running /\ running' = selected /\ Other(running') = running
  <2>1. Home \in Slot
    BY OtherSlot DEF Home, OtaInv, TypeOK
  <2> QED
    BY <2>1, ResetGoesHome
<1>2. /\ shown' = None /\ main'.at = "start" /\ main'.tries = 0 /\ owner'.state = "Idle"
  BY DEF Reset, At
<1>3. Known' = Records(slots')
  BY <1>2, KnownRecords DEF Known
<1>4. (\A r \in Known : Truthful(r))'
  BY <1>3 DEF Carried, Truthful
<1>5. RequestsDiffer'
  BY <1>2, <1>3 DEF OutcomesTold, RequestsDiffer, Carried
<1>6. ImagesAhead'
  <2>1. ASSUME Pending'
        PROVE  /\ app'[running'].version > app'[Other(running')].version
               /\ app'[running'].request \in past'.selected \ past'.confirmed
    <3>1. /\ main.result = "selected" /\ app[selected].request = owner.request
          /\ app[selected].version > app[running].version
      BY <1>1, <2>1 DEF OutcomesTold, ImagesAhead
    <3>2. owner.state # "Idle" /\ main.at \in Attempted
      BY <1>1, <2>1 DEF OtaInv, SelectionIsNew, AttemptIsConfirmed, Attempting, Attempted
    <3>3. owner.request \in past.selected \ past.confirmed
      BY <3>1, <3>2 DEF OutcomesTold, RequestsDiffer
    <3>4. running \in Slot /\ selected \in Slot
      BY DEF OtaInv, TypeOK
    <3> QED
      BY <1>1, <2>1, <3>1, <3>3, <3>4
  <2> QED
    BY <1>1, <1>2, <2>1 DEF ImagesAhead
<1>7. TrialIsOpen'
  <2>1. Pending' => app'[running'].request = owner.request /\ selected # running
    BY <1>1 DEF OutcomesTold, ImagesAhead, OtaInv, TypeOK
  <2> QED
    BY <1>1, <1>3, <2>1 DEF TrialIsOpen, Carried, Open
<1>8. PendingIsRead'
  BY <1>2 DEF PendingIsRead
<1>9. OpenResolves'
  BY <1>1, <1>2 DEF OpenResolves, Carried, Open
<1>10. LatestResolved'
  <2>1. Pending' => app'[running'].request = owner.request /\ selected # running
    BY <1>1 DEF OutcomesTold, ImagesAhead, OtaInv, TypeOK
  <2> QED
    BY <1>2, <2>1 DEF LatestResolved, Carried, Open
<1> QED
  BY <1>4, <1>5, <1>6, <1>7, <1>8, <1>9, <1>10 DEF OutcomesTold

LEMMA RollBackTellsOutcomes ==
  ASSUME OtaInv, OutcomesTold, ~Faulty, Pending, NEW place, RollBack(place)
  PROVE  OutcomesTold'
<1>1. Reset([app EXCEPT ![running].state = "Invalid"]) /\ UNCHANGED <<slots, past>>
  BY DEF RollBack
<1> QED
  BY <1>1, JournalIsCarried, ResetTellsOutcomes

LEMMA CutTellsOutcomes ==
  ASSUME OtaInv, Placed(slots), OutcomesTold, PowerCut \/ Restart
  PROVE  OutcomesTold'
<1>1. Reset(app) /\ UNCHANGED past
  BY DEF PowerCut, Restart
<1>2. Carried(slots')
  BY JournalIsCarried, CutIsCarried DEF PowerCut, Restart
<1> QED
  BY <1>1, <1>2, ResetTellsOutcomes

-----------------------------------------------------------------------------
(* The journal's calls *)

LEMMA TerminalTellsOutcomes ==
  ASSUME OtaInv, Placed(slots), OutcomesTold, ~Faulty, RecordTerminal
  PROVE  OutcomesTold'
<1>1. /\ main.at = "record" /\ slots' = Write(slots) /\ shown' = Latest(slots')
      /\ main'.at = "restart" /\ main'.tries = main.tries /\ main'.result = main.result
      /\ UNCHANGED <<image, owner, health, past>>
  <2>1. main.tries = 0
    BY DEF OutcomesTold, RequestsDiffer
  <2> QED
    BY <2>1, MainGoes DEF RecordTerminal, OtaInv
<1>2. owner.state # "Idle" /\ ~Pending
  BY <1>1, AttemptIsSettled DEF OtaInv, AttemptIsConfirmed, Attempting
<1>3. /\ \A q \in Records(slots') : q \in Records(slots) \/ Same(q, TerminalRecord(slots))
      /\ Same(Latest(slots'), TerminalRecord(slots))
  BY <1>1, TerminalRecords
<1>4. \A q \in Known' : q \in Known \/ Same(q, TerminalRecord(slots))
  BY <1>1, <1>3, KnownRecords DEF Known
<1>5. \A q : Same(q, TerminalRecord(slots)) =>
        /\ Truthful(q) /\ q.request = owner.request /\ q.request <= past.asked
        /\ selected # running => Open(q)
        /\ app[Home].version = q.source /\ q.request \notin past.confirmed
  BY <1>1, TerminalTells
<1>6. Pending' = Pending /\ Home' = Home
  BY <1>1 DEF Pending, Home, image
<1>7. (\A r \in Known : Truthful(r))'
  <2>1. \A r \in Known' : Truthful(r)
    BY <1>4, <1>5 DEF OutcomesTold
  <2> QED
    BY <1>1, <2>1 DEF Truthful
<1>8. RequestsDiffer'
  BY <1>1, <1>2, <1>4, <1>5 DEF OutcomesTold, RequestsDiffer, Attempted
<1>9. ImagesAhead'
  BY <1>1, <1>6 DEF OutcomesTold, ImagesAhead, image
<1>10. TrialIsOpen'
  BY <1>1, <1>2, <1>4, <1>5, <1>6 DEF OutcomesTold, TrialIsOpen, Open, image
<1>11. PendingIsRead'
  BY <1>1, <1>6 DEF OutcomesTold, PendingIsRead
<1>12. OpenResolves'
  BY <1>1, <1>2, <1>3, <1>5, <1>6 DEF OutcomesTold, OpenResolves, Open, image
<1>13. LatestResolved'
  BY <1>1, <1>2, <1>3, <1>5, <1>6 DEF LatestResolved
<1> QED
  BY <1>7, <1>8, <1>9, <1>10, <1>11, <1>12, <1>13 DEF OutcomesTold

LEMMA BeginBootTellsOutcomes ==
  ASSUME OtaInv, Placed(slots), OutcomesTold, ~Faulty, BeginBoot
  PROVE  OutcomesTold'
<1>1. /\ main.at = "journal" /\ slots' = Write(slots) /\ shown' = Latest(slots')
      /\ main'.at = "product" /\ main'.tries = main.tries /\ main'.result = main.result
      /\ UNCHANGED <<image, owner, health, past>>
  BY MainGoes DEF BeginBoot, OtaInv
<1>2. owner.state = "Idle" \/ ~Pending
  BY AttemptIsSettled
<1>3. /\ \A q \in Records(slots') :
           Latest(slots) # None /\ (q = Latest(slots) \/ Same(q, AgedRecord(Latest(slots))))
      /\ \/ Latest(slots') = None
         \/ Latest(slots) # None /\ Same(Latest(slots'), AgedRecord(Latest(slots)))
  BY <1>1, AgedRecords
<1>4. Latest(slots) # None => Latest(slots) \in Records(slots) /\ Latest(slots) \in Known
  BY LatestIsHighest, KnownRecords DEF Latest, Known, OtaInv, TypeOK, JournalType
<1>5. \A q \in Known' : Latest(slots) # None
        /\ (q = Latest(slots) \/ Same(q, AgedRecord(Latest(slots))))
  BY <1>1, <1>3 DEF Known
<1>6. \A q : Latest(slots) # None /\ Same(q, AgedRecord(Latest(slots))) =>
        /\ Truthful(q) /\ q.request = Latest(slots).request /\ q.request <= past.asked
        /\ q.source = Latest(slots).source
        /\ Open(q) => Open(Latest(slots)) /\ Pending
        /\ Pending => q.kind = Latest(slots).kind
  BY <1>1, AgedTells
<1>7. Pending' = Pending /\ Home' = Home
  BY <1>1 DEF Pending, Home, image
<1>8. (\A r \in Known : Truthful(r))'
  <2>1. \A r \in Known' : Truthful(r)
    BY <1>4, <1>5, <1>6 DEF OutcomesTold
  <2> QED
    BY <1>1, <2>1 DEF Truthful
<1>9. RequestsDiffer'
  <2>1. \A r \in Known' : r.request <= past.asked /\ \E o \in Known : r.request = o.request
    BY <1>4, <1>5, <1>6 DEF OutcomesTold, RequestsDiffer
  <2> QED
    BY <1>1, <2>1 DEF OutcomesTold, RequestsDiffer, Attempted
<1>10. ImagesAhead'
  BY <1>1, <1>7 DEF OutcomesTold, ImagesAhead, image
<1>11. selected = running
  BY <1>1 DEF OtaInv, SelectionIsNew
<1>12. TrialIsOpen'
  BY <1>1, <1>4, <1>5, <1>6, <1>7, <1>11 DEF OutcomesTold, TrialIsOpen, Open, image
<1>13. PendingIsRead'
  BY <1>1, <1>7 DEF OutcomesTold, PendingIsRead
<1>14. OpenResolves'
  <2>1. \A r \in Records(slots') : Open(r) =>
          (app[Home].version = r.source <=> r.request \notin past.confirmed)
    BY <1>3, <1>4, <1>6 DEF OutcomesTold, OpenResolves
  <2>2. Pending => \A r \in Records(slots') : Open(r) => r.request = app[running].request
    BY <1>1, <1>3, <1>6 DEF OutcomesTold, LatestResolved
  <2> QED
    BY <1>1, <1>7, <2>1, <2>2 DEF OpenResolves, Open, image
<1>15. LatestResolved'
  BY <1>1, <1>3, <1>6, <1>7 DEF LatestResolved, Open
<1> QED
  BY <1>8, <1>9, <1>10, <1>12, <1>13, <1>14, <1>15 DEF OutcomesTold

LEMMA RecordConfirmedTellsOutcomes ==
  ASSUME OtaInv, Placed(slots), OutcomesTold, ~Faulty, RecordConfirmed
  PROVE  OutcomesTold'
<1>1. /\ main.at = "confirmed" /\ slots' = Write(slots)
      /\ shown' \in {shown, Latest(slots')}
      /\ main'.at = "loop" /\ main'.tries = main.tries /\ main'.result = main.result
      /\ health'.pending = FALSE
      /\ UNCHANGED <<image, owner, past>>
  BY MainGoes DEF RecordConfirmed, OtaInv, TypeOK
<1>2. ~Pending /\ selected = running
  BY <1>1 DEF OtaInv, TrialIsKnown, SelectionIsNew, Pending
<1>3. /\ \A q \in Records(slots') :
           q \in Records(slots) \/ (Selects(slots) /\ Same(q, AsConfirmed(slots)))
      /\ Latest(slots') # None => ~Open(Latest(slots'))
  BY <1>1, ConfirmedRecords
<1>4. slots' \in JournalType
  BY <1>1, WritesKeepType DEF Journalling
<1>5. Latest(slots') # None => Latest(slots') \in Records(slots')
  BY <1>4, LatestIsHighest DEF Latest
<1>6. \A q \in Known' : q \in Known \/ (Selects(slots) /\ Same(q, AsConfirmed(slots)))
  BY <1>1, <1>3, <1>5, KnownRecords DEF Known
<1>7. Selects(slots) => Latest(slots) \in Known
  BY LatestIsHighest, KnownRecords DEF Selects, Latest, Known, OtaInv, TypeOK, JournalType
<1>8. \A q : Selects(slots) /\ Same(q, AsConfirmed(slots)) =>
        /\ Truthful(q) /\ q.request <= past.asked /\ ~Open(q)
        /\ q.request = Latest(slots).request
  BY <1>1, ConfirmedTells
<1>9. ~Pending' /\ Home' = Home
  BY <1>1, <1>2 DEF Pending, Home, image
<1>10. (\A r \in Known : Truthful(r))'
  <2>1. \A r \in Known' : Truthful(r)
    BY <1>6, <1>8 DEF OutcomesTold
  <2> QED
    BY <1>1, <2>1 DEF Truthful
<1>11. RequestsDiffer'
  <2>1. \A r \in Known' : r.request <= past.asked /\ \E o \in Known : r.request = o.request
    BY <1>6, <1>7, <1>8 DEF OutcomesTold, RequestsDiffer
  <2> QED
    BY <1>1, <2>1 DEF OutcomesTold, RequestsDiffer, Attempted
<1>12. ImagesAhead' /\ TrialIsOpen' /\ PendingIsRead'
  BY <1>1, <1>2, <1>9 DEF OutcomesTold, ImagesAhead, TrialIsOpen, PendingIsRead, image
<1>13. OpenResolves'
  BY <1>1, <1>3, <1>8, <1>9 DEF OutcomesTold, OpenResolves, Open, image
<1>14. LatestResolved'
  BY <1>1, <1>3 DEF LatestResolved, Open
<1> QED
  BY <1>10, <1>11, <1>12, <1>13, <1>14 DEF OutcomesTold

-----------------------------------------------------------------------------
\* As long as no flash call has failed, every outcome is told as it was.
FaultsTyped == budget \in [cuts: Nat, faults: 0 .. MaxFaults]
ToldWithoutFaults == budget.faults = MaxFaults => OutcomesTold

LEMMA FaultShows ==
  ASSUME FaultsTyped, [Next]_vars
  PROVE  /\ FaultsTyped'
         /\ budget'.faults = MaxFaults => budget.faults = MaxFaults /\ ~Faulty
<1> USE DEF FaultsTyped
<1>1. CASE Faulty
  BY <1>1, OtaBounds DEF Faulty
<1>2. CASE UNCHANGED budget
  BY <1>2, OtaBounds DEF Faulty
<1>3. CASE PowerCut
  BY <1>3, OtaBounds DEF PowerCut, Faulty
<1>4. ASSUME NEW place, RollBack(place) PROVE Faulty \/ UNCHANGED budget
  BY <1>4 DEF RollBack
<1>5. CASE FirstTick \/ StagePasses \/ StageFails \/ BeginBoot \/ TickOverdue \/ TickFatal
  BY <1>1, <1>2, <1>4, <1>5 DEF FirstTick, StagePasses, StageFails, BeginBoot, TickOverdue,
     TickFatal
<1>6. CASE TickSoaks \/ TickConfirms \/ TickFindsConfirmed \/ RecordConfirmed \/ RecordTerminal
  BY <1>1, <1>2, <1>6 DEF TickSoaks, TickConfirms, TickFindsConfirmed, RecordConfirmed,
     RecordTerminal
<1>7. CASE Restart \/ Take \/ Quiesce \/ BeginImage \/ FinishImage \/ SelectImage \/ Request
  BY <1>1, <1>2, <1>7 DEF Restart, Take, Quiesce, BeginImage, FinishImage, SelectImage, Request
<1>8. CASE DeadlinePasses \/ UNCHANGED vars
  BY <1>2, <1>8 DEF DeadlinePasses, vars
<1> QED
  BY <1>3, <1>5, <1>6, <1>7, <1>8 DEF Next, Main

LEMMA StepTellsOutcomes ==
  ASSUME OtaInv, Placed(slots), OutcomesTold, ~Faulty, [Next]_vars
  PROVE  OutcomesTold'
<1>1. CASE FirstTick \/ StageFails \/ TickOverdue \/ TickFatal
  <2>1. ASSUME NEW place, Pending, RollBack(place) PROVE OutcomesTold'
    BY <2>1, RollBackTellsOutcomes
  <2>2. CASE TickOverdue \/ TickFatal
    BY <2>1, <2>2 DEF TickOverdue, TickFatal, Trial
  <2>3. CASE FirstTick /\ RollBack("stages")
    <3>1. Pending \/ health' = [Fresh EXCEPT !.pending = Pending]
      BY <2>3 DEF FirstTick
    <3>2. CASE Pending
      BY <2>1, <2>3, <3>2
    <3>3. CASE ~Pending
      <4>1. /\ main.at = "start" /\ health' = [Fresh EXCEPT !.pending = Pending] /\ Goes("stages")
            /\ UNCHANGED <<image, journal, owner, past>>
        BY <2>3, <3>3 DEF FirstTick
      <4>2. health'.pending = Pending
        BY <4>1 DEF Fresh
      <4> QED
        BY <4>1, <4>2, MainGoes, MovesTellOutcomes DEF OtaInv, image, journal, Onward
    <3> QED
      BY <3>2, <3>3
  <2>4. CASE StageFails /\ RollBack("recovery")
    <3>1. CASE Pending
      BY <2>1, <2>4, <3>1
    <3>2. CASE ~Pending
      <4>1. /\ main.at \in {"stages", "product"} /\ Goes("recovery")
            /\ UNCHANGED <<image, journal, owner, health, past>>
        BY <2>4, <3>2 DEF StageFails
      <4> QED
        BY <4>1, MainGoes, MovesTellOutcomes DEF OtaInv, image, journal, Onward
    <3> QED
      BY <3>1, <3>2
  <2> QED
    BY <1>1, <2>2, <2>3, <2>4, BootTellsOutcomes
<1>2. CASE StagePasses \/ DeadlinePasses \/ TickSoaks
  BY <1>2, BootTellsOutcomes
<1>3. CASE TickConfirms \/ TickFindsConfirmed
  BY <1>3, ConfirmTellsOutcomes, NoConfirmationFound
<1>4. CASE BeginBoot \/ RecordConfirmed \/ RecordTerminal
  BY <1>4, BeginBootTellsOutcomes, RecordConfirmedTellsOutcomes, TerminalTellsOutcomes
<1>5. CASE Restart \/ PowerCut
  BY <1>5, CutTellsOutcomes
<1>6. CASE Request \/ SelectImage
  BY <1>6, RequestTellsOutcomes, SelectTellsOutcomes
<1>7. CASE Take \/ Quiesce \/ BeginImage \/ FinishImage
  BY <1>7, AttemptTellsOutcomes
<1>8. CASE UNCHANGED vars
  <2>1. UNCHANGED <<app, selected, running, slots, shown, past, main, health, owner>>
    BY <1>8 DEF vars, image, journal
  <2>2. Known' = Known /\ Pending' = Pending /\ Home' = Home
    BY <2>1 DEF Known, Pending, Home
  <2>3. (\A r \in Known : Truthful(r))'
    BY <2>1, <2>2 DEF OutcomesTold, Truthful
  <2>4. RequestsDiffer' /\ ImagesAhead' /\ TrialIsOpen'
    BY <2>1, <2>2 DEF OutcomesTold, RequestsDiffer, ImagesAhead, TrialIsOpen, Open
  <2>5. PendingIsRead' /\ OpenResolves' /\ LatestResolved'
    BY <2>1, <2>2 DEF OutcomesTold, PendingIsRead, OpenResolves, LatestResolved, Open
  <2> QED
    BY <2>3, <2>4, <2>5 DEF OutcomesTold
<1> QED
  BY <1>1, <1>2, <1>3, <1>4, <1>5, <1>6, <1>7, <1>8 DEF Next, Main

LEMMA OutcomesStart == ASSUME Init PROVE OutcomesTold /\ FaultsTyped
<1>1. Records(slots) = {} /\ shown = None /\ Latest(slots) = None
  BY DEF Init, Records, Latest
<1>2. Known = {} /\ ~Pending /\ selected = running /\ main = At("start")
  BY <1>1 DEF Known, Pending, Init, Slot
<1>3. app[running].state = "Valid" /\ owner.state = "Idle" /\ main.at = "start" /\ main.tries = 0
  BY DEF Init, Slot, At
<1>4. FaultsTyped
  BY OtaBounds DEF Init, FaultsTyped
<1> QED
  BY <1>1, <1>2, <1>3, <1>4 DEF Init, OutcomesTold, RequestsDiffer, ImagesAhead, TrialIsOpen,
     PendingIsRead, OpenResolves, LatestResolved

LEMMA TruthfulOutcome ==
  ASSUME NEW r \in OutcomeRecord, Truthful(r)
  PROVE  CASE r.kind = "Confirmed" -> r.request \in past.confirmed
           [] r.kind = "RollbackObserved" -> r.request \in past.selected \ past.confirmed
           [] r.kind = "ImageSelected" -> r.request \in past.selected
           [] OTHER -> r.request \notin past.selected
BY DEF Truthful, OutcomeRecord

\* However often the power is cut, at whatever point of a journal write or of the
\* selection of an image, the outcome that the journal or the screen names is the
\* one its request had, if no flash call fails.
THEOREM OutcomeTrueHolds == Spec => []OutcomeTrue
<1>1. Init => Placed(slots) /\ FaultsTyped /\ ToldWithoutFaults
  BY OutcomesStart DEF Init, Placed, ToldWithoutFaults
<1>2. OtaInv /\ Placed(slots) /\ FaultsTyped /\ ToldWithoutFaults /\ [Next]_vars
        => Placed(slots') /\ FaultsTyped' /\ ToldWithoutFaults'
  BY StepKeepsLatest, FaultShows, StepTellsOutcomes DEF ToldWithoutFaults
<1>3. Placed(slots)' <=> Placed(slots')
  BY DEF Placed
<1>4. OtaInv /\ ToldWithoutFaults => OutcomeTrue
  <2> SUFFICES ASSUME OtaInv, OutcomesTold, NEW r \in {Latest(slots), shown} \ {None}
               PROVE  CASE r.kind = "Confirmed" -> r.request \in past.confirmed
                        [] r.kind = "RollbackObserved" ->
                             r.request \in past.selected \ past.confirmed
                        [] r.kind = "ImageSelected" -> r.request \in past.selected
                        [] OTHER -> r.request \notin past.selected
    BY DEF OutcomeTrue, ToldWithoutFaults
  <2>1. Latest(slots) # None => Latest(slots) \in Records(slots)
    BY LatestIsHighest DEF Latest, OtaInv, TypeOK, JournalType
  <2>2. r \in Known
    BY <2>1 DEF Known
  <2>3. r \in OutcomeRecord
    BY LatestIsRecord DEF OtaInv, TypeOK, JournalType
  <2> QED
    BY <2>2, <2>3, TruthfulOutcome DEF OutcomesTold
<1> QED
  BY <1>1, <1>2, <1>3, <1>4, OtaInductive, PTL DEF Spec
=============================================================================
