--------------------------- MODULE MyAiPairing_proofs ---------------------------
(***************************************************************************)
(* Proofs about the MyAI credential, for every number of generations and   *)
(* every number of failing calls and power cuts: the journal is a store of *)
(* one document, a healthy client holds what a boot would find, and no     *)
(* pairing request goes out over a token.                                  *)
(***************************************************************************)
EXTENDS MyAiPairing, TLAPS

-----------------------------------------------------------------------------
(* The journal *)

\* The slot the head selects holds the record the head counts.
HeadHolds ==
  head # 0 => slots[SlotOf(head)] \in Records /\ slots[SlotOf(head)].gen = head

\* Until the head moves, the record being stored is the one after it, and so
\* goes to the other slot.
NextRecord == stage \in {"slot", "verify", "head"} => writing.gen = head + 1

SlotWritten ==
  stage \in {"verify", "head", "marker", "confirm"} => slots[SlotOf(writing.gen)] = writing

HeadMoved == stage \in {"marker", "confirm"} => head = writing.gen

OkIsHeld == answer = "ok" => head # 0

JournalInv ==
  JournalTypeOK /\ HeadHolds /\ NextRecord /\ SlotWritten /\ HeadMoved /\ OkIsHeld

\* What a step of the client does to the journal.
JournalRests == UNCHANGED <<keys, stage, writing, answer>> /\ (UNCHANGED faults \/ Fault)
JournalStep ==
  JournalRests \/ (\E change \in Changes : Begin(change)) \/ StoreStep \/ JournalPowerCut

\* Consecutive generations take different slots.
LEMMA SlotsAlternate ==
  ASSUME NEW g \in Nat
  PROVE  SlotOf(g) \in {0, 1} /\ SlotOf(g + 1) = 1 - SlotOf(g)
BY SMT DEF SlotOf

LEMMA LoadedByHead ==
  ASSUME JournalTypeOK, HeadHolds
  PROVE  /\ head # 0 => Loaded = slots[SlotOf(head)] /\ Loaded \in Records
         /\ head = 0 => Loaded \in {Fresh, Corrupt}
         /\ Loaded # Corrupt => Loaded.gen = head
         /\ Durable = IF head = 0 THEN NoCredential ELSE slots[SlotOf(head)].credential
         /\ Durable \in Credentials \cup {NoCredential}
<1>1. head # 0 => Loaded = slots[SlotOf(head)] /\ Loaded \in Records /\ Loaded.gen = head
  BY JournalMarks DEF HeadHolds, Loaded, AnyKey
<1>2. head = 0 => Loaded \in {Fresh, Corrupt}
  BY DEF Loaded
<1>3. Fresh.gen = 0 /\ Fresh.credential = NoCredential
  BY DEF Fresh
<1>4. \A r \in Records : r.credential \in Credentials
  BY DEF Records
<1>5. \A r \in Records : r # Corrupt
  BY JournalMarks
<1>6. Fresh # Corrupt
  BY JournalMarks
<1> QED
  BY <1>1, <1>2, <1>3, <1>4, <1>5, <1>6 DEF Durable

\* A record made from a loaded one can be stored.
LEMMA RecordMade ==
  ASSUME JournalTypeOK, HeadHolds, Loaded # Corrupt, Loaded.gen < MaxGeneration, NEW change
  PROVE  [gen |-> Loaded.gen + 1, credential |-> Result(change, Loaded.credential)] \in Records
<1>1. Loaded.gen = head /\ head \in Nat
  BY LoadedByHead DEF JournalTypeOK
<1>2. Result(change, Loaded.credential) \in Credentials
  BY DEF Result, Credentials, HasToken
<1> QED
  BY <1>1, <1>2, JournalBounds DEF Records

\* Keys that rest are loaded as before.
LEMMA LoadedRests == ASSUME UNCHANGED keys PROVE Loaded' = Loaded /\ Durable' = Durable
BY DEF keys, Loaded, Durable, AnyKey

\* No step leaves the journal in a state a step of storeNext() does not expect.
LEMMA JournalStepInv == ASSUME JournalInv, JournalStep PROVE JournalInv'
<1> USE JournalBounds DEF JournalInv
<1>0. /\ Records \cap {Absent} = {}
      /\ writing \in Records \/ stage = "idle"
      /\ \A r \in Records : r.gen \in 1..MaxGeneration
  BY JournalMarks DEF JournalTypeOK, Records
<1>1. CASE JournalRests
  BY <1>1 DEF JournalRests, JournalTypeOK, HeadHolds, NextRecord, SlotWritten, HeadMoved,
     OkIsHeld, keys, Fault
<1>2. ASSUME NEW change \in Changes, Begin(change) PROVE JournalInv'
  <2>1. CASE Finish("failed") /\ UNCHANGED keys /\ (UNCHANGED faults \/ Fault)
    BY <2>1 DEF Finish, JournalTypeOK, HeadHolds, NextRecord, SlotWritten, HeadMoved,
       OkIsHeld, keys, Fault, Stages
  <2>2. CASE /\ UNCHANGED <<keys, answer, faults>>
             /\ Loaded # Corrupt /\ Loaded.gen < MaxGeneration
             /\ stage' = "slot"
             /\ writing' = [gen |-> Loaded.gen + 1,
                            credential |-> Result(change, Loaded.credential)]
    <3>1. writing' \in Records /\ writing'.gen = head + 1
      BY <2>2, RecordMade, LoadedByHead
    <3> QED
      BY <2>2, <3>1, <1>0 DEF JournalTypeOK, HeadHolds, NextRecord, SlotWritten, HeadMoved,
         OkIsHeld, keys, Stages
  <2> QED
    BY <1>2, <2>1, <2>2 DEF Begin
<1>3. CASE WriteSlot
  <2>1. /\ writing \in Records /\ writing.gen = head + 1 /\ head \in Nat
        /\ SlotOf(writing.gen) \in {0, 1} /\ SlotOf(head) \in {0, 1}
        /\ SlotOf(head) # SlotOf(writing.gen)
    <3>1. writing \in Records /\ writing.gen = head + 1 /\ head \in Nat
      BY <1>3, <1>0 DEF WriteSlot, NextRecord, JournalTypeOK
    <3> QED
      BY <3>1, SlotsAlternate
  <2>2. /\ slots' \in {slots, [slots EXCEPT ![SlotOf(writing.gen)] = writing]}
        /\ UNCHANGED <<head, marker>>
        /\ \/ /\ slots' = [slots EXCEPT ![SlotOf(writing.gen)] = writing]
              /\ stage' = "verify" /\ UNCHANGED <<writing, answer, faults>>
           \/ Fault /\ Finish("failed")
    BY <1>3 DEF WriteSlot
  <2>3. HeadHolds' /\ slots' \in [{0, 1} -> Records \cup {Absent}]
    BY <2>1, <2>2 DEF HeadHolds, JournalTypeOK
  <2> QED
    BY <2>1, <2>2, <2>3, <1>3 DEF WriteSlot, JournalTypeOK, NextRecord, SlotWritten, HeadMoved,
       OkIsHeld, Finish, Fault, Stages
<1>4. CASE Verify
  BY <1>4, <1>0 DEF Verify, JournalTypeOK, HeadHolds, NextRecord, SlotWritten, HeadMoved,
     OkIsHeld, keys, Finish, Fault, Stages
<1>5. CASE WriteHead
  <2>1. writing \in Records /\ slots[SlotOf(writing.gen)] = writing /\ writing.gen # 0
    BY <1>5, <1>0 DEF WriteHead, SlotWritten
  <2>2. HeadHolds' /\ head' \in 0..MaxGeneration
    BY <1>5, <2>1, <1>0 DEF WriteHead, HeadHolds, JournalTypeOK
  <2> QED
    BY <1>5, <2>1, <2>2, <1>0 DEF WriteHead, JournalTypeOK, NextRecord, SlotWritten, HeadMoved,
       OkIsHeld, Finish, Fault, Stages
<1>6. CASE WriteMarker
  <2>1. marker' \in BOOLEAN
    BY <1>6, Zenon DEF WriteMarker, JournalTypeOK
  <2>2. /\ stage = "marker" /\ UNCHANGED <<slots, head>>
        /\ \/ stage' = "confirm" /\ UNCHANGED <<writing, answer, faults>>
           \/ Fault /\ Finish("failed")
    BY <1>6, Zenon DEF WriteMarker
  <2> QED
    BY <2>2, <1>0, <2>1 DEF JournalTypeOK, HeadHolds, NextRecord, SlotWritten, HeadMoved,
       OkIsHeld, Finish, Fault, Stages
<1>7. CASE Confirm
  BY <1>7, <1>0 DEF Confirm, JournalTypeOK, HeadHolds, NextRecord, SlotWritten, HeadMoved,
     OkIsHeld, keys, Finish, Fault, Stages
<1>8. CASE JournalPowerCut
  BY <1>8 DEF JournalPowerCut, JournalTypeOK, HeadHolds, NextRecord, SlotWritten, HeadMoved,
     OkIsHeld, keys, Finish, Fault, Stages
<1> QED
  BY <1>1, <1>2, <1>3, <1>4, <1>5, <1>6, <1>7, <1>8 DEF JournalStep, StoreStep

-----------------------------------------------------------------------------
(* The client *)

\* The lane waits for the change it has asked for, and does nothing else.
WaitsForStore == stage # "idle" => at = "storing"

\* Away from its place of rest the lane has a client that is initialized.
AwayReady == at \notin {"rest", "storing"} => ready

\* The inductive invariant.
PairingInv == TypeOK /\ JournalInv /\ WaitsForStore /\ AwayReady /\ ActivationCoherent

\* What the client holds agrees with the journal and with what it shows.
Agrees ==
  /\ creds = Durable
  /\ activation = "Bound" => HasToken(creds)
  /\ activation = "Pairing" => creds = "pending"
  /\ activation = "Unconfigured" => creds = "unbound"
  /\ verified => activation = "Bound"

ClientTypeOK ==
  /\ activation \in Activations /\ creds \in Credentials \cup {NoCredential}
  /\ healthy \in BOOLEAN /\ ready \in BOOLEAN /\ verified \in BOOLEAN
  /\ resume \in Places

\* A lane that has the client in hand.
InUse == PairingInv /\ ready /\ at # "storing"

\* It goes to a place of "next", or waits there for a change it has asked for.
Leads(next) ==
  /\ ClientTypeOK' /\ ready'
  /\ at' \in next \cup {"storing"}
  /\ JournalStep /\ WaitsForStore'
  /\ healthy' /\ at' # "storing" => Agrees'

LEMMA InUseFacts ==
  ASSUME InUse
  PROVE  stage = "idle" /\ ClientTypeOK /\ (healthy => Agrees)
BY DEF InUse, PairingInv, WaitsForStore, TypeOK, ClientTypeOK, ActivationCoherent, Agrees

LEMMA SetActivationType ==
  ASSUME ClientTypeOK, NEW a \in Activations, SetActivation(a)
  PROVE  /\ activation' = a /\ verified' \in BOOLEAN
         /\ verified' => verified /\ a = "Bound"
BY Zenon DEF SetActivation, ClientTypeOK

LEMMA RestLeads ==
  ASSUME InUse, UNCHANGED <<journalVars, clientVars>>, resume' \in Places,
         NEW next, at' \in next
  PROVE  Leads(next)
<1>1. JournalRests /\ Durable' = Durable
  BY LoadedRests DEF journalVars, JournalRests
<1> QED
  BY <1>1, InUseFacts DEF InUse, Leads, JournalStep, WaitsForStore, ClientTypeOK, Agrees,
     clientVars, journalVars

LEMMA StoreLeads ==
  ASSUME InUse, NEW change \in Changes, NEW back \in Places, Store(change, back), NEW next
  PROVE  Leads(next)
BY InUseFacts DEF Store, InUse, Leads, JournalStep, WaitsForStore, ClientTypeOK, clientVars

LEMMA StorageFailureLeads ==
  ASSUME InUse, StorageFailure, JournalRests, UNCHANGED <<ready, resume>>,
         NEW next, at' \in next
  PROVE  Leads(next)
<1>1. "Error" \in Activations
  BY DEF Activations
<1>2. /\ activation' \in Activations /\ verified' \in BOOLEAN /\ healthy' = FALSE
      /\ UNCHANGED creds
  BY <1>1, InUseFacts, SetActivationType DEF StorageFailure
<1> QED
  BY <1>2, InUseFacts DEF InUse, Leads, JournalStep, JournalRests, WaitsForStore, ClientTypeOK

LEMMA RefusedLeads ==
  ASSUME InUse, NEW r \in Refusals, NEW place \in Places, Refused(r, place),
         NEW next, place \in next
  PROVE  Leads(next)
<1>1. JournalRests /\ Durable' = Durable
  BY LoadedRests DEF journalVars, JournalRests, Refused
<1>2. {"Offline", "PaymentRequired", "Error"} \subseteq Activations
  BY DEF Activations
<1>3. /\ verified' \in BOOLEAN
      /\ \/ activation' \in {"Offline", "PaymentRequired", "Error"} /\ ~verified'
         \/ UNCHANGED activation /\ (verified' => verified)
  <2>1. CASE r = "rejected"
    BY <2>1, InUseFacts, Zenon DEF Refused, ClientTypeOK
  <2>2. CASE r # "rejected"
    <3>1. PICK a \in {"Offline", "PaymentRequired", "Error"} : SetActivation(a)
      BY <2>2 DEF Refused, Refusals
    <3> QED
      BY <3>1, <1>2, InUseFacts, SetActivationType
  <2> QED
    BY <2>1, <2>2
<1>4. UNCHANGED <<creds, healthy, ready, resume, stage>> /\ at' = place
  BY DEF Refused, journalVars
<1> QED
  BY <1>1, <1>2, <1>3, <1>4, InUseFacts DEF InUse, Leads, JournalStep, WaitsForStore,
     ClientTypeOK, Agrees

LEMMA RecoveryLeads ==
  ASSUME InUse, NEW place \in Places, Recovery(place), NEW next, place \in next
  PROVE  Leads(next)
<1>1. JournalRests /\ UNCHANGED keys /\ UNCHANGED <<ready, resume>> /\ at' \in next
  BY DEF Recovery, JournalRests
<1>2. CASE Fault /\ StorageFailure
  BY <1>1, <1>2, StorageFailureLeads
<1>3. CASE Durable = creds /\ SetActivation("RecoveryRequired") /\ UNCHANGED <<creds, healthy>>
  <2>1. "RecoveryRequired" \in Activations
    BY DEF Activations
  <2>2. activation' = "RecoveryRequired" /\ verified' \in BOOLEAN /\ ~verified'
    BY <1>3, <2>1, InUseFacts, SetActivationType
  <2>3. Durable' = Durable /\ UNCHANGED stage
    BY <1>1, LoadedRests DEF JournalRests
  <2> QED
    BY <1>1, <1>3, <2>1, <2>2, <2>3, InUseFacts DEF InUse, Leads, JournalStep, WaitsForStore,
       ClientTypeOK, Agrees
<1> QED
  BY <1>2, <1>3 DEF Recovery

LEMMA ClearLeads ==
  ASSUME InUse, NEW change \in Changes, NEW back \in Places, Clear(change, back),
         NEW next, back \in next
  PROVE  Leads(next)
<1>1. CASE healthy
  BY <1>1, StoreLeads DEF Clear
<1>2. CASE ~healthy
  <2>1. JournalRests
    BY <1>2 DEF Clear, JournalRests, journalVars
  <2> QED
    BY <1>2, <2>1, StorageFailureLeads DEF Clear
<1> QED
  BY <1>1, <1>2

LEMMA CenterLeads ==
  ASSUME InUse, NEW r, NEW place \in Places, Center(r, place), NEW next, place \in next
  PROVE  Leads(next) /\ sent' = "center"
<1>1. "clear_runtime" \in Changes
  BY DEF Changes
<1>2. CASE r = "denied" /\ Clear("clear_runtime", place)
  BY <1>1, <1>2, ClearLeads DEF Center
<1>3. CASE r \in Refusals /\ Refused(r, place)
  BY <1>3, RefusedLeads DEF Center
<1>4. CASE at' = place /\ UNCHANGED <<journalVars, clientVars, resume>>
  BY <1>4, RestLeads, InUseFacts DEF ClientTypeOK, Center
<1> QED
  BY <1>2, <1>3, <1>4 DEF Center

LEMMA DisconnectLeads ==
  ASSUME InUse, NEW place \in Places, Disconnect(place), NEW next, place \in next
  PROVE  Leads(next) /\ lease' = FALSE /\ sent' \in {sent, "center"}
<1>1. lease' = FALSE
  BY Zenon DEF Disconnect
<1>2. CASE lease
  <2>1. PICK r \in CenterAnswers : Center(r, place)
    BY <1>2, Zenon DEF Disconnect
  <2> QED
    BY <1>1, <2>1, CenterLeads
<1>3. CASE ~lease
  <2>1. at' = place /\ UNCHANGED <<journalVars, clientVars, resume, sent>>
    BY <1>3, Zenon DEF Disconnect
  <2> QED
    BY <1>1, <2>1, RestLeads, InUseFacts DEF ClientTypeOK
<1> QED
  BY <1>2, <1>3

LEMMA CheckLeads ==
  ASSUME InUse, MayAsk, NEW r, NEW place \in Places, NEW failed \in Places,
         Check(r, place, failed), r = "authorized" => verified' \in BOOLEAN,
         NEW next, place \in next, failed \in next
  PROVE  Leads(next) /\ sent' = "check"
<1>1. "clear_runtime" \in Changes
  BY DEF Changes
<1>2. CASE r = "denied" /\ Clear("clear_runtime", failed)
  BY <1>1, <1>2, ClearLeads DEF Check
<1>3. CASE r \in Refusals /\ Refused(r, failed)
  BY <1>3, RefusedLeads DEF Check
<1>4. CASE r = "recovery" /\ Recovery(failed)
  BY <1>4, RecoveryLeads DEF Check
<1>5. CASE /\ r = "authorized" /\ activation' = "Bound" /\ at' = place
           /\ UNCHANGED <<journalVars, creds, healthy, ready, resume>>
  <2>1. JournalRests /\ Durable' = Durable /\ UNCHANGED stage
    BY <1>5, LoadedRests DEF journalVars, JournalRests
  <2>2. "Bound" \in Activations
    BY DEF Activations
  <2> QED
    BY <1>5, <2>1, <2>2, InUseFacts DEF InUse, Leads, JournalStep, WaitsForStore, ClientTypeOK,
       Agrees, MayAsk, Check
<1> QED
  BY <1>2, <1>3, <1>4, <1>5 DEF Check

-----------------------------------------------------------------------------
(* The lanes *)

ServiceTypeOK ==
  /\ wants \subseteq {"start", "rebind"} /\ lease \in BOOLEAN
  /\ image \in {"idle", "pending", "exclusive"}
  /\ sent \in {"none", "start", "poll", "check", "center"}

\* The step of NoTokenRotation.
AsksSafely == sent' \in {"start", "poll"} /\ sent' # sent => ~HasToken(Durable)

\* What a step of a lane that has the client in hand does.
InHand == Leads(Places) /\ ServiceTypeOK' /\ AsksSafely

\* An action that leaves the journal and the client alone.
Passes == UNCHANGED <<journalVars, clientVars, resume>> /\ at' \in Places

LEMMA PassLeads == ASSUME InUse, Passes PROVE Leads(Places)
BY RestLeads, InUseFacts DEF Passes, ClientTypeOK

\* The lane's walk through a tick, up to the check of the authorization.
LEMMA TickInHand ==
  ASSUME InUse,
         \/ Tick \/ TickOffline \/ Rebind \/ ResetCredential \/ NoStart \/ StartDue
         \/ NoStartDue \/ PollDue \/ NoPoll \/ CheckDue \/ NoCheck
  PROVE  InHand
<1> USE InUseFacts DEF InHand
<1>0. /\ ServiceTypeOK
      /\ {"rest", "requests", "rebinding", "start", "poll", "check", "handoff"} \subseteq Places
      /\ {"clear_runtime", "save_pending", "promote_bound", "promote_inactive",
          "clear_pending"} \subseteq Changes
      /\ healthy => (Durable = creds)
  BY DEF InUse, PairingInv, TypeOK, ServiceTypeOK, Places, Changes, Agrees
<1>1. CASE Tick \/ NoStart \/ NoStartDue \/ NoPoll \/ NoCheck
  <2>1. Passes
    BY <1>1, <1>0 DEF Tick, NoStart, NoStartDue, NoPoll, NoCheck, Passes
  <2>2. sent' \in {sent, "none"} /\ UNCHANGED <<lease, image>> /\ wants' \subseteq wants
    BY <1>1 DEF Tick, NoStart, NoStartDue, NoPoll, NoCheck, serviceVars
  <2> QED
    BY <1>0, <2>1, <2>2, PassLeads DEF ServiceTypeOK, AsksSafely
<1>2. ASSUME NEW place \in {"rest", "rebinding"}, Disconnect(place), UNCHANGED <<wants, image>>
      PROVE  InHand
  <2>1. Leads(Places) /\ lease' = FALSE /\ sent' \in {sent, "center"}
    BY <1>0, <1>2, DisconnectLeads
  <2> QED
    BY <1>0, <1>2, <2>1 DEF ServiceTypeOK, AsksSafely
<1>3. CASE TickOffline \/ Rebind
  BY <1>2, <1>3 DEF TickOffline, Rebind
<1>4. CASE ResetCredential
  <2>1. Leads(Places)
    <3>1. PICK back \in {"requests", "start"} : Clear("clear_runtime", back)
      BY <1>4 DEF ResetCredential
    <3> QED
      BY <1>0, <3>1, ClearLeads
  <2>2. wants' \subseteq {"start", "rebind"} /\ UNCHANGED <<lease, image, sent>>
    BY <1>0, <1>4 DEF ResetCredential, ServiceTypeOK
  <2> QED
    BY <1>0, <2>1, <2>2 DEF ServiceTypeOK, AsksSafely
<1>5. ASSUME NEW r \in Refusals \cup {"ok"}, StartPairing(r) PROVE InHand
  <2>1. wants' \subseteq wants /\ UNCHANGED <<lease, image>>
    BY <1>5 DEF StartPairing
  <2>2. CASE healthy /\ ~HasToken(creds)
    <3>1. /\ sent' = "start"
          /\ \/ Store("save_pending", "poll")
             \/ r \in Refusals /\ Refused(r, "poll")
      BY <1>5, <2>2 DEF StartPairing
    <3>2. Leads(Places)
      BY <1>0, <3>1, StoreLeads, RefusedLeads
    <3> QED
      BY <1>0, <2>1, <2>2, <3>1, <3>2 DEF ServiceTypeOK, AsksSafely
  <2>3. CASE ~(healthy /\ ~HasToken(creds))
    <3>1. Passes /\ UNCHANGED sent
      BY <1>0, <1>5, <2>3 DEF StartPairing, Passes
    <3> QED
      BY <1>0, <2>1, <3>1, PassLeads DEF ServiceTypeOK, AsksSafely
  <2> QED
    BY <2>2, <2>3
<1>6. ASSUME NEW r \in PollAnswers, PollPairing(r) PROVE InHand
  <2>1. UNCHANGED <<wants, lease, image>>
    BY <1>6 DEF PollPairing, serviceVars
  <2>2. CASE healthy /\ creds = "pending"
    <3>1. /\ sent' = "poll"
          /\ \/ \E change \in {"promote_bound", "promote_inactive"} : Store(change, "check")
             \/ Clear("clear_pending", "check") \/ Recovery("check")
             \/ at' = "check" /\ UNCHANGED <<journalVars, clientVars, resume>>
             \/ r \in Refusals /\ Refused(r, "check")
      BY <1>6, <2>2 DEF PollPairing
    <3>2. Leads(Places)
      BY <1>0, <3>1, StoreLeads, ClearLeads, RecoveryLeads, RefusedLeads, PassLeads DEF Passes
    <3>3. ~HasToken("pending")
      BY DEF HasToken
    <3> QED
      BY <1>0, <2>1, <2>2, <3>1, <3>2, <3>3 DEF ServiceTypeOK, AsksSafely
  <2>3. CASE ~(healthy /\ creds = "pending")
    <3>1. Passes /\ UNCHANGED sent
      BY <1>0, <1>6, <2>3 DEF PollPairing, Passes
    <3> QED
      BY <1>0, <2>1, <3>1, PassLeads DEF ServiceTypeOK, AsksSafely
  <2> QED
    BY <2>2, <2>3
<1>7. ASSUME NEW r \in CheckAnswers, CheckAuthorization(r) PROVE InHand
  <2>1. UNCHANGED <<wants, lease, image>>
    BY <1>7 DEF CheckAuthorization, serviceVars
  <2>2. CASE MayAsk
    <3>1. Check(r, "handoff", "rest") /\ (r = "authorized" => verified' = TRUE)
      BY <1>7, <2>2 DEF CheckAuthorization
    <3>2. Leads(Places) /\ sent' = "check"
      BY <1>0, <2>2, <3>1, CheckLeads
    <3> QED
      BY <1>0, <2>1, <3>2 DEF ServiceTypeOK, AsksSafely
  <2>3. CASE ~MayAsk
    <3>1. /\ verified' = FALSE /\ at' = "rest"
          /\ UNCHANGED <<journalVars, activation, creds, healthy, ready, resume, sent>>
      BY <1>7, <2>3 DEF CheckAuthorization
    <3>2. JournalRests /\ Durable' = Durable /\ UNCHANGED stage
      BY <3>1, LoadedRests DEF journalVars, JournalRests
    <3>3. Leads(Places)
      BY <1>0, <3>1, <3>2 DEF Leads, InUse, JournalStep, WaitsForStore, ClientTypeOK, Agrees
    <3> QED
      BY <1>0, <2>1, <3>1, <3>3 DEF ServiceTypeOK, AsksSafely
  <2> QED
    BY <2>2, <2>3
<1> QED
  BY <1>1, <1>3, <1>4, <1>5, <1>6, <1>7 DEF StartDue, PollDue, CheckDue

\* The sessions: voice, and the Portal lane's image request.
LEMMA SessionInHand ==
  ASSUME InUse,
         \/ Handoff \/ NoHandoff \/ ConnectVoice \/ (\E r \in CenterAnswers : SelectVoice(r))
         \/ EndTick \/ PortalSession \/ (\E r \in CenterAnswers : PortalSelect(r))
         \/ PortalWork \/ (\E r \in CenterAnswers : PortalRelease(r)) \/ FinishImage
  PROVE  InHand
<1> USE InUseFacts DEF InHand
<1>0. /\ ServiceTypeOK
      /\ {"rest", "voice", "select", "portal", "portal_select", "portal_work",
          "portal_release", "portal_end"} \subseteq Places
  BY DEF InUse, PairingInv, TypeOK, ServiceTypeOK, Places
<1>1. ASSUME NEW place \in {"portal", "rest"}, Disconnect(place),
             UNCHANGED wants, image' \in {image, "exclusive"}
      PROVE  InHand
  <2>1. Leads(Places) /\ lease' = FALSE /\ sent' \in {sent, "center"}
    BY <1>0, <1>1, DisconnectLeads
  <2> QED
    BY <1>0, <1>1, <2>1 DEF ServiceTypeOK, AsksSafely
<1>2. ASSUME Passes, UNCHANGED <<wants, lease, sent>>, image' \in {image, "idle"}
      PROVE  InHand
  BY <1>0, <1>2, PassLeads DEF ServiceTypeOK, AsksSafely
<1>3. ASSUME NEW from, NEW to \in {"select", "portal_select"},
             NEW failed \in {"rest", "portal_end"},
             OpenSession(from, to, failed), UNCHANGED serviceVars
      PROVE  InHand
  <2>1. CASE MayAsk
    <3>1. PICK r \in CheckAnswers :
            Check(r, to, failed) /\ (r = "authorized" => UNCHANGED verified)
      BY <1>3, <2>1 DEF OpenSession
    <3>2. r = "authorized" => verified' \in BOOLEAN
      BY <3>1 DEF ClientTypeOK
    <3>3. Leads(Places) /\ sent' = "check"
      BY <1>0, <2>1, <3>1, <3>2, CheckLeads
    <3> QED
      BY <1>0, <1>3, <3>3 DEF ServiceTypeOK, serviceVars, AsksSafely
  <2>2. CASE ~MayAsk
    <3>1. Passes /\ UNCHANGED sent
      BY <1>0, <1>3, <2>2 DEF OpenSession, Passes
    <3> QED
      BY <1>2, <1>3, <3>1 DEF serviceVars
  <2> QED
    BY <2>1, <2>2
<1>4. ASSUME NEW r \in CenterAnswers,
             NEW place \in {"rest", "portal_work", "portal_end"}, Center(r, place),
             UNCHANGED <<wants, image>>, lease' \in BOOLEAN
      PROVE  InHand
  <2>1. Leads(Places) /\ sent' = "center"
    BY <1>0, <1>4, CenterLeads
  <2> QED
    BY <1>0, <1>4, <2>1 DEF ServiceTypeOK, AsksSafely
<1>5. CASE Handoff
  BY <1>1, <1>5 DEF Handoff
<1>6. CASE NoHandoff \/ FinishImage
  BY <1>0, <1>2, <1>6 DEF NoHandoff, FinishImage, Passes, serviceVars
<1>7. CASE ConnectVoice \/ PortalSession
  BY <1>3, <1>7 DEF ConnectVoice, PortalSession
<1>8. ASSUME NEW r \in CenterAnswers, SelectVoice(r) PROVE InHand
  <2>1. lease' \in BOOLEAN
    BY <1>8, Zenon DEF SelectVoice
  <2> QED
    BY <1>4, <1>8, <2>1 DEF SelectVoice
<1>9. CASE EndTick
  BY <1>0, <1>1, <1>2, <1>9 DEF EndTick, Passes
<1>10. ASSUME NEW r \in CenterAnswers, PortalSelect(r) \/ PortalRelease(r) PROVE InHand
  <2>1. lease' \in BOOLEAN /\ UNCHANGED <<wants, image>>
    BY <1>0, <1>10 DEF PortalSelect, PortalRelease, serviceVars, ServiceTypeOK
  <2>2. PICK place \in {"portal_work", "portal_end"} : Center(r, place)
    BY <1>10 DEF PortalSelect, PortalRelease
  <2> QED
    BY <1>4, <2>1, <2>2
<1>11. CASE PortalWork
  <2>1. CASE at' = "portal_release" /\ UNCHANGED <<journalVars, clientVars, resume>>
    BY <1>0, <1>2, <1>11, <2>1 DEF PortalWork, Passes, serviceVars
  <2>2. ASSUME NEW r \in Refusals, Refused(r, "portal_release") PROVE InHand
    <3>1. Leads(Places)
      BY <1>0, <2>2, RefusedLeads
    <3> QED
      BY <1>0, <1>11, <3>1 DEF PortalWork, serviceVars, ServiceTypeOK, AsksSafely
  <2> QED
    BY <1>11, <2>1, <2>2 DEF PortalWork
<1> QED
  BY <1>5, <1>6, <1>7, <1>8, <1>9, <1>10, <1>11

-----------------------------------------------------------------------------
(* The invariant *)

\* The parts of TypeOK.
LEMMA TypeParts ==
  TypeOK <=> /\ JournalTypeOK /\ ClientTypeOK /\ ServiceTypeOK
             /\ at \in Places \cup {"storing"}
BY DEF TypeOK, ClientTypeOK, ServiceTypeOK

LEMMA InHandStep == ASSUME InUse, InHand PROVE PairingInv' /\ JournalStep /\ AsksSafely
<1>1. JournalInv' /\ JournalStep /\ AsksSafely
  BY JournalStepInv DEF InUse, PairingInv, InHand, Leads
<1>2. TypeOK'
  BY <1>1, TypeParts DEF InHand, Leads, JournalInv, TypeOK, ClientTypeOK, ServiceTypeOK
<1>3. AwayReady' /\ ActivationCoherent' /\ WaitsForStore'
  BY DEF InHand, Leads, AwayReady, ActivationCoherent, Agrees
<1> QED
  BY <1>1, <1>2, <1>3 DEF PairingInv

LEMMA InitInv == ASSUME Init PROVE PairingInv
<1> USE JournalBounds DEF Init, JournalInit
<1>1. TypeOK
  <2>1. JournalTypeOK
    <3>1. marker \in BOOLEAN
      BY Zenon
    <3>2. slots \in [{0, 1} -> Records \cup {Absent}]
      OBVIOUS
    <3>3. head \in 0..MaxGeneration /\ faults \in 0..MaxFaults
      OBVIOUS
    <3> QED
      BY <3>1, <3>2, <3>3 DEF JournalTypeOK, Stages
  <2>2. ClientTypeOK /\ at \in Places
    BY DEF ClientTypeOK, Activations, Places
  <2>3. ServiceTypeOK
    BY DEF ServiceTypeOK
  <2> QED
    BY <2>1, <2>2, <2>3, TypeParts
<1>2. JournalInv
  BY <1>1 DEF JournalInv, TypeOK, HeadHolds, NextRecord, SlotWritten, HeadMoved, OkIsHeld
<1> QED
  BY <1>1, <1>2 DEF PairingInv, WaitsForStore, AwayReady, ActivationCoherent

\* The credential that is found decides the state the client starts in.
LEMMA LoadedAgrees ==
  ASSUME NEW c \in Credentials, NEW v \in BOOLEAN, v => ActivationOf(c) = "Bound"
  PROVE  /\ ActivationOf(c) \in Activations
         /\ ActivationOf(c) = "Bound" => HasToken(c)
         /\ ActivationOf(c) = "Pairing" => c = "pending"
         /\ ActivationOf(c) = "Unconfigured" => c = "unbound"
BY DEF ActivationOf, Activations, Credentials, HasToken

\* A credential that has been loaded is installed whole.
LEMMA InstallCoherent ==
  ASSUME TypeOK, JournalInv, head # 0,
         creds' = Loaded.credential, SetActivation(ActivationOf(Loaded.credential)),
         UNCHANGED keys
  PROVE  /\ activation' \in Activations /\ creds' \in Credentials /\ verified' \in BOOLEAN
         /\ Agrees'
<1>1. Loaded.credential \in Credentials /\ Durable = Loaded.credential /\ Durable' = Durable
  BY LoadedByHead, LoadedRests DEF JournalInv, Records
<1>2. ClientTypeOK
  BY TypeParts
<1>3. ActivationOf(Loaded.credential) \in Activations
  BY <1>1, LoadedAgrees
<1>4. /\ activation' = ActivationOf(Loaded.credential) /\ verified' \in BOOLEAN
      /\ verified' => activation' = "Bound"
  BY <1>2, <1>3, SetActivationType
<1> QED
  BY <1>1, <1>3, <1>4, LoadedAgrees DEF Agrees

\* A store that fails leaves an unhealthy client.
LEMMA FailureType ==
  ASSUME ClientTypeOK, StorageFailure, UNCHANGED <<ready, resume>>
  PROVE  ClientTypeOK' /\ healthy' = FALSE
<1>1. "Error" \in Activations
  BY DEF Activations
<1>2. activation' = "Error" /\ verified' \in BOOLEAN
  BY <1>1, SetActivationType DEF StorageFailure
<1> QED
  BY <1>1, <1>2 DEF StorageFailure, ClientTypeOK

LEMMA InitializeStep ==
  ASSUME PairingInv, Initialize
  PROVE  PairingInv' /\ JournalStep /\ AsksSafely
<1>0. /\ JournalTypeOK /\ HeadHolds /\ ClientTypeOK /\ ServiceTypeOK
      /\ {"rest", "requests"} \subseteq Places /\ "initialize" \in Changes /\ stage = "idle"
  BY TypeParts DEF PairingInv, JournalInv, Places, Changes, Initialize, WaitsForStore
<1>1. AsksSafely /\ ServiceTypeOK'
  BY <1>0 DEF Initialize, AsksSafely, ServiceTypeOK, serviceVars
<1>2. CASE /\ Loaded # Corrupt /\ creds' = Loaded.credential /\ healthy' = TRUE
           /\ Loaded.credential = NoCredential /\ Begin("initialize")
           /\ at' = "storing" /\ resume' = "requests"
           /\ UNCHANGED <<activation, ready, verified>>
  <2>1. JournalStep /\ JournalInv'
    BY <1>0, <1>2, JournalStepInv DEF JournalStep, PairingInv
  <2>2. ClientTypeOK'
    BY <1>0, <1>2 DEF ClientTypeOK
  <2>3. TypeOK'
    BY <1>1, <1>2, <2>1, <2>2 DEF TypeOK, JournalInv, ClientTypeOK, ServiceTypeOK
  <2> QED
    BY <1>1, <1>2, <2>1, <2>3 DEF PairingInv, WaitsForStore, AwayReady, ActivationCoherent
<1>3. CASE /\ Loaded # Corrupt /\ creds' = Loaded.credential /\ healthy' = TRUE
           /\ Loaded.credential # NoCredential /\ ready' = TRUE
           /\ SetActivation(ActivationOf(Loaded.credential))
           /\ at' = "requests"
           /\ UNCHANGED <<journalVars, resume>>
  <2>1. JournalStep /\ JournalInv' /\ UNCHANGED <<keys, stage>>
    <3>1. JournalStep /\ UNCHANGED <<keys, stage>>
      BY <1>3 DEF JournalStep, JournalRests, journalVars
    <3> QED
      BY <3>1, JournalStepInv DEF PairingInv
  <2>2. head # 0
    BY <1>0, <1>3, LoadedByHead DEF Fresh
  <2>3. activation' \in Activations /\ creds' \in Credentials /\ verified' \in BOOLEAN /\ Agrees'
    BY <1>3, <2>1, <2>2, InstallCoherent DEF PairingInv
  <2>4. ClientTypeOK'
    BY <1>0, <1>3, <2>3 DEF ClientTypeOK
  <2>5. TypeOK'
    BY <1>0, <1>1, <1>3, <2>1, <2>4 DEF TypeOK, JournalInv, ClientTypeOK, ServiceTypeOK
  <2> QED
    BY <1>0, <1>1, <1>3, <2>1, <2>3, <2>5 DEF PairingInv, WaitsForStore, AwayReady,
       ActivationCoherent, Agrees
<1>4. CASE /\ UNCHANGED faults \/ Fault
           /\ StorageFailure
           /\ UNCHANGED <<keys, stage, writing, answer, ready, at, resume>>
  <2>1. JournalStep /\ JournalInv'
    <3>1. JournalStep
      BY <1>4 DEF JournalStep, JournalRests
    <3> QED
      BY <3>1, JournalStepInv DEF PairingInv
  <2>2. ClientTypeOK' /\ healthy' = FALSE
    BY <1>0, <1>4, FailureType
  <2>3. TypeOK'
    BY <1>1, <1>4, <2>1, <2>2 DEF PairingInv, TypeOK, JournalInv, ClientTypeOK, ServiceTypeOK
  <2> QED
    BY <1>1, <1>4, <2>1, <2>2, <2>3 DEF PairingInv, WaitsForStore, AwayReady, ActivationCoherent
<1> QED
  BY <1>2, <1>3, <1>4 DEF Initialize

LEMMA SettleStep ==
  ASSUME PairingInv, Settle
  PROVE  PairingInv' /\ JournalStep /\ AsksSafely
<1>0. /\ JournalTypeOK /\ HeadHolds /\ ClientTypeOK /\ ServiceTypeOK
      /\ "rest" \in Places /\ at = "storing" /\ stage = "idle"
      /\ UNCHANGED <<keys, stage, writing, answer, wants, lease, image, resume, sent>>
  BY TypeParts DEF PairingInv, JournalInv, Places, Settle, serviceVars
<1>1. AsksSafely /\ ServiceTypeOK'
  BY <1>0 DEF AsksSafely, ServiceTypeOK
<1>2. JournalStep /\ JournalInv'
  <2>1. JournalStep
    BY <1>0 DEF Settle, JournalStep, JournalRests
  <2> QED
    BY <2>1, JournalStepInv DEF PairingInv
<1>3. CASE /\ answer = "ok" /\ creds' = Loaded.credential
           /\ SetActivation(ActivationOf(Loaded.credential))
           /\ ready' = TRUE /\ at' = resume /\ UNCHANGED healthy
  <2>1. head # 0
    BY <1>3 DEF PairingInv, JournalInv, OkIsHeld
  <2>2. activation' \in Activations /\ creds' \in Credentials /\ verified' \in BOOLEAN /\ Agrees'
    BY <1>0, <1>3, <2>1, InstallCoherent DEF PairingInv
  <2>3. ClientTypeOK'
    BY <1>0, <1>3, <2>2 DEF ClientTypeOK
  <2>4. TypeOK'
    BY <1>0, <1>1, <1>2, <1>3, <2>3 DEF TypeOK, JournalInv, ClientTypeOK, ServiceTypeOK
  <2> QED
    BY <1>0, <1>1, <1>2, <1>3, <2>2, <2>4 DEF PairingInv, WaitsForStore, AwayReady,
       ActivationCoherent, Agrees
<1>4. CASE StorageFailure /\ at' = (IF ready THEN resume ELSE "rest") /\ UNCHANGED ready
  <2>1. ClientTypeOK' /\ healthy' = FALSE
    BY <1>0, <1>4, FailureType
  <2>2. TypeOK'
    BY <1>0, <1>1, <1>2, <1>4, <2>1 DEF TypeOK, JournalInv, ClientTypeOK, ServiceTypeOK
  <2> QED
    BY <1>0, <1>1, <1>2, <1>4, <2>1, <2>2 DEF PairingInv, WaitsForStore, AwayReady,
       ActivationCoherent
<1> QED
  BY <1>3, <1>4 DEF Settle

LEMMA StoreNextStep ==
  ASSUME PairingInv, StoreNext
  PROVE  PairingInv' /\ JournalStep /\ AsksSafely
<1>1. /\ JournalStep /\ at = "storing" /\ at' = "storing"
      /\ UNCHANGED <<clientVars, serviceVars, laneVars>>
  BY DEF StoreNext, JournalStep, laneVars
<1>2. JournalInv'
  BY <1>1, JournalStepInv DEF PairingInv
<1>3. TypeOK'
  BY <1>1, <1>2 DEF PairingInv, TypeOK, JournalInv, clientVars, serviceVars, laneVars
<1> QED
  BY <1>1, <1>2, <1>3 DEF PairingInv, WaitsForStore, AwayReady, ActivationCoherent, AsksSafely,
     laneVars

LEMMA OutsideStep ==
  ASSUME PairingInv,
         \/ (\E what \in {"start", "rebind"} : Request(what)) \/ RequestImage \/ Reboot
         \/ UNCHANGED vars
  PROVE  PairingInv' /\ JournalStep /\ AsksSafely
<1>1. CASE Reboot
  <2>1. JournalStep /\ JournalInv' /\ stage' = "idle"
    <3>1. JournalStep /\ stage' = "idle"
      BY <1>1 DEF Reboot, JournalStep, JournalPowerCut, Finish
    <3> QED
      BY <3>1, JournalStepInv DEF PairingInv
  <2>2. TypeOK'
    BY <1>1, <2>1 DEF Reboot, TypeOK, JournalInv, Activations, Places
  <2> QED
    BY <1>1, <2>1, <2>2 DEF Reboot, PairingInv, WaitsForStore, AwayReady, ActivationCoherent,
       AsksSafely
<1>2. CASE \/ (\E what \in {"start", "rebind"} : Request(what)) \/ RequestImage
           \/ UNCHANGED vars
  <2>1. /\ UNCHANGED <<journalVars, clientVars, lease, laneVars>>
        /\ wants' \subseteq {"start", "rebind"} /\ image' \in {image, "pending"}
    BY <1>2 DEF Request, RequestImage, PairingInv, TypeOK, vars, serviceVars
  <2>2. JournalStep /\ JournalInv' /\ UNCHANGED <<keys, stage>>
    <3>1. JournalStep /\ UNCHANGED <<keys, stage>>
      BY <2>1 DEF JournalStep, JournalRests, journalVars
    <3> QED
      BY <3>1, JournalStepInv DEF PairingInv
  <2>3. TypeOK'
    BY <2>1, <2>2 DEF PairingInv, TypeOK, JournalInv, clientVars, laneVars
  <2>4. Durable' = Durable
    BY <2>2, LoadedRests
  <2> QED
    BY <2>1, <2>2, <2>3, <2>4 DEF PairingInv, WaitsForStore, AwayReady, ActivationCoherent,
       AsksSafely, clientVars, laneVars
<1> QED
  BY <1>1, <1>2

\* A step of the specification is one of the journal, asks safely, and keeps
\* the invariant.
LEMMA PairingStep ==
  ASSUME PairingInv, [Next]_vars
  PROVE  PairingInv' /\ JournalStep /\ AsksSafely
<1>1. CASE \/ Tick \/ TickOffline \/ Rebind \/ ResetCredential \/ NoStart \/ StartDue
           \/ NoStartDue \/ PollDue \/ NoPoll \/ CheckDue \/ NoCheck
  <2>1. InUse
    BY <1>1 DEF InUse, PairingInv, AwayReady, Tick, TickOffline, Rebind, ResetCredential,
       NoStart, StartDue, StartPairing, NoStartDue, PollDue, PollPairing, NoPoll, CheckDue,
       CheckAuthorization, NoCheck
  <2> QED
    BY <1>1, <2>1, TickInHand, InHandStep
<1>2. CASE \/ Handoff \/ NoHandoff \/ ConnectVoice \/ (\E r \in CenterAnswers : SelectVoice(r))
           \/ EndTick \/ PortalSession \/ (\E r \in CenterAnswers : PortalSelect(r))
           \/ PortalWork \/ (\E r \in CenterAnswers : PortalRelease(r)) \/ FinishImage
  <2>1. InUse
    BY <1>2 DEF InUse, PairingInv, AwayReady, Handoff, NoHandoff, ConnectVoice, OpenSession,
       SelectVoice, EndTick, PortalSession, PortalSelect, PortalWork, PortalRelease, FinishImage
  <2> QED
    BY <1>2, <2>1, SessionInHand, InHandStep
<1>3. CASE Initialize
  BY <1>3, InitializeStep
<1>4. CASE Settle
  BY <1>4, SettleStep
<1>5. CASE StoreNext
  BY <1>5, StoreNextStep
<1>6. CASE \/ (\E what \in {"start", "rebind"} : Request(what)) \/ RequestImage \/ Reboot
           \/ UNCHANGED vars
  BY <1>6, OutsideStep
<1> QED
  BY <1>1, <1>2, <1>3, <1>4, <1>5, <1>6 DEF Next, LaneStep

\* The inductive invariant holds in every run.
THEOREM PairingInductive == Spec => []PairingInv
<1>1. Init => PairingInv
  BY InitInv
<1>2. PairingInv /\ [Next]_vars => PairingInv'
  BY PairingStep
<1> QED
  BY <1>1, <1>2, PTL DEF Spec

\* Every variable of the client and of its journal keeps its type.
THEOREM TypeCorrectness == Spec => []TypeOK
<1>1. PairingInv => TypeOK
  BY DEF PairingInv
<1> QED
  BY <1>1, PairingInductive, PTL

\* While no change is under way, a client that believes its store healthy holds
\* the credential a boot would find, and shows a state that agrees with it.
THEOREM ActivationCoherentHolds == Spec => []ActivationCoherent
<1>1. PairingInv => ActivationCoherent
  BY DEF PairingInv
<1> QED
  BY <1>1, PairingInductive, PTL

\* No pairing request goes out while the durable record holds a device token.
THEOREM NoTokenRotationHolds == Spec => NoTokenRotation
<1>1. PairingInv /\ [Next]_vars => [sent' \in {"start", "poll"} /\ sent' # sent => ~HasToken(Durable)]_vars
  BY PairingStep DEF AsksSafely
<1> QED
  BY <1>1, PairingInductive, PTL DEF Spec, NoTokenRotation

-----------------------------------------------------------------------------
(* Refinement *)

\* The credential in the slot the head selects.
Selected == IF head = 0 THEN NoCredential ELSE slots[SlotOf(head)].credential

LEMMA DurableSelected == JournalInv => (Durable = Selected)
BY LoadedByHead DEF JournalInv, Selected

\* And so it is after a step.
LEMMA DurableSelectedNext == JournalInv' => (Durable = Selected)'
BY DurableSelected, PTL

\* What a change started from is Durable until the head has moved; from then on
\* Durable is what the change stores.
LEMMA BeforeByStage ==
  ASSUME JournalInv
  PROVE  /\ stage \in {"idle", "slot", "verify", "head"} => Before = Durable
         /\ stage \in {"marker", "confirm"} => Durable = writing.credential
<1>1. stage \in {"idle", "slot", "verify", "head"} => Before = Durable
  BY DEF Before
<1>2. CASE stage \in {"marker", "confirm"}
  <2>1. head = writing.gen /\ writing.gen # 0 /\ slots[SlotOf(head)] = writing
    BY <1>2, JournalMarks DEF JournalInv, JournalTypeOK, HeadMoved, SlotWritten, Records
  <2>2. Durable = writing.credential
    BY <2>1, DurableSelected DEF Selected
  <2> QED
    BY <1>2, <2>2
<1> QED
  BY <1>1, <1>2 DEF JournalInv, JournalTypeOK, Stages

\* Every step of the journal is one of the atomic document, or none.
LEMMA JournalRefines ==
  ASSUME JournalInv, JournalStep
  PROVE  Promise!Next \/ UNCHANGED Promise!vars
<1> DEFINE Doc == Before
           Prop == IF stage = "idle" THEN Absent ELSE writing.credential
           Ans == IF answer = "ok" THEN "ok" ELSE "none"
<1>0. /\ JournalInv' /\ JournalTypeOK
      /\ stage # "idle" => writing \in Records /\ writing.credential \in Credentials
      /\ Absent \notin Credentials \cup {NoCredential}
      /\ Durable \in Credentials \cup {NoCredential}
  BY JournalStepInv, JournalMarks, LoadedByHead DEF JournalInv, JournalTypeOK, Records
<1>1. CASE JournalRests
  <2>1. UNCHANGED <<Doc, Prop, Ans>>
    BY <1>1, LoadedRests DEF JournalRests, keys, Before
  <2> QED
    BY <2>1 DEF Promise!vars
\* A cut at any step: the old document or the new one.
<1>2. ASSUME Doc' \in {Doc, Prop}, Doc' # Absent, stage' = "idle", answer' # "ok"
      PROVE  Promise!PowerCut
  BY <1>2 DEF Promise!PowerCut
<1>3. ASSUME NEW change \in Changes, Begin(change) PROVE Promise!Next \/ UNCHANGED Promise!vars
  <2>1. Durable' = Durable /\ Doc = Durable /\ Doc' = Durable' /\ stage = "idle"
    BY <1>0, <1>3, LoadedRests, BeforeByStage DEF Begin, Finish, Before
  <2>2. CASE stage' = "slot" /\ UNCHANGED answer
    <3>1. Prop' \in Credentials /\ UNCHANGED <<Doc, Ans>> /\ Prop = Absent
      BY <1>0, <2>1, <2>2 DEF JournalInv, JournalTypeOK, Records
    <3> QED
      BY <3>1 DEF Promise!Next, Promise!Propose
  <2>3. CASE Finish("failed")
    <3>1. UNCHANGED <<Doc, Prop>> /\ Prop = Absent /\ Ans' = "none"
      BY <2>1, <2>3 DEF Finish
    <3> QED
      BY <3>1 DEF Promise!Next, Promise!Call
  <2> QED
    BY <1>3, <2>2, <2>3 DEF Begin
<1>4. CASE WriteSlot \/ Verify \/ WriteHead
  <2>1. stage \in {"slot", "verify", "head"} /\ Doc = Durable /\ Prop = writing.credential
    BY <1>4, BeforeByStage DEF WriteSlot, Verify, WriteHead
  <2>2. CASE UNCHANGED head
    <3>1. Durable' = Durable
      <4>1. head = 0 \/ SlotOf(head) # SlotOf(writing.gen)
        BY <1>0, <2>1, SlotsAlternate DEF JournalInv, JournalTypeOK, NextRecord
      <4>2. head # 0 => slots'[SlotOf(head)] = slots[SlotOf(head)]
        BY <1>0, <1>4, <4>1, SlotsAlternate DEF JournalTypeOK, WriteSlot, Verify, WriteHead, keys
      <4> QED
        BY <1>0, <2>2, <4>2, DurableSelected, DurableSelectedNext DEF Selected
    <3>2. CASE stage' \in {"verify", "head"} /\ UNCHANGED <<writing, answer>>
      BY <2>1, <3>1, <3>2 DEF Before, Promise!vars
    <3>3. CASE Finish("failed")
      <4>1. Doc' = Doc /\ Doc # Absent
        BY <1>0, <2>1, <3>1, <3>3 DEF Before, Finish
      <4> QED
        BY <1>2, <3>3, <4>1 DEF Finish, Promise!Next
    <3>4. CASE WriteHead /\ head' = writing.gen
      BY <2>2, <3>4, <1>0 DEF WriteHead, NextRecord, JournalInv, JournalTypeOK
    <3> QED
      BY <1>4, <3>2, <3>3, <3>4 DEF WriteSlot, Verify, WriteHead
  <2>3. CASE WriteHead /\ head' = writing.gen
    <3>1. /\ writing.gen = head + 1 /\ head \in Nat
          /\ UNCHANGED slots /\ slots[SlotOf(writing.gen)] = writing
      BY <1>0, <2>3 DEF WriteHead, NextRecord, SlotWritten, JournalInv, JournalTypeOK
    <3>2. 1 - SlotOf(writing.gen) = SlotOf(head)
      BY <3>1, SlotsAlternate
    <3>3. CASE stage' = "marker" /\ UNCHANGED <<writing, answer>>
      <4>1. Before' = Durable
        BY <3>1, <3>2, <3>3, DurableSelected DEF Before, Selected
      <4> QED
        BY <2>1, <3>3, <4>1 DEF Promise!vars
    <3>4. CASE Finish("failed")
      <4>1. Durable' = writing.credential
        BY <1>0, <2>3, <3>1, DurableSelectedNext DEF Selected
      <4>2. Doc' = Prop /\ Prop # Absent
        BY <1>0, <2>1, <3>4, <4>1 DEF Before, Finish
      <4> QED
        BY <1>2, <3>4, <4>2 DEF Finish, Promise!Next
    <3> QED
      BY <2>3, <3>3, <3>4 DEF WriteHead
  <2> QED
    BY <1>4, <2>2, <2>3 DEF WriteSlot, Verify, WriteHead, keys
<1>5. CASE WriteMarker \/ Confirm
  <2>1. /\ stage \in {"marker", "confirm"} /\ UNCHANGED <<slots, head>>
        /\ Durable = writing.credential /\ Prop = writing.credential
    BY <1>5, BeforeByStage DEF WriteMarker, Confirm, keys
  <2>2. Durable' = Durable
    BY <1>0, <2>1, DurableSelected, DurableSelectedNext DEF Selected
  <2>3. CASE stage' = "confirm" /\ UNCHANGED <<writing, answer>>
    BY <2>1, <2>3 DEF Before, Promise!vars
  <2>4. CASE Finish("ok")
    <3>1. Doc' = Prop /\ Prop # Absent /\ Prop' = Absent /\ Ans' = "ok"
      BY <1>0, <2>1, <2>2, <2>4 DEF Before, Finish
    <3> QED
      BY <3>1 DEF Promise!Next, Promise!Confirm
  <2>5. CASE Finish("failed")
    <3>1. Doc' = Prop /\ Prop # Absent
      BY <1>0, <2>1, <2>2, <2>5 DEF Before, Finish
    <3> QED
      BY <1>2, <2>5, <3>1 DEF Finish, Promise!Next
  <2> QED
    BY <1>5, <2>3, <2>4, <2>5, Zenon DEF WriteMarker, Confirm
<1>6. CASE JournalPowerCut
  <2>1. Durable' = Durable /\ Doc' = Durable' /\ stage' = "idle" /\ answer' = "none"
    BY <1>6, LoadedRests DEF JournalPowerCut, Finish, Before
  <2>2. Durable \in {Doc, Prop} /\ Durable # Absent
    BY <1>0, BeforeByStage DEF JournalInv, JournalTypeOK, Stages
  <2> QED
    BY <1>2, <2>1, <2>2 DEF Promise!Next
<1> QED
  BY <1>1, <1>3, <1>4, <1>5, <1>6 DEF JournalStep, StoreStep

\* The journal is a store of one document: a change takes effect completely or
\* not at all, "ok" is answered only when it is durable, and a power cut, or a
\* failure the client is told of, leaves the old record or the new one.
THEOREM ImplementsDurable == Spec => DurableSpec
<1>1. Init => Promise!Init
  <2>1. ASSUME Init PROVE Before = NoCredential
    BY <2>1 DEF Init, JournalInit, Before, Durable, Loaded, AnyKey, Fresh
  <2> QED
    BY <2>1 DEF Init, JournalInit, Promise!Init
<1>2. PairingInv /\ [Next]_vars => [Promise!Next]_(Promise!vars)
  BY PairingStep, JournalRefines DEF PairingInv
<1> QED
  BY <1>1, <1>2, PairingInductive, PTL DEF Spec, DurableSpec, Promise!Spec
=============================================================================
