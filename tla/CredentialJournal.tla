--------------------------- MODULE CredentialJournal ---------------------------
(***************************************************************************)
(* The MyAI credential of the device, in a journal of four NVS keys: two   *)
(* slots, a head whose parity selects one, and an "initialized" marker.    *)
(* CredentialPersistenceCore prepares the other slot, reads it back, moves *)
(* the head, writes the marker and looks at all of it again.  NVS writes   *)
(* one key at a time, all or nothing; a call that fails may have written   *)
(* its key or not, and the power may go between any two.                   *)
(*                                                                         *)
(* One client calls it, from whichever lane owns the client at the time,   *)
(* so one change is under way at most.                                     *)
(***************************************************************************)
EXTENDS Naturals

CONSTANTS
  MaxGeneration,  \* of a record, 2^32 - 1 in the code
  MaxFaults,      \* bound: NVS calls that fail, and power cuts
  Absent, Corrupt

ASSUME JournalBounds == MaxGeneration \in Nat \ {0} /\ MaxFaults \in Nat

\* What a record says of the device: "unbound" holds the installation's
\* fingerprint alone, "pending" a pairing token, the last two a device token.
Credentials == {"unbound", "pending", "inactive", "bound"}
NoCredential == "none"
HasToken(c) == c \in {"inactive", "bound"}

Records == [gen : 1..MaxGeneration, credential : Credentials]
Fresh == [gen |-> 0, credential |-> NoCredential]

\* Neither mark is a record or a credential, and they differ.
ASSUME JournalMarks ==
  /\ Absent # Corrupt
  /\ {Absent, Corrupt} \cap (Records \cup {Fresh}) = {}
  /\ Absent \notin Credentials \cup {NoCredential}

Changes == {"initialize", "save_pending", "promote_bound", "promote_inactive",
            "clear_pending", "clear_runtime"}
Stages == {"idle", "slot", "verify", "head", "marker", "confirm"}

VARIABLES
  slots, head, marker,  \* the keys; head 0 is an absent one
  stage,                \* the next step of storeNext()
  writing,              \* the record it stores, or Absent
  answer,               \* of the last change: "none", "ok" or "failed"
  faults

keys == <<slots, head, marker>>
journalVars == <<keys, stage, writing, answer, faults>>

SlotOf(g) == g % 2

AnyKey == marker \/ head # 0 \/ \E s \in {0, 1} : slots[s] # Absent

\* CredentialPersistenceCore::load().
Loaded ==
  IF ~AnyKey THEN Fresh
  ELSE IF head = 0 \/ slots[SlotOf(head)] = Absent THEN Corrupt
  ELSE IF slots[SlotOf(head)].gen # head THEN Corrupt
  ELSE slots[SlotOf(head)]

\* The credential each change starts from, and what it makes of it; a change
\* that does not apply is refused before anything is written.
Applies(change, c) ==
  CASE change = "initialize" -> c = NoCredential
    [] change = "save_pending" -> c \in {"unbound", "pending"}
    [] change \in {"promote_bound", "promote_inactive"} -> c = "pending"
    [] OTHER -> c # NoCredential

Result(change, c) ==
  CASE change = "save_pending" -> "pending"
    [] change = "promote_bound" -> "bound"
    [] change = "promote_inactive" -> "inactive"
    [] change = "clear_pending" -> IF HasToken(c) THEN c ELSE "unbound"
    [] OTHER -> "unbound"

JournalInit ==
  /\ slots = [s \in {0, 1} |-> Absent] /\ head = 0 /\ marker = FALSE
  /\ stage = "idle" /\ writing = Absent /\ answer = "none" /\ faults = 0

Finish(a) == stage' = "idle" /\ writing' = Absent /\ answer' = a

Fault == faults < MaxFaults /\ faults' = faults + 1

-----------------------------------------------------------------------------
\* Mutant: the head is moved before the slot it selects is written.
BeginHeadFirst(change) ==
  /\ stage = "idle" /\ Loaded # Corrupt
  /\ Applies(change, Loaded.credential) /\ Loaded.gen < MaxGeneration
  /\ head' = Loaded.gen + 1
  /\ stage' = "slot"
  /\ writing' = [gen |-> Loaded.gen + 1, credential |-> Result(change, Loaded.credential)]
  /\ UNCHANGED <<slots, marker, answer, faults>>

\* The two loads before the first write; a change that does not apply, or a
\* generation that has no next, ends here.
Begin(change) ==
  /\ stage = "idle"
  /\ UNCHANGED keys
  /\ \/ /\ Loaded # Corrupt
        /\ Applies(change, Loaded.credential)
        /\ Loaded.gen < MaxGeneration
        /\ stage' = "slot"
        /\ writing' = [gen |-> Loaded.gen + 1,
                       credential |-> Result(change, Loaded.credential)]
        /\ UNCHANGED <<answer, faults>>
     \/ /\ IF Loaded = Corrupt THEN TRUE
           ELSE \/ ~Applies(change, Loaded.credential)
                \/ Loaded.gen = MaxGeneration
        /\ Finish("failed") /\ UNCHANGED faults
     \/ Fault /\ Finish("failed")

\* writeSlotAndCommit().
WriteSlot ==
  LET written == [slots EXCEPT ![SlotOf(writing.gen)] = writing] IN
  /\ stage = "slot"
  /\ UNCHANGED <<head, marker>>
  /\ \/ slots' = written /\ stage' = "verify" /\ UNCHANGED <<writing, answer, faults>>
     \/ slots' \in {slots, written} /\ Fault /\ Finish("failed")

\* The slot is read back: a generation other than the one written fails.
Verify ==
  /\ stage = "verify"
  /\ UNCHANGED keys
  /\ \/ stage' = "head" /\ UNCHANGED <<writing, answer, faults>>
     \/ Fault /\ Finish("failed")

\* writeHeadAndMarkerAndCommit(): two keys, one after the other.
WriteHead ==
  /\ stage = "head"
  /\ UNCHANGED <<slots, marker>>
  /\ \/ head' = writing.gen /\ stage' = "marker" /\ UNCHANGED <<writing, answer, faults>>
     \/ head' \in {head, writing.gen} /\ Fault /\ Finish("failed")

WriteMarker ==
  /\ stage = "marker"
  /\ UNCHANGED <<slots, head>>
  /\ \/ marker' = TRUE /\ stage' = "confirm" /\ UNCHANGED <<writing, answer, faults>>
     \/ marker' \in {marker, TRUE} /\ Fault /\ Finish("failed")

Confirm ==
  /\ stage = "confirm"
  /\ UNCHANGED keys
  /\ \/ Finish("ok") /\ UNCHANGED faults
     \/ Fault /\ Finish("failed")

StoreStep == WriteSlot \/ Verify \/ WriteHead \/ WriteMarker \/ Confirm

\* What the power leaves: the keys, whatever step storeNext() had reached.
JournalPowerCut == Fault /\ Finish("none") /\ UNCHANGED keys

-----------------------------------------------------------------------------
JournalTypeOK ==
  /\ slots \in [{0, 1} -> Records \cup {Absent}]
  /\ head \in 0..MaxGeneration /\ marker \in BOOLEAN
  /\ stage \in Stages
  /\ writing \in Records \cup {Absent} /\ (writing = Absent <=> stage = "idle")
  /\ answer \in {"none", "ok", "failed"}
  /\ faults \in 0..MaxFaults

\* The credential a boot would find.  Keys that cannot be loaded hold none.
Durable == IF Loaded = Corrupt THEN NoCredential ELSE Loaded.credential

\* The one a change under way started from: once the head has moved it is in
\* the slot the head has left.
Before ==
  IF stage \notin {"marker", "confirm"} THEN Durable
  ELSE IF writing.gen = 1 THEN NoCredential
  ELSE slots[1 - SlotOf(writing.gen)].credential

\* The journal is a store of one document (the comment of AtomicDocument),
\* except that a change that failed may have happened, like one that the power
\* cut short: the client is told so, and must read again.
Promise == INSTANCE AtomicDocument WITH
  Documents <- Credentials \cup {NoCredential}, NoProposal <- Absent,
  document <- Before,
  proposal <- IF stage = "idle" THEN Absent ELSE writing.credential,
  answer <- IF answer = "ok" THEN "ok" ELSE "none"
=============================================================================
