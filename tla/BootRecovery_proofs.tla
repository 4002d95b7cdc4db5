-------------------------- MODULE BootRecovery_proofs --------------------------
(***************************************************************************)
(* Proofs about the three-file commit protocol, and about the boot and the *)
(* operator around it, for every set of documents and every number of      *)
(* failing calls.                                                          *)
(***************************************************************************)
EXTENDS BootRecovery, TLAPS

-----------------------------------------------------------------------------
(* PART ONE: the three files *)

\* index.json is the document the operation started from; or there has never
\* been one.
Kept == disk["current"] = base
Fresh == disk["current"] = Absent /\ disk["previous"] = Absent /\ base = Empty

RecoveringIsSound ==
  /\ pc = "trimNext" => Kept
  /\ pc \in {"dropCurrent", "dropNext", "promote"} =>
       /\ source # "current" /\ disk[source] = base
       /\ disk["current"] \notin Documents
       /\ source = "previous" => disk["next"] \notin Documents
  /\ pc \in {"dropNext", "promote"} => disk["current"] = Absent
  /\ pc = "dropNext" => source = "previous"
  /\ pc = "promote" /\ source = "previous" => disk["next"] = Absent
  /\ pc = "recovered" => Kept \/ (Fresh /\ disk["next"] = Absent)

WritingIsSound ==
  /\ pc \in {"clearNext", "openNext", "writeNext", "syncNext", "verifyNext", "retire"} =>
       Kept \/ Fresh
  /\ pc = "clearNext" => Kept \/ disk["next"] = Absent
  /\ pc = "openNext" => disk["next"] = Absent
  /\ pc = "writeNext" => disk["next"] = Torn
  /\ pc \in {"syncNext", "verifyNext", "retire", "install", "rollback"} =>
       disk["next"] = target
  /\ pc = "retire" => disk["previous"] = Absent

SwitchingIsSound ==
  /\ pc \in {"install", "rollback"} => disk["current"] = Absent
  /\ pc \in {"install", "rollback"} =>
       IF hadCurrent THEN disk["previous"] = base ELSE Fresh
  /\ pc = "rollback" => hadCurrent
  /\ pc = "abandon" =>
       \/ Kept
       \/ Fresh /\ disk["next"] \in {Absent, Torn, target}
       \/ disk["current"] = Absent /\ disk["previous"] = base /\ disk["next"] = target

\* The inductive invariant: at every point of recovery and commit, where the
\* document of the operation is.
FilesInv == TypeOK /\ RecoveringIsSound /\ WritingIsSound /\ SwitchingIsSound

-----------------------------------------------------------------------------
(* Types.  The program counter and the flag are settled on their own, so that *)
(* the proofs about the files need neither.                                   *)

Typed ==
  /\ disk \in [Slot -> Documents \cup {Absent, Torn}]
  /\ unsynced \subseteq Slot
  /\ source \in Slot
  /\ base \in Documents /\ target \in Documents
  /\ answer \in {"none", "ok", "failed", "refused"}

Bounded == faults \in 0 .. MaxFaults

Points == pc \in {"idle", "recovered"} \cup Recovering \cup Committing \cup Ended

LEMMA TypeParts == TypeOK <=> Typed /\ Points /\ Bounded /\ hadCurrent \in BOOLEAN
BY DEF TypeOK, Typed, Points, Bounded

LEMMA PointsStay == ASSUME Next PROVE Points'
<1>1. ASSUME CommitIndex PROVE Points'
  BY <1>1 DEF CommitIndex, ClearNext, OpenNext, WriteNext, SyncNext, VerifyNext, Retire,
     Install, Rollback, Abandon, Unlink, Rename, Works, Breaks, Points, Committing, Ended
<1>2. ASSUME Recover PROVE Points'
  BY <1>2 DEF Recover, RecoverIndex, Survey, TrimNext, DropCurrent, DropNext, Promote,
     Refuses, Works, Points, Recovering, Ended
<1>3. ASSUME Open \/ Close \/ Finish \/ PowerCut \/ \E d \in Documents : Commit(d)
      PROVE  Points'
  BY <1>3 DEF Open, Close, Finish, PowerCut, Commit, Forget, Points, Recovering, Committing
<1> QED
  BY <1>1, <1>2, <1>3 DEF Next

LEMMA FlagStays == ASSUME hadCurrent \in BOOLEAN, Next PROVE hadCurrent' \in BOOLEAN
<1>1. ASSUME CommitIndex PROVE hadCurrent' \in BOOLEAN
  <2>1. CASE Retire
    BY <2>1, Zenon DEF Retire
  <2>2. ASSUME CommitIndex, ~Retire PROVE UNCHANGED hadCurrent
    BY <2>2 DEF CommitIndex, ClearNext, OpenNext, WriteNext, SyncNext, VerifyNext,
       Install, Rollback, Abandon, Unlink, Rename, Works, Breaks
  <2> QED
    BY <1>1, <2>1, <2>2
<1>2. ASSUME Recover PROVE UNCHANGED hadCurrent
  BY <1>2 DEF Recover, RecoverIndex, Survey, TrimNext, DropCurrent, DropNext, Promote,
     Refuses, Works
<1>3. ASSUME Open \/ Close \/ Finish \/ PowerCut \/ \E d \in Documents : Commit(d)
      PROVE  UNCHANGED hadCurrent \/ hadCurrent' = FALSE
  BY <1>3 DEF Open, Close, Finish, PowerCut, Commit, Forget
<1> QED
  BY <1>1, <1>2, <1>3 DEF Next

LEMMA BoundStays == ASSUME Bounded, Next PROVE Bounded'
<1>1. ASSUME CommitIndex PROVE UNCHANGED faults \/ Fault
  BY <1>1 DEF CommitIndex, ClearNext, OpenNext, WriteNext, SyncNext, VerifyNext, Retire,
     Install, Rollback, Abandon, Unlink, Rename, Works, Breaks
<1>2. ASSUME Recover PROVE UNCHANGED faults \/ Fault
  BY <1>2 DEF Recover, RecoverIndex, TrimNext, DropCurrent, DropNext, Promote,
     Refuses, Works
<1>3. ASSUME Open \/ Close \/ Finish \/ PowerCut \/ \E d \in Documents : Commit(d)
      PROVE  UNCHANGED faults \/ faults' = 0
  BY <1>3 DEF Open, Close, Finish, PowerCut, Commit, Forget
<1>4. MaxFaults \in Nat
  BY FaultsAssumption
<1>5. ASSUME UNCHANGED faults \/ Fault \/ faults' = 0 PROVE Bounded'
  BY <1>4, <1>5 DEF Bounded, Fault
<1> QED
  BY <1>1, <1>2, <1>3, <1>5 DEF Next

-----------------------------------------------------------------------------
(* The inductive invariant *)

Sound == Typed /\ RecoveringIsSound /\ WritingIsSound /\ SwitchingIsSound

LEMMA InitSound == Init => Sound /\ Points /\ Bounded /\ hadCurrent \in BOOLEAN
<1>1. Init => Typed
  BY DocumentsAssumption DEF Init, Typed, Slot
<1>2. Init => Points /\ hadCurrent \in BOOLEAN
  BY Zenon DEF Init, Points
<1>4. Init => Bounded
  BY FaultsAssumption DEF Init, Bounded
<1>3. Init => RecoveringIsSound /\ WritingIsSound /\ SwitchingIsSound
  BY DEF Init, RecoveringIsSound, WritingIsSound, SwitchingIsSound
<1> QED
  BY <1>1, <1>2, <1>3, <1>4 DEF Sound

LEMMA ClientSound ==
  ASSUME Sound, Open \/ Close \/ Finish \/ \E d \in Documents : Commit(d)
  PROVE  Sound'
BY DocumentsAssumption
   DEF Sound, Typed, RecoveringIsSound, WritingIsSound, SwitchingIsSound, Slot,
       Ended, Kept, Fresh, Open, Close, Finish, Commit, Forget

LEMMA PowerCutSound == ASSUME Sound, PowerCut PROVE Sound'
BY DocumentsAssumption
   DEF Sound, Typed, RecoveringIsSound, WritingIsSound, SwitchingIsSound, Slot, PowerCut, Forget

LEMMA RecoverSound == ASSUME Sound, Recover PROVE Sound'
<1>1. CASE RecoverIndex
  BY <1>1, DocumentsAssumption
     DEF Sound, Typed, RecoveringIsSound, WritingIsSound, SwitchingIsSound, Slot,
      Kept, Fresh, RecoverIndex, Survey, Loads
<1>2. CASE TrimNext
  BY <1>2, DocumentsAssumption
     DEF Sound, Typed, RecoveringIsSound, WritingIsSound, SwitchingIsSound, Slot,
      Kept, Fresh, TrimNext, Unlinked, Works, Refuses
<1>3. CASE DropCurrent
  BY <1>3, DocumentsAssumption
     DEF Sound, Typed, RecoveringIsSound, WritingIsSound, SwitchingIsSound, Slot,
      Kept, Fresh, DropCurrent, Unlinked, Works, Refuses
<1>4. CASE DropNext
  BY <1>4, DocumentsAssumption
     DEF Sound, Typed, RecoveringIsSound, WritingIsSound, SwitchingIsSound, Slot,
      Kept, Fresh, DropNext, Unlinked, Works, Refuses
<1>5. CASE Promote
  BY <1>5, DocumentsAssumption
     DEF Sound, Typed, RecoveringIsSound, WritingIsSound, SwitchingIsSound, Slot,
      Kept, Fresh, Promote, Renamed, Works, Refuses
<1> QED
  BY <1>1, <1>2, <1>3, <1>4, <1>5 DEF Recover

LEMMA CommitIndexSound == ASSUME Sound, CommitIndex PROVE Sound'
<1>1. CASE ClearNext
  BY <1>1, DocumentsAssumption
     DEF Sound, Typed, RecoveringIsSound, WritingIsSound, SwitchingIsSound, Slot,
      Kept, Fresh, ClearNext, Unlink, Unlinked, Works, Breaks
<1>2. CASE OpenNext
  BY <1>2, DocumentsAssumption
     DEF Sound, Typed, RecoveringIsSound, WritingIsSound, SwitchingIsSound, Slot,
      Kept, Fresh, OpenNext, Works, Breaks
<1>3. CASE WriteNext
  BY <1>3, DocumentsAssumption
     DEF Sound, Typed, RecoveringIsSound, WritingIsSound, SwitchingIsSound, Slot,
      Kept, Fresh, WriteNext, Works, Breaks
<1>4. CASE SyncNext
  BY <1>4, DocumentsAssumption
     DEF Sound, Typed, RecoveringIsSound, WritingIsSound, SwitchingIsSound, Slot,
      Kept, Fresh, SyncNext, Works, Breaks
<1>5. CASE VerifyNext
  <2>1. Typed'
    BY <1>5, DocumentsAssumption
       DEF Sound, Typed, Slot, VerifyNext, Unlinked, Works, Breaks
  <2>2. RecoveringIsSound'
    BY <1>5, DocumentsAssumption
       DEF Sound, Typed, RecoveringIsSound, VerifyNext, Unlinked, Works, Breaks
  <2>3. WritingIsSound'
    BY <1>5, DocumentsAssumption
       DEF Sound, Typed, WritingIsSound, SwitchingIsSound, Slot, Kept, Fresh, VerifyNext, Unlinked, Works, Breaks
  <2>4. SwitchingIsSound'
    BY <1>5, DocumentsAssumption
       DEF Sound, Typed, WritingIsSound, SwitchingIsSound, Slot, Kept, Fresh, VerifyNext, Unlinked, Works, Breaks
  <2> QED
    BY <2>1, <2>2, <2>3, <2>4 DEF Sound
<1>6. CASE Retire
  <2>1. Typed'
    <3>1. UNCHANGED <<source, base, target, answer>>
      BY <1>6 DEF Retire
    <3>2. UNCHANGED <<disk, unsynced>> \/ Renamed("current", "previous")
      BY <1>6 DEF Retire
    <3> QED
      BY <3>1, <3>2 DEF Sound, Typed, Slot, Renamed
  <2>2. RecoveringIsSound'
    BY <1>6, DocumentsAssumption
       DEF Sound, Typed, RecoveringIsSound, Retire, Renamed
  <2>3. WritingIsSound'
    BY <1>6, DocumentsAssumption
       DEF Sound, Typed, WritingIsSound, SwitchingIsSound, Slot, Kept, Fresh, Retire, Renamed
  <2>4. SwitchingIsSound'
    BY <1>6, DocumentsAssumption
       DEF Sound, Typed, WritingIsSound, SwitchingIsSound, Slot, Kept, Fresh, Retire, Renamed
  <2> QED
    BY <2>1, <2>2, <2>3, <2>4 DEF Sound
<1>7. CASE Install
  <2>1. Typed'
    BY <1>7, DocumentsAssumption
       DEF Sound, Typed, Slot, Install, Renamed, Works, Breaks
  <2>2. RecoveringIsSound'
    BY <1>7, DocumentsAssumption
       DEF Sound, Typed, RecoveringIsSound, Install, Renamed, Works, Breaks
  <2>3. WritingIsSound'
    BY <1>7, DocumentsAssumption
       DEF Sound, Typed, WritingIsSound, SwitchingIsSound, Slot, Kept, Fresh, Install, Renamed, Works, Breaks
  <2>4. SwitchingIsSound'
    BY <1>7, DocumentsAssumption
       DEF Sound, Typed, WritingIsSound, SwitchingIsSound, Slot, Kept, Fresh, Install, Renamed, Works, Breaks
  <2> QED
    BY <2>1, <2>2, <2>3, <2>4 DEF Sound
<1>8. CASE Rollback
  <2>1. Typed'
    BY <1>8, DocumentsAssumption
       DEF Sound, Typed, Slot, Rollback, Rename, Renamed, Works, Breaks
  <2>2. RecoveringIsSound'
    BY <1>8, DocumentsAssumption
       DEF Sound, Typed, RecoveringIsSound, Rollback, Rename, Renamed, Works, Breaks
  <2>3. WritingIsSound'
    BY <1>8, DocumentsAssumption
       DEF Sound, Typed, WritingIsSound, SwitchingIsSound, Slot, Kept, Fresh, Rollback, Rename, Renamed, Works, Breaks
  <2>4. SwitchingIsSound'
    BY <1>8, DocumentsAssumption
       DEF Sound, Typed, WritingIsSound, SwitchingIsSound, Slot, Kept, Fresh, Rollback, Rename, Renamed, Works, Breaks
  <2> QED
    BY <2>1, <2>2, <2>3, <2>4 DEF Sound
<1>9. CASE Abandon
  <2>1. Typed'
    BY <1>9, DocumentsAssumption
       DEF Sound, Typed, Slot, Abandon, Unlinked
  <2>2. RecoveringIsSound'
    BY <1>9, DocumentsAssumption
       DEF Sound, Typed, RecoveringIsSound, Abandon, Unlinked
  <2>3. WritingIsSound'
    BY <1>9, DocumentsAssumption
       DEF Sound, Typed, WritingIsSound, SwitchingIsSound, Slot, Kept, Fresh, Abandon, Unlinked
  <2>4. SwitchingIsSound'
    BY <1>9, DocumentsAssumption
       DEF Sound, Typed, WritingIsSound, SwitchingIsSound, Slot, Kept, Fresh, Abandon, Unlinked
  <2> QED
    BY <2>1, <2>2, <2>3, <2>4 DEF Sound
<1> QED
  BY <1>1, <1>2, <1>3, <1>4, <1>5, <1>6, <1>7, <1>8, <1>9 DEF CommitIndex

LEMMA FilesStart == Init => FilesInv
BY TypeParts, InitSound DEF FilesInv, Sound

LEMMA FilesStay == ASSUME FilesInv, [Next]_vars PROVE FilesInv'
<1>1. FilesInv <=> Sound /\ Points /\ Bounded /\ hadCurrent \in BOOLEAN
  BY TypeParts DEF FilesInv, Sound
<1>2. CASE UNCHANGED vars
  BY <1>2 DEF vars, FilesInv, TypeOK, RecoveringIsSound, WritingIsSound,
     SwitchingIsSound, Kept, Fresh
<1>3. CASE Next
  <2>1. Sound'
    BY <1>1, <1>3, ClientSound, PowerCutSound, RecoverSound, CommitIndexSound DEF Next
  <2>2. Points' /\ Bounded' /\ hadCurrent' \in BOOLEAN
    BY <1>1, <1>3, PointsStay, BoundStays, FlagStays
  <2>3. (TypeOK <=> Typed /\ Points /\ Bounded /\ hadCurrent \in BOOLEAN)'
    BY TypeParts, PTL
  <2> QED
    BY <2>1, <2>2, <2>3, Zenon DEF FilesInv, Sound
<1> QED
  BY <1>2, <1>3

\* At every step of recovery and commit the document of the operation is where
\* FilesInv says, whatever fails and whenever the power goes.
THEOREM FilesInductive == Spec => []FilesInv
BY FilesStart, FilesStay, PTL DEF Spec

-----------------------------------------------------------------------------
(* Consequences *)

\* Every variable of the protocol keeps its type.
THEOREM FilesTyped == Spec => []TypeOK
BY FilesInductive, PTL DEF FilesInv

\* No rename of recovery or commit lands on an existing file.
THEOREM RenamesLandClearHolds == Spec => []RenamesLandClear
<1>1. FilesInv => RenamesLandClear
  BY DocumentsAssumption
     DEF FilesInv, TypeOK, RecoveringIsSound, WritingIsSound, SwitchingIsSound,
         RenamesLandClear, Fresh
<1> QED
  BY <1>1, FilesInductive, PTL

LEMMA FilesHold == FilesInv => HoldsOneOfTwo
BY DocumentsAssumption
   DEF FilesInv, TypeOK, RecoveringIsSound, WritingIsSound, SwitchingIsSound,
       HoldsOneOfTwo, Committing, Held, Kept, Fresh

\* Until a commit is decided the files hold the old document or the new one,
\* whatever fails: there is no third.
THEOREM HoldsOneOfTwoHolds == Spec => []HoldsOneOfTwo
BY FilesHold, FilesInductive, PTL

LEMMA RecoverKeeps ==
  ASSUME FilesInv, Recover PROVE Held' = Held
<1>1. CASE RecoverIndex
  BY <1>1 DEF RecoverIndex, Survey, Held
<1>2. CASE TrimNext
  BY <1>2 DEF FilesInv, TypeOK, RecoveringIsSound, Kept, TrimNext, Unlinked, Refuses, Slot, Held
<1>3. CASE DropCurrent
  BY <1>3, DocumentsAssumption
     DEF FilesInv, TypeOK, RecoveringIsSound, DropCurrent, Unlinked, Refuses, Slot, Held
<1>4. CASE DropNext
  BY <1>4, DocumentsAssumption
     DEF FilesInv, TypeOK, RecoveringIsSound, DropNext, Unlinked, Refuses, Slot, Held
<1>5. CASE Promote
  BY <1>5, DocumentsAssumption
     DEF FilesInv, TypeOK, RecoveringIsSound, Promote, Renamed, Refuses, Slot, Held
<1> QED
  BY <1>1, <1>2, <1>3, <1>4, <1>5 DEF Recover

\* No step of recovery changes what the files hold, however many of its calls
\* fail.
THEOREM RecoveryKeepsDocumentHolds == Spec => RecoveryKeepsDocument
<1>1. FilesInv /\ [Next]_vars => [Recover => Held' = Held]_vars
  BY RecoverKeeps
<1> QED
  BY <1>1, FilesInductive, PTL DEF Spec, RecoveryKeepsDocument

-----------------------------------------------------------------------------
(* A store that has a document never refuses for want of one *)

\* A file the power cannot tear holds a document; while a commit is under way
\* that file is not index.next.
Anchored ==
  /\ unsynced \subseteq {"next"}
  /\ "next" \in unsynced => disk["current"] \in Documents
  /\ pc \in {"verifyNext", "retire", "install", "rollback"} => unsynced = {}
  /\ \/ disk["current"] \in Documents
     \/ disk["previous"] \in Documents
     \/ pc \notin Committing /\ disk["next"] \in Documents

LEMMA RecoverAnchored ==
  ASSUME FilesInv, Anchored, Recover PROVE Anchored'
<1> USE DocumentsAssumption
        DEF FilesInv, TypeOK, RecoveringIsSound, Anchored, Slot, Committing
<1>1. CASE RecoverIndex
  BY <1>1 DEF RecoverIndex, Survey
<1>2. CASE TrimNext
  BY <1>2 DEF TrimNext, Unlinked, Works, Refuses, Kept
<1>3. CASE DropCurrent
  BY <1>3 DEF DropCurrent, Unlinked, Works, Refuses
<1>4. CASE DropNext
  BY <1>4 DEF DropNext, Unlinked, Works, Refuses
<1>5. CASE Promote
  BY <1>5 DEF Promote, Renamed, Works, Refuses
<1> QED
  BY <1>1, <1>2, <1>3, <1>4, <1>5 DEF Recover

LEMMA CommitAnchored ==
  ASSUME FilesInv, Anchored, CommitIndex PROVE Anchored'
<1> USE DocumentsAssumption
        DEF FilesInv, TypeOK, WritingIsSound, SwitchingIsSound, Anchored, Slot, Kept,
            Fresh, Committing
<1>1. CASE ClearNext
  BY <1>1 DEF ClearNext, Unlink, Unlinked, Works, Breaks
<1>2. CASE OpenNext
  BY <1>2 DEF OpenNext, Works, Breaks
<1>3. CASE WriteNext
  BY <1>3 DEF WriteNext, Works, Breaks
<1>4. CASE SyncNext
  BY <1>4 DEF SyncNext, Works, Breaks
<1>5. CASE VerifyNext
  BY <1>5 DEF VerifyNext, Unlinked, Works, Breaks
<1>6. CASE Retire
  <2>1. disk["current"] \in Documents \/ disk["previous"] \in Documents
    BY <1>6 DEF Retire
  <2>2. unsynced = {} /\ disk["previous"] = Absent /\ disk \in [Slot -> Documents \cup {Absent, Torn}]
    BY <1>6 DEF Retire
  <2>3. pc' \in {"install", "abandon"} /\ (UNCHANGED <<disk, unsynced>> \/ Renamed("current", "previous"))
    BY <1>6 DEF Retire
  <2> QED
    BY <2>1, <2>2, <2>3 DEF Renamed
<1>7. CASE Install
  BY <1>7 DEF Install, Renamed, Works, Breaks
<1>8. CASE Rollback
  BY <1>8 DEF Rollback, Rename, Renamed, Works, Breaks
<1>9. CASE Abandon
  BY <1>9 DEF Abandon, Unlinked
<1> QED
  BY <1>1, <1>2, <1>3, <1>4, <1>5, <1>6, <1>7, <1>8, <1>9 DEF CommitIndex

LEMMA ClientAnchored ==
  ASSUME FilesInv, Anchored,
         Open \/ Close \/ Finish \/ PowerCut \/ \E d \in Documents : Commit(d)
  PROVE  Anchored'
<1>1. CASE Open \/ Close \/ Finish
  BY <1>1 DEF Anchored, Committing, Ended, Open, Close, Finish, Forget
<1>2. CASE PowerCut
  BY <1>2 DEF Anchored, Slot, Committing, PowerCut
<1>3. ASSUME NEW d \in Documents, Commit(d) PROVE Anchored'
  BY <1>3, DocumentsAssumption
     DEF FilesInv, TypeOK, RecoveringIsSound, Kept, Fresh, Anchored, Slot, Committing, Commit
<1> QED
  BY <1>1, <1>2, <1>3

LEMMA RefusalCharged ==
  ASSUME FilesInv, Anchored, RefusedOnlyByFault, Next PROVE RefusedOnlyByFault'
<1>1. ASSUME Fault PROVE faults' > 0
  BY <1>1 DEF Fault, FilesInv, TypeOK
<1>2. ASSUME Recover PROVE RefusedOnlyByFault'
  <2>1. CASE RecoverIndex
    BY <2>1 DEF RecoverIndex, Survey, Loads, Anchored, RefusedOnlyByFault
  <2>2. CASE TrimNext \/ DropCurrent \/ DropNext \/ Promote
    BY <1>1, <2>2 DEF TrimNext, DropCurrent, DropNext, Promote, Works, Refuses,
       RefusedOnlyByFault
  <2> QED
    BY <1>2, <2>1, <2>2 DEF Recover
<1>3. ASSUME CommitIndex PROVE pc' # "refused"
  BY <1>3 DEF CommitIndex, ClearNext, OpenNext, WriteNext, SyncNext, VerifyNext, Retire,
     Install, Rollback, Abandon, Unlink, Rename, Works, Breaks
<1>4. ASSUME Open \/ Close \/ Finish \/ PowerCut \/ \E d \in Documents : Commit(d)
      PROVE  pc' # "refused"
  BY <1>4 DEF Open, Close, Finish, PowerCut, Commit, Forget
<1> QED
  BY <1>2, <1>3, <1>4 DEF Next, RefusedOnlyByFault

\* A store that once had a document never refuses an operation for what power
\* cuts and failed commits left behind, however many calls fail in an operation:
\* only a call that fails now can.
THEOREM RefusedOnlyByFaultHolds == ProvisionedSpec => []RefusedOnlyByFault
<1>1. Init /\ disk["current"] # Absent => Anchored /\ RefusedOnlyByFault
  BY DocumentsAssumption DEF Init, Anchored, RefusedOnlyByFault, Slot
<1>2. FilesInv /\ Anchored /\ RefusedOnlyByFault /\ [Next]_vars
        => (Anchored /\ RefusedOnlyByFault)'
  <2>1. ASSUME FilesInv, Anchored, RefusedOnlyByFault, UNCHANGED vars
        PROVE  (Anchored /\ RefusedOnlyByFault)'
    BY <2>1 DEF vars, Anchored, RefusedOnlyByFault
  <2> QED
    BY <2>1, RecoverAnchored, CommitAnchored, ClientAnchored, RefusalCharged DEF Next
<1>3. ProvisionedSpec => Spec
  BY PTL DEF ProvisionedSpec, ProvisionedInit, Spec
<1> QED
  BY <1>1, <1>2, <1>3, FilesInductive, PTL DEF ProvisionedSpec, ProvisionedInit

-----------------------------------------------------------------------------
(* The refinement *)

\* With at most one failing call in an operation: a commit is given up only
\* after that call, so index.next is then removed, and no torn file is left
\* for a later operation to meet.
Charged == pc \in {"rollback", "abandon"} => faults > 0
Synced ==
  /\ unsynced \subseteq {"next"}
  /\ pc \notin {"writeNext", "syncNext", "abandon"} => unsynced = {}

LEMMA ChargedStays ==
  ASSUME FilesInv, Charged, Next PROVE Charged'
<1>1. ASSUME Fault PROVE faults' > 0
  BY <1>1, FaultsAssumption DEF Fault, FilesInv, TypeOK
<1>2. ASSUME CommitIndex PROVE Charged'
  <2>1. CASE VerifyNext
    BY <1>1, <2>1, DocumentsAssumption
       DEF VerifyNext, Works, Breaks, Charged, FilesInv, TypeOK, WritingIsSound
  <2>2. CASE ClearNext \/ OpenNext \/ WriteNext \/ SyncNext
    BY <1>1, <2>2 DEF ClearNext, OpenNext, WriteNext, SyncNext, Unlink, Works, Breaks, Charged
  <2>3. CASE Retire \/ Install \/ Rollback \/ Abandon
    BY <1>1, <2>3 DEF Retire, Install, Rollback, Abandon, Rename, Works, Breaks, Charged
  <2> QED
    BY <1>2, <2>1, <2>2, <2>3 DEF CommitIndex
<1>3. ASSUME Recover PROVE pc' \notin {"rollback", "abandon"}
  BY <1>3 DEF Recover, RecoverIndex, Survey, TrimNext, DropCurrent, DropNext, Promote,
     Works, Refuses
<1>4. ASSUME Open \/ Close \/ Finish \/ PowerCut \/ \E d \in Documents : Commit(d)
      PROVE  pc' \notin {"rollback", "abandon"}
  BY <1>4 DEF Open, Close, Finish, PowerCut, Commit, Forget
<1> QED
  BY <1>2, <1>3, <1>4 DEF Next, Charged

LEMMA NoSecondFault ==
  ASSUME MaxFaults <= 1, FilesInv, faults > 0 PROVE ~Fault
BY FaultsAssumption DEF Fault, FilesInv, TypeOK

LEMMA SyncedStays ==
  ASSUME MaxFaults <= 1, FilesInv, Charged, Synced, Next PROVE Synced'
<1>1. ASSUME CommitIndex PROVE Synced'
  <2>1. CASE ClearNext \/ OpenNext \/ WriteNext \/ SyncNext \/ VerifyNext
    BY <2>1 DEF ClearNext, OpenNext, WriteNext, SyncNext, VerifyNext, Unlink, Unlinked,
       Works, Breaks, Synced
  <2>2. CASE Retire
    BY <2>2 DEF Retire, Renamed, Synced
  <2>3. CASE Install \/ Rollback
    BY <2>3 DEF Install, Rollback, Rename, Renamed, Works, Breaks, Synced
  <2>4. CASE Abandon
    BY <2>4, NoSecondFault DEF Abandon, Unlinked, Charged, Synced
  <2> QED
    BY <1>1, <2>1, <2>2, <2>3, <2>4 DEF CommitIndex
<1>2. ASSUME Recover PROVE Synced'
  BY <1>2 DEF Recover, RecoverIndex, Survey, TrimNext, DropCurrent, DropNext, Promote,
     Unlinked, Renamed, Works, Refuses, Synced
<1>3. ASSUME Open \/ Close \/ Finish \/ PowerCut \/ \E d \in Documents : Commit(d)
      PROVE  Synced'
  BY <1>3 DEF Open, Close, Finish, PowerCut, Commit, Forget, Ended, Synced
<1> QED
  BY <1>1, <1>2, <1>3 DEF Next

-----------------------------------------------------------------------------
\* The document and the change a caller sees, of the refinement mapping.
Seen == IF pc \in Committing THEN base ELSE Held
Proposed == IF pc \in Committing THEN target ELSE Absent

LEMMA HeldIsDocument == FilesInv => Held \in Documents
BY DocumentsAssumption DEF FilesInv, TypeOK, Held

\* A commit that is given up has put index.json back, or no call of it may fail
\* any more.
Restored == pc = "abandon" => Kept \/ faults = MaxFaults

LEMMA ChargedRestored == ASSUME MaxFaults <= 1, FilesInv, Charged PROVE Restored
BY FaultsAssumption DEF Restored, Charged, FilesInv, TypeOK

\* A commit that ends well leaves the new document, one that is given up the old.
LEMMA Decided ==
  ASSUME FilesInv, Restored, CommitIndex
  PROVE  /\ pc' = "committed" => pc = "install" /\ answer' = "ok" /\ Held' = target
         /\ pc' = "failed" => pc = "abandon" /\ answer' = "failed" /\ Held' = base
<1>1. CASE Install
  <2>1. pc' # "failed"
    BY <1>1 DEF Install, Breaks
  <2>2. ASSUME pc' = "committed" PROVE disk'["current"] = target /\ target \in Documents
    BY <1>1, <2>2 DEF Install, Breaks, Renamed, FilesInv, TypeOK, WritingIsSound, Slot
  <2>3. pc' = "committed" => Held' = target
    BY <2>2 DEF Held
  <2> QED
    BY <1>1, <2>1, <2>3 DEF Install, Breaks
<1>2. CASE Abandon
  <2>1. CASE Unlinked("next")
    BY <1>2, <2>1, DocumentsAssumption
       DEF Abandon, Unlinked, FilesInv, TypeOK, SwitchingIsSound, Kept, Fresh, Slot, Held
  <2>2. CASE Fault /\ UNCHANGED disk
    <3>1. Kept
      BY <1>2, <2>2, FaultsAssumption DEF Abandon, Restored, Fault, FilesInv, TypeOK
    <3>2. disk'["current"] = base /\ base \in Documents
      BY <2>2, <3>1 DEF Kept, FilesInv, TypeOK
    <3>3. Held' = base
      BY <3>2 DEF Held
    <3> QED
      BY <1>2, <3>3 DEF Abandon
  <2> QED
    BY <1>2, <2>1, <2>2 DEF Abandon
<1>3. CASE ClearNext \/ OpenNext \/ WriteNext \/ SyncNext \/ VerifyNext \/ Retire \/ Rollback
  BY <1>3 DEF ClearNext, OpenNext, WriteNext, SyncNext, VerifyNext, Retire, Rollback,
     Unlink, Rename, Works, Breaks
<1> QED
  BY <1>1, <1>2, <1>3 DEF CommitIndex

\* A power cut leaves what the files held, or one of a commit's two documents.
LEMMA CutHolds ==
  ASSUME FilesInv, Synced, PowerCut
  PROVE  Held' = Held \/ (pc \in Committing /\ Held' \in {base, target})
<1>1. CASE pc \in {"writeNext", "syncNext", "abandon"}
  BY <1>1, DocumentsAssumption
     DEF PowerCut, FilesInv, TypeOK, WritingIsSound, SwitchingIsSound, Kept, Fresh, Synced,
         Slot, Held, Committing
<1>2. CASE pc \notin {"writeNext", "syncNext", "abandon"}
  <2>1. \A f \in Slot : disk'[f] = disk[f]
    BY <1>2 DEF PowerCut, Synced
  <2> QED
    BY <2>1 DEF Held, Slot
<1> QED
  BY <1>1, <1>2

LEMMA CommitSteps ==
  ASSUME FilesInv, Restored, CommitIndex
  PROVE  Document!Confirm \/ Document!Fail \/ UNCHANGED <<Seen, Proposed, answer>>
<1>1. ASSUME pc' \in Committing, UNCHANGED <<base, target, answer>>
      PROVE  UNCHANGED <<Seen, Proposed, answer>>
  <2>1. pc \in Committing
    BY DEF CommitIndex, ClearNext, OpenNext, WriteNext, SyncNext, VerifyNext, Retire,
       Install, Rollback, Abandon, Committing
  <2> QED
    BY <1>1, <2>1 DEF Seen, Proposed, Committing
<1>2. CASE ClearNext \/ OpenNext \/ WriteNext \/ SyncNext \/ VerifyNext
  BY <1>1, <1>2 DEF ClearNext, OpenNext, WriteNext, SyncNext, VerifyNext, Unlink,
     Works, Breaks, Committing
<1>3. CASE Retire
  BY <1>1, <1>3 DEF Retire, Committing
<1>4. CASE Rollback
  BY <1>1, <1>4 DEF Rollback, Rename, Works, Breaks, Committing
<1>5. CASE Install
  <2>1. CASE Breaks(IF hadCurrent THEN "rollback" ELSE "abandon")
    BY <1>1, <2>1 DEF Breaks, Committing
  <2>2. CASE pc' = "committed"
    BY <1>5, <2>2, Decided, DocumentsAssumption
       DEF Install, FilesInv, TypeOK, Document!Confirm, Committing
  <2> QED
    BY <1>5, <2>1, <2>2 DEF Install
<1>6. CASE Abandon
  BY <1>6, Decided, DocumentsAssumption
     DEF Abandon, FilesInv, TypeOK, Document!Fail, Committing
<1> QED
  BY <1>2, <1>3, <1>4, <1>5, <1>6 DEF CommitIndex

LEMMA CutSteps ==
  ASSUME FilesInv, Synced, PowerCut PROVE Document!PowerCut
<1>1. pc' = "idle" /\ answer' = "none" /\ "idle" \notin Committing
  BY DEF PowerCut, Committing
<1>2. Held # Absent /\ base # Absent /\ target # Absent
  BY HeldIsDocument, DocumentsAssumption DEF FilesInv, TypeOK
<1>3. pc \in Committing => Held \in {base, target}
  BY FilesHold DEF HoldsOneOfTwo
<1> QED
  BY <1>1, <1>2, <1>3, CutHolds DEF Document!PowerCut

LEMMA ClientSteps ==
  ASSUME FilesInv
  PROVE  /\ Open => Document!Call
         /\ Close => Document!Read
         /\ Finish => UNCHANGED <<Seen, Proposed, answer>>
         /\ \A d \in Documents : Commit(d) => Document!Propose(d)
<1>1. Open => Document!Call
  BY DEF Open, Document!Call, Held, Committing
<1>2. Close => Document!Read
  BY DEF Close, Document!Read, Held, Committing
<1>3. Finish => UNCHANGED <<Seen, Proposed, answer>>
  BY DEF Finish, Ended, Seen, Proposed, Held, Committing
<1>4. ASSUME NEW d \in Documents, Commit(d) PROVE Document!Propose(d)
  <2>1. Held = base
    BY <1>4, FilesHold DEF Commit, HoldsOneOfTwo
  <2> QED
    BY <1>4, <2>1 DEF Commit, Document!Propose, Committing
<1> QED
  BY <1>1, <1>2, <1>3, <1>4

LEMMA RecoverSteps ==
  ASSUME FilesInv, Recover
  PROVE  Document!Read \/ UNCHANGED <<Seen, Proposed, answer>>
<1>1. Held' = Held
  BY RecoverKeeps
<1>2. pc \notin Committing /\ pc' \notin Committing
  BY DEF Recover, RecoverIndex, Survey, TrimNext, DropCurrent, DropNext, Promote, Works,
     Refuses, Committing
<1>3. answer' = answer \/ answer' = "refused"
  BY DEF Recover, RecoverIndex, Survey, TrimNext, DropCurrent, DropNext, Promote, Works,
     Refuses
<1> QED
  BY <1>1, <1>2, <1>3 DEF Document!Read, Seen, Proposed

LEMMA OneFaultStarts == Init => Charged /\ Synced
BY DEF Init, Charged, Synced

LEMMA OneFaultStays ==
  ASSUME MaxFaults <= 1, FilesInv, Charged, Synced, [Next]_vars
  PROVE  Charged' /\ Synced'
<1>1. CASE UNCHANGED vars
  BY <1>1 DEF vars, Charged, Synced
<1>2. CASE Next
  BY <1>2, ChargedStays, SyncedStays
<1> QED
  BY <1>1, <1>2

\* As long as at most one call of an operation fails, the three files are one
\* atomic document: a change is there completely or not at all, "ok" and
\* "failed" mean what they say, and a power cut leaves the old or the new one.
THEOREM ImplementsAtomicDocument ==
  ASSUME MaxFaults <= 1 PROVE Spec => AtomicDocumentSpec
<1>1. Init => Document!Init
  BY DocumentsAssumption DEF Init, Document!Init, Committing, Held, Slot
<1>2. MaxFaults <= 1 /\ FilesInv /\ Charged /\ Synced /\ [Next]_vars => (Charged /\ Synced)'
  BY OneFaultStays
<1>3. MaxFaults <= 1 /\ FilesInv /\ Charged /\ Synced /\ [Next]_vars
        => [Document!Next]_(Document!vars)
  <2>1. ASSUME UNCHANGED vars PROVE UNCHANGED <<Seen, Proposed, answer>>
    BY <2>1 DEF vars, Seen, Proposed, Held
  <2>2. UNCHANGED <<Seen, Proposed, answer>> => UNCHANGED Document!vars
    BY DEF Seen, Proposed, Document!vars
  <2> QED
    BY <2>1, <2>2, ChargedRestored, CommitSteps, CutSteps, ClientSteps, RecoverSteps
       DEF Next, Document!Next
<1> QED
  BY <1>1, <1>2, <1>3, OneFaultStarts, FilesInductive, PTL DEF Spec, AtomicDocumentSpec, Document!Spec

-----------------------------------------------------------------------------
(* PART TWO: the boot.  What a boot, and the operator in Recovery, do to the *)
(* files of a store.                                                         *)

\* The variables of the boot and of a resolution.
BootTypeOK ==
  /\ gated \in BOOLEAN /\ spoilt \in BOOLEAN /\ others \in BOOLEAN /\ resolved \in BOOLEAN
  /\ boot \in {"off", "audit", "product", "recovery", "sealed"}
  /\ chat \in Chat
  /\ inspection \in {"none", "fresh", "stale"}
  /\ slot \in Slot /\ chosen \in Documents /\ kept \in Documents
  /\ due \in {"no", "clean", "forced"} /\ outcome \in {"none", "ok"}

\* The store runs in the product alone, the operator resolves in Recovery alone,
\* and only Recovery asks for a restart.
OneAtATime ==
  /\ boot # "product" => pc = "idle" /\ ~spoilt
  /\ step # "idle" => boot = "recovery"
  /\ due # "no" => boot \in {"recovery", "sealed"}

\* The calls of a commit during which index.next is another file than index.json.
Replacing == {"writeNext", "syncNext", "verifyNext", "retire", "install"}
Untouched == {"idle", "recover", "recovered", "clearNext", "openNext", "committed"}

\* As long as no call has failed in this boot, the files are those the audit let
\* through, or those a commit makes of them between two of its calls.
Orderly ==
  /\ pc \in Untouched \cup Replacing
  /\ pc \in Untouched => Clean(disk)
  /\ pc \in {"writeNext", "syncNext", "verifyNext"} =>
       disk["current"] \in Documents \/ (disk["current"] = Absent /\ disk["previous"] = Absent)
  /\ pc \in Replacing => {disk["current"], disk["previous"]} \subseteq Documents \cup {Absent}

GateKept == boot = "product" /\ gated /\ ~spoilt => Orderly

\* The inductive invariant of the boot.
BootInv == FilesInv /\ BootTypeOK /\ OneAtATime /\ GateKept

-----------------------------------------------------------------------------
\* A step that leaves the files alone.
FilesRest ==
  /\ UNCHANGED <<disk, unsynced, pc, source, base, target, hadCurrent, answer>>
  /\ UNCHANGED faults \/ Fault \/ faults' = 0

\* A call of a resolution.
FilesResolved ==
  /\ step # "idle" /\ UNCHANGED <<pc, source, base, target, hadCurrent, answer>>
  /\ disk' \in [Slot -> Documents \cup {Absent, Torn}] /\ unsynced' \subseteq Slot
  /\ unsynced = {} => unsynced' = {}
  /\ UNCHANGED faults \/ Fault

LEMMA MovesTyped ==
  ASSUME TypeOK, NEW f \in Slot, NEW g \in Slot, Unlinked(f) \/ Renamed(f, g)
  PROVE  /\ disk' \in [Slot -> Documents \cup {Absent, Torn}] /\ unsynced' \subseteq Slot
         /\ unsynced = {} => unsynced' = {}
<1>1. disk' \in [Slot -> Documents \cup {Absent, Torn}] /\ unsynced' \subseteq Slot
  BY DEF TypeOK, Unlinked, Renamed, Slot
<1>2. ASSUME unsynced = {} PROVE unsynced' = {}
  <2>1. CASE Unlinked(f)
    BY <1>2, <2>1 DEF Unlinked
  <2>2. CASE Renamed(f, g)
    <3>1. {g : x \in unsynced \cap {f}} = {} /\ unsynced \ {f, g} = {}
      BY <1>2
    <3> QED
      BY <2>2, <3>1 DEF Renamed
  <2> QED
    BY <2>1, <2>2
<1> QED
  BY <1>1, <1>2

LEMMA ResolutionFiles ==
  ASSUME TypeOK, slot \in Slot, ResolutionStep
  PROVE  FilesResolved /\ inspection' \in {inspection, "stale"}
<1>1. ASSUME NEW s, Reads(s)
      PROVE  UNCHANGED <<disk, unsynced, inspection>> /\ (UNCHANGED faults \/ Fault)
  BY <1>1 DEF Reads, Then, GiveUp
<1>2. ASSUME NEW f \in Slot, NEW g \in Slot, NEW s, Changes(Unlinked(f) \/ Renamed(f, g), s)
      PROVE  /\ disk' \in [Slot -> Documents \cup {Absent, Torn}] /\ unsynced' \subseteq Slot
             /\ unsynced = {} => unsynced' = {}
             /\ inspection' \in {inspection, "stale"} /\ (UNCHANGED faults \/ Fault)
  BY <1>2, MovesTyped DEF Changes, Then, GiveUp, TypeOK
<1>3. \A s, f, g : /\ Changes(Unlinked(f), s) => Changes(Unlinked(f) \/ Renamed(f, g), s)
                   /\ Changes(Renamed(f, g), s) => Changes(Unlinked(f) \/ Renamed(f, g), s)
  BY DEF Changes
<1>4. {"current", "next", "previous", Aside, slot} \subseteq Slot
  BY DEF Slot, Aside
<1>5. CASE Compare \/ SyncSelected \/ SyncAside \/ SyncCurrent \/ TidyNext \/ SyncKept
  <2>1. step # "idle" /\ \E s : Reads(s)
    BY <1>5 DEF Compare, SyncSelected, SyncAside, SyncCurrent, TidyNext, SyncKept
  <2> QED
    BY <1>1, <2>1 DEF ResolutionStep, FilesResolved, TypeOK
<1>6. CASE ClearAside \/ SetAside \/ DropBroken \/ Take \/ DropOld \/ KeepNext \/ DiscardNext
  <2>1. step # "idle"
    BY <1>6 DEF ClearAside, SetAside, DropBroken, Take, DropOld, KeepNext, DiscardNext
  <2>2. \E f, g \in Slot : \E s : Changes(Unlinked(f) \/ Renamed(f, g), s)
    BY <1>3, <1>4, <1>6 DEF ClearAside, SetAside, DropBroken, Take, DropOld, KeepNext, DiscardNext
  <2> QED
    BY <1>2, <2>1, <2>2 DEF ResolutionStep, FilesResolved
<1>7. CASE TidyPrevious
  <2>1. step # "idle"
    BY <1>7 DEF TidyPrevious
  <2>2. CASE disk["previous"] = Torn
    BY <1>2, <1>3, <1>4, <1>7, <2>1, <2>2 DEF TidyPrevious, ResolutionStep, FilesResolved
  <2>3. CASE disk["previous"] # Torn
    BY <1>1, <1>7, <2>1, <2>3 DEF TidyPrevious, ResolutionStep, FilesResolved, TypeOK
  <2> QED
    BY <2>2, <2>3
<1> QED
  BY <1>5, <1>6, <1>7 DEF ResolutionStep

\* The steps of the boot, by what they do to the files.
LEMMA StepKinds ==
  ASSUME TypeOK, slot \in Slot, BNext
  PROVE  \/ Run /\ Next
         \/ PowerOff /\ PowerCut
         \/ ResolutionStep /\ FilesResolved
         \/ /\ FilesRest
            /\ \/ Audit \/ Chatting \/ Inspect \/ Mount \/ Check \/ Revoke \/ ResolveOthers
               \/ (\E s \in Slot : Resolve(s)) \/ Restart \/ PowerOn
<1>1. Run => Next
  BY DEF Run, Next
<1>2. PowerOff => PowerCut
  BY DEF PowerOff
<1>3. ResolutionStep => FilesResolved
  BY ResolutionFiles
<1>4. CASE Audit \/ Inspect \/ Mount
  BY <1>4 DEF Audit, Inspect, Mount, FilesRest
<1>5. CASE Chatting \/ ResolveOthers \/ PowerOn
  BY <1>5 DEF Chatting, ResolveOthers, PowerOn, vars, FilesRest
<1>6. CASE Check \/ Revoke \/ Restart \/ \E s \in Slot : Resolve(s)
  BY <1>6 DEF Check, Revoke, Restart, Resolve, FilesRest
<1> QED
  BY <1>1, <1>2, <1>3, <1>4, <1>5, <1>6 DEF BNext

\* Whoever moves the files, the protocol finds them as FilesInv says: a
\* resolution runs while the store is at rest.
LEMMA BootFiles == ASSUME BootInv, [BNext]_bvars PROVE FilesInv'
<1>0. TypeOK /\ slot \in Slot /\ MaxFaults \in Nat
  BY FaultsAssumption DEF BootInv, FilesInv, BootTypeOK
<1>1. CASE FilesRest
  <2>1. Bounded'
    BY <1>0, <1>1 DEF FilesRest, Fault, TypeOK, Bounded
  <2>2. TypeOK' /\ RecoveringIsSound' /\ WritingIsSound' /\ SwitchingIsSound'
    BY <1>1, <2>1 DEF FilesRest, BootInv, FilesInv, TypeOK, RecoveringIsSound, WritingIsSound,
       SwitchingIsSound, Kept, Fresh, Bounded
  <2> QED
    BY <2>2 DEF FilesInv
<1>2. CASE FilesResolved
  <2>1. pc' = "idle"
    BY <1>2 DEF FilesResolved, BootInv, OneAtATime
  <2>2. Bounded'
    BY <1>0, <1>2 DEF FilesResolved, Fault, TypeOK, Bounded
  <2>3. TypeOK'
    BY <1>0, <1>2, <2>1, <2>2 DEF FilesResolved, TypeOK, Bounded
  <2>4. RecoveringIsSound' /\ WritingIsSound' /\ SwitchingIsSound'
    BY <2>1 DEF RecoveringIsSound, WritingIsSound, SwitchingIsSound
  <2> QED
    BY <2>3, <2>4 DEF FilesInv
<1>3. CASE Next
  BY <1>3, FilesStay DEF BootInv
<1>4. CASE PowerCut
  BY <1>4, FilesStay DEF BootInv, Next
<1>5. CASE UNCHANGED bvars
  <2>1. UNCHANGED vars
    BY <1>5 DEF bvars
  <2> QED
    BY <2>1, FilesStay DEF BootInv
<1> QED
  BY <1>0, <1>1, <1>2, <1>3, <1>4, <1>5, StepKinds

\* Booleans are settled apart.
LEMMA FlagsTyped ==
  ASSUME BootTypeOK, [BNext]_bvars
  PROVE  gated' \in BOOLEAN /\ spoilt' \in BOOLEAN /\ others' \in BOOLEAN /\ resolved' \in BOOLEAN
<1> USE DEF BootTypeOK
<1>1. CASE Run
  BY <1>1, Zenon DEF Run, device, recovery
<1>2. CASE PowerOff
  <2>1. others' \in BOOLEAN
    BY <1>2 DEF PowerOff
  <2> QED
    BY <1>2, <2>1, Zenon DEF PowerOff, NewBoot, Rest
<1>3. CASE Audit \/ Chatting \/ Inspect \/ Mount
  BY <1>3, Zenon DEF Audit, Chatting, Inspect, Mount, Rest, device, recovery
<1>4. CASE ResolutionStep \/ Check
  BY <1>4, Zenon DEF ResolutionStep, Check, device
<1>5. CASE Revoke \/ ResolveOthers \/ Restart \/ PowerOn \/ UNCHANGED bvars
  BY <1>5, Zenon DEF Revoke, ResolveOthers, Restart, PowerOn, Rest, NewBoot, device, recovery,
     bvars
<1>6. ASSUME NEW s \in Slot, Resolve(s)
      PROVE  gated' \in BOOLEAN /\ spoilt' \in BOOLEAN /\ others' \in BOOLEAN /\ resolved' \in BOOLEAN
  BY <1>6, Zenon DEF Resolve, device
<1> QED
  BY <1>1, <1>2, <1>3, <1>4, <1>5, <1>6 DEF BNext

\* A boot starts with nothing under way.
LEMMA RestTyped ==
  ASSUME Rest PROVE slot' \in Slot /\ chosen' \in Documents /\ kept' \in Documents
BY DocumentsAssumption DEF Rest, Slot

LEMMA BootTyped == ASSUME BootInv, [BNext]_bvars PROVE BootTypeOK'
<1> USE DEF BootTypeOK
<1>0. BootTypeOK /\ TypeOK
  BY DEF BootInv, FilesInv
<1>1. gated' \in BOOLEAN /\ spoilt' \in BOOLEAN /\ others' \in BOOLEAN /\ resolved' \in BOOLEAN
  BY <1>0, FlagsTyped
<1>2. chat' \in Chat
  <2>1. CASE Chatting \/ PowerOff
    BY <1>0, <2>1 DEF Chatting, PowerOff, Chat
  <2>2. CASE UNCHANGED chat
    BY <1>0, <2>2
  <2>3. ASSUME NEW s \in Slot, Resolve(s) PROVE UNCHANGED chat
    BY <2>3 DEF Resolve, device
  <2>4. CASE \/ Audit \/ Run \/ Inspect \/ Mount \/ ResolutionStep \/ Check \/ Revoke
             \/ ResolveOthers \/ Restart \/ PowerOn \/ UNCHANGED bvars
    BY <2>4, <2>2 DEF Audit, Run, Inspect, Mount, ResolutionStep, Check, Revoke, ResolveOthers,
       Restart, PowerOn, device, bvars
  <2> QED
    BY <2>1, <2>2, <2>3, <2>4 DEF BNext
<1>3. /\ boot' \in {"off", "audit", "product", "recovery", "sealed"}
      /\ inspection' \in {"none", "fresh", "stale"}
      /\ due' \in {"no", "clean", "forced"} /\ outcome' \in {"none", "ok"}
  <2>1. CASE Audit \/ Run \/ Chatting \/ PowerOn \/ UNCHANGED bvars
    BY <1>0, <2>1 DEF Audit, Run, Chatting, PowerOn, recovery, bvars
  <2>2. CASE Inspect \/ Mount \/ Check \/ Revoke \/ ResolveOthers
    BY <1>0, <2>2 DEF Inspect, Mount, Check, Revoke, ResolveOthers
  <2>3. CASE ResolutionStep
    BY <1>0, <2>3, ResolutionFiles DEF ResolutionStep
  <2>4. CASE Restart \/ PowerOff
    BY <2>4 DEF Restart, PowerOff, NewBoot
  <2>5. ASSUME NEW s \in Slot, Resolve(s)
        PROVE  UNCHANGED <<boot, inspection, due, outcome>>
    BY <2>5 DEF Resolve
  <2> QED
    BY <1>0, <2>1, <2>2, <2>3, <2>4, <2>5 DEF BNext
<1>4. slot' \in Slot /\ chosen' \in Documents /\ kept' \in Documents
  <2>1. CASE UNCHANGED <<slot, chosen, kept>>
    BY <1>0, <2>1
  <2>2. CASE \/ Audit \/ Run \/ Chatting \/ Inspect \/ ResolutionStep \/ Check \/ ResolveOthers
             \/ PowerOn \/ UNCHANGED bvars
    BY <2>1, <2>2 DEF Audit, Run, Chatting, Inspect, ResolutionStep, Check, ResolveOthers,
       PowerOn, recovery, bvars
  <2>3. CASE Mount
    BY <2>1, <2>3, RestTyped DEF Mount
  <2>4. CASE Revoke \/ Restart \/ PowerOff
    BY <2>4, RestTyped DEF Revoke, Restart, PowerOff, NewBoot
  <2>5. ASSUME NEW s \in Slot, Resolve(s)
        PROVE  slot' \in Slot /\ chosen' \in Documents /\ kept' \in Documents
    <3>1. Held \in Documents
      BY HeldIsDocument DEF BootInv
    <3> QED
      BY <2>5, <3>1 DEF Resolve
  <2> QED
    BY <2>2, <2>3, <2>4, <2>5 DEF BNext
<1> QED
  BY <1>1, <1>2, <1>3, <1>4

LEMMA OneAtATimeStays == ASSUME BootInv, [BNext]_bvars PROVE OneAtATime'
<1> USE DEF OneAtATime
<1>0. OneAtATime /\ BootTypeOK
  BY DEF BootInv
<1>1. CASE Audit \/ Chatting \/ Inspect \/ PowerOn \/ UNCHANGED bvars
  BY <1>0, <1>1 DEF Audit, Chatting, Inspect, PowerOn, recovery, device, vars, bvars, BootTypeOK,
     Operable
<1>2. CASE Run
  BY <1>0, <1>2 DEF Run, recovery, device
<1>3. CASE Mount \/ Check \/ Revoke
  BY <1>0, <1>3 DEF Mount, Check, Revoke, Rest, BootTypeOK
<1>4. CASE ResolutionStep
  <2>1. step # "idle" /\ UNCHANGED <<boot, due, pc, spoilt>>
    BY <1>0, <1>4, ResolutionFiles DEF ResolutionStep, FilesResolved, BootInv, FilesInv, BootTypeOK
  <2> QED
    BY <1>0, <2>1
<1>5. CASE ResolveOthers
  BY <1>0, <1>5 DEF ResolveOthers, Operable, vars
<1>6. CASE Restart \/ PowerOff
  BY <1>0, <1>6 DEF Restart, PowerOff, PowerCut, NewBoot, Rest
<1>7. ASSUME NEW s \in Slot, Resolve(s) PROVE OneAtATime'
  BY <1>0, <1>7 DEF Resolve, Operable
<1> QED
  BY <1>1, <1>2, <1>3, <1>4, <1>5, <1>6, <1>7 DEF BNext

-----------------------------------------------------------------------------
(* Who selects *)

\* A clean store has nothing to recover.
LEMMA CleanIsRecovered ==
  ASSUME FilesInv, Orderly, Recover, ~Fault PROVE Orderly'
<1>1. pc = "recover" /\ Clean(disk)
  BY DEF Orderly, Untouched, Replacing, Recover, RecoverIndex, Survey, TrimNext, DropCurrent,
     DropNext, Promote
<1>2. RecoverIndex
  BY <1>1 DEF Recover, TrimNext, DropCurrent, DropNext, Promote
<1>3. pc' = "recovered" /\ UNCHANGED disk
  BY <1>1, <1>2, DocumentsAssumption DEF RecoverIndex, Survey, Loads, Clean, Slot
<1> QED
  BY <1>1, <1>3 DEF Orderly, Untouched, Replacing

\* A commit of which every call works goes from clean files to clean files.
LEMMA CommitIsOrderly ==
  ASSUME FilesInv, Orderly, CommitIndex, ~Fault PROVE Orderly'
<1> USE DocumentsAssumption DEF FilesInv, TypeOK, Orderly, Untouched, Replacing, Slot
<1>1. CASE ClearNext
  BY <1>1 DEF ClearNext, Unlink, Unlinked, Works, Breaks, Clean
<1>2. CASE OpenNext
  BY <1>2 DEF OpenNext, Works, Breaks, Clean
<1>3. CASE WriteNext \/ SyncNext
  BY <1>3 DEF WriteNext, SyncNext, Works, Breaks
<1>4. CASE VerifyNext
  <2>1. disk["next"] \in Documents
    BY <1>4 DEF VerifyNext, WritingIsSound
  <2> QED
    BY <1>4, <2>1 DEF VerifyNext, Unlinked, Works, Breaks
<1>5. CASE Retire
  <2>1. /\ pc' = "install" /\ pc = "retire"
        /\ IF disk["current"] # Absent THEN Renamed("current", "previous") ELSE UNCHANGED disk
    BY <1>5 DEF Retire
  <2>2. {disk'["current"], disk'["previous"]} \subseteq Documents \cup {Absent}
    BY <2>1 DEF Renamed
  <2> QED
    BY <2>1, <2>2
<1>6. CASE Install
  <2>1. disk["next"] \in Documents /\ disk["previous"] \in Documents \cup {Absent}
    BY <1>6 DEF Install, WritingIsSound
  <2>2. pc' = "committed" /\ Renamed("next", "current")
    BY <1>6 DEF Install, Breaks
  <2>3. Clean(disk')
    BY <2>1, <2>2 DEF Renamed, Clean
  <2> QED
    BY <2>2, <2>3
<1>7. CASE Rollback \/ Abandon
  BY <1>7 DEF Rollback, Abandon
<1> QED
  BY <1>1, <1>2, <1>3, <1>4, <1>5, <1>6, <1>7 DEF CommitIndex

LEMMA RunIsOrderly ==
  ASSUME FilesInv, Orderly, Run, ~(faults' > faults) PROVE Orderly'
<1>1. ~Fault
  BY FaultsAssumption DEF FilesInv, TypeOK, Fault
<1>2. CASE Open \/ Close \/ Finish
  BY <1>2 DEF Open, Close, Finish, Ended, Orderly, Untouched, Replacing
<1>3. ASSUME NEW d \in Documents, Commit(d) PROVE Orderly'
  BY <1>3 DEF Commit, Orderly, Untouched, Replacing
<1> QED
  BY <1>1, <1>2, <1>3, CleanIsRecovered, CommitIsOrderly DEF Run

LEMMA GateStays == ASSUME BootInv, [BNext]_bvars PROVE GateKept'
<1> USE DEF GateKept
<1>0. GateKept /\ OneAtATime /\ FilesInv
  BY DEF BootInv
<1>1. CASE Audit
  <2>1. /\ boot = "audit" /\ UNCHANGED <<disk, pc, gated, spoilt>>
        /\ boot' = "product" => ~gated \/ Compatible
    BY <1>1 DEF Audit, device
  <2> QED
    BY <1>0, <2>1 DEF Compatible, OneAtATime, Orderly, Untouched, Replacing
<1>2. CASE Run
  <2>1. UNCHANGED <<boot, gated>> /\ boot = "product"
    BY <1>2 DEF Run, device
  <2>2. ~spoilt' => ~spoilt /\ ~(faults' > faults)
    BY <1>2, Zenon DEF Run
  <2> QED
    BY <1>0, <1>2, <2>1, <2>2, RunIsOrderly
<1>3. CASE Chatting \/ UNCHANGED bvars
  BY <1>0, <1>3 DEF Chatting, vars, bvars, Orderly
<1>4. CASE Mount \/ PowerOff \/ PowerOn \/ Restart
  BY <1>0, <1>4 DEF Mount, PowerOff, PowerOn, Restart, NewBoot, OneAtATime
<1>5. CASE Inspect \/ ResolveOthers \/ \E s \in Slot : Resolve(s)
  BY <1>0, <1>5 DEF Inspect, ResolveOthers, Resolve, Operable
<1>6. CASE ResolutionStep \/ Check \/ Revoke
  <2>1. step # "idle" /\ UNCHANGED boot
    BY <1>6, ResolutionFiles DEF ResolutionStep, FilesResolved, Check, Revoke, BootInv, FilesInv,
       BootTypeOK
  <2> QED
    BY <1>0, <2>1 DEF OneAtATime
<1> QED
  BY <1>1, <1>2, <1>3, <1>4, <1>5, <1>6 DEF BNext

LEMMA BootStarts == ASSUME BInit PROVE BootInv
<1>1. TypeOK
  <2>1. hadCurrent \in BOOLEAN
    BY Zenon DEF BInit
  <2>2. Typed /\ Bounded
    BY DocumentsAssumption, FaultsAssumption DEF BInit, Typed, Bounded, Slot
  <2>3. Points
    BY DEF BInit, Points
  <2> QED
    BY <2>1, <2>2, <2>3, TypeParts
<1>2. FilesInv
  BY <1>1 DEF BInit, FilesInv, RecoveringIsSound, WritingIsSound, SwitchingIsSound
<1>3. BootTypeOK
  <2>1. gated \in BOOLEAN /\ spoilt \in BOOLEAN /\ others \in BOOLEAN /\ resolved \in BOOLEAN
    BY Zenon DEF BInit, AtRest
  <2>2. slot \in Slot /\ chosen \in Documents /\ kept \in Documents
    BY DocumentsAssumption DEF BInit, AtRest, Slot
  <2>3. /\ boot = "audit" /\ chat = "intact" /\ inspection = "none" /\ due = "no"
        /\ outcome = "none"
    BY DEF BInit
  <2> QED
    BY <2>1, <2>2, <2>3 DEF BootTypeOK, Chat
<1>4. OneAtATime /\ GateKept
  BY DEF BInit, AtRest, OneAtATime, GateKept
<1> QED
  BY <1>2, <1>3, <1>4 DEF BootInv

LEMMA BootStays == ASSUME BootInv, [BNext]_bvars PROVE BootInv'
BY BootFiles, BootTyped, OneAtATimeStays, GateStays DEF BootInv

\* Through every boot, audit, resolution and power cut, the protocol's steps
\* find the files where they expect them, and a gated store is tidy until a
\* call of it fails.
THEOREM BootInductive == BSpec => []BootInv
BY BootStarts, BootStays, PTL DEF BSpec

\* Every variable of the boot keeps its type.
THEOREM BootTypesHold == BSpec => []BTypeOK
<1>1. BootInv => BTypeOK
  BY DEF BootInv, FilesInv, BootTypeOK, BTypeOK
<1> QED
  BY <1>1, BootInductive, PTL

\* On a gated device the recovery of a store has a choice to make only after a
\* call that failed in the same boot: which file survives a power cut is always
\* the operator's choice.
THEOREM OnlyOperatorSelectsHolds == BSpec => []OnlyOperatorSelects
<1>1. BootInv => OnlyOperatorSelects
  BY DEF BootInv, OneAtATime, GateKept, Orderly, Untouched, Replacing, OnlyOperatorSelects,
     Recovering, BootTypeOK
<1> QED
  BY <1>1, BootInductive, PTL

-----------------------------------------------------------------------------
(* One document for the store and the operator *)

\* The steps of a resolution: before the files are touched, while the current
\* file is set aside, while its place is empty, and when the choice is made.
Choosing == {"mount", "compare"}
Swapping == {"syncSelected", "clearAside", "setAside", "dropBroken"}
Taking == {"syncAside", "take"}
Finishing == {"syncCurrent", "tidyNext", "dropOld", "keepNext", "syncKept", "dropNext",
              "tidyPrevious", "check"}

\* At every step of a resolution, where the chosen document is, and that a boot
\* would find it or the one it would have found before.
ResolutionSound ==
  /\ step \in {"idle", "revoke"} \cup Choosing \cup Swapping \cup Taking \cup Finishing
  /\ step \in Choosing => Held = kept /\ (inspection = "fresh" => disk[slot] = chosen)
  /\ step \in Swapping => Held = kept
  /\ step \in Swapping \cup Taking => slot # "current" /\ disk[slot] = chosen
  /\ step \in {"clearAside", "setAside"} => disk["current"] \in Documents
  /\ step = "dropBroken" => disk["current"] = Torn
  /\ step \in Taking => disk["current"] = Absent /\ Held \in {kept, chosen}
  /\ step \in Finishing => disk["current"] = chosen
  /\ step = "revoke" => Held \in {kept, chosen} /\ (resolved => disk["current"] = chosen)
  /\ step # "revoke" => ~resolved

\* The store answers in the product, the operator is answered in Recovery.
AnswersApart ==
  /\ boot # "product" => unsynced = {} /\ answer = "none"
  /\ boot \notin {"recovery", "sealed"} => outcome = "none"

\* A commit that is given up without index.json back in place has had two calls
\* fail: the one that installs, and the one that puts back.
TwiceCharged ==
  /\ pc = "rollback" => faults > 0
  /\ pc = "abandon" => Kept \/ faults > 1

\* The invariant of the refinement.
DocumentInv == BootInv /\ Anchored /\ ResolutionSound /\ AnswersApart /\ TwiceCharged

LEMMA TwiceChargedStays ==
  ASSUME FilesInv, Anchored, TwiceCharged, Next PROVE TwiceCharged'
<1>0. /\ Fault => faults' = faults + 1 /\ faults \in Nat
      /\ base \in Documents
  BY FaultsAssumption DEF Fault, FilesInv, TypeOK
<1>1. ASSUME CommitIndex PROVE TwiceCharged'
  <2>1. ~Fresh
    <3>1. pc \in Committing
      BY <1>1 DEF CommitIndex, ClearNext, OpenNext, WriteNext, SyncNext, VerifyNext, Retire,
         Install, Rollback, Abandon, Committing
    <3> QED
      BY <3>1, DocumentsAssumption DEF Anchored, Fresh
  <2>2. CASE ClearNext
    BY <2>1, <2>2 DEF ClearNext, Unlink, Unlinked, Works, Breaks, TwiceCharged, FilesInv, TypeOK,
       WritingIsSound, Kept, Slot
  <2>3. CASE OpenNext \/ WriteNext \/ SyncNext
    BY <2>1, <2>3 DEF OpenNext, WriteNext, SyncNext, Works, Breaks, TwiceCharged, FilesInv,
       TypeOK, WritingIsSound, Kept, Slot
  <2>4. CASE VerifyNext
    BY <2>1, <2>4 DEF VerifyNext, Unlinked, Works, Breaks, TwiceCharged, FilesInv,
       TypeOK, WritingIsSound, Kept, Slot
  <2>5. CASE Retire
    BY <2>1, <2>5 DEF Retire, TwiceCharged, FilesInv, WritingIsSound, Kept
  <2>6. CASE Install
    BY <1>0, <2>1, <2>6 DEF Install, Works, Breaks, TwiceCharged, FilesInv, SwitchingIsSound
  <2>7. CASE Rollback
    <3>1. disk["previous"] = base /\ faults > 0
      BY <2>7 DEF Rollback, FilesInv, SwitchingIsSound, TwiceCharged
    <3> QED
      BY <1>0, <2>7, <3>1 DEF Rollback, Rename, Renamed, Works, Breaks, TwiceCharged, FilesInv,
         TypeOK, Kept, Slot
  <2>8. CASE Abandon
    BY <2>8 DEF Abandon, TwiceCharged
  <2> QED
    BY <1>1, <2>2, <2>3, <2>4, <2>5, <2>6, <2>7, <2>8 DEF CommitIndex
<1>2. ASSUME Recover PROVE pc' \notin {"rollback", "abandon"}
  BY <1>2 DEF Recover, RecoverIndex, Survey, TrimNext, DropCurrent, DropNext, Promote,
     Works, Refuses
<1>3. ASSUME Open \/ Close \/ Finish \/ PowerCut \/ \E d \in Documents : Commit(d)
      PROVE  pc' \notin {"rollback", "abandon"}
  BY <1>3 DEF Open, Close, Finish, PowerCut, Commit, Forget
<1> QED
  BY <1>1, <1>2, <1>3 DEF Next, TwiceCharged

LEMMA TwiceRestored == ASSUME MaxFaults <= 2, FilesInv, TwiceCharged PROVE Restored
BY FaultsAssumption DEF Restored, TwiceCharged, FilesInv, TypeOK

\* What the power leaves of an anchored store reads as before.
LEMMA AnchoredCut == ASSUME FilesInv, Anchored, PowerCut PROVE Held' = Held
<1>1. CASE unsynced = {}
  <2>1. \A f \in Slot : disk'[f] = disk[f]
    BY <1>1 DEF PowerCut
  <2> QED
    BY <2>1 DEF Held, Slot
<1>2. CASE "next" \in unsynced
  <2>1. disk["current"] \in Documents /\ disk'["current"] = disk["current"]
    BY <1>2 DEF Anchored, PowerCut, Slot
  <2> QED
    BY <2>1 DEF Held
<1> QED
  BY <1>1, <1>2 DEF Anchored

-----------------------------------------------------------------------------
\* A boot in the middle of a resolution would find one of two documents.
LEMMA ResolvingHolds ==
  ASSUME ResolutionSound, BootTypeOK, step # "idle" PROVE Held \in {kept, chosen}
BY DEF ResolutionSound, BootTypeOK, Choosing, Swapping, Taking, Finishing, Held

\* Some file of a store at rest is a document.
SomeDocument == \E f \in Slot : disk[f] \in Documents

LEMMA RestAnchored ==
  pc = "idle" /\ unsynced = {} => (Anchored <=> SomeDocument)
BY DEF Anchored, SomeDocument, Slot, Committing

LEMMA RestAnchoredNext ==
  (pc = "idle" /\ unsynced = {} => (Anchored <=> SomeDocument))'
BY RestAnchored, PTL

\* Giving up is safe wherever one of the two documents is found.
LEMMA GiveUpSound ==
  ASSUME GiveUp, Held' \in {kept, chosen}, ~resolved, UNCHANGED <<kept, chosen, resolved>>
  PROVE  ResolutionSound'
BY DEF GiveUp, ResolutionSound, Choosing, Swapping, Taking, Finishing

\* What a resolution's calls find and leave.
Resolves ==
  /\ TypeOK /\ BootTypeOK /\ ResolutionSound /\ SomeDocument
  /\ UNCHANGED <<slot, chosen, kept, resolved>>

LEMMA ReadsOrGivesUp ==
  ASSUME Resolves, step \notin {"idle", "revoke"}, NEW s, Reads(s)
  PROVE  /\ UNCHANGED <<disk, inspection>> /\ Held' = Held /\ SomeDocument'
         /\ step' = s \/ ResolutionSound'
<1>1. /\ UNCHANGED <<disk, inspection>> /\ Held' = Held /\ SomeDocument'
      /\ step' = s \/ GiveUp
  BY DEF Reads, Then, Resolves, SomeDocument, Held
<1>2. Held \in {kept, chosen} /\ ~resolved
  BY ResolvingHolds DEF Resolves, ResolutionSound
<1> QED
  BY <1>1, <1>2, GiveUpSound DEF Resolves

LEMMA UnlinksOrGivesUp ==
  ASSUME Resolves, step \notin {"idle", "revoke"}, NEW s, NEW f, Changes(Unlinked(f), s),
         Unlinked(f) => Held' \in {kept, chosen} /\ SomeDocument'
  PROVE  SomeDocument' /\ (ResolutionSound' \/ (step' = s /\ Unlinked(f)))
<1>1. Held \in {kept, chosen} /\ ~resolved
  BY ResolvingHolds DEF Resolves, ResolutionSound
<1>2. CASE GiveUp /\ UNCHANGED disk
  <2>1. Held' = Held /\ SomeDocument'
    BY <1>2 DEF Resolves, SomeDocument, Held
  <2> QED
    BY <1>1, <1>2, <2>1, GiveUpSound DEF Resolves
<1>3. CASE Unlinked(f) /\ (Then(s) \/ GiveUp)
  BY <1>1, <1>3, GiveUpSound DEF Resolves, Then
<1> QED
  BY <1>2, <1>3 DEF Changes

LEMMA RenamesOrGivesUp ==
  ASSUME Resolves, step \notin {"idle", "revoke"}, NEW s, NEW f, NEW g, Changes(Renamed(f, g), s),
         Renamed(f, g) => Held' \in {kept, chosen} /\ SomeDocument'
  PROVE  SomeDocument' /\ (ResolutionSound' \/ (step' = s /\ Renamed(f, g)))
<1>1. Held \in {kept, chosen} /\ ~resolved
  BY ResolvingHolds DEF Resolves, ResolutionSound
<1>2. CASE GiveUp /\ UNCHANGED disk
  <2>1. Held' = Held /\ SomeDocument'
    BY <1>2 DEF Resolves, SomeDocument, Held
  <2> QED
    BY <1>1, <1>2, <2>1, GiveUpSound DEF Resolves
<1>3. CASE Renamed(f, g) /\ (Then(s) \/ GiveUp)
  BY <1>1, <1>3, GiveUpSound DEF Resolves, Then
<1> QED
  BY <1>2, <1>3 DEF Changes

LEMMA ResolutionStays ==
  ASSUME Resolves, ResolutionStep PROVE ResolutionSound' /\ SomeDocument'
<1>0. /\ DOMAIN disk = Slot /\ slot \in Slot /\ kept \in Documents /\ chosen \in Documents
      /\ UNCHANGED <<slot, chosen, kept, resolved>> /\ (step # "revoke" => ~resolved)
      /\ disk \in [Slot -> Documents \cup {Absent, Torn}]
  BY DEF Resolves, TypeOK, BootTypeOK, ResolutionSound
<1> USE DEF Choosing, Swapping, Taking, Finishing
<1>1. CASE Compare
  <2>1. CASE inspection = "stale" /\ Reads("revoke")
    BY <1>0, <1>1, <2>1, ReadsOrGivesUp, ResolvingHolds
       DEF Compare, ResolutionSound, Resolves
  <2>2. ASSUME inspection = "fresh", NEW same \in SameFile("current", slot),
               Reads(IF slot = "current" \/ same THEN "syncCurrent" ELSE "syncSelected")
        PROVE  ResolutionSound' /\ SomeDocument'
    <3>1. Held = kept /\ disk[slot] = chosen
      BY <1>1, <2>2 DEF Compare, Resolves, ResolutionSound
    <3>2. slot = "current" \/ same => disk["current"] = chosen
      BY <2>2, <3>1 DEF SameFile
    <3>3. CASE slot = "current" \/ same
      BY <1>0, <1>1, <2>2, <3>2, <3>3, ReadsOrGivesUp DEF Compare, ResolutionSound
    <3>4. CASE ~(slot = "current" \/ same)
      BY <1>0, <1>1, <2>2, <3>1, <3>4, ReadsOrGivesUp DEF Compare, ResolutionSound
    <3> QED
      BY <3>3, <3>4
  <2> QED
    BY <1>1, <2>1, <2>2 DEF Compare
<1>2. CASE SyncSelected
  <2>1. Held = kept /\ disk[slot] = chosen /\ slot # "current"
    BY <1>2 DEF SyncSelected, Resolves, ResolutionSound
  <2>2. CASE disk["current"] = Absent
    BY <1>0, <1>2, <2>1, <2>2, ReadsOrGivesUp DEF SyncSelected, ResolutionSound
  <2>3. CASE disk["current"] = Torn
    BY <1>0, <1>2, <2>1, <2>3, ReadsOrGivesUp, DocumentsAssumption DEF SyncSelected, ResolutionSound
  <2>4. CASE disk["current"] \in Documents
    <3>1. \E s \in {"clearAside", "setAside"} : Reads(s)
      BY <1>2, <2>4, DocumentsAssumption DEF SyncSelected
    <3> QED
      BY <1>0, <1>2, <2>1, <2>4, <3>1, ReadsOrGivesUp DEF SyncSelected, ResolutionSound
  <2> QED
    BY <1>0, <2>2, <2>3, <2>4 DEF Slot
<1>3. CASE ClearAside
  <2>1. /\ Held = kept /\ disk[slot] = chosen /\ slot # "current"
        /\ disk["current"] \in Documents /\ step = "clearAside"
    BY <1>3 DEF ClearAside, Resolves, ResolutionSound
  <2>2. Aside \in Slot /\ Aside \notin {slot, "current"}
    BY <2>1 DEF Aside, Slot
  <2>3. ASSUME Unlinked(Aside)
        PROVE  Held' = kept /\ disk'[slot] = chosen /\ disk'["current"] = disk["current"]
    BY <1>0, <2>1, <2>2, <2>3 DEF Unlinked, Held, Slot
  <2>4. Unlinked(Aside) => Held' \in {kept, chosen} /\ SomeDocument'
    BY <2>1, <2>3 DEF SomeDocument, Slot
  <2>5. /\ SomeDocument'
        /\ ResolutionSound' \/ (step' = "setAside" /\ Unlinked(Aside))
    BY <1>3, <2>1, <2>4, UnlinksOrGivesUp DEF ClearAside
  <2> QED
    BY <1>0, <2>1, <2>3, <2>5 DEF ResolutionSound
<1>4. CASE SetAside
  <2>1. /\ Held = kept /\ disk[slot] = chosen /\ slot # "current"
        /\ disk["current"] \in Documents /\ step = "setAside"
    BY <1>4 DEF SetAside, Resolves, ResolutionSound
  <2>2. /\ Aside \in Slot /\ Aside \notin {slot, "current"} /\ disk["current"] = kept
        /\ Slot = {"current", slot, Aside}
    BY <1>0, <2>1 DEF Aside, Slot, Held
  <2>3. ASSUME Renamed("current", Aside)
        PROVE  /\ disk'["current"] = Absent /\ disk'[slot] = chosen /\ disk'[Aside] = kept
               /\ Held' \in {kept, chosen}
    <3>1. disk'["current"] = Absent /\ disk'[slot] = chosen /\ disk'[Aside] = kept
      BY <1>0, <2>1, <2>2, <2>3 DEF Renamed
    <3> QED
      BY <1>0, <2>2, <3>1, DocumentsAssumption DEF Held, Slot
  <2>4. Renamed("current", Aside) => Held' \in {kept, chosen} /\ SomeDocument'
    BY <1>0, <2>3 DEF SomeDocument
  <2>5. /\ SomeDocument'
        /\ ResolutionSound' \/ (step' = "syncAside" /\ Renamed("current", Aside))
    BY <1>4, <2>1, <2>4, RenamesOrGivesUp DEF SetAside
  <2> QED
    BY <1>0, <2>1, <2>3, <2>5 DEF ResolutionSound
<1>5. CASE SyncAside
  BY <1>0, <1>5, ReadsOrGivesUp DEF SyncAside, Resolves, ResolutionSound
<1>6. CASE DropBroken
  <2>1. /\ Held = kept /\ disk[slot] = chosen /\ slot # "current" /\ disk["current"] = Torn
        /\ step = "dropBroken"
    BY <1>6 DEF DropBroken, Resolves, ResolutionSound
  <2>2. ASSUME Unlinked("current")
        PROVE  disk'["current"] = Absent /\ disk'[slot] = chosen /\ Held' = Held
    BY <1>0, <2>1, <2>2, DocumentsAssumption DEF Unlinked, Held, Slot
  <2>3. Unlinked("current") => Held' \in {kept, chosen} /\ SomeDocument'
    BY <1>0, <2>1, <2>2 DEF SomeDocument
  <2>4. SomeDocument' /\ (ResolutionSound' \/ (step' = "take" /\ Unlinked("current")))
    BY <1>6, <2>1, <2>3, UnlinksOrGivesUp DEF DropBroken
  <2> QED
    BY <1>0, <2>1, <2>2, <2>4 DEF ResolutionSound
<1>7. CASE Take
  <2>1. disk[slot] = chosen /\ slot # "current" /\ step = "take"
    BY <1>7 DEF Take, Resolves, ResolutionSound
  <2>2. ASSUME Renamed(slot, "current") PROVE disk'["current"] = chosen /\ Held' = chosen
    BY <1>0, <2>1, <2>2 DEF Renamed, Held, Slot
  <2>3. Renamed(slot, "current") => Held' \in {kept, chosen} /\ SomeDocument'
    BY <1>0, <2>2 DEF SomeDocument, Slot
  <2>4. SomeDocument' /\ (ResolutionSound' \/ (step' = "syncCurrent" /\ Renamed(slot, "current")))
    BY <1>7, <2>1, <2>3, RenamesOrGivesUp DEF Take
  <2> QED
    BY <1>0, <2>1, <2>2, <2>4 DEF ResolutionSound
\* From here on the chosen document is current, and no call touches it.
<1>8. ASSUME step \in Finishing, NEW s \in Finishing, Reads(s)
      PROVE  ResolutionSound' /\ SomeDocument'
  BY <1>0, <1>8, ReadsOrGivesUp DEF Resolves, ResolutionSound
<1>9. ASSUME step \in Finishing, NEW s \in Finishing, NEW f \in {"next", "previous"},
             Changes(Unlinked(f), s)
      PROVE  ResolutionSound' /\ SomeDocument'
  <2>1. disk["current"] = chosen
    BY <1>9 DEF Resolves, ResolutionSound
  <2>2. ASSUME Unlinked(f) PROVE disk'["current"] = chosen /\ Held' = chosen
    BY <1>0, <1>9, <2>1, <2>2 DEF Unlinked, Held, Slot
  <2>3. Unlinked(f) => Held' \in {kept, chosen} /\ SomeDocument'
    BY <1>0, <2>2 DEF SomeDocument, Slot
  <2>4. SomeDocument' /\ (ResolutionSound' \/ (step' = s /\ Unlinked(f)))
    BY <1>9, <2>3, UnlinksOrGivesUp
  <2> QED
    BY <1>0, <1>9, <2>2, <2>4 DEF ResolutionSound
<1>10. CASE KeepNext
  <2>1. disk["current"] = chosen /\ step = "keepNext"
    BY <1>10 DEF KeepNext, Resolves, ResolutionSound
  <2>2. ASSUME Renamed("next", "previous") PROVE disk'["current"] = chosen /\ Held' = chosen
    BY <1>0, <2>1, <2>2 DEF Renamed, Held, Slot
  <2>3. Renamed("next", "previous") => Held' \in {kept, chosen} /\ SomeDocument'
    BY <1>0, <2>2 DEF SomeDocument, Slot
  <2>4. SomeDocument' /\ (ResolutionSound' \/ (step' = "syncKept" /\ Renamed("next", "previous")))
    BY <1>10, <2>1, <2>3, RenamesOrGivesUp DEF KeepNext
  <2> QED
    BY <1>0, <2>1, <2>2, <2>4 DEF ResolutionSound
<1>11. CASE SyncCurrent \/ TidyNext \/ SyncKept
  <2>1. step \in Finishing /\ \E s \in Finishing : Reads(s)
    BY <1>11 DEF SyncCurrent, TidyNext, SyncKept
  <2> QED
    BY <1>8, <2>1
<1>12. CASE DropOld \/ DiscardNext
  BY <1>9, <1>12 DEF DropOld, DiscardNext
<1>13. CASE TidyPrevious
  <2>1. step \in Finishing /\ (Changes(Unlinked("previous"), "check") \/ Reads("check"))
    BY <1>13 DEF TidyPrevious
  <2> QED
    BY <1>8, <1>9, <2>1
<1> QED
  BY <1>1, <1>2, <1>3, <1>4, <1>5, <1>6, <1>7, <1>10, <1>11, <1>12, <1>13 DEF ResolutionStep

\* Nothing happens to the files, and the answers stay apart, while the device is
\* neither in the product nor in a resolution.
LEMMA AnsweredApart == ASSUME DocumentInv, [BNext]_bvars PROVE AnswersApart'
<1> USE DEF AnswersApart
<1>0. AnswersApart /\ OneAtATime /\ BootTypeOK /\ TypeOK
  BY DEF DocumentInv, BootInv, FilesInv
<1>1. CASE Audit \/ Chatting \/ PowerOn \/ UNCHANGED bvars
  BY <1>0, <1>1 DEF Audit, Chatting, PowerOn, recovery, vars, bvars
<1>2. CASE Run
  BY <1>0, <1>2 DEF Run, recovery
<1>3. CASE Inspect \/ Mount \/ Check \/ Revoke \/ ResolveOthers
  BY <1>0, <1>3 DEF Inspect, Operable, Mount, Check, Revoke, ResolveOthers, OneAtATime, vars
<1>4. CASE ResolutionStep
  BY <1>0, <1>4, ResolutionFiles DEF ResolutionStep, FilesResolved, OneAtATime, BootTypeOK
<1>5. CASE Restart \/ PowerOff
  BY <1>0, <1>5 DEF Restart, PowerOff, PowerCut, NewBoot, OneAtATime
<1>6. ASSUME NEW s \in Slot, Resolve(s) PROVE AnswersApart'
  BY <1>0, <1>6 DEF Resolve, Operable
<1> QED
  BY <1>1, <1>2, <1>3, <1>4, <1>5, <1>6 DEF BNext

LEMMA AnchorKept == ASSUME DocumentInv, [BNext]_bvars PROVE Anchored' /\ TwiceCharged'
<1>0. /\ Anchored /\ TwiceCharged /\ FilesInv /\ TypeOK /\ BootTypeOK /\ OneAtATime
      /\ AnswersApart /\ ResolutionSound
  BY DEF DocumentInv, BootInv, FilesInv
<1>1. CASE Run /\ Next
  <2>1. Anchored'
    BY <1>0, <1>1, RecoverAnchored, CommitAnchored, ClientAnchored DEF Run
  <2> QED
    BY <1>0, <1>1, <2>1, TwiceChargedStays
<1>2. CASE PowerOff /\ PowerCut
  BY <1>0, <1>2, ClientAnchored, TwiceChargedStays DEF Next
<1>3. CASE ResolutionStep /\ FilesResolved
  <2>1. pc' = "idle" /\ pc = "idle" /\ unsynced = {} /\ unsynced' = {}
    BY <1>0, <1>3 DEF FilesResolved, OneAtATime, AnswersApart
  <2>2. SomeDocument
    BY <1>0, <2>1, RestAnchored
  <2>3. SomeDocument'
    BY <1>0, <1>3, <2>2, ResolutionStays DEF Resolves, ResolutionStep
  <2> QED
    BY <2>1, <2>3, RestAnchoredNext DEF TwiceCharged
<1>4. CASE FilesRest
  <2>1. Anchored'
    BY <1>0, <1>4 DEF FilesRest, Anchored
  <2>2. CASE boot = "product"
    <3>1. UNCHANGED faults \/ UNCHANGED bvars \/ Run \/ PowerOff
      <4>1. Audit \/ Inspect \/ Mount \/ ResolutionStep \/ Check \/ Revoke \/ ResolveOthers
              => boot # "product"
        BY <1>0, ResolutionFiles DEF Audit, Inspect, Operable, Mount, FilesResolved, Check,
           Revoke, ResolveOthers, OneAtATime, BootTypeOK
      <4>2. (\E s \in Slot : Resolve(s)) \/ Restart \/ PowerOn => boot # "product"
        BY <1>0 DEF Resolve, Operable, Restart, PowerOn, OneAtATime
      <4> QED
        BY <2>2, <4>1, <4>2 DEF BNext, Chatting, vars
    <3>2. CASE UNCHANGED faults \/ UNCHANGED bvars
      BY <1>0, <1>4, <2>1, <3>2 DEF FilesRest, TwiceCharged, Kept, bvars, vars
    <3>3. CASE Run
      BY <1>0, <2>1, <3>3, TwiceChargedStays DEF Run, Next
    <3>4. CASE PowerOff
      BY <1>0, <2>1, <3>4, TwiceChargedStays DEF PowerOff, Next
    <3> QED
      BY <3>1, <3>2, <3>3, <3>4
  <2>3. CASE boot # "product"
    BY <1>0, <1>4, <2>1, <2>3 DEF FilesRest, OneAtATime, TwiceCharged
  <2> QED
    BY <2>2, <2>3
<1>5. CASE UNCHANGED bvars
  BY <1>0, <1>5 DEF bvars, vars, Anchored, TwiceCharged, Kept
<1> QED
  BY <1>0, <1>1, <1>2, <1>3, <1>4, <1>5, StepKinds DEF BootTypeOK

LEMMA ResolutionKept == ASSUME DocumentInv, [BNext]_bvars PROVE ResolutionSound'
<1>0. /\ ResolutionSound /\ TypeOK /\ BootTypeOK /\ OneAtATime /\ AnswersApart /\ Anchored
      /\ FilesInv
  BY DEF DocumentInv, BootInv, FilesInv
<1> USE DEF Choosing, Swapping, Taking, Finishing
\* At rest the only thing to say is that nothing is resolved.
<1>1. ASSUME step' = "idle", ~resolved' PROVE ResolutionSound'
  BY <1>1 DEF ResolutionSound
<1>2. CASE Audit \/ Run \/ Chatting \/ PowerOn
  <2>1. UNCHANGED <<step, resolved>> /\ step = "idle"
    BY <1>0, <1>2 DEF Audit, Run, Chatting, PowerOn, recovery, OneAtATime
  <2> QED
    BY <1>0, <1>1, <2>1 DEF ResolutionSound
<1>3. CASE Inspect \/ ResolveOthers
  <2>1. UNCHANGED <<step, resolved>> /\ step = "idle"
    BY <1>3 DEF Inspect, ResolveOthers, Operable
  <2> QED
    BY <1>0, <1>1, <2>1 DEF ResolutionSound
<1>4. CASE Revoke \/ Restart \/ PowerOff
  BY <1>1, <1>4 DEF Revoke, Restart, PowerOff, NewBoot, Rest
<1>5. CASE Mount
  <2>1. CASE Rest
    BY <1>1, <2>1 DEF Rest
  <2>2. CASE step' = "compare" /\ UNCHANGED <<slot, chosen, kept, resolved>>
    BY <1>0, <1>5, <2>2 DEF Mount, ResolutionSound, Held
  <2> QED
    BY <1>5, <2>1, <2>2 DEF Mount
<1>6. CASE ResolutionStep
  <2>1. pc = "idle" /\ unsynced = {}
    BY <1>0, <1>6, ResolutionFiles DEF FilesResolved, OneAtATime, AnswersApart, BootTypeOK
  <2>2. SomeDocument
    BY <1>0, <2>1, RestAnchored
  <2> QED
    BY <1>0, <1>6, <2>2, ResolutionStays DEF Resolves, ResolutionStep
<1>7. CASE Check
  <2>1. disk["current"] = chosen /\ chosen \in Documents /\ UNCHANGED <<disk, chosen, kept>>
        /\ step' = "revoke" /\ ~resolved
    BY <1>0, <1>7 DEF Check, ResolutionSound, BootTypeOK
  <2>2. Held' = chosen
    BY <2>1 DEF Held
  <2> QED
    BY <2>1, <2>2 DEF ResolutionSound
<1>8. ASSUME NEW s \in Slot, Resolve(s) PROVE ResolutionSound'
  <2>1. /\ step = "idle" /\ step' = "mount" /\ UNCHANGED <<disk, inspection, resolved>>
        /\ kept' = Held /\ slot' = s
        /\ inspection = "fresh" => chosen' = disk[s]
    BY <1>8 DEF Resolve, Operable
  <2>2. Held' = Held
    BY <2>1 DEF Held
  <2> QED
    BY <1>0, <2>1, <2>2 DEF ResolutionSound
<1>9. CASE UNCHANGED bvars
  BY <1>0, <1>9 DEF bvars, vars, recovery, ResolutionSound, Held
<1> QED
  BY <1>2, <1>3, <1>4, <1>5, <1>6, <1>7, <1>8, <1>9 DEF BNext

LEMMA DocumentStays == ASSUME DocumentInv, [BNext]_bvars PROVE DocumentInv'
BY BootStays, AnchorKept, ResolutionKept, AnsweredApart DEF DocumentInv

LEMMA DocumentStarts == ASSUME BInit PROVE DocumentInv
<1>1. BootInv
  BY BootStarts
<1>2. Anchored
  BY DEF BInit, Anchored, Slot, Committing
<1>3. ResolutionSound /\ AnswersApart /\ TwiceCharged
  BY DEF BInit, AtRest, ResolutionSound, AnswersApart, TwiceCharged, Choosing, Swapping, Taking,
     Finishing
<1> QED
  BY <1>1, <1>2, <1>3 DEF DocumentInv

-----------------------------------------------------------------------------
\* The refinement mapping of the boot.
Shown == IF step # "idle" THEN kept ELSE Seen
Suggested == IF step # "idle" THEN chosen ELSE Proposed
Answered == IF boot \in {"recovery", "sealed"} THEN outcome ELSE answer

\* A step of the boot that the document does not see.
Unseen == UNCHANGED <<Shown, Suggested, Answered>>

\* While the product runs, the store's step is the document's.
LEMMA RunSteps ==
  ASSUME MaxFaults <= 2, DocumentInv, Run
  PROVE  BootDocument!Next \/ Unseen
<1>1. /\ boot = "product" /\ boot' = "product" /\ step = "idle" /\ step' = "idle"
      /\ FilesInv /\ Restored
  BY TwiceRestored DEF DocumentInv, BootInv, OneAtATime, Run, recovery
<1>2. ASSUME UNCHANGED <<Seen, Proposed, answer>> PROVE Unseen
  BY <1>1, <1>2 DEF Unseen, Shown, Suggested, Answered
<1>3. /\ Document!Call => BootDocument!Call
      /\ Document!Read => BootDocument!Read
      /\ Document!Confirm => BootDocument!Confirm
      /\ Document!Fail => BootDocument!Fail
  BY <1>1 DEF Document!Call, BootDocument!Call, Document!Read, BootDocument!Read,
     Document!Confirm, BootDocument!Confirm, Document!Fail, BootDocument!Fail
<1>4. \A d \in Documents : Document!Propose(d) => BootDocument!Propose(d)
  BY <1>1 DEF Document!Propose, BootDocument!Propose
<1>5. CASE Open \/ Close \/ Finish
  BY <1>1, <1>2, <1>3, <1>5, ClientSteps DEF BootDocument!Next
<1>6. CASE Recover
  BY <1>1, <1>2, <1>3, <1>6, RecoverSteps DEF BootDocument!Next
<1>7. CASE CommitIndex
  BY <1>1, <1>2, <1>3, <1>7, CommitSteps DEF BootDocument!Next
<1>8. ASSUME NEW d \in Documents, Commit(d) PROVE BootDocument!Next
  BY <1>1, <1>4, <1>8, ClientSteps DEF BootDocument!Next
<1> QED
  BY <1>5, <1>6, <1>7, <1>8 DEF Run

\* What the files read as outside a resolution.
LEMMA ReadAtRest ==
  boot # "product" /\ OneAtATime /\ BootTypeOK =>
    /\ Seen = Held /\ Proposed = Absent
    /\ step = "idle" => Shown = Held /\ Suggested = Absent
BY DEF OneAtATime, BootTypeOK, Seen, Proposed, Shown, Suggested, Committing

\* A resolution that ends without an answer leaves what a power cut may leave.
LEMMA GivenUp ==
  ASSUME DocumentInv, step # "idle", UNCHANGED <<disk, pc>>, step' = "idle",
         boot' \in {"recovery", "sealed"}, outcome' = "none"
  PROVE  BootDocument!PowerCut
<1>1. Held \in {kept, chosen} /\ Held' = Held /\ pc' = "idle"
  BY ResolvingHolds DEF DocumentInv, BootInv, OneAtATime, Held
<1>2. kept # Absent /\ chosen # Absent
  BY DocumentsAssumption DEF DocumentInv, BootInv, BootTypeOK
<1> QED
  BY <1>1, <1>2 DEF BootDocument!PowerCut, Committing

LEMMA PowerOffSteps == ASSUME DocumentInv, PowerOff PROVE BootDocument!PowerCut
<1>1. /\ step' = "idle" /\ pc' = "idle" /\ boot' = "off" /\ answer' = "none"
      /\ Held' = Held
  BY AnchoredCut DEF DocumentInv, BootInv, PowerOff, PowerCut, NewBoot, Rest
<1>2. Held # Absent /\ kept # Absent /\ chosen # Absent /\ base # Absent /\ target # Absent
  BY HeldIsDocument, DocumentsAssumption DEF DocumentInv, BootInv, BootTypeOK, FilesInv, TypeOK
<1>3. CASE step # "idle"
  BY <1>1, <1>2, <1>3, ResolvingHolds DEF DocumentInv, BootInv, BootDocument!PowerCut, Committing
<1>4. CASE step = "idle"
  <2>1. pc \in Committing => Held \in {base, target}
    BY FilesHold DEF DocumentInv, BootInv, HoldsOneOfTwo
  <2> QED
    BY <1>1, <1>2, <1>4, <2>1 DEF BootDocument!PowerCut, Committing
<1> QED
  BY <1>3, <1>4

LEMMA BootSteps ==
  ASSUME MaxFaults <= 2, DocumentInv, BNext
  PROVE  BootDocument!Next \/ Unseen
<1>0. OneAtATime /\ BootTypeOK /\ AnswersApart /\ ResolutionSound /\ FilesInv
  BY DEF DocumentInv, BootInv
<1>1. CASE Audit
  BY <1>0, <1>1 DEF Audit, recovery, AnswersApart, Unseen, Shown, Suggested, Answered, Seen,
     Proposed, Held
<1>2. CASE Run
  BY <1>2, RunSteps
<1>3. CASE Chatting \/ PowerOn
  BY <1>0, <1>3 DEF Chatting, PowerOn, vars, recovery, AnswersApart, Unseen, Shown, Suggested,
     Answered, Seen, Proposed, Held
<1>4. CASE ResolveOthers
  BY <1>4 DEF ResolveOthers, vars, Unseen, Shown, Suggested, Answered, Seen, Proposed, Held
<1>5. CASE Inspect
  <2>1. BootDocument!Call
    BY <1>0, <1>5 DEF Inspect, Operable, OneAtATime, BootDocument!Call, Held, Committing
  <2> QED
    BY <2>1 DEF BootDocument!Next
<1>6. CASE Restart
  <2>1. BootDocument!Call
    BY <1>0, <1>6 DEF Restart, NewBoot, Rest, OneAtATime, AnswersApart, BootDocument!Call, Held,
       Committing
  <2> QED
    BY <2>1 DEF BootDocument!Next
<1>7. ASSUME NEW s \in Slot, Resolve(s) PROVE BootDocument!Next
  <2>1. chosen' \in Documents
    BY <1>0, <1>7, HeldIsDocument DEF Resolve
  <2>2. BootDocument!Propose(chosen')
    BY <1>0, <1>7 DEF Resolve, Operable, OneAtATime, BootDocument!Propose, Committing
  <2> QED
    BY <2>1, <2>2 DEF BootDocument!Next
<1>8. CASE Mount
  <2>1. CASE step' = "compare" /\ UNCHANGED <<boot, slot, chosen, kept, resolved, outcome, faults>>
    BY <1>8, <2>1 DEF Mount, Unseen, Shown, Suggested, Answered
  <2>2. CASE Fault /\ Rest /\ boot' \in {"recovery", "sealed"} /\ outcome' = "none"
    BY <1>8, <2>2, GivenUp DEF Mount, Rest, BootDocument!Next
  <2> QED
    BY <1>8, <2>1, <2>2 DEF Mount
<1>9. CASE ResolutionStep \/ Check
  <2>1. step # "idle" /\ UNCHANGED <<boot, chosen, kept, answer, outcome>>
    BY <1>0, <1>9, ResolutionFiles DEF ResolutionStep, FilesResolved, Check, FilesInv, BootTypeOK
  <2>2. step' # "idle"
    BY <1>9 DEF ResolutionStep, Check, Compare, SyncSelected, ClearAside, SetAside, SyncAside,
       DropBroken, Take, SyncCurrent, TidyNext, DropOld, KeepNext, SyncKept, DiscardNext,
       TidyPrevious, Reads, Changes, Then, GiveUp
  <2> QED
    BY <2>1, <2>2 DEF Unseen, Shown, Suggested, Answered
<1>10. CASE Revoke
  <2>1. /\ step = "revoke" /\ step' = "idle" /\ UNCHANGED <<disk, pc, boot>>
        /\ boot \in {"recovery", "sealed"} /\ pc = "idle"
    BY <1>0, <1>10 DEF Revoke, Rest, OneAtATime
  <2>2. CASE outcome' = "none"
    BY <2>1, <2>2, GivenUp DEF BootDocument!Next
  <2>3. CASE resolved /\ outcome' = "ok"
    <3>1. Held' = chosen /\ chosen # Absent
      BY <1>0, <2>1, <2>3, DocumentsAssumption DEF ResolutionSound, BootTypeOK, Held
    <3>2. BootDocument!Confirm
      BY <2>1, <2>3, <3>1 DEF BootDocument!Confirm, Committing
    <3> QED
      BY <3>2 DEF BootDocument!Next
  <2> QED
    BY <1>10, <2>2, <2>3 DEF Revoke
<1>11. CASE PowerOff
  BY <1>11, PowerOffSteps DEF BootDocument!Next
<1> QED
  BY <1>1, <1>2, <1>3, <1>4, <1>5, <1>6, <1>7, <1>8, <1>9, <1>10, <1>11 DEF BNext

\* With at most two calls of an operation failing, the store and the operator in
\* Recovery work on one atomic document, through power cuts at any call: a choice
\* answered Ok is what the store then finds, any other leaves the chosen document
\* or the one that would have been found without it.
THEOREM BootImplementsDocument ==
  ASSUME MaxFaults <= 2 PROVE BSpec => BootDocumentSpec
<1>1. BInit => BootDocument!Init
  <2>1. ASSUME BInit PROVE Held \in Documents /\ step = "idle" /\ pc = "idle" /\ answer = "none"
                           /\ boot = "audit"
    BY <2>1, HeldIsDocument, BootStarts DEF BInit, AtRest, BootInv
  <2> QED
    BY <2>1 DEF BootDocument!Init, Committing
<1>2. DocumentInv /\ [BNext]_bvars => DocumentInv'
  BY DocumentStays
<1>3. MaxFaults <= 2 /\ DocumentInv /\ [BNext]_bvars => [BootDocument!Next]_(BootDocument!vars)
  <2>1. ASSUME UNCHANGED bvars PROVE Unseen
    BY <2>1 DEF bvars, vars, recovery, Unseen, Shown, Suggested, Answered, Seen, Proposed, Held
  <2>2. Unseen => UNCHANGED BootDocument!vars
    BY DEF Unseen, Shown, Suggested, Answered, Seen, Proposed, BootDocument!vars
  <2> QED
    BY <2>1, <2>2, BootSteps
<1> QED
  BY <1>1, <1>2, <1>3, DocumentStarts, PTL DEF BSpec, BootDocumentSpec, BootDocument!Spec
=============================================================================
