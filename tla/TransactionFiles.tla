---------------------------- MODULE TransactionFiles ----------------------------
(***************************************************************************)
(* The commit protocol the task store and the album store share: one       *)
(* document in three files, index.json, index.next and index.prev (or      *)
(* tasks.json and so on).  Each call that changes a file is a step; between*)
(* any two steps the power may go, and a call may fail.                    *)
(*                                                                         *)
(* Assumed of the file systems (LittleFS, FAT): unlink, rename and the     *)
(* creation of a file are atomic and durable when they return; written     *)
(* bytes are durable only after fsync(); stat() does not lie.  Of the      *)
(* failing calls, the reading of an intact file by recoverIndex() is kept  *)
(* apart: see Misread.                                                     *)
(***************************************************************************)
EXTENDS Naturals

CONSTANTS
  Documents,     \* every index or manifest that parses
  Empty,         \* the document of a store without files
  Absent, Torn,  \* no such file; a file that does not parse
  MaxFaults      \* system calls that may fail within one operation

ASSUME DocumentsAssumption ==
  Empty \in Documents /\ {Absent, Torn} \cap Documents = {} /\ Absent # Torn
ASSUME FaultsAssumption == MaxFaults \in Nat

Slot == {"current", "next", "previous"}

Recovering == {"recover", "trimNext", "dropCurrent", "dropNext", "promote"}
Committing == {"clearNext", "openNext", "writeNext", "syncNext", "verifyNext",
               "retire", "install", "rollback", "abandon"}
Ended == {"committed", "failed", "refused"}

VARIABLES
  disk,        \* what each file holds
  unsynced,    \* files written and not yet fsynced
  pc,          \* the next system call of the operation under way
  source,      \* the file recovery promotes
  base,        \* the document recovery found
  target,      \* the document being committed
  hadCurrent,  \* had_current of commitIndex()
  answer,      \* what the last recovery or commit returned
  faults       \* system calls that failed in this operation

vars == <<disk, unsynced, pc, source, base, target, hadCurrent, answer, faults>>

\* What the next recoverIndex() will find, if reading works.
Held ==
  IF disk["current"] \in Documents THEN disk["current"]
  ELSE IF disk["next"] \in Documents THEN disk["next"]
  ELSE IF disk["previous"] \in Documents THEN disk["previous"]
  ELSE Empty

\* The locals of an operation are gone when it ends.
Forget ==
  /\ source' = "current" /\ base' = Empty /\ target' = Empty
  /\ hadCurrent' = FALSE

Init ==
  /\ \E d \in Documents \cup {Absent} :
       disk = [f \in Slot |-> IF f = "current" THEN d ELSE Absent]
  /\ unsynced = {}
  /\ pc = "idle"
  /\ source = "current"
  /\ base = Empty /\ target = Empty
  /\ hadCurrent = FALSE
  /\ answer = "none"
  /\ faults = 0

-----------------------------------------------------------------------------
Fault == faults < MaxFaults /\ faults' = faults + 1

Unlinked(f) == disk' = [disk EXCEPT ![f] = Absent] /\ unsynced' = unsynced \ {f}

Renamed(f, g) ==
  /\ disk' = [disk EXCEPT ![f] = Absent, ![g] = disk[f]]
  /\ unsynced' = (unsynced \ {f, g}) \cup {g : x \in unsynced \cap {f}}

\* A system call that works is followed by the call at p, one that fails by
\* the one at q.
Works(p) == pc' = p /\ UNCHANGED <<source, base, target, hadCurrent, answer, faults>>
Breaks(q) ==
  /\ Fault
  /\ pc' = q
  /\ UNCHANGED <<disk, unsynced, source, base, target, hadCurrent, answer>>

\* safeUnlink(): a missing file is no error.
Unlink(f, p, q) ==
  \/ Unlinked(f) /\ Works(p)
  \/ disk[f] # Absent /\ Breaks(q)

Rename(f, g, p, q) ==
  \/ Renamed(f, g) /\ Works(p)
  \/ Breaks(q)

-----------------------------------------------------------------------------
\* A public operation takes the mutex and calls recoverIndex().
Open ==
  /\ pc = "idle"
  /\ pc' = "recover"
  /\ answer' = "none"
  /\ faults' = 0
  /\ UNCHANGED <<disk, unsynced, source, base, target, hadCurrent>>

\* loadIndex(): readBounded() and parseAlbumIndex().
Loads(f, lost) == f \notin lost /\ disk[f] \in Documents

\* recoverIndex() picks the first file that loads; lost is one it cannot read.
Survey(lost) ==
  LET found(f, p) == base' = disk[f] /\ source' = f /\ pc' = p /\ UNCHANGED answer
      current == Loads("current", lost)
      next == ~current /\ Loads("next", lost)
      previous == ~current /\ ~next /\ Loads("previous", lost)
      nothing == \A f \in Slot : disk[f] = Absent
  IN /\ pc = "recover"
     /\ \/ current /\ found("current", IF disk["next"] # Absent
                                       THEN "trimNext" ELSE "recovered")
        \/ next /\ found("next", "dropCurrent")
        \/ previous /\ found("previous", "dropCurrent")
        \/ /\ nothing
           /\ base' = Empty /\ pc' = "recovered"
           /\ UNCHANGED <<source, answer>>
        \/ /\ ~current /\ ~next /\ ~previous /\ ~nothing
           /\ pc' = "refused" /\ answer' = "refused"
           /\ UNCHANGED <<source, base>>
     /\ UNCHANGED <<disk, unsynced, target, hadCurrent>>

RecoverIndex == Survey({}) /\ UNCHANGED faults

\* A failing call inside recoverIndex() makes it return false.
Refuses ==
  /\ Fault
  /\ pc' = "refused" /\ answer' = "refused"
  /\ UNCHANGED <<disk, unsynced, source, base, target, hadCurrent>>

TrimNext ==
  /\ pc = "trimNext"
  /\ \/ Unlinked("next") /\ Works("recovered")
     \/ Refuses

DropCurrent ==
  /\ pc = "dropCurrent"
  /\ \/ Unlinked("current") /\ Works(IF source = "next" THEN "promote" ELSE "dropNext")
     \/ disk["current"] # Absent /\ Refuses

DropNext ==
  /\ pc = "dropNext"
  /\ \/ Unlinked("next") /\ Works("promote")
     \/ disk["next"] # Absent /\ Refuses

Promote ==
  /\ pc = "promote"
  /\ \/ Renamed(source, "current") /\ Works("recovered")
     \/ Refuses

\* The operation only reads, or finds nothing to change.
Close ==
  /\ pc = "recovered"
  /\ pc' = "idle"
  /\ answer' = "ok"
  /\ Forget
  /\ UNCHANGED <<disk, unsynced, faults>>

-----------------------------------------------------------------------------
\* commitIndex() is called with a document that encodes.
Commit(d) ==
  /\ pc = "recovered"
  /\ target' = d
  /\ pc' = "clearNext"
  /\ UNCHANGED <<disk, unsynced, source, base, hadCurrent, answer, faults>>

ClearNext == pc = "clearNext" /\ Unlink("next", "openNext", "abandon")

\* writeAllFile(): open with O_TRUNC, write, fsync and close.
OpenNext ==
  /\ pc = "openNext"
  /\ \/ /\ disk' = [disk EXCEPT !["next"] = Torn]
        /\ unsynced' = unsynced \cup {"next"}
        /\ Works("writeNext")
     \/ Breaks("abandon")

WriteNext ==
  /\ pc = "writeNext"
  /\ \/ /\ disk' = [disk EXCEPT !["next"] = target]
        /\ Works("syncNext")
        /\ UNCHANGED unsynced
     \/ Breaks("abandon")

SyncNext ==
  /\ pc = "syncNext"
  /\ \/ unsynced' = unsynced \ {"next"} /\ Works("verifyNext") /\ UNCHANGED disk
     \/ Breaks("abandon")

\* The new file is read back before the old previous one is given up.
VerifyNext ==
  /\ pc = "verifyNext"
  /\ \/ disk["next"] \in Documents /\ Unlinked("previous") /\ Works("retire")
     \/ disk["next"] \notin Documents /\ Works("abandon") /\ UNCHANGED <<disk, unsynced>>
     \/ Breaks("abandon")

Retire ==
  LET had == disk["current"] # Absent
  IN /\ pc = "retire"
     /\ hadCurrent' = had
     /\ \/ /\ IF had THEN Renamed("current", "previous") ELSE UNCHANGED <<disk, unsynced>>
           /\ pc' = "install"
           /\ UNCHANGED faults
        \/ /\ had /\ Fault
           /\ pc' = "abandon"
           /\ UNCHANGED <<disk, unsynced>>
     /\ UNCHANGED <<source, base, target, answer>>

Install ==
  /\ pc = "install"
  /\ \/ /\ Renamed("next", "current")
        /\ pc' = "committed" /\ answer' = "ok"
        /\ UNCHANGED <<source, base, target, hadCurrent, faults>>
     \/ Breaks(IF hadCurrent THEN "rollback" ELSE "abandon")

\* The result of the rename back is not looked at.
Rollback == pc = "rollback" /\ Rename("previous", "current", "abandon", "abandon")

Abandon ==
  /\ pc = "abandon"
  /\ pc' = "failed" /\ answer' = "failed"
  /\ \/ Unlinked("next") /\ UNCHANGED faults
     \/ disk["next"] # Absent /\ Fault /\ UNCHANGED <<disk, unsynced>>
  /\ UNCHANGED <<source, base, target, hadCurrent>>

\* The mutex is released.
Finish ==
  /\ pc \in Ended
  /\ pc' = "idle"
  /\ Forget
  /\ UNCHANGED <<disk, unsynced, answer, faults>>

-----------------------------------------------------------------------------
\* Power goes and comes back: of a file not yet fsynced anything may be left.
PowerCut ==
  /\ \E t \in SUBSET unsynced :
       disk' = [f \in Slot |-> IF f \in t THEN Torn ELSE disk[f]]
  /\ unsynced' = {}
  /\ pc' = "idle"
  /\ answer' = "none"
  /\ faults' = 0
  /\ Forget

Recover == RecoverIndex \/ TrimNext \/ DropCurrent \/ DropNext \/ Promote

CommitIndex ==
  \/ ClearNext \/ OpenNext \/ WriteNext \/ SyncNext \/ VerifyNext
  \/ Retire \/ Install \/ Rollback \/ Abandon

Next ==
  \/ Open \/ Recover \/ Close
  \/ pc = "recovered" /\ \E d \in Documents : Commit(d)
  \/ CommitIndex \/ Finish \/ PowerCut

Spec == Init /\ [][Next]_vars

\* A store that has committed before, or was provisioned with a document.
ProvisionedInit == Init /\ disk["current"] # Absent
ProvisionedSpec == ProvisionedInit /\ [][Next]_vars

\* An intact file that is there cannot be read: recoverIndex() goes on as if
\* it were damaged.
Misread == Fault /\ \E f \in Slot : disk[f] # Absent /\ Survey({f})
MisreadSpec == Init /\ [][Next \/ Misread]_vars

-----------------------------------------------------------------------------
TypeOK ==
  /\ disk \in [Slot -> Documents \cup {Absent, Torn}]
  /\ unsynced \subseteq Slot
  /\ pc \in {"idle", "recovered"} \cup Recovering \cup Committing \cup Ended
  /\ source \in Slot
  /\ base \in Documents /\ target \in Documents
  /\ hadCurrent \in BOOLEAN
  /\ answer \in {"none", "ok", "failed", "refused"}
  /\ faults \in 0 .. MaxFaults

\* Neither rename ever lands on an existing file: FAT would refuse it where
\* LittleFS replaces the file.
RenamesLandClear ==
  /\ pc = "promote" => disk["current"] = Absent /\ disk[source] # Absent
  /\ pc = "retire" => disk["previous"] = Absent
  /\ pc \in {"install", "rollback"} => disk["current"] = Absent
  /\ pc = "rollback" => disk["previous"] # Absent

\* What recovery hands to the operation is what the files hold, and from then
\* on until the commit is decided the files hold that document or the new one.
HoldsOneOfTwo ==
  /\ pc = "recovered" => Held = base
  /\ pc \in Committing => Held \in {base, target}

\* Recovery moves files about but no step of it changes what they hold, so the
\* power may go between any two of them and recovery start again.
RecoveryKeepsDocument == [][Recover => Held' = Held]_vars

\* posix_atomic_album_store.hpp:65-67 "Recovery may promote an already durable
\* index.next/index.prev but never invents or deletes a committed asset": the
\* previous index is never preferred to a current one that parses.
CommittedNotReverted ==
  pc = "dropCurrent" /\ source = "previous" => disk["current"] \notin Documents

\* posix_task_store.hpp:36 "Atomic POSIX journal": an operation is refused only
\* because one of its own system calls failed, never for what an earlier power
\* cut left behind.
RefusedOnlyByFault == pc = "refused" => faults > 0

\* The files implement one atomic document.
Document == INSTANCE AtomicDocument WITH
  document <- IF pc \in Committing THEN base ELSE Held,
  proposal <- IF pc \in Committing THEN target ELSE Absent,
  NoProposal <- Absent
AtomicDocumentSpec == Document!Spec
=============================================================================
