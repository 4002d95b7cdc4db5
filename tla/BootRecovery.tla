------------------------------ MODULE BootRecovery ------------------------------
(***************************************************************************)
(* A store of TransactionFiles within the life of the device.  Every boot  *)
(* audits the files read-only before anything may write to them; what the  *)
(* audit does not find clean is left as it is, and the device waits in its *)
(* Recovery network until an operator has said which of the files to keep. *)
(* The resolution of that choice is modelled call by call, like the store's*)
(* own recovery, with failing calls and power cuts.                        *)
(*                                                                         *)
(* Of the rest of the audit: others says whether the other transactions    *)
(* (the other stores, the display journal) are clean, chat what the chat   *)
(* log would show a scan.  The NVS records, the export of an album and the *)
(* two seconds the answer is given to leave the device are left out.       *)
(***************************************************************************)
EXTENDS TransactionFiles

VARIABLES
  gated,       \* the audit guards this store; else it stands for the class alone
  boot,        \* where the boot stands
  spoilt,      \* a call of the store has failed in this boot
  others,      \* the other transactions of the device are clean
  chat,        \* what the last append left in the chat log
  inspection,  \* what the operator was shown: "none", "fresh" or "stale"
  step,        \* the next call of a resolution
  slot,        \* the file chosen
  chosen,      \* its document
  kept,        \* what the store would have found before
  resolved,    \* resolve() returns Ok
  due,         \* the restart waiting: "no", "clean" or "forced"
  outcome      \* what the operator was answered

recovery == <<inspection, step, slot, chosen, kept, resolved, due, outcome>>
device == <<gated, others, chat>>
bvars == <<vars, gated, boot, spoilt, others, chat, recovery>>

Chat == {"intact", "appending", "unanswered", "broken"}

\* No resolution is under way.
AtRest ==
  /\ step = "idle" /\ slot = "current" /\ chosen = Empty /\ kept = Empty
  /\ resolved = FALSE

Rest ==
  /\ step' = "idle" /\ slot' = "current" /\ chosen' = Empty /\ kept' = Empty
  /\ resolved' = FALSE

\* A gated store may have been left by an older firmware or damaged since, but
\* some file of it parses.
BInit ==
  /\ gated \in BOOLEAN
  /\ disk \in [Slot -> Documents \cup {Absent, Torn}]
  /\ IF gated THEN \E f \in Slot : disk[f] \in Documents
     ELSE disk["current"] \in Documents /\ disk["next"] = Absent /\ disk["previous"] = Absent
  /\ unsynced = {} /\ pc = "idle" /\ source = "current"
  /\ base = Empty /\ target = Empty /\ hadCurrent = FALSE
  /\ answer = "none" /\ faults = 0
  /\ boot = "audit" /\ spoilt = FALSE
  /\ others \in BOOLEAN /\ chat = "intact"
  /\ inspection = "none" /\ due = "no" /\ outcome = "none"
  /\ AtRest

-----------------------------------------------------------------------------
\* Mutant: a store that can recover by itself is let through.
CleanEnough(d) == d["current"] \in Documents

\* classifyTransaction() finds Empty or Clean.
Clean(d) ==
  \/ \A f \in Slot : d[f] = Absent
  \/ /\ d["current"] \in Documents
     /\ d["next"] = Absent
     /\ d["previous"] \in Documents \cup {Absent}

\* auditUpgrade() finds Fresh or Compatible.
Compatible == Clean(disk) /\ others /\ chat # "broken"

\* runReadOnlyUpgradeBootAudit(), and for a card the audit of its root: a file
\* that cannot be read refuses the boot as well, and if they cannot be mounted at
\* all the operator is offered nothing either.
Audit ==
  /\ boot = "audit"
  /\ \/ boot' = (IF gated /\ ~Compatible THEN "recovery" ELSE "product") /\ UNCHANGED faults
     \/ gated /\ Fault /\ boot' \in {"recovery", "sealed"}
  /\ UNCHANGED <<disk, unsynced, pc, source, base, target, hadCurrent, answer>>
  /\ UNCHANGED <<device, spoilt, recovery>>

\* The product runs: a step of the store, a line of the chat log.
Run ==
  /\ boot = "product"
  /\ \/ Open \/ Recover \/ Close \/ CommitIndex \/ Finish
     \/ pc = "recovered" /\ \E d \in Documents : Commit(d)
  /\ spoilt' = (spoilt \/ faults' > faults)
  /\ UNCHANGED <<device, boot, recovery>>

\* A line is appended and synced.  A write that fails half way leaves a line
\* that does not parse; one whose fsync() fails leaves the line without moving
\* the sequence on, so the next line repeats its number; both show as
\* corruption to a scan.  A line is lost again when the log has rotated twice,
\* or is cleared.
Chatting ==
  /\ gated /\ boot = "product"
  /\ \/ chat = "intact" /\ chat' = "appending"
     \/ chat = "appending" /\ chat' \in {"intact", "unanswered", "broken"}
     \/ chat = "unanswered" /\ chat' = "broken"
     \/ chat \in {"unanswered", "broken"} /\ chat' = "intact"
  /\ UNCHANGED <<vars, gated, boot, spoilt, others, recovery>>

-----------------------------------------------------------------------------
\* The operator looks at the files (inspectRecoveryActions()).
Operable == boot = "recovery" /\ due # "forced" /\ step = "idle"

Inspect ==
  /\ Operable /\ inspection # "fresh"
  /\ \/ inspection' = "fresh" /\ UNCHANGED faults
     \/ Fault /\ inspection' = "none"
  /\ outcome' = "none"
  /\ UNCHANGED <<disk, unsynced, pc, source, base, target, hadCurrent, answer>>
  /\ UNCHANGED <<device, boot, spoilt, step, slot, chosen, kept, resolved, due>>

\* resolveRecoveryAction(): the operator names a file that was shown as valid.
Resolve(s) ==
  /\ Operable /\ inspection # "none"
  /\ inspection = "fresh" => disk[s] \in Documents
  /\ step' = "mount" /\ slot' = s /\ kept' = Held
  /\ chosen' = IF disk[s] \in Documents THEN disk[s] ELSE Held
  /\ faults' = 0
  /\ UNCHANGED <<disk, unsynced, pc, source, base, target, hadCurrent, answer>>
  /\ UNCHANGED <<device, boot, spoilt, inspection, resolved, due, outcome>>

\* beginRecoveryMutation() mounts the files for writing.  If it cannot, they may
\* not be mounted at all until the next boot.
Mount ==
  /\ step = "mount"
  /\ \/ /\ step' = "compare"
        /\ UNCHANGED <<boot, slot, chosen, kept, resolved, outcome, faults>>
     \/ /\ Fault /\ Rest
        /\ boot' \in {"recovery", "sealed"} /\ outcome' = "none"
  /\ UNCHANGED <<disk, unsynced, pc, source, base, target, hadCurrent, answer>>
  /\ UNCHANGED <<device, spoilt, inspection, due>>

-----------------------------------------------------------------------------
\* Within resolve().  A call that only reads or syncs goes on or gives up; one
\* that changes a file is followed by an fsync() of the directory, so it may
\* fail with the change made.
Then(s) == step' = s /\ UNCHANGED faults
GiveUp == Fault /\ step' = "revoke"

Reads(s) == (Then(s) \/ GiveUp) /\ UNCHANGED <<disk, unsynced, inspection>>

Changes(change, s) ==
  \/ change /\ inspection' = "stale" /\ (Then(s) \/ GiveUp)
  \/ GiveUp /\ UNCHANGED <<disk, unsynced, inspection>>

\* Two files with one document may still differ in their time of change.
SameFile(f, g) == {b \in BOOLEAN : b => disk[f] = disk[g]}

\* The files must still be what was shown.
Compare ==
  /\ step = "compare"
  /\ \/ inspection = "stale" /\ Reads("revoke")
     \/ /\ inspection = "fresh"
        /\ \E same \in SameFile("current", slot) :
             Reads(IF slot = "current" \/ same THEN "syncCurrent" ELSE "syncSelected")

\* Where the document that is current goes if another is chosen.
Aside == IF slot = "next" THEN "previous" ELSE "next"

\* Mutant: a current document is removed instead of set aside.
SyncSelectedDropsCurrent ==
  /\ step = "syncSelected"
  /\ Reads(IF disk["current"] # Absent THEN "dropBroken" ELSE "take")

SyncSelected ==
  /\ step = "syncSelected"
  /\ Reads(CASE disk["current"] = Absent -> "take"
              [] disk["current"] = Torn -> "dropBroken"
              [] OTHER -> IF disk[Aside] # Absent THEN "clearAside" ELSE "setAside")

ClearAside == step = "clearAside" /\ Changes(Unlinked(Aside), "setAside")
SetAside == step = "setAside" /\ Changes(Renamed("current", Aside), "syncAside")
SyncAside == step = "syncAside" /\ Reads("take")
DropBroken == step = "dropBroken" /\ Changes(Unlinked("current"), "take")
Take == step = "take" /\ Changes(Renamed(slot, "current"), "syncCurrent")

\* finishCurrent(): the chosen document is current; what is left is tidied up.
SyncCurrent == step = "syncCurrent" /\ Reads("tidyNext")

\* Another document in next is kept as the previous one, if there is none.
TidyNext ==
  /\ step = "tidyNext"
  /\ \E same \in SameFile("next", "current") :
       Reads(CASE disk["next"] = Absent -> "tidyPrevious"
               [] disk["next"] \in Documents /\ ~same /\ disk["previous"] = Torn -> "dropOld"
               [] disk["next"] \in Documents /\ ~same /\ disk["previous"] = Absent -> "keepNext"
               [] OTHER -> "dropNext")

DropOld == step = "dropOld" /\ Changes(Unlinked("previous"), "keepNext")
KeepNext == step = "keepNext" /\ Changes(Renamed("next", "previous"), "syncKept")
SyncKept == step = "syncKept" /\ Reads("tidyPrevious")
DiscardNext == step = "dropNext" /\ Changes(Unlinked("next"), "tidyPrevious")

\* Mutant: a previous file that does not parse is left.
TidyPreviousNot == step = "tidyPrevious" /\ Reads("check")

TidyPrevious ==
  /\ step = "tidyPrevious"
  /\ IF disk["previous"] = Torn THEN Changes(Unlinked("previous"), "check")
     ELSE Reads("check")

ResolutionStep ==
  /\ \/ Compare \/ SyncSelected \/ ClearAside \/ SetAside \/ SyncAside \/ DropBroken
     \/ Take \/ SyncCurrent \/ TidyNext \/ DropOld \/ KeepNext \/ SyncKept
     \/ DiscardNext \/ TidyPrevious
  /\ UNCHANGED <<pc, source, base, target, hadCurrent, answer>>
  /\ UNCHANGED <<device, boot, spoilt, slot, chosen, kept, resolved, due, outcome>>

Check ==
  /\ step = "check" /\ step' = "revoke"
  /\ \/ resolved' = (disk["current"] = chosen /\ Clean(disk)) /\ UNCHANGED faults
     \/ Fault /\ UNCHANGED resolved
  /\ UNCHANGED <<disk, unsynced, pc, source, base, target, hadCurrent, answer>>
  /\ UNCHANGED <<device, boot, spoilt, inspection, slot, chosen, kept, due, outcome>>

\* The right to write is given up whatever resolve() returned; if that fails the
\* device must restart.  It may restart also if a new audit of everything finds
\* nothing left to resolve; otherwise even a choice that was carried out is
\* answered as failed.
Revoke ==
  /\ step = "revoke" /\ Rest
  /\ \/ /\ resolved /\ Compatible
        /\ due' = "clean" /\ outcome' = "ok"
        /\ UNCHANGED <<inspection, faults>>
     \/ /\ ~(resolved /\ Compatible)
        /\ outcome' = "none"
        /\ UNCHANGED <<inspection, due, faults>>
     \/ /\ Fault
        /\ due' = "forced" /\ inspection' = "none" /\ outcome' = "none"
     \/ /\ resolved /\ Fault
        /\ outcome' = "none"
        /\ UNCHANGED <<inspection, due>>
  /\ UNCHANGED <<disk, unsynced, pc, source, base, target, hadCurrent, answer>>
  /\ UNCHANGED <<device, boot, spoilt>>

\* The operator resolves the last of the other transactions.
ResolveOthers ==
  /\ Operable /\ inspection # "none" /\ ~others
  /\ others' = TRUE
  /\ due' = IF Clean(disk) /\ chat # "broken" THEN "clean" ELSE due
  /\ UNCHANGED <<vars, gated, boot, spoilt, chat, inspection, step, slot, chosen, kept>>
  /\ UNCHANGED <<resolved, outcome>>

-----------------------------------------------------------------------------
NewBoot ==
  /\ spoilt' = FALSE /\ Rest
  /\ inspection' = "none" /\ due' = "no" /\ outcome' = "none"

\* The network is stopped, and with it the server a resolution runs in.
Restart ==
  /\ due # "no" /\ step = "idle"
  /\ boot' = "audit" /\ NewBoot
  /\ faults' = 0
  /\ UNCHANGED <<disk, unsynced, pc, source, base, target, hadCurrent, answer, device>>

PowerOff ==
  /\ boot # "off" /\ boot' = "off"
  /\ PowerCut /\ NewBoot
  /\ others' \in IF gated /\ boot = "product" THEN BOOLEAN ELSE {others}
  /\ chat' \in IF chat \in {"appending", "unanswered"} THEN {"intact", "broken"} ELSE {chat}
  /\ UNCHANGED gated

PowerOn ==
  /\ boot = "off" /\ boot' = "audit"
  /\ UNCHANGED <<vars, device, spoilt, recovery>>

BNext ==
  \/ Audit \/ Run \/ Chatting
  \/ Inspect \/ Mount \/ ResolutionStep \/ Check \/ Revoke \/ ResolveOthers
  \/ \E s \in Slot : Resolve(s)
  \/ Restart \/ PowerOff \/ PowerOn

\* The device is switched on again, the operator does not give up and looks again
\* when the files have changed, and the main loop restarts the device once the
\* answer has had its time to leave.
Operator ==
  /\ WF_bvars(PowerOn) /\ WF_bvars(Audit)
  /\ SF_bvars(Inspect) /\ SF_bvars(\E s \in Slot : Resolve(s))
  /\ WF_bvars(Mount) /\ WF_bvars(ResolutionStep) /\ WF_bvars(Check) /\ WF_bvars(Revoke)
  /\ SF_bvars(ResolveOthers) /\ SF_bvars(Restart)

BSpec == BInit /\ [][BNext]_bvars /\ Operator

-----------------------------------------------------------------------------
BTypeOK ==
  /\ TypeOK
  /\ gated \in BOOLEAN /\ spoilt \in BOOLEAN /\ others \in BOOLEAN /\ resolved \in BOOLEAN
  /\ boot \in {"off", "audit", "product", "recovery", "sealed"}
  /\ chat \in Chat
  /\ inspection \in {"none", "fresh", "stale"}
  /\ slot \in Slot /\ chosen \in Documents /\ kept \in Documents
  /\ due \in {"no", "clean", "forced"} /\ outcome \in {"none", "ok"}

\* The store and the operator share one atomic document: a choice that is
\* answered Ok is what the store then finds, and one that fails, or that the
\* power cuts short anywhere, leaves the document that was chosen or the one
\* the store would have found without it, never the third.
BootDocument == INSTANCE AtomicDocument WITH
  document <- IF step # "idle" THEN kept ELSE IF pc \in Committing THEN base ELSE Held,
  proposal <- IF step # "idle" THEN chosen ELSE IF pc \in Committing THEN target ELSE Absent,
  answer <- IF boot \in {"recovery", "sealed"} THEN outcome ELSE answer,
  NoProposal <- Absent
BootDocumentSpec == BootDocument!Spec

\* legacy_file_transaction_recovery.hpp:55 "there is no automatic selection":
\* on a gated device the recovery of the store only ever tidies up after calls
\* that failed in the same boot; which file survives a power cut is always the
\* operator's choice.
OnlyOperatorSelects == gated /\ pc \in Recovering \ {"recover"} => spoilt

\* Once calls stop failing and the power stays on, an operator who keeps
\* choosing gets the product back, whatever mixture of files earlier cuts and
\* half-made choices have left.  Two states stay outside: files that could not
\* be mounted again before the next boot, and a chat log that shows corruption,
\* which the audit refuses and no recovery action can resolve.
Calm == faults' <= faults /\ (boot' = "off" => boot = "off")
DeviceStartsAgain ==
  <>[][Calm]_bvars =>
    (boot = "recovery" ~> boot \in {"product", "sealed"} \/ chat = "broken")

\* esp-idf-local-chat-log.test.mjs:99 "A torn final line is ignored and marked;
\* valid durable lines survive": such a log keeps nobody from the product.
\* Violated by the code.
TornLineIgnored ==
  <>[][Calm]_bvars => (boot = "recovery" ~> boot \in {"product", "sealed"})
=============================================================================
