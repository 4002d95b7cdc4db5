------------------------------- MODULE AlbumStore -------------------------------
(***************************************************************************)
(* PosixAtomicAlbumStore: content-addressed PNG files, an index that names *)
(* them, and a staging file for the frame being received.  The index is    *)
(* kept by the three files of TransactionFiles; the order of its commit    *)
(* and of what happens to the PNG files is what this module is about.      *)
(*                                                                         *)
(* Every public operation holds the store's mutex from its first to its    *)
(* last step, so at most one is under way.  removeAssetById() recovers the *)
(* index a second time under the same mutex, which finds what the first    *)
(* time left.  Frames are told apart by content, not by their bytes.       *)
(***************************************************************************)
EXTENDS Naturals, FiniteSets

CONSTANTS
  ServerTask, LocalTask,   \* "dtask-..." ids; ids of uploads and generated images
  Content,                 \* hashes of the frames that pass the validator
  Strategy,                \* render strategies
  EntryLimit,              \* kSdEntryLimit or kLittleFsEntryLimit
  NoAsset, Absent, Torn, MaxFaults

ASSUME FaultsAssumption == MaxFaults \in Nat
ASSUME LimitAssumption == EntryLimit \in Nat \ {0}
ASSUME TaskAssumption == ServerTask \cap LocalTask = {}

Task == ServerTask \cup LocalTask
Asset == [task : Task, content : Content, strategy : Strategy]

\* logicalAssetId(): a server task owns its entry, others are found by content.
Id(a) == IF a.task \in ServerTask THEN <<a.task, a.content>> ELSE <<a.content>>

Ids(s) == {Id(a) : a \in s}
ContentsOf(s) == {a.content : a \in s}
NamedIn(a, s) == {x \in s : Id(x) = Id(a)}

\* The indexes parseAlbumIndex() accepts; their order is left out.
Index ==
  {x \in [assets : SUBSET Asset,
          current : [id : Ids(Asset), strategy : Strategy] \cup {NoAsset}] :
     /\ \A a, b \in x.assets : Id(a) = Id(b) => a = b
     /\ x.current # NoAsset => x.current.id \in Ids(x.assets)}
EmptyIndex == [assets |-> {}, current |-> NoAsset]

\* A missing or torn index file is told from every index that parses.
ASSUME MarksAssumption == {Absent, Torn} \cap Index = {} /\ Absent # Torn

VARIABLES
  disk, unsynced, pc, source, base, target, hadCurrent, answer, faults,
  op,           \* the public operation that holds the mutex
  entry,        \* the asset commitValidated() saves
  promoted,     \* promoted_new
  doomed,       \* files to unlink once the index is committed
  staging,      \* descriptor_
  part,         \* asset.part: what it holds
  pngs,         \* the <hash>.png files
  maintenance   \* maintenance_

indexVars == <<disk, unsynced, pc, source, base, target, hadCurrent, answer, faults>>
fileVars == <<staging, part, pngs>>
vars == <<indexVars, op, entry, promoted, doomed, fileVars, maintenance>>

Files == INSTANCE TransactionFiles WITH Documents <- Index, Empty <- EmptyIndex

Init ==
  /\ Files!Init /\ disk["current"] = Absent
  /\ op = "none" /\ entry = NoAsset /\ promoted = FALSE /\ doomed = {}
  /\ staging = "closed" /\ part = Absent /\ pngs = {}
  /\ maintenance = FALSE

-----------------------------------------------------------------------------
\* Whether asset.part could be unlinked is not looked at.
DropPart == part' \in {part, Absent}

\* begin() starts from nothing, or fails.
Begin ==
  /\ op = "none" /\ ~maintenance
  /\ \/ staging' = "open" /\ part' = Torn
     \/ staging' = "closed" /\ DropPart
  /\ UNCHANGED <<indexVars, op, entry, promoted, doomed, pngs, maintenance>>

\* Bytes arrive: the frame is complete, or is not a valid one (yet), or the
\* write fails and the staging is aborted.
Append ==
  /\ op = "none" /\ ~maintenance /\ staging = "open"
  /\ \/ part' \in Content \cup {Torn} /\ UNCHANGED staging
     \/ staging' = "closed" /\ DropPart
  /\ UNCHANGED <<indexVars, op, entry, promoted, doomed, pngs, maintenance>>

\* abort(), or a commit request refused before the index is looked at.
Abort ==
  /\ op = "none"
  /\ staging' = "closed"
  /\ IF maintenance THEN UNCHANGED part ELSE DropPart
  /\ UNCHANGED <<indexVars, op, entry, promoted, doomed, pngs, maintenance>>

-----------------------------------------------------------------------------
\* commitValidated(): the frame is fsynced, closed and found valid.
CommitValidated(t, s) ==
  /\ op = "none" /\ ~maintenance /\ staging = "open" /\ part \in Content
  /\ Files!Open
  /\ op' = "save"
  /\ entry' = [task |-> t, content |-> part, strategy |-> s]
  /\ promoted' = FALSE
  /\ staging' = "closed"
  /\ UNCHANGED <<doomed, part, pngs, maintenance>>

Saving(p) == op = "save" /\ pc = p
Promoted == {c \in Content : promoted /\ c = entry.content}
Duplicate == NamedIn(entry, base.assets)

EndSave ==
  /\ op' = "none" /\ entry' = NoAsset /\ promoted' = FALSE
  /\ UNCHANGED <<doomed, staging, maintenance>>

\* The asset is there already; a server task may change how it is rendered.
SaveDuplicate ==
  /\ Saving("recovered")
  /\ \E a \in Duplicate :
       /\ a.content \in pngs
       /\ DropPart
       /\ IF entry.task \in ServerTask /\ a.strategy # entry.strategy
          THEN /\ Files!Commit([base EXCEPT !.assets = (@ \ {a}) \cup
                                  {[a EXCEPT !.strategy = entry.strategy]}])
               /\ UNCHANGED <<op, entry, promoted, doomed, staging, maintenance>>
          ELSE Files!Close /\ EndSave
  /\ UNCHANGED pngs

\* Mutant: room is looked for only when the file has been promoted.
SaveGivesUpLate ==
  /\ Saving("recovered")
  /\ \A a \in Duplicate : a.content \notin pngs
  /\ DropPart
  /\ Files!Close /\ EndSave
  /\ pngs' = pngs \cup {entry.content}

\* A duplicate that is corrupt or cannot be read, a full album, too little
\* room, a failing rename.
SaveGivesUp ==
  /\ Saving("recovered")
  /\ DropPart
  /\ Files!Close /\ EndSave
  /\ UNCHANGED pngs

\* .part -> asset -> index
SaveNew ==
  /\ Saving("recovered")
  /\ Duplicate = {} /\ Cardinality(base.assets) < EntryLimit
  /\ promoted' = (entry.content \notin pngs)
  /\ pngs' = pngs \cup {entry.content}
  /\ IF promoted' THEN part' = Absent ELSE DropPart
  /\ Files!Commit([base EXCEPT !.assets = @ \cup {entry}])
  /\ UNCHANGED <<op, entry, doomed, staging, maintenance>>

\* The frame is taken back, unless that fails too.
SaveFailed ==
  /\ Saving("failed")
  /\ pngs' \in {pngs, pngs \ Promoted}
  /\ Files!Finish /\ EndSave
  /\ UNCHANGED part

SaveRefused ==
  /\ Saving("refused")
  /\ DropPart
  /\ Files!Finish /\ EndSave
  /\ UNCHANGED pngs

SaveSucceeds ==
  /\ Saving("committed")
  /\ Files!Finish /\ EndSave
  /\ UNCHANGED <<part, pngs>>

-----------------------------------------------------------------------------
\* The operations on the catalog.  They are told apart only once the index is
\* recovered.
OpenCatalog ==
  /\ op = "none" /\ ~maintenance /\ staging = "closed"
  /\ Files!Open
  /\ op' = "catalog"
  /\ UNCHANGED <<entry, promoted, doomed, fileVars, maintenance>>

Catalog(p) == op = "catalog" /\ pc = p

\* readCatalog(), and any operation that finds nothing to change.
ReadCatalog ==
  /\ Catalog("recovered")
  /\ Files!Close
  /\ op' = "none"
  /\ UNCHANGED <<entry, promoted, doomed, fileVars, maintenance>>

\* Mutant: a file another entry still names is unlinked too.
DoomedUnshared(old, new) == ContentsOf(old.assets \ new.assets)

\* Bytes go only with their last owner.
Doomed(old, new) == ContentsOf(old.assets) \ ContentsOf(new.assets)

Mutate(index) ==
  /\ Catalog("recovered")
  /\ index # base
  /\ Files!Commit(index)
  /\ doomed' = Doomed(base, index)
  /\ UNCHANGED <<op, entry, promoted, fileVars, maintenance>>

\* The current image is forgotten with its entry.
Keeping(s) ==
  [assets |-> s,
   current |-> IF base.current # NoAsset /\ base.current.id \in Ids(s)
               THEN base.current ELSE NoAsset]

MarkCurrent ==
  \E a \in base.assets :
    Mutate([base EXCEPT !.current = [id |-> Id(a), strategy |-> a.strategy]])

UpdateRenderStrategy ==
  \E a \in base.assets, s \in Strategy :
    Mutate([base EXCEPT !.assets = (@ \ {a}) \cup {[a EXCEPT !.strategy = s]}])

RemoveAsset == \E a \in base.assets : Mutate(Keeping(base.assets \ {a}))

ClearAssets == Mutate(EmptyIndex)

\* pruneTaskAssets(): retained binds each task the server still has to the
\* frame and the strategy of its revision.
Retain(retained) ==
  {a \in base.assets : a.task \notin ServerTask}
    \cup {[task |-> t, content |-> retained[t].content, strategy |-> retained[t].strategy] :
            t \in {u \in DOMAIN retained : \E a \in base.assets :
                     a.task = u /\ a.content = retained[u].content}}

PruneTaskAssets ==
  \E tasks \in SUBSET ServerTask :
    \E retained \in [tasks -> [content : Content, strategy : Strategy]] :
      Mutate(Keeping(Retain(retained)))

UnlinkStale(c) ==
  /\ Catalog("committed") /\ c \in doomed
  /\ doomed' = doomed \ {c}
  /\ pngs' = pngs \ {c}
  /\ UNCHANGED <<indexVars, op, entry, promoted, staging, part, maintenance>>

\* What is still doomed could not be unlinked, which the operation reports.
EndCatalog ==
  /\ op = "catalog"
  /\ Files!Finish
  /\ op' = "none" /\ doomed' = {}
  /\ UNCHANGED <<entry, promoted, fileVars, maintenance>>

-----------------------------------------------------------------------------
BeginMaintenance ==
  /\ op = "none" /\ ~maintenance /\ staging = "closed"
  /\ maintenance' = TRUE
  /\ UNCHANGED <<indexVars, op, entry, promoted, doomed, fileVars>>

EndMaintenance ==
  /\ op = "none" /\ maintenance
  /\ maintenance' = FALSE
  /\ UNCHANGED <<indexVars, op, entry, promoted, doomed, fileVars>>

IndexStep ==
  /\ op # "none"
  /\ Files!Recover \/ Files!CommitIndex
  /\ UNCHANGED <<op, entry, promoted, doomed, fileVars, maintenance>>

PowerCut ==
  /\ Files!PowerCut
  /\ op' = "none" /\ entry' = NoAsset /\ promoted' = FALSE /\ doomed' = {}
  /\ staging' = "closed"
  /\ part' \in {part} \cup {Torn : x \in {staging} \cap {"open"}}
  /\ maintenance' = FALSE
  /\ UNCHANGED pngs

Save ==
  \/ \E t \in Task, s \in Strategy : CommitValidated(t, s)
  \/ SaveDuplicate \/ SaveGivesUp \/ SaveNew
  \/ SaveFailed \/ SaveRefused \/ SaveSucceeds

EditCatalog ==
  \/ OpenCatalog \/ ReadCatalog
  \/ MarkCurrent \/ UpdateRenderStrategy
  \/ RemoveAsset \/ ClearAssets \/ PruneTaskAssets
  \/ \E c \in Content : UnlinkStale(c)
  \/ EndCatalog

Next ==
  \/ Begin \/ Append \/ Abort
  \/ Save \/ EditCatalog \/ IndexStep
  \/ BeginMaintenance \/ EndMaintenance
  \/ PowerCut

Spec == Init /\ [][Next]_vars

-----------------------------------------------------------------------------
TypeOK ==
  /\ Files!TypeOK
  /\ op \in {"none", "save", "catalog"}
  /\ entry \in Asset \cup {NoAsset}
  /\ promoted \in BOOLEAN
  /\ doomed \subseteq Content
  /\ staging \in {"closed", "open"}
  /\ part \in Content \cup {Absent, Torn}
  /\ pngs \subseteq Content
  /\ maintenance \in BOOLEAN

\* posix_atomic_album_store.hpp:85-86 "power loss may leave a harmless orphan
\* but never a dangling index entry": whatever index the next recovery will
\* find, the file of each of its entries is there, at every moment of every
\* operation.
NoDanglingEntry == ContentsOf(Files!Held.assets) \subseteq pngs

\* Files the index does not name, and no operation is about to name or unlink.
Orphans ==
  LET index == IF pc \in Files!Committing THEN base ELSE Files!Held
  IN pngs \ (ContentsOf(index.assets) \cup Promoted \cup doomed)

\* An operation that succeeds leaves no orphan: a file is left behind only when
\* the power goes, a save fails, or a removal reports what it could not unlink.
NoOrphans ==
  [][\/ Orphans' \subseteq Orphans
     \/ PowerCut \/ SaveFailed \/ (EndCatalog /\ doomed # {})]_vars

\* While the maintenance gate is up (the card is being formatted) the store
\* touches no file, not even to clean up after a refused producer.
MaintenanceTouchesNothing ==
  [][maintenance => UNCHANGED <<disk, pngs, part>>]_vars

\* The album drives the three files only as their protocol allows, so that
\* what holds of TransactionFiles holds of the album's index.
FilesSpec == Files!Spec
=============================================================================
