--------------------------- MODULE AlbumStore_proofs ---------------------------
(***************************************************************************)
(* Proofs about the album store, for every set of tasks, frames and        *)
(* strategies and every limit.  What is proved of the three files in       *)
(* BootRecovery_proofs is used through the album's index: the module is    *)
(* instantiated as FP, over the same variables as AlbumStore's Files and   *)
(* with the variables of the boot at rest.                                 *)
(***************************************************************************)
EXTENDS AlbumStore, TLAPS

FP == INSTANCE BootRecovery_proofs WITH
  Documents <- Index, Empty <- EmptyIndex,
  gated <- FALSE, boot <- "product", spoilt <- FALSE, others <- TRUE, chat <- "intact",
  inspection <- "none", step <- "idle", slot <- "current", chosen <- EmptyIndex,
  kept <- EmptyIndex, resolved <- FALSE, due <- "no", outcome <- "none"

-----------------------------------------------------------------------------
(* Files and FP are two names of one protocol. *)

LEMMA SameHeld == Files!Held = FP!Held
BY DEF Files!Held, FP!Held

LEMMA SameInit == Files!Init <=> FP!Init
BY DEF Files!Init, FP!Init, Files!Slot, FP!Slot

LEMMA SameClient ==
  /\ Files!Open <=> FP!Open
  /\ Files!Close <=> FP!Close
  /\ Files!Finish <=> FP!Finish
  /\ Files!PowerCut <=> FP!PowerCut
  /\ \A d : Files!Commit(d) <=> FP!Commit(d)
BY DEF Files!Open, FP!Open, Files!Close, FP!Close, Files!Forget, FP!Forget,
       Files!Finish, FP!Finish, Files!Ended, FP!Ended, Files!PowerCut, FP!PowerCut,
       Files!Slot, FP!Slot, Files!Commit, FP!Commit

LEMMA SameRecover == Files!Recover <=> FP!Recover
BY DEF Files!Recover, FP!Recover, Files!RecoverIndex, FP!RecoverIndex, Files!Survey,
       FP!Survey, Files!Loads, FP!Loads, Files!Slot, FP!Slot, Files!TrimNext, FP!TrimNext,
       Files!DropCurrent, FP!DropCurrent, Files!DropNext, FP!DropNext, Files!Promote,
       FP!Promote, Files!Unlinked, FP!Unlinked, Files!Renamed, FP!Renamed, Files!Works,
       FP!Works, Files!Refuses, FP!Refuses, Files!Fault, FP!Fault

LEMMA SameCommit == Files!CommitIndex <=> FP!CommitIndex
BY DEF Files!CommitIndex, FP!CommitIndex, Files!ClearNext, FP!ClearNext, Files!OpenNext,
       FP!OpenNext, Files!WriteNext, FP!WriteNext, Files!SyncNext, FP!SyncNext,
       Files!VerifyNext, FP!VerifyNext, Files!Retire, FP!Retire, Files!Install, FP!Install,
       Files!Rollback, FP!Rollback, Files!Abandon, FP!Abandon, Files!Unlink, FP!Unlink,
       Files!Rename, FP!Rename, Files!Unlinked, FP!Unlinked, Files!Renamed, FP!Renamed,
       Files!Works, FP!Works, Files!Breaks, FP!Breaks, Files!Fault, FP!Fault

\* What TransactionFiles assumes of its constants holds of the album's index.
LEMMA IndexFacts ==
  /\ EmptyIndex \in Index /\ {Absent, Torn} \cap Index = {} /\ Absent # Torn
  /\ MaxFaults \in Nat
BY MarksAssumption, FaultsAssumption DEF EmptyIndex, Index

-----------------------------------------------------------------------------
(* Every index the store commits is one parseAlbumIndex() accepts. *)

Unique(s) == \A a, b \in s : Id(a) = Id(b) => a = b

LEMMA IndexParts ==
  ASSUME NEW x \in Index
  PROVE  /\ x.assets \subseteq Asset /\ Unique(x.assets)
         /\ x.current # NoAsset =>
              /\ x.current \in [id : Ids(Asset), strategy : Strategy]
              /\ x.current.id \in Ids(x.assets)
         /\ x = [assets |-> x.assets, current |-> x.current]
BY DEF Index, Unique

LEMMA IndexMade ==
  ASSUME NEW s \in SUBSET Asset, Unique(s), NEW c,
         c = NoAsset \/ (c \in [id : Ids(Asset), strategy : Strategy] /\ c.id \in Ids(s))
  PROVE  [assets |-> s, current |-> c] \in Index
BY DEF Index, Unique

\* An entry is found by what it shows, whatever its strategy.
LEMMA Restyled ==
  ASSUME NEW x \in Index, NEW a \in x.assets, NEW s \in Strategy
  PROVE  LET y == [x EXCEPT !.assets = (@ \ {a}) \cup {[a EXCEPT !.strategy = s]}]
         IN y \in Index /\ ContentsOf(y.assets) = ContentsOf(x.assets)
<1> DEFINE b == [a EXCEPT !.strategy = s]
           t == (x.assets \ {a}) \cup {b}
           y == [x EXCEPT !.assets = (@ \ {a}) \cup {b}]
<1>1. a \in Asset /\ b \in Asset /\ Id(b) = Id(a) /\ b.content = a.content
  BY IndexParts DEF Asset, Id
<1>2. t \in SUBSET Asset /\ Unique(t)
  BY <1>1, IndexParts DEF Unique
<1>3. Ids(t) = Ids(x.assets) /\ ContentsOf(t) = ContentsOf(x.assets)
  BY <1>1 DEF Ids, ContentsOf
<1>4. y = [assets |-> t, current |-> x.current]
  BY IndexParts
<1>5. y \in Index
  BY <1>2, <1>3, <1>4, IndexParts, IndexMade
<1> QED
  BY <1>3, <1>4, <1>5

LEMMA Extended ==
  ASSUME NEW x \in Index, NEW a \in Asset, NamedIn(a, x.assets) = {}
  PROVE  LET y == [x EXCEPT !.assets = @ \cup {a}]
         IN y \in Index /\ ContentsOf(y.assets) = ContentsOf(x.assets) \cup {a.content}
<1> DEFINE t == x.assets \cup {a}
           y == [x EXCEPT !.assets = @ \cup {a}]
<1>1. t \in SUBSET Asset /\ Unique(t)
  BY IndexParts DEF Unique, NamedIn
<1>2. Ids(x.assets) \subseteq Ids(t) /\ ContentsOf(t) = ContentsOf(x.assets) \cup {a.content}
  BY DEF Ids, ContentsOf
<1>3. y = [assets |-> t, current |-> x.current]
  BY IndexParts
<1>4. y \in Index
  BY <1>1, <1>2, <1>3, IndexParts, IndexMade
<1> QED
  BY <1>2, <1>3, <1>4

LEMMA Marked ==
  ASSUME NEW x \in Index, NEW a \in x.assets
  PROVE  [x EXCEPT !.current = [id |-> Id(a), strategy |-> a.strategy]] \in Index
<1> DEFINE c == [id |-> Id(a), strategy |-> a.strategy]
<1>1. [x EXCEPT !.current = c] = [assets |-> x.assets, current |-> c]
  BY IndexParts
<1>2. c \in [id : Ids(Asset), strategy : Strategy] /\ c.id \in Ids(x.assets)
  BY IndexParts DEF Asset, Ids
<1> QED
  BY <1>1, <1>2, IndexParts, IndexMade

LEMMA Kept ==
  ASSUME base \in Index, NEW s \in SUBSET Asset, Unique(s)
  PROVE  Keeping(s) \in Index /\ Keeping(s).assets = s
<1>1. Keeping(s) = [assets |-> s, current |-> Keeping(s).current] /\ Keeping(s).assets = s
  BY DEF Keeping
<1>2. \/ Keeping(s).current = NoAsset
      \/ /\ Keeping(s).current \in [id : Ids(Asset), strategy : Strategy]
         /\ Keeping(s).current.id \in Ids(s)
  BY IndexParts DEF Keeping
<1> QED
  BY <1>1, <1>2, IndexMade

\* Pruning keeps the uploads and at most one entry of each task, and names no
\* frame the index did not name.
LEMMA Retained ==
  ASSUME base \in Index, NEW tasks \in SUBSET ServerTask,
         NEW r \in [tasks -> [content : Content, strategy : Strategy]]
  PROVE  /\ Retain(r) \in SUBSET Asset /\ Unique(Retain(r))
         /\ ContentsOf(Retain(r)) \subseteq ContentsOf(base.assets)
<1> DEFINE bound(t) == [task |-> t, content |-> r[t].content, strategy |-> r[t].strategy]
           ours == {a \in base.assets : a.task \notin ServerTask}
           T == {u \in DOMAIN r : \E a \in base.assets : a.task = u /\ a.content = r[u].content}
           theirs == {bound(t) : t \in T}
<1>1. Retain(r) = ours \cup theirs
  BY DEF Retain
<1>2. T \subseteq ServerTask /\ \A t \in T : /\ bound(t) \in Asset /\ bound(t).task = t
                                             /\ bound(t).content \in ContentsOf(base.assets)
  BY DEF Asset, Task, ContentsOf
<1>3. ours \subseteq base.assets /\ base.assets \subseteq Asset /\ Unique(base.assets)
  BY IndexParts
<1>4. ASSUME NEW a \in ours, NEW b \in theirs PROVE Id(a) # Id(b)
  <2>1. Id(a) = <<a.content>> /\ Id(b) = <<b.task, b.content>>
    BY <1>2 DEF Id
  <2> QED
    BY <2>1
<1>5. ASSUME NEW a \in theirs, NEW b \in theirs, Id(a) = Id(b) PROVE a = b
  <2>1. PICK t \in T, u \in T : a = bound(t) /\ b = bound(u)
    OBVIOUS
  <2>2. Id(a) = <<t, a.content>> /\ Id(b) = <<u, b.content>>
    BY <1>2, <2>1 DEF Id
  <2>3. <<t, a.content>> = <<u, b.content>>
    BY <1>5, <2>2, Zenon
  <2>4. t = u
    BY <2>3
  <2> QED
    BY <2>1, <2>4
<1>6. Unique(Retain(r))
  BY <1>1, <1>3, <1>4, <1>5 DEF Unique
<1>7. Retain(r) \in SUBSET Asset
  BY <1>1, <1>2, <1>3
<1>8. ContentsOf(Retain(r)) \subseteq ContentsOf(base.assets)
  BY <1>1, <1>2, <1>3 DEF ContentsOf
<1> QED
  BY <1>6, <1>7, <1>8

-----------------------------------------------------------------------------
(* The album drives the three files through their protocol only. *)

\* What the album's own variables may be.
Kinds ==
  /\ op \in {"none", "save", "catalog"}
  /\ entry \in Asset \cup {NoAsset}
  /\ op = "save" => entry \in Asset
  /\ promoted \in BOOLEAN
  /\ doomed \subseteq Content
  /\ staging \in {"closed", "open"}
  /\ part \in Content \cup {Absent, Torn}
  /\ pngs \subseteq Content
  /\ maintenance \in BOOLEAN

LEMMA IndexOfBase == FP!FilesInv => base \in Index
BY DEF FP!FilesInv, FP!TypeOK

\* Mutate() is called with an index of base's frames.
LEMMA Edits ==
  ASSUME base \in Index, MarkCurrent \/ UpdateRenderStrategy \/ RemoveAsset \/ ClearAssets
                           \/ PruneTaskAssets
  PROVE  \E x \in Index : Mutate(x) /\ ContentsOf(x.assets) \subseteq ContentsOf(base.assets)
<1>1. CASE MarkCurrent
  <2>1. PICK a \in base.assets :
          Mutate([base EXCEPT !.current = [id |-> Id(a), strategy |-> a.strategy]])
    BY <1>1 DEF MarkCurrent
  <2>2. [base EXCEPT !.current = [id |-> Id(a), strategy |-> a.strategy]].assets = base.assets
    BY IndexParts
  <2> QED
    BY <2>1, <2>2, Marked
<1>2. CASE UpdateRenderStrategy
  <2>1. PICK a \in base.assets, s \in Strategy :
          Mutate([base EXCEPT !.assets = (@ \ {a}) \cup {[a EXCEPT !.strategy = s]}])
    BY <1>2 DEF UpdateRenderStrategy
  <2> QED
    BY <2>1, Restyled
<1>3. CASE RemoveAsset
  <2>1. PICK a \in base.assets : Mutate(Keeping(base.assets \ {a}))
    BY <1>3 DEF RemoveAsset
  <2>2. base.assets \ {a} \in SUBSET Asset /\ Unique(base.assets \ {a})
    BY IndexParts DEF Unique
  <2>3. ContentsOf(base.assets \ {a}) \subseteq ContentsOf(base.assets)
    BY DEF ContentsOf
  <2> QED
    BY <2>1, <2>2, <2>3, Kept
<1>4. CASE ClearAssets
  <2>1. ContentsOf(EmptyIndex.assets) = {}
    BY DEF EmptyIndex, ContentsOf
  <2> QED
    BY <1>4, <2>1, IndexFacts DEF ClearAssets
<1>5. CASE PruneTaskAssets
  <2>1. PICK tasks \in SUBSET ServerTask :
          \E r \in [tasks -> [content : Content, strategy : Strategy]] :
            Mutate(Keeping(Retain(r)))
    BY <1>5 DEF PruneTaskAssets
  <2>2. PICK r \in [tasks -> [content : Content, strategy : Strategy]] :
          Mutate(Keeping(Retain(r)))
    BY <2>1
  <2> QED
    BY <2>2, Retained, Kept
<1> QED
  BY <1>1, <1>2, <1>3, <1>4, <1>5

\* A save calls commitIndex() with an index of base's frames and the entry's.
LEMMA Additions ==
  ASSUME base \in Index, Kinds, SaveDuplicate \/ SaveNew, pc' # "idle"
  PROVE  \E x \in Index :
           /\ Files!Commit(x)
           /\ ContentsOf(x.assets) \subseteq ContentsOf(base.assets) \cup (pngs' \cap {entry.content})
           /\ ContentsOf(base.assets) \subseteq ContentsOf(x.assets)
           /\ promoted' = promoted \/ entry.content \in ContentsOf(x.assets)
<1>1. CASE SaveDuplicate
  <2>1. PICK a \in Duplicate :
          \/ Files!Close
          \/ Files!Commit([base EXCEPT !.assets = (@ \ {a}) \cup
                             {[a EXCEPT !.strategy = entry.strategy]}])
    BY <1>1, Zenon DEF SaveDuplicate
  <2>2. ~Files!Close
    BY DEF Files!Close
  <2>3. a \in base.assets /\ entry.strategy \in Strategy
    BY <1>1 DEF Duplicate, NamedIn, SaveDuplicate, Saving, Kinds, Asset
  <2>4. UNCHANGED promoted
    BY <1>1, <2>2, Zenon DEF SaveDuplicate
  <2> QED
    BY <2>1, <2>2, <2>3, <2>4, Restyled
<1>2. CASE SaveNew
  <2>1. entry \in Asset /\ entry.content \in pngs' /\ NamedIn(entry, base.assets) = {}
    BY <1>2 DEF SaveNew, Saving, Kinds, Duplicate
  <2>2. Files!Commit([base EXCEPT !.assets = @ \cup {entry}])
    BY <1>2 DEF SaveNew
  <2> QED
    <3> DEFINE x == [base EXCEPT !.assets = @ \cup {entry}]
    <3>1. x \in Index /\ ContentsOf(x.assets) = ContentsOf(base.assets) \cup {entry.content}
      BY <2>1, Extended
    <3>2. Files!Commit(x)
      BY <2>2, Zenon
    <3> HIDE DEF x
    <3> QED
      BY <2>1, <3>1, <3>2
<1> QED
  BY <1>1, <1>2

\* What a step of the album is for the three files, and what it does to the
\* PNG files and to the plans about them.
Aside == UNCHANGED <<indexVars, op, entry, promoted, doomed, pngs>>

Opens ==
  FP!Open /\ op = "none" /\ promoted' \in {FALSE, promoted} /\ UNCHANGED <<pngs, doomed>>

Calls ==
  /\ pc = "recovered"
  /\ pngs \subseteq pngs'
  /\ op \in {"save", "catalog"} /\ UNCHANGED <<op, entry>>
  /\ \E x \in Index :
       /\ FP!Commit(x)
       /\ ContentsOf(x.assets) \subseteq ContentsOf(base.assets) \cup (pngs' \cap {entry.content})
       /\ ContentsOf(base.assets) \subseteq ContentsOf(x.assets) \cup doomed'
       /\ promoted' = promoted \/ entry.content \in ContentsOf(x.assets)
       /\ op = "catalog" =>
            /\ doomed' \cap ContentsOf(x.assets) = {}
            /\ ContentsOf(x.assets) \subseteq ContentsOf(base.assets)
            /\ UNCHANGED promoted
  /\ pngs' \ pngs \subseteq {c \in {entry.content} : promoted'}
  /\ op = "save" => UNCHANGED doomed
  /\ op = "save" => promoted' = promoted \/ (promoted' => entry.content \notin pngs)

Runs == (FP!Recover \/ FP!CommitIndex) /\ UNCHANGED <<op, entry, promoted, doomed, pngs>>

Ends ==
  /\ FP!Close \/ FP!Finish
  /\ promoted' = FALSE \/ (op = "catalog" /\ UNCHANGED promoted)
  /\ pngs \subseteq pngs' \cup {c \in {entry.content} : promoted /\ pc = "failed"}
  /\ pngs' \subseteq pngs
  /\ doomed' = {} \/ (UNCHANGED doomed /\ (op = "save" \/ pc = "recovered"))
  /\ UNCHANGED doomed \/ EndCatalog
  /\ promoted /\ pc = "failed" /\ op = "save" => SaveFailed

Unlinks ==
  /\ pc = "committed" /\ op = "catalog"
  /\ doomed' \subseteq doomed /\ pngs \ pngs' \subseteq doomed
  /\ pngs' \subseteq pngs \ (doomed \ doomed')
  /\ UNCHANGED <<indexVars, op, entry, promoted>>

Cuts == PowerCut /\ FP!PowerCut /\ promoted' = FALSE /\ doomed' = {} /\ UNCHANGED pngs

LEMMA SaveGroups ==
  ASSUME base \in Index, Kinds, Save PROVE Opens \/ Calls \/ Ends
<1>1. ASSUME NEW t \in Task, NEW s \in Strategy, CommitValidated(t, s) PROVE Opens
  BY <1>1, SameClient DEF CommitValidated, Opens
<1>2. CASE SaveDuplicate /\ pc' = "idle"
  <2>1. Files!Close /\ EndSave
    <3>1. ASSUME NEW x, Files!Commit(x) PROVE FALSE
      BY <1>2, <3>1 DEF Files!Commit
    <3> QED
      BY <1>2, <3>1, Zenon DEF SaveDuplicate
  <2> QED
    BY <1>2, <2>1, SameClient DEF SaveDuplicate, Saving, EndSave, Ends
<1>3. CASE SaveDuplicate /\ pc' # "idle"
  <2>1. ~Files!Close
    BY <1>3 DEF Files!Close
  <2>2. UNCHANGED <<op, entry, promoted, doomed, pngs>> /\ pc = "recovered" /\ op = "save"
    BY <1>3, <2>1, Zenon DEF SaveDuplicate, Saving
  <2> QED
    BY <1>3, <2>2, Additions, SameClient DEF Calls
<1>4. CASE SaveGivesUp \/ SaveRefused \/ SaveSucceeds
  BY <1>4, SameClient DEF SaveGivesUp, SaveRefused, SaveSucceeds, Saving, EndSave, Ends
<1>5. CASE SaveFailed
  <2>1. Promoted \subseteq {c \in {entry.content} : promoted /\ pc = "failed"}
    BY <1>5 DEF SaveFailed, Saving, Promoted
  <2> QED
    BY <1>5, <2>1, SameClient DEF SaveFailed, Saving, EndSave, Ends
<1>6. CASE SaveNew
  <2>1. pc' # "idle"
    BY <1>6 DEF SaveNew, Files!Commit
  <2>2. UNCHANGED <<op, entry, doomed>> /\ pc = "recovered" /\ op = "save"
    BY <1>6, Zenon DEF SaveNew, Saving
  <2>3. /\ promoted' = (entry.content \notin pngs)
        /\ pngs' = pngs \cup {entry.content}
    BY <1>6 DEF SaveNew
  <2>4. pngs' \ pngs \subseteq {c \in {entry.content} : promoted'}
    BY <2>3
  <2> QED
    BY <1>6, <2>1, <2>2, <2>3, <2>4, Additions, SameClient DEF Calls
<1> QED
  BY <1>1, <1>2, <1>3, <1>4, <1>5, <1>6 DEF Save

LEMMA CatalogGroups ==
  ASSUME base \in Index, EditCatalog PROVE Opens \/ Calls \/ Ends \/ Unlinks
<1>1. CASE OpenCatalog
  BY <1>1, SameClient DEF OpenCatalog, fileVars, Opens
<1>2. CASE ReadCatalog \/ EndCatalog
  BY <1>2, SameClient DEF ReadCatalog, EndCatalog, Catalog, fileVars, Ends
<1>3. CASE MarkCurrent \/ UpdateRenderStrategy \/ RemoveAsset \/ ClearAssets \/ PruneTaskAssets
  <2>1. PICK x \in Index : Mutate(x) /\ ContentsOf(x.assets) \subseteq ContentsOf(base.assets)
    BY <1>3, Edits
  <2>2. /\ doomed' \cap ContentsOf(x.assets) = {}
        /\ ContentsOf(base.assets) \subseteq ContentsOf(x.assets) \cup doomed'
    BY <2>1 DEF Mutate, Doomed
  <2> QED
    BY <2>1, <2>2, SameClient DEF Mutate, Catalog, fileVars, Calls
<1>4. ASSUME NEW c \in Content, UnlinkStale(c) PROVE Unlinks
  BY <1>4 DEF UnlinkStale, Catalog, Unlinks
<1> QED
  BY <1>1, <1>2, <1>3, <1>4 DEF EditCatalog

LEMMA Groups ==
  ASSUME base \in Index, Kinds, Next
  PROVE  Aside \/ Opens \/ Calls \/ Runs \/ Ends \/ Unlinks \/ Cuts
<1>1. CASE Begin \/ Append \/ Abort \/ BeginMaintenance \/ EndMaintenance
  BY <1>1 DEF Begin, Append, Abort, BeginMaintenance, EndMaintenance, fileVars, Aside
<1>2. CASE IndexStep
  BY <1>2, SameRecover, SameCommit DEF IndexStep, fileVars, Runs
<1>3. CASE PowerCut
  BY <1>3, SameClient DEF PowerCut, Cuts
<1> QED
  BY <1>1, <1>2, <1>3, SaveGroups, CatalogGroups DEF Next

LEMMA FilesStep ==
  ASSUME FP!FilesInv, Kinds, [Next]_vars PROVE [FP!Next]_(FP!vars)
<1>1. ASSUME UNCHANGED indexVars PROVE UNCHANGED FP!vars
  BY <1>1 DEF indexVars, FP!vars
<1>2. UNCHANGED vars => UNCHANGED FP!vars
  BY <1>1 DEF vars
<1>3. Aside \/ Unlinks => UNCHANGED FP!vars
  BY <1>1 DEF Aside, Unlinks
<1>4. Opens \/ Calls \/ Runs \/ Ends \/ Cuts => FP!Next
  BY DEF Opens, Calls, Runs, Ends, Cuts, FP!Next
<1> QED
  BY <1>2, <1>3, <1>4, Groups, IndexOfBase

LEMMA KindsStay == ASSUME base \in Index, Kinds, [Next]_vars PROVE Kinds'
<1>1. CASE UNCHANGED vars
  BY <1>1 DEF vars, fileVars, Kinds
<1>2. CASE Begin \/ Append \/ Abort \/ BeginMaintenance \/ EndMaintenance \/ IndexStep \/ PowerCut
  BY <1>2 DEF Begin, Append, Abort, BeginMaintenance, EndMaintenance, IndexStep, PowerCut,
     DropPart, fileVars, Kinds
<1>3. CASE Save
  <2>1. ASSUME NEW t \in Task, NEW s \in Strategy, CommitValidated(t, s) PROVE Kinds'
    BY <2>1 DEF CommitValidated, Kinds, Asset
  <2>2. CASE SaveDuplicate
    <3>1. EndSave \/ UNCHANGED <<op, entry, promoted, doomed, staging, maintenance>>
      BY <2>2, Zenon DEF SaveDuplicate
    <3>2. DropPart /\ UNCHANGED pngs
      BY <2>2 DEF SaveDuplicate
    <3> QED
      BY <3>1, <3>2 DEF EndSave, DropPart, Kinds
  <2>3. CASE SaveNew
    <3>1. entry \in Asset /\ entry.content \in Content
      BY <2>3 DEF SaveNew, Saving, Kinds, Asset
    <3>2. UNCHANGED <<op, entry, doomed, staging, maintenance>> /\ promoted' \in BOOLEAN
      BY <2>3, Zenon DEF SaveNew
    <3>3. pngs' = pngs \cup {entry.content} /\ part' \in {part, Absent}
      BY <2>3 DEF SaveNew, DropPart
    <3> QED
      BY <3>1, <3>2, <3>3 DEF Kinds
  <2>4. CASE SaveGivesUp \/ SaveFailed \/ SaveRefused \/ SaveSucceeds
    BY <2>4 DEF SaveGivesUp, SaveFailed, SaveRefused, SaveSucceeds, EndSave, DropPart, Kinds
  <2> QED
    BY <1>3, <2>1, <2>2, <2>3, <2>4 DEF Save
<1>4. CASE EditCatalog
  <2>1. ASSUME NEW x, Mutate(x) PROVE UNCHANGED <<op, entry, promoted, fileVars, maintenance>>
    BY <2>1 DEF Mutate
  <2>2. CASE OpenCatalog \/ ReadCatalog \/ EndCatalog
    BY <2>2 DEF OpenCatalog, ReadCatalog, EndCatalog, Catalog, fileVars, Kinds
  <2>3. ASSUME NEW c \in Content, UnlinkStale(c) PROVE Kinds'
    BY <2>3 DEF UnlinkStale, Kinds
  <2>4. CASE MarkCurrent \/ UpdateRenderStrategy \/ RemoveAsset \/ ClearAssets \/ PruneTaskAssets
    <3>1. PICK x : Mutate(x)
      BY <2>4 DEF MarkCurrent, UpdateRenderStrategy, RemoveAsset, ClearAssets, PruneTaskAssets
    <3>2. doomed' \subseteq ContentsOf(base.assets)
      BY <3>1 DEF Mutate, Doomed
    <3>3. ContentsOf(base.assets) \subseteq Content
      BY IndexParts DEF ContentsOf, Asset
    <3> QED
      BY <2>1, <3>1, <3>2, <3>3 DEF fileVars, Kinds
  <2> QED
    BY <1>4, <2>2, <2>3, <2>4 DEF EditCatalog
<1> QED
  BY <1>1, <1>2, <1>3, <1>4 DEF Next

LEMMA AlbumStarts == Init => FP!FilesInv /\ Kinds
<1>1. Init => FP!Init
  BY SameInit DEF Init
<1>2. Init => Kinds
  BY DEF Init, Kinds
<1> QED
  BY <1>1, <1>2, FP!FilesStart, IndexFacts

LEMMA AlbumStays ==
  ASSUME FP!FilesInv, Kinds, [Next]_vars PROVE FP!FilesInv' /\ Kinds'
BY FilesStep, KindsStay, IndexOfBase, FP!FilesStay, IndexFacts

\* At every step of an operation of the album the files of its index are where
\* the protocol's own invariant says, and the entry being saved is a legal one.
THEOREM AlbumInductive == Spec => [](FP!FilesInv /\ Kinds)
BY AlbumStarts, AlbumStays, PTL DEF Spec

\* Every variable of the album store keeps its type.
THEOREM AlbumTypeCorrect == Spec => []TypeOK
<1>1. FP!FilesInv /\ Kinds => TypeOK
  BY DEF FP!FilesInv, FP!TypeOK, Files!TypeOK, FP!Slot, Files!Slot, FP!Recovering,
     Files!Recovering, FP!Committing, Files!Committing, FP!Ended, Files!Ended, Kinds, TypeOK
<1> QED
  BY <1>1, AlbumInductive, PTL

\* The album store drives the three files of its index only as their protocol
\* allows (FilesSpec): every index it commits is one parseAlbumIndex() accepts,
\* and no operation touches the files in between.
THEOREM AlbumDrivesFiles == Spec => FilesSpec
<1>1. Init => Files!Init
  BY DEF Init
<1>2. FP!FilesInv /\ Kinds /\ [Next]_vars => [Files!Next]_(Files!vars)
  <2>1. FP!Next => Files!Next
    BY SameClient, SameRecover, SameCommit DEF FP!Next, Files!Next
  <2>2. UNCHANGED FP!vars => UNCHANGED Files!vars
    BY DEF FP!vars, Files!vars
  <2> QED
    BY <2>1, <2>2, FilesStep
<1> QED
  BY <1>1, <1>2, AlbumInductive, PTL DEF Spec, FilesSpec, Files!Spec

-----------------------------------------------------------------------------
(* No index names a missing frame. *)

Whole(x) == ContentsOf(x.assets) \subseteq pngs

\* Whatever index the files hold, its frames are there.  While an index is
\* being committed the frames of both are; what is to be unlinked belongs to
\* the old one alone, and the frame a save would take back to the new one.
FramesInv ==
  /\ Whole(FP!Held)
  /\ promoted => op = "save" /\ pc \in FP!Committing \cup {"committed", "failed"}
  /\ pc \in FP!Committing =>
       /\ Whole(base) /\ Whole(target)
       /\ promoted => entry.content \notin ContentsOf(base.assets)
       /\ op = "catalog" => doomed \cap ContentsOf(target.assets) = {}
  /\ pc = "failed" /\ promoted => entry.content \notin ContentsOf(FP!Held.assets)
  /\ pc = "committed" /\ op = "catalog" => doomed \cap ContentsOf(FP!Held.assets) = {}

OneFault == FP!Charged /\ FP!Synced

LEMMA FramesOpen ==
  ASSUME FramesInv, Opens PROVE FramesInv'
<1>1. UNCHANGED FP!Held /\ UNCHANGED pngs /\ pc' = "recover"
  BY DEF Opens, FP!Open, FP!Held
<1>2. ~promoted
  BY DEF Opens, FP!Open, FramesInv, FP!Committing
<1>3. ~promoted'
  BY <1>2, Zenon DEF Opens
<1> QED
  BY <1>1, <1>3 DEF FramesInv, Whole, FP!Committing

LEMMA FramesCall ==
  ASSUME FP!FilesInv, FramesInv, Calls PROVE FramesInv'
<1>1. PICK x \in Index :
        /\ FP!Commit(x)
        /\ ContentsOf(x.assets) \subseteq ContentsOf(base.assets) \cup (pngs' \cap {entry.content})
        /\ op = "catalog" =>
             /\ doomed' \cap ContentsOf(x.assets) = {}
             /\ UNCHANGED promoted
  BY DEF Calls
<1>2. pc = "recovered" /\ pc' = "clearNext" /\ target' = x /\ UNCHANGED <<disk, base, op, entry>>
  BY <1>1 DEF FP!Commit, Calls
<1>3. FP!Held = base /\ UNCHANGED FP!Held
  BY <1>2, FP!FilesHold, IndexFacts DEF FP!HoldsOneOfTwo, FP!Held
<1>4. ContentsOf(base.assets) \subseteq pngs /\ pngs \subseteq pngs' /\ ~promoted
  BY <1>2, <1>3 DEF FramesInv, Whole, Calls, FP!Committing
<1>5. promoted' => op = "save" /\ entry.content \notin pngs
  BY <1>1, <1>4 DEF Calls
<1> QED
  BY <1>1, <1>2, <1>3, <1>4, <1>5 DEF FramesInv, Whole, FP!Committing

LEMMA FramesEnd ==
  ASSUME FramesInv, Ends PROVE FramesInv'
<1>1. UNCHANGED FP!Held /\ pc' = "idle" /\ promoted' = FALSE
  BY DEF Ends, FP!Close, FP!Finish, FP!Held, FramesInv
<1>2. ContentsOf(FP!Held.assets) \subseteq pngs'
  BY DEF Ends, FramesInv, Whole
<1> QED
  BY <1>1, <1>2 DEF FramesInv, Whole, FP!Committing

LEMMA FramesUnlink ==
  ASSUME FramesInv, Unlinks PROVE FramesInv'
<1>1. UNCHANGED FP!Held /\ pc' = "committed" /\ op' = "catalog" /\ ~promoted'
  BY DEF Unlinks, indexVars, FP!Held, FramesInv
<1>2. ContentsOf(FP!Held.assets) \subseteq pngs' /\ doomed' \cap ContentsOf(FP!Held.assets) = {}
  BY DEF Unlinks, FramesInv, Whole
<1> QED
  BY <1>1, <1>2 DEF FramesInv, Whole, FP!Committing

LEMMA FramesRun ==
  ASSUME MaxFaults <= 1, FP!FilesInv, FP!FilesInv', OneFault, FramesInv, Runs
  PROVE  FramesInv'
<1>1. CASE FP!Recover
  <2>1. UNCHANGED FP!Held
    BY <1>1, FP!RecoverKeeps, IndexFacts
  <2>2. pc \notin FP!Committing \cup {"committed", "failed"} /\
        pc' \notin FP!Committing \cup {"committed", "failed"}
    BY <1>1 DEF FP!Recover, FP!RecoverIndex, FP!Survey, FP!TrimNext, FP!DropCurrent,
       FP!DropNext, FP!Promote, FP!Works, FP!Refuses, FP!Committing
  <2> QED
    BY <2>1, <2>2 DEF Runs, FramesInv, Whole
<1>2. CASE FP!CommitIndex
  <2>1. pc \in FP!Committing /\ UNCHANGED <<base, target>>
    BY <1>2 DEF FP!CommitIndex, FP!ClearNext, FP!OpenNext, FP!WriteNext, FP!SyncNext,
       FP!VerifyNext, FP!Retire, FP!Install, FP!Rollback, FP!Abandon, FP!Committing,
       FP!Unlink, FP!Rename, FP!Works, FP!Breaks
  <2>2. pc' \in FP!Committing \cup {"committed", "failed"}
    BY <1>2 DEF FP!CommitIndex, FP!ClearNext, FP!OpenNext, FP!WriteNext, FP!SyncNext,
       FP!VerifyNext, FP!Retire, FP!Install, FP!Rollback, FP!Abandon, FP!Committing,
       FP!Unlink, FP!Rename, FP!Works, FP!Breaks
  <2>3. CASE pc' \in FP!Committing
    <3>1. (FP!FilesInv => FP!HoldsOneOfTwo)'
      BY FP!FilesHold, IndexFacts, PTL
    <3>2. FP!Held' \in {base, target}
      BY <2>1, <2>3, <3>1 DEF FP!HoldsOneOfTwo
    <3> QED
      BY <2>1, <2>3, <3>2 DEF Runs, FramesInv, Whole, FP!Committing
  <2>4. CASE pc' = "committed"
    <3>1. FP!Held' = target
      BY <1>2, <2>4, FP!ChargedRestored, FP!Decided, IndexFacts DEF OneFault
    <3> QED
      BY <2>1, <2>4, <3>1 DEF Runs, FramesInv, Whole, FP!Committing
  <2>5. CASE pc' = "failed"
    <3>1. FP!Held' = base
      BY <1>2, <2>5, FP!ChargedRestored, FP!Decided, IndexFacts DEF OneFault
    <3> QED
      BY <2>1, <2>5, <3>1 DEF Runs, FramesInv, Whole, FP!Committing
  <2> QED
    BY <2>2, <2>3, <2>4, <2>5
<1> QED
  BY <1>1, <1>2 DEF Runs

LEMMA FramesCut ==
  ASSUME FP!FilesInv, OneFault, FramesInv, Cuts PROVE FramesInv'
<1>1. FP!Held' = FP!Held \/ (pc \in FP!Committing /\ FP!Held' \in {base, target})
  BY FP!CutHolds, IndexFacts DEF Cuts, OneFault
<1>2. UNCHANGED pngs /\ pc' = "idle" /\ promoted' = FALSE
  BY DEF Cuts, FP!PowerCut
<1>3. Whole(FP!Held)'
  BY <1>1, <1>2 DEF FramesInv, Whole
<1> QED
  BY <1>2, <1>3 DEF FramesInv, FP!Committing

LEMMA FramesStay ==
  ASSUME MaxFaults <= 1, FP!FilesInv, FP!FilesInv', Kinds, OneFault, FramesInv, [Next]_vars
  PROVE  FramesInv'
<1>1. ASSUME UNCHANGED <<indexVars, op, entry, promoted, doomed, pngs>> PROVE FramesInv'
  BY <1>1 DEF indexVars, FramesInv, Whole, FP!Held
<1>2. UNCHANGED vars => UNCHANGED <<indexVars, op, entry, promoted, doomed, pngs>>
  BY DEF vars, fileVars
<1> QED
  BY <1>1, <1>2, Groups, IndexOfBase, FramesOpen, FramesCall, FramesEnd, FramesUnlink,
     FramesRun, FramesCut DEF Aside

\* At every step of an operation the frames of each index a recovery may find
\* are on the card.
LEMMA FramesInductive ==
  ASSUME MaxFaults <= 1 PROVE Spec => [](OneFault /\ FramesInv)
<1>1. Init => OneFault /\ FramesInv
  <2>1. Init => FP!Init
    BY SameInit DEF Init
  <2>2. Init => FP!Held = EmptyIndex
    BY IndexFacts DEF Init, Files!Init, Files!Slot, FP!Held
  <2>3. ContentsOf(EmptyIndex.assets) = {}
    BY DEF EmptyIndex, ContentsOf
  <2>4. Init => FramesInv
    BY <2>2, <2>3 DEF Init, Files!Init, FramesInv, Whole, FP!Committing
  <2> QED
    BY <2>1, <2>4, FP!OneFaultStarts, IndexFacts DEF OneFault
<1>2. FP!FilesInv /\ FP!FilesInv' /\ Kinds /\ OneFault /\ FramesInv /\ [Next]_vars
        => OneFault' /\ FramesInv'
  <2>1. FP!FilesInv /\ Kinds /\ OneFault /\ [Next]_vars => OneFault'
    BY FilesStep, FP!OneFaultStays, IndexFacts DEF OneFault
  <2> QED
    BY <2>1, FramesStay
<1> QED
  BY <1>1, <1>2, AlbumInductive, PTL DEF Spec

\* Whatever index the next recovery finds, wherever in a save, a removal or a
\* pruning the power goes, the file of each of its entries is there; as long as
\* at most one system call of an operation fails.
THEOREM NoDanglingEntryHolds ==
  ASSUME MaxFaults <= 1 PROVE Spec => []NoDanglingEntry
<1>1. FramesInv => NoDanglingEntry
  BY SameHeld DEF FramesInv, Whole, NoDanglingEntry
<1> QED
  BY <1>1, FramesInductive, PTL

-----------------------------------------------------------------------------
(* An operation that succeeds leaves no orphan. *)

\* What an operation is to name or to unlink: while an index is committed, its
\* frames with what is doomed are all the old one has, and a frame just
\* promoted is the new one's.
PlansInv ==
  /\ doomed # {} => op = "catalog" /\ pc \in FP!Committing \cup {"committed", "failed"}
  /\ pc \in FP!Committing =>
       /\ ContentsOf(base.assets) \subseteq ContentsOf(target.assets) \cup doomed
       /\ promoted => entry.content \in ContentsOf(target.assets)
  /\ pc = "committed" /\ promoted => entry.content \in ContentsOf(FP!Held.assets)

\* The index the orphans are told by.
Told == IF pc \in FP!Committing THEN base ELSE FP!Held

LEMMA OrphansTold == Orphans = pngs \ (ContentsOf(Told.assets) \cup Promoted \cup doomed)
BY SameHeld DEF Orphans, Told, Files!Committing, FP!Committing

\* No orphan is left behind when what is lost from the plans is named, or gone.
LEMMA LeavesNone ==
  ASSUME pngs' \subseteq pngs \cup Promoted',
         ContentsOf(Told.assets) \cap pngs' \subseteq ContentsOf(Told'.assets) \cup Promoted' \cup doomed',
         Promoted \cap pngs' \subseteq ContentsOf(Told'.assets) \cup Promoted' \cup doomed',
         doomed \cap pngs' \subseteq ContentsOf(Told'.assets) \cup Promoted' \cup doomed'
  PROVE  Orphans' \subseteq Orphans
<1>1. (Orphans = pngs \ (ContentsOf(Told.assets) \cup Promoted \cup doomed))'
  BY OrphansTold, PTL
<1>2. ContentsOf(Told.assets)' = ContentsOf(Told'.assets)
  BY DEF ContentsOf
<1> QED
  BY <1>1, <1>2, OrphansTold

\* Steps that go on with the same index and the same plans.
LEMMA SamePlans ==
  ASSUME UNCHANGED Told, UNCHANGED Promoted, doomed' \subseteq doomed,
         pngs' \subseteq pngs \ (doomed \ doomed')
  PROVE  Orphans' \subseteq Orphans
BY LeavesNone

LEMMA PlansOpen ==
  ASSUME FramesInv, PlansInv, Opens PROVE PlansInv' /\ Orphans' \subseteq Orphans
<1>1. /\ UNCHANGED FP!Held /\ UNCHANGED <<pngs, doomed>> /\ pc = "idle" /\ pc' = "recover"
      /\ op = "none"
  BY DEF Opens, FP!Open, FP!Held
<1>2. ~promoted /\ doomed = {}
  BY <1>1 DEF FramesInv, FP!Committing, PlansInv
<1>3. ~promoted'
  BY <1>2, Zenon DEF Opens
<1>4. UNCHANGED Told /\ UNCHANGED Promoted
  BY <1>1, <1>2, <1>3 DEF Told, FP!Committing, Promoted
<1> QED
  BY <1>1, <1>2, <1>3, <1>4, SamePlans DEF PlansInv, FP!Committing

LEMMA PlansCall ==
  ASSUME FP!FilesInv, Kinds, FramesInv, PlansInv, Calls
  PROVE  PlansInv' /\ Orphans' \subseteq Orphans
<1>1. PICK x \in Index :
        /\ FP!Commit(x)
        /\ ContentsOf(base.assets) \subseteq ContentsOf(x.assets) \cup doomed'
        /\ promoted' = promoted \/ entry.content \in ContentsOf(x.assets)
        /\ op = "catalog" => UNCHANGED promoted
  BY DEF Calls
<1>2. pc = "recovered" /\ pc' = "clearNext" /\ target' = x /\ UNCHANGED <<disk, base, op, entry>>
  BY <1>1 DEF FP!Commit, Calls
<1>3. FP!Held = base
  BY <1>2, FP!FilesHold, IndexFacts DEF FP!HoldsOneOfTwo
<1>4. ~promoted /\ doomed = {}
  BY <1>2 DEF FramesInv, FP!Committing, PlansInv
<1>5. UNCHANGED Told
  BY <1>2, <1>3 DEF Told, FP!Committing
<1>6. pngs' \subseteq pngs \cup Promoted'
  <2>1. promoted' => op = "save"
    BY <1>1, <1>4 DEF Calls
  <2>2. promoted' => entry.content \in Content
    BY <2>1 DEF Kinds, Asset
  <2> QED
    BY <1>2, <2>2 DEF Calls, Promoted
<1>7. Promoted = {}
  BY <1>4 DEF Promoted
<1>8. Orphans' \subseteq Orphans
  BY <1>4, <1>5, <1>6, <1>7, LeavesNone
<1>9. doomed' # {} => op = "catalog"
  BY <1>4 DEF Calls
<1> QED
  BY <1>1, <1>2, <1>4, <1>8, <1>9 DEF PlansInv, FP!Committing

\* An operation that has ended, but for a save that failed and a removal that
\* could not unlink.
LEMMA PlansEnd ==
  ASSUME FramesInv, PlansInv, Ends
  PROVE  /\ PlansInv'
         /\ Orphans' \subseteq Orphans \/ SaveFailed \/ (EndCatalog /\ doomed # {})
<1>1. /\ UNCHANGED FP!Held /\ pc \in {"recovered", "committed", "failed", "refused"}
      /\ pc' = "idle" /\ promoted' = FALSE
  BY DEF Ends, FP!Close, FP!Finish, FP!Ended, FP!Held, FramesInv
<1>2. doomed' = {}
  BY <1>1 DEF Ends, PlansInv, FP!Committing
<1>3. CASE SaveFailed \/ (EndCatalog /\ doomed # {})
  BY <1>1, <1>2, <1>3 DEF PlansInv, FP!Committing
<1>4. CASE ~SaveFailed /\ ~(EndCatalog /\ doomed # {})
  <2>1. doomed = {}
    BY <1>2, <1>4 DEF Ends
  <2>2. UNCHANGED Told /\ Promoted' = {}
    BY <1>1 DEF Told, FP!Committing, Promoted
  <2>3. Promoted \subseteq ContentsOf(Told.assets)
    <3>1. promoted => pc = "committed"
      BY <1>1, <1>4 DEF Ends, FramesInv, FP!Committing
    <3> QED
      BY <3>1 DEF PlansInv, Promoted, Told, FP!Committing
  <2>4. pngs' \subseteq pngs
    BY DEF Ends
  <2>5. Orphans' \subseteq Orphans
    BY <2>1, <2>2, <2>3, <2>4, LeavesNone
  <2> QED
    BY <1>1, <1>2, <2>5 DEF PlansInv, FP!Committing
<1> QED
  BY <1>3, <1>4

LEMMA PlansUnlink ==
  ASSUME PlansInv, Unlinks PROVE PlansInv' /\ Orphans' \subseteq Orphans
<1>1. UNCHANGED FP!Held /\ UNCHANGED <<pc, op, entry, promoted>> /\ pc = "committed" /\ op = "catalog"
  BY DEF Unlinks, indexVars, FP!Held
<1>2. UNCHANGED Told /\ UNCHANGED Promoted
  BY <1>1 DEF Told, FP!Committing, Promoted
<1>3. doomed' \subseteq doomed /\ pngs' \subseteq pngs \ (doomed \ doomed')
  BY DEF Unlinks
<1> QED
  BY <1>1, <1>2, <1>3, SamePlans DEF PlansInv, FP!Committing

LEMMA PlansRun ==
  ASSUME MaxFaults <= 1, FP!FilesInv, FP!FilesInv', OneFault, PlansInv, Runs
  PROVE  PlansInv' /\ Orphans' \subseteq Orphans
<1>0. UNCHANGED <<op, entry, promoted, doomed, pngs>> /\ UNCHANGED Promoted
  BY DEF Runs, Promoted
<1>1. CASE FP!Recover
  <2>1. UNCHANGED FP!Held
    BY <1>1, FP!RecoverKeeps, IndexFacts
  <2>2. pc \notin FP!Committing \cup {"committed", "failed"} /\
        pc' \notin FP!Committing \cup {"committed", "failed"}
    BY <1>1 DEF FP!Recover, FP!RecoverIndex, FP!Survey, FP!TrimNext, FP!DropCurrent,
       FP!DropNext, FP!Promote, FP!Works, FP!Refuses, FP!Committing
  <2>3. UNCHANGED Told
    BY <2>1, <2>2 DEF Told
  <2>4. Orphans' \subseteq Orphans
    BY <1>0, <2>3, SamePlans
  <2> QED
    BY <1>0, <2>2, <2>4 DEF PlansInv
<1>2. CASE FP!CommitIndex
  <2>1. pc \in FP!Committing /\ UNCHANGED <<base, target>>
    BY <1>2 DEF FP!CommitIndex, FP!ClearNext, FP!OpenNext, FP!WriteNext, FP!SyncNext,
       FP!VerifyNext, FP!Retire, FP!Install, FP!Rollback, FP!Abandon, FP!Committing,
       FP!Unlink, FP!Rename, FP!Works, FP!Breaks
  <2>2. pc' \in FP!Committing \cup {"committed", "failed"}
    BY <1>2 DEF FP!CommitIndex, FP!ClearNext, FP!OpenNext, FP!WriteNext, FP!SyncNext,
       FP!VerifyNext, FP!Retire, FP!Install, FP!Rollback, FP!Abandon, FP!Committing,
       FP!Unlink, FP!Rename, FP!Works, FP!Breaks
  <2>3. CASE pc' \in FP!Committing
    <3>1. UNCHANGED Told
      BY <2>1, <2>3 DEF Told
    <3>2. Orphans' \subseteq Orphans
      BY <1>0, <3>1, SamePlans
    <3> QED
      BY <1>0, <2>1, <2>3, <3>2 DEF PlansInv, FP!Committing
  <2>4. CASE pc' = "committed"
    <3>1. FP!Held' = target
      BY <1>2, <2>4, FP!ChargedRestored, FP!Decided, IndexFacts DEF OneFault
    <3>2. Told = base /\ Told' = target
      BY <2>1, <2>4, <3>1 DEF Told, FP!Committing
    <3>3. ContentsOf(base.assets) \subseteq ContentsOf(target.assets) \cup doomed
      BY <2>1 DEF PlansInv
    <3>4. Orphans' \subseteq Orphans
      BY <1>0, <3>2, <3>3, LeavesNone
    <3> QED
      BY <1>0, <2>1, <2>4, <3>1, <3>4 DEF PlansInv, FP!Committing
  <2>5. CASE pc' = "failed"
    <3>1. FP!Held' = base
      BY <1>2, <2>5, FP!ChargedRestored, FP!Decided, IndexFacts DEF OneFault
    <3>2. UNCHANGED Told
      BY <2>1, <2>5, <3>1 DEF Told, FP!Committing
    <3>3. Orphans' \subseteq Orphans
      BY <1>0, <3>2, SamePlans
    <3> QED
      BY <1>0, <2>1, <2>5, <3>3 DEF PlansInv, FP!Committing
  <2> QED
    BY <2>2, <2>3, <2>4, <2>5
<1> QED
  BY <1>1, <1>2 DEF Runs

LEMMA PlansStay ==
  ASSUME MaxFaults <= 1, FP!FilesInv, FP!FilesInv', Kinds, OneFault, FramesInv, PlansInv,
         [Next]_vars
  PROVE  /\ PlansInv'
         /\ \/ Orphans' \subseteq Orphans
            \/ PowerCut \/ SaveFailed \/ (EndCatalog /\ doomed # {})
<1>1. ASSUME UNCHANGED <<indexVars, op, entry, promoted, doomed, pngs>>
      PROVE  PlansInv' /\ Orphans' \subseteq Orphans
  <2>1. UNCHANGED FP!Held /\ UNCHANGED Promoted /\ UNCHANGED <<pc, base, target>>
    BY <1>1 DEF indexVars, FP!Held, Promoted
  <2>2. UNCHANGED Told
    BY <2>1 DEF Told
  <2>3. Orphans' \subseteq Orphans
    BY <1>1, <2>1, <2>2, SamePlans
  <2> QED
    BY <1>1, <2>1, <2>3 DEF PlansInv
<1>2. CASE Cuts
  <2>1. pc' = "idle" /\ promoted' = FALSE /\ doomed' = {} /\ PowerCut
    BY <1>2 DEF Cuts, FP!PowerCut
  <2> QED
    BY <2>1 DEF PlansInv, FP!Committing
<1>3. UNCHANGED vars => UNCHANGED <<indexVars, op, entry, promoted, doomed, pngs>>
  BY DEF vars, fileVars
<1> QED
  BY <1>1, <1>2, <1>3, Groups, IndexOfBase, PlansOpen, PlansCall, PlansEnd, PlansUnlink,
     PlansRun DEF Aside

\* A frame nothing names any more is left on the card only by a power cut, by a
\* save that fails, or by a removal that reports what it could not unlink; as
\* long as at most one system call of an operation fails.
THEOREM NoOrphansHolds ==
  ASSUME MaxFaults <= 1 PROVE Spec => NoOrphans
<1>1. Init => PlansInv
  BY DEF Init, Files!Init, PlansInv, FP!Committing
<1>2. FP!FilesInv /\ FP!FilesInv' /\ Kinds /\ OneFault /\ FramesInv /\ PlansInv /\ [Next]_vars
        => /\ PlansInv'
           /\ [\/ Orphans' \subseteq Orphans
               \/ PowerCut \/ SaveFailed \/ (EndCatalog /\ doomed # {})]_vars
  BY PlansStay
<1> QED
  BY <1>1, <1>2, FramesInductive, AlbumInductive, PTL DEF Spec, NoOrphans
=============================================================================
