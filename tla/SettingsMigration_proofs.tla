------------------------ MODULE SettingsMigration_proofs ------------------------
(***************************************************************************)
(* The settings stay loadable, a save exposes old or new parts in the      *)
(* right order, and the migration records no phase before its settings are *)
(* there, goes on wherever it was cut, and writes over no record but an    *)
(* importer's, for any values, generations and number of failing calls.    *)
(*                                                                         *)
(* The argument: only the slot that no head selects is ever written        *)
(* (JournalInv), so that a save goes through three states of what a boot   *)
(* would load: the old settings, the new main record with the old          *)
(* extension, and the new settings (SaveInv says which at each step).      *)
(***************************************************************************)
EXTENDS SettingsMigration, TLAPS

LoadedRecord ==
  [gen : 0..MaxGeneration, schema : {0, RecordSchema, 3}, main : MainValues, led : BOOLEAN]

DefaultExt == [led |-> FALSE, steps |-> DefaultSteps]

\* What the heads select is whole; the extension is not ahead of the main
\* record, and there is none yet under a schema-3 record.
JournalInv ==
  /\ main.head = 0 => ~marker
  /\ main.head # 0 =>
       /\ Selected(main) \in MainRecord /\ Selected(main).gen = main.head
       /\ Selected(main).schema = RecordSchema => ~Selected(main).led
       /\ Selected(main).schema = 3 => ext.head = 0
  /\ ext.head # 0 =>
       /\ Selected(ext) \in ExtRecord /\ Selected(ext).seq = ext.head
       /\ Selected(ext).gen <= main.head

Old == Loaded = op.base

\* The main record has moved, the extension has not.
Half ==
  /\ Loaded.gen = op.base.gen + 1 /\ Loaded.values.main = op.values.main
  /\ \/ op.base.schema # 3 /\ Loaded.values.ext = op.base.values.ext
     \/ Downgrading(Loaded)

New == Loaded.gen = Target /\ Loaded.values = op.values

ExtMoves == ExtChanged(op.base, op.values, op.force)

HasPrepared ==
  /\ ext.head < MaxSequence
  /\ op.prepared = [seq |-> ext.head + 1, gen |-> Target, ext |-> op.values.ext]
  /\ ext.slot[SlotOf(ext.head + 1)] = op.prepared
ExtReady == IF ExtMoves THEN HasPrepared ELSE op.prepared = Absent

Saving == Places \ {"off", "idle"}

\* Where a save is says what a boot would load, and what is prepared.
SaveInv ==
  /\ pc = "off" => op = Unknown /\ result = "none"
  /\ pc \in Saving => op \in Operation /\ op.since <= faults
  /\ pc = "idle" => \/ op = Unknown /\ result = "none"
                    \/ op \in Operation /\ (Old \/ Half \/ New)
  /\ pc = "prepare_ext" => Old /\ ExtMoves /\ (MainMoves => op.base.gen < MaxGeneration)
  /\ pc \in {"prepare_main", "select_main"} =>
       Old /\ MainMoves /\ op.base.gen < MaxGeneration /\ ExtReady
  /\ pc = "select_main" => main.slot[SlotOf(main.head + 1)] = MainTarget
  /\ pc \in {"set_marker", "check_main"} =>
       MainMoves /\ MainLoaded = MainTarget /\ Half /\ ExtReady
  /\ pc = "publish_ext" =>
       /\ ExtMoves /\ HasPrepared /\ MainLoaded.schema # 3
       /\ IF MainMoves THEN Half ELSE Old
  /\ pc = "check_ext" => New /\ ExtCommitted = op.prepared
  /\ pc = "verify" => New
  /\ pc = "failed" => (Old \/ Half \/ New) /\ faults > op.since

SettingsInv ==
  /\ TypeOK /\ JournalInv /\ SaveInv
  /\ SnapshotAuthoritative /\ AnswersTell

-----------------------------------------------------------------------------
(* The two slots. *)

LEMMA OtherSlot ==
  ASSUME NEW n \in Nat
  PROVE  SlotOf(n) \in Slots /\ SlotOf(n + 1) \in Slots /\ SlotOf(n + 1) # SlotOf(n)
BY DEF SlotOf, Slots

\* What a boot loads is one of the records, by the heads.
LEMMA LoadedParts ==
  ASSUME TypeOK, JournalInv
  PROVE  /\ MainLoaded # Corrupt /\ MainLoaded \in LoadedRecord
         /\ MainLoaded.gen = main.head
         /\ MainLoaded.schema # 3 => ~MainLoaded.led
         /\ MainLoaded.schema = 3 => ext.head = 0
         /\ ext.head = 0 => ExtCommitted = Absent
         /\ ext.head # 0 => /\ ExtCommitted = Selected(ext)
                            /\ ExtCommitted \in ExtRecord /\ ExtCommitted.gen <= main.head
<1>1. SlotOf(main.head) \in Slots /\ SlotOf(ext.head) \in Slots
  BY OtherSlot, BoundsAssumption DEF TypeOK, Journal
<1>2. MainLoaded # Corrupt /\ MainLoaded \in LoadedRecord /\ MainLoaded.gen = main.head
  <2>1. CASE main.head = 0
    BY <2>1, DefaultsAssumption, BoundsAssumption, MarksAssumption
       DEF JournalInv, MainLoaded, LoadedRecord
  <2>2. CASE main.head # 0
    BY <2>2, MarksAssumption, BoundsAssumption
       DEF JournalInv, MainLoaded, LoadedRecord, MainRecord
  <2> QED BY <2>1, <2>2
<1>3. /\ MainLoaded.schema # 3 => ~MainLoaded.led
      /\ MainLoaded.schema = 3 => ext.head = 0
  <2>1. CASE main.head = 0
    BY <2>1 DEF JournalInv, MainLoaded
  <2>2. CASE main.head # 0
    BY <2>2, MarksAssumption DEF JournalInv, MainLoaded, MainRecord
  <2> QED BY <2>1, <2>2
<1>4. ext.head # 0 => /\ ExtCommitted = Selected(ext)
                      /\ ExtCommitted \in ExtRecord /\ ExtCommitted.gen <= main.head
  BY MarksAssumption DEF JournalInv, ExtCommitted
<1> QED
  BY <1>2, <1>3, <1>4 DEF ExtCommitted

\* ... and what it makes of them.
LEMMA LoadedFacts ==
  ASSUME TypeOK, JournalInv
  PROVE  /\ Loaded # Corrupt /\ Loaded \in Snapshot
         /\ Loaded.gen = main.head /\ Loaded.gen = MainLoaded.gen
         /\ Loaded.schema = MainLoaded.schema /\ Loaded.values.main = MainLoaded.main
         /\ ext.head # 0 => Loaded.values.ext = ExtCommitted.ext
         /\ ext.head = 0 => Loaded.values.ext = [led |-> MainLoaded.led, steps |-> DefaultSteps]
<1>1. ExtLoaded(MainLoaded) \in ExtValues /\ ExtLoaded(MainLoaded) # Corrupt
  <2>1. CASE ext.head = 0
    BY <2>1, LoadedParts, DefaultsAssumption, MarksAssumption
       DEF ExtLoaded, ExtValues, LoadedRecord
  <2>2. CASE ext.head # 0
    <3>1. ExtCommitted # Absent /\ ExtCommitted # Corrupt
      BY <2>2, LoadedParts, MarksAssumption
    <3>2. ~(ExtCommitted.gen > MainLoaded.gen)
      BY <2>2, LoadedParts, BoundsAssumption DEF ExtRecord, TypeOK, Journal
    <3>3. ExtLoaded(MainLoaded) = ExtCommitted.ext
      BY <3>1, <3>2 DEF ExtLoaded
    <3> QED BY <2>2, <3>3, LoadedParts, MarksAssumption DEF ExtRecord
  <2> QED BY <2>1, <2>2
<1>2. /\ ext.head # 0 => ExtLoaded(MainLoaded) = ExtCommitted.ext
      /\ ext.head = 0 => ExtLoaded(MainLoaded) = [led |-> MainLoaded.led, steps |-> DefaultSteps]
  BY LoadedParts, MarksAssumption, BoundsAssumption DEF ExtLoaded, ExtRecord, TypeOK, Journal
<1>3. Loaded = [gen |-> MainLoaded.gen, schema |-> MainLoaded.schema,
                values |-> [main |-> MainLoaded.main, ext |-> ExtLoaded(MainLoaded)]]
  BY <1>1, LoadedParts DEF Loaded, Composite
<1>4. Loaded \in Snapshot
  BY <1>1, <1>3, LoadedParts DEF Snapshot, DeviceSettings, LoadedRecord
<1> QED
  BY <1>2, <1>3, <1>4, LoadedParts, MarksAssumption

LEMMA LoadedStays ==
  ASSUME MainLoaded' = MainLoaded, ExtCommitted' = ExtCommitted
  PROVE  Loaded' = Loaded
BY DEF Loaded, ExtLoaded, Composite

-----------------------------------------------------------------------------
(* The three ways a save changes a journal. *)

JournalTypes ==
  main \in Journal(MainRecord, MaxGeneration) /\ ext \in Journal(ExtRecord, MaxSequence)
    /\ marker \in BOOLEAN

\* A record is prepared in the slot that is not selected.
LEMMA MainPrepared ==
  ASSUME TypeOK, JournalInv, NEW r \in MainRecord,
         main' = Prepared(main, main.head + 1, r), UNCHANGED <<marker, ext>>
  PROVE  /\ JournalTypes' /\ JournalInv' /\ main'.head = main.head
         /\ MainLoaded' = MainLoaded /\ ExtCommitted' = ExtCommitted
         /\ main'.slot[SlotOf(main.head + 1)] = r
<1>1. main.head \in 0..MaxGeneration /\ main.slot \in [Slots -> MainRecord \cup {Absent}]
      /\ main = [slot |-> main.slot, head |-> main.head]
  BY DEF TypeOK, Journal
<1>2. SlotOf(main.head) \in Slots /\ SlotOf(main.head + 1) \in Slots
      /\ SlotOf(main.head + 1) # SlotOf(main.head)
  BY <1>1, OtherSlot, BoundsAssumption
<1>3. main'.head = main.head /\ main'.slot = [main.slot EXCEPT ![SlotOf(main.head + 1)] = r]
  BY <1>1 DEF Prepared
<1>4. Selected(main)' = Selected(main) /\ main'.slot[SlotOf(main.head + 1)] = r
  BY <1>1, <1>2, <1>3 DEF Selected
<1>5. main' \in Journal(MainRecord, MaxGeneration)
  BY <1>1, <1>2, <1>3 DEF Journal, Prepared
<1>6. MainLoaded' = MainLoaded /\ ExtCommitted' = ExtCommitted
  BY <1>3, <1>4 DEF MainLoaded, ExtCommitted, Selected
<1>7. JournalInv'
  BY <1>3, <1>4 DEF JournalInv, Selected
<1> QED
  BY <1>3, <1>4, <1>5, <1>6, <1>7 DEF JournalTypes, TypeOK

LEMMA ExtPrepared ==
  ASSUME TypeOK, JournalInv, NEW r \in ExtRecord,
         ext' = Prepared(ext, ext.head + 1, r), UNCHANGED <<marker, main>>
  PROVE  /\ JournalTypes' /\ JournalInv' /\ ext'.head = ext.head
         /\ MainLoaded' = MainLoaded /\ ExtCommitted' = ExtCommitted
         /\ ext'.slot[SlotOf(ext.head + 1)] = r
<1>1. ext.head \in 0..MaxSequence /\ ext.slot \in [Slots -> ExtRecord \cup {Absent}]
      /\ ext = [slot |-> ext.slot, head |-> ext.head]
  BY DEF TypeOK, Journal
<1>2. SlotOf(ext.head) \in Slots /\ SlotOf(ext.head + 1) \in Slots
      /\ SlotOf(ext.head + 1) # SlotOf(ext.head)
  BY <1>1, OtherSlot, BoundsAssumption
<1>3. ext'.head = ext.head /\ ext'.slot = [ext.slot EXCEPT ![SlotOf(ext.head + 1)] = r]
  BY <1>1 DEF Prepared
<1>4. Selected(ext)' = Selected(ext) /\ ext'.slot[SlotOf(ext.head + 1)] = r
  BY <1>1, <1>2, <1>3 DEF Selected
<1>5. ext' \in Journal(ExtRecord, MaxSequence)
  BY <1>1, <1>2, <1>3 DEF Journal, Prepared
<1>6. MainLoaded' = MainLoaded /\ ExtCommitted' = ExtCommitted
  BY <1>3, <1>4 DEF MainLoaded, ExtCommitted, Selected
<1>7. JournalInv'
  BY <1>3, <1>4 DEF JournalInv, Selected
<1> QED
  BY <1>3, <1>4, <1>5, <1>6, <1>7 DEF JournalTypes, TypeOK

\* The main head moves to a record that this firmware has prepared, or beta27's.
LEMMA MainMoved ==
  ASSUME TypeOK, JournalInv, NEW j, NEW r \in MainRecord,
         main.head < MaxGeneration,
         r.gen = main.head + 1, r.schema = RecordSchema, ~r.led,
         j \in Journal(MainRecord, MaxGeneration), j.slot[SlotOf(main.head + 1)] = r,
         main' = [j EXCEPT !.head = main.head + 1],
         marker' \in {marker, TRUE}, UNCHANGED ext
  PROVE  /\ JournalTypes' /\ JournalInv'
         /\ MainLoaded' = r /\ ExtCommitted' = ExtCommitted
<1>1. main.head \in Nat /\ main.head + 1 \in 0..MaxGeneration /\ main.head + 1 # 0
  BY BoundsAssumption DEF TypeOK, Journal
<1>2. /\ main' \in Journal(MainRecord, MaxGeneration)
      /\ main'.head = main.head + 1 /\ main'.slot = j.slot
  BY <1>1 DEF Journal
<1>3. Selected(main)' = r
  BY <1>2 DEF Selected
<1>4. r # Absent
  BY MarksAssumption
<1>5. MainLoaded' = r
  BY <1>1, <1>2, <1>3, <1>4 DEF MainLoaded, Selected
<1>6. ExtCommitted' = ExtCommitted
  BY DEF ExtCommitted, Selected
<1>7. JournalInv'
  <2>1. main'.head # 0 /\ main'.head = r.gen /\ r.schema # 3
    BY <1>1, <1>2 DEF RecordSchema
  <2>2. ext.head # 0 => Selected(ext).gen <= main'.head
    BY <1>1, <1>2, BoundsAssumption DEF JournalInv, ExtRecord
  <2> QED BY <1>2, <1>3, <2>1, <2>2 DEF JournalInv, Selected
<1> QED
  BY <1>2, <1>5, <1>6, <1>7 DEF JournalTypes, TypeOK

\* The extension's head moves to a record of the current main record, or an
\* earlier one, and not over a schema-3 record.
LEMMA ExtMoved ==
  ASSUME TypeOK, JournalInv, NEW r \in ExtRecord,
         ext.head < MaxSequence, r.seq = ext.head + 1, r.gen <= main.head,
         MainLoaded.schema # 3, ext.slot[SlotOf(ext.head + 1)] = r,
         ext' = [ext EXCEPT !.head = ext.head + 1], UNCHANGED <<main, marker>>
  PROVE  /\ JournalTypes' /\ JournalInv'
         /\ MainLoaded' = MainLoaded /\ ExtCommitted' = r /\ ext'.head # 0
<1>1. ext.head \in Nat /\ ext.head + 1 \in 0..MaxSequence /\ ext.head + 1 # 0
  BY BoundsAssumption DEF TypeOK, Journal
<1>2. /\ ext' \in Journal(ExtRecord, MaxSequence)
      /\ ext'.head = ext.head + 1 /\ ext'.slot = ext.slot
  BY <1>1 DEF Journal, TypeOK
<1>3. Selected(ext)' = r
  BY <1>2 DEF Selected
<1>4. ExtCommitted' = r
  BY <1>1, <1>2, <1>3, MarksAssumption DEF ExtCommitted, Selected
<1>5. MainLoaded' = MainLoaded
  BY DEF MainLoaded, Selected
<1>6. main.head # 0 => Selected(main).schema # 3
  BY MarksAssumption DEF MainLoaded, JournalInv
<1>7. JournalInv'
  BY <1>1, <1>2, <1>3, <1>6 DEF JournalInv, Selected
<1> QED
  BY <1>1, <1>2, <1>4, <1>5, <1>7 DEF JournalTypes, TypeOK

-----------------------------------------------------------------------------
(* The steps of a save. *)

Answers == {"ok", "storage", "conflict", "exhausted", "corrupt"}

\* A save returns what it left, or closes the owner.
LEMMA Returns ==
  ASSUME SettingsInv, NEW code \in Answers, NEW known \in {Unknown, Loaded},
         Return(code, known), JournalTypes', JournalInv', Loaded' = Loaded,
         op' \in Operation, faults' \in 0..MaxFaults, (Old \/ Half \/ New)',
         code = "ok" => New', code = "exhausted" => Old',
         code \in {"storage", "conflict", "corrupt"} => faults' > op'.since
  PROVE  SettingsInv'
<1>1. pc' = "idle" /\ result' = code /\ (initialized' => snapshot' = Loaded)
      /\ initialized' \in BOOLEAN /\ snapshot' \in Snapshot \cup {Unknown}
  BY LoadedFacts DEF Return, SettingsInv, TypeOK
<1>2. TypeOK'
  BY <1>1 DEF TypeOK, JournalTypes, Places, Answers
<1>3. SaveInv'
  BY <1>1 DEF SaveInv, Saving
<1>4. SnapshotAuthoritative' /\ AnswersTell'
  BY <1>1 DEF SnapshotAuthoritative, AnswersTell, Old, New
<1> QED
  BY <1>2, <1>3, <1>4 DEF SettingsInv

\* A save goes on: what is left to show of its next place.
LEMMA GoesOn ==
  ASSUME SettingsInv, JournalTypes', JournalInv', pc' \in Saving,
         op' \in Operation, op'.since <= faults', faults' \in 0..MaxFaults,
         UNCHANGED owner, SaveInv'
  PROVE  SettingsInv'
<1>1. TypeOK'
  BY DEF SettingsInv, TypeOK, JournalTypes, owner, Saving
<1>2. SnapshotAuthoritative' /\ AnswersTell'
  BY DEF SnapshotAuthoritative, AnswersTell, Saving
<1> QED
  BY <1>1, <1>2 DEF SettingsInv

LEMMA ApplyStep ==
  ASSUME SettingsInv, NEW v \in DeviceSettings, NEW f \in Forces, Apply(v, f)
  PROVE  SettingsInv'
<1>1. /\ Loaded # Corrupt /\ Loaded \in Snapshot /\ Loaded' = Loaded
      /\ snapshot = Loaded /\ JournalTypes' /\ JournalInv'
  BY LoadedFacts
     DEF SettingsInv, Apply, SnapshotAuthoritative, journal, JournalTypes, TypeOK, JournalInv,
         Selected, Loaded, MainLoaded, ExtLoaded, ExtCommitted
<1>2. op' = [values |-> v, force |-> f, base |-> Loaded, since |-> faults, prepared |-> Absent]
  BY DEF Apply
<1>3. faults \in 0..MaxFaults /\ faults \in Nat
  BY BoundsAssumption DEF SettingsInv, TypeOK
<1>4. op' \in Operation /\ Old'
  BY <1>1, <1>2, <1>3 DEF Operation, Old
<1>5. CASE Fault /\ Return("storage", Unknown)
  BY <1>1, <1>2, <1>3, <1>4, <1>5, Returns, BoundsAssumption DEF Fault, Answers
<1>6. CASE UNCHANGED faults /\ Return("exhausted", Loaded)
  BY <1>1, <1>2, <1>3, <1>4, <1>6, Returns DEF Answers
<1>7. MainMoves' = MainChanged(Loaded, v, f) /\ ExtMoves' = ExtChanged(Loaded, v, f)
  BY <1>2 DEF MainMoves, ExtMoves, MainChanged, ExtChanged
<1>8. MainChanged(Loaded, v, f) /\ Loaded.gen # MaxGeneration => Loaded.gen < MaxGeneration
  BY <1>1, BoundsAssumption DEF Snapshot
<1>9. CASE /\ UNCHANGED <<faults, owner>> /\ pc' = "prepare_ext" /\ ExtChanged(Loaded, v, f)
           /\ ~(MainChanged(Loaded, v, f) /\ Loaded.gen = MaxGeneration)
  <2>1. SaveInv'
    BY <1>2, <1>3, <1>4, <1>7, <1>8, <1>9 DEF SaveInv, Saving, Places
  <2> QED BY <1>1, <1>2, <1>3, <1>4, <1>9, <2>1, GoesOn DEF Saving, Places
<1>10. CASE /\ UNCHANGED <<faults, owner>> /\ pc' = "prepare_main" /\ ~ExtChanged(Loaded, v, f)
            /\ MainChanged(Loaded, v, f) /\ Loaded.gen # MaxGeneration
  <2>1. SaveInv'
    BY <1>2, <1>3, <1>4, <1>7, <1>8, <1>10 DEF SaveInv, Saving, Places, ExtReady
  <2> QED BY <1>1, <1>2, <1>3, <1>4, <1>10, <2>1, GoesOn DEF Saving, Places
<1>11. CASE /\ UNCHANGED faults /\ Return("ok", Loaded)
            /\ ~MainChanged(Loaded, v, f) /\ ~ExtChanged(Loaded, v, f)
  <2>1. Loaded.values = v
    BY <1>1, <1>11 DEF MainChanged, ExtChanged, Snapshot, DeviceSettings
  <2>2. New'
    BY <1>1, <1>2, <1>7, <1>11, <2>1 DEF New, Target, MainMoves
  <2> QED BY <1>1, <1>2, <1>3, <1>4, <1>11, <2>2, Returns DEF Answers
<1> QED
  BY <1>1, <1>5, <1>6, <1>9, <1>10, <1>11 DEF Apply

\* What every step of a save knows of its operation.
LEMMA OperationFacts ==
  ASSUME SettingsInv, pc \in Saving
  PROVE  /\ op \in Operation /\ op.since \in Nat /\ op.since <= faults
         /\ faults \in Nat /\ faults \in 0..MaxFaults
         /\ op.base \in Snapshot /\ op.values \in DeviceSettings
         /\ op.base.gen \in Nat /\ op.base.gen <= MaxGeneration
         /\ Target \in Nat
BY BoundsAssumption DEF SettingsInv, SaveInv, TypeOK, Operation, Snapshot, Target

LEMMA PrepareExtensionStep ==
  ASSUME SettingsInv, PrepareExtension
  PROVE  SettingsInv'
<1> DEFINE r == [seq |-> ext.head + 1, gen |-> Target, ext |-> op.values.ext]
<1>1. /\ pc = "prepare_ext" /\ pc \in Saving /\ TypeOK /\ JournalInv
      /\ Old /\ ExtMoves /\ (MainMoves => op.base.gen < MaxGeneration)
  BY DEF PrepareExtension, SettingsInv, SaveInv, Saving, Places
<1>2. ext.head \in Nat /\ ext.head <= MaxSequence
  BY <1>1, BoundsAssumption DEF TypeOK, Journal
<1>3. Target \in 0..MaxGeneration
  BY <1>1, OperationFacts, BoundsAssumption DEF Target, MainMoves, Snapshot
<1>4. ext.head < MaxSequence => r \in ExtRecord
  BY <1>1, <1>2, <1>3, OperationFacts, BoundsAssumption DEF ExtRecord, DeviceSettings
<1>5. JournalTypes /\ UNCHANGED <<main, marker>>
  BY <1>1 DEF JournalTypes, TypeOK, PrepareExtension
<1>6. /\ ext' \in {ext, Prepared(ext, r.seq, r)}
      /\ ext' # ext => ext.head < MaxSequence
  BY <1>2, BoundsAssumption DEF PrepareExtension
<1>7. /\ JournalTypes' /\ JournalInv' /\ Loaded' = Loaded
      /\ MainLoaded' = MainLoaded /\ ext'.head = ext.head
  <2>1. CASE ext' = ext
    BY <1>1, <1>5, <2>1
       DEF JournalTypes, JournalInv, Selected, Loaded, MainLoaded, ExtLoaded, ExtCommitted
  <2>2. CASE ext' # ext
    BY <1>1, <1>4, <1>5, <1>6, <2>2, ExtPrepared, LoadedStays
  <2> QED BY <2>1, <2>2
<1>8. CASE UNCHANGED <<op, faults>> /\ Return("exhausted", op.base)
  BY <1>1, <1>7, <1>8, Returns, OperationFacts DEF Old, Answers
<1>9. CASE Fault /\ Return("storage", op.base) /\ UNCHANGED op
  BY <1>1, <1>7, <1>9, Returns, OperationFacts, BoundsAssumption DEF Old, Answers, Fault
<1>10. CASE /\ ext.head < MaxSequence /\ ext' = Prepared(ext, r.seq, r)
            /\ op' = [op EXCEPT !.prepared = r]
            /\ pc' = IF MainMoves THEN "prepare_main" ELSE "publish_ext"
            /\ UNCHANGED <<owner, faults>>
  <2>1. ext'.slot[SlotOf(ext.head + 1)] = r
    BY <1>1, <1>4, <1>5, <1>10, ExtPrepared
  <2>2. /\ op' \in Operation /\ op'.base = op.base /\ op'.values = op.values
        /\ op'.force = op.force /\ op'.since = op.since /\ op'.prepared = r
    BY <1>1, <1>4, <1>10, OperationFacts DEF Operation
  <2>3. /\ Old' /\ MainMoves' = MainMoves /\ ExtMoves' = ExtMoves /\ Target' = Target
    BY <1>1, <1>7, <2>2 DEF Old, MainMoves, ExtMoves, Target, MainChanged, ExtChanged
  <2>4. HasPrepared'
    BY <1>7, <1>10, <2>1, <2>2, <2>3 DEF HasPrepared
  <2>5. ~MainMoves => MainLoaded'.schema # 3
    BY <1>1, <1>7, LoadedFacts, OperationFacts DEF Old, MainMoves, MainChanged, RecordSchema
  <2>6. pc' \in Saving
    BY <1>10 DEF Saving, Places
  <2>7. SaveInv'
    BY <1>1, <1>10, <2>2, <2>3, <2>4, <2>5, <2>6, OperationFacts DEF SaveInv, ExtReady, Saving
  <2> QED BY <1>1, <1>7, <1>10, <2>2, <2>6, <2>7, GoesOn, OperationFacts
<1> QED
  BY <1>2, <1>8, <1>9, <1>10, BoundsAssumption DEF PrepareExtension, MainMoves

LEMMA PrepareMainStep ==
  ASSUME SettingsInv, PrepareMain
  PROVE  SettingsInv'
<1>1. /\ pc = "prepare_main" /\ pc \in Saving /\ TypeOK /\ JournalInv
      /\ Old /\ MainMoves /\ op.base.gen < MaxGeneration /\ ExtReady
  BY DEF PrepareMain, SettingsInv, SaveInv, Saving, Places
<1>2. op.base.gen = main.head
  BY <1>1, LoadedFacts DEF Old
<1>3. MainTarget \in MainRecord /\ MainTarget.gen = main.head + 1
  BY <1>1, <1>2, OperationFacts, BoundsAssumption
     DEF MainTarget, MainRecord, DeviceSettings, RecordSchema
<1>4. UNCHANGED <<marker, ext, op>> /\ main' \in {main, Prepared(main, main.head + 1, MainTarget)}
  BY <1>3 DEF PrepareMain
<1>5. /\ JournalTypes' /\ JournalInv' /\ Loaded' = Loaded /\ main'.head = main.head
  <2>1. CASE main' = main
    BY <1>1, <1>4, <2>1
       DEF JournalTypes, TypeOK, JournalInv, Selected, Loaded, MainLoaded, ExtLoaded, ExtCommitted
  <2>2. CASE main' = Prepared(main, main.head + 1, MainTarget)
    BY <1>1, <1>3, <1>4, <2>2, MainPrepared, LoadedStays
  <2> QED BY <1>4, <2>1, <2>2
<1>6. CASE Fault /\ Return("storage", op.base)
  BY <1>1, <1>4, <1>5, <1>6, Returns, OperationFacts, BoundsAssumption DEF Old, Answers, Fault
<1>7. CASE /\ main' = Prepared(main, MainTarget.gen, MainTarget)
           /\ pc' = "select_main" /\ UNCHANGED <<owner, faults>>
  <2>1. main'.slot[SlotOf(main.head + 1)] = MainTarget
    BY <1>1, <1>3, <1>4, <1>7, MainPrepared
  <2>2. SaveInv'
    BY <1>1, <1>3, <1>4, <1>5, <1>7, <2>1, OperationFacts
       DEF SaveInv, Saving, Places, Old, MainMoves, ExtMoves, ExtReady, HasPrepared, Target,
           MainTarget, MainChanged, ExtChanged
  <2> QED BY <1>1, <1>4, <1>5, <1>7, <2>2, GoesOn, OperationFacts DEF Saving, Places
<1> QED
  BY <1>6, <1>7 DEF PrepareMain

\* With the main head moved, a boot loads the new main record and the old
\* extension.
LEMMA MovedIsHalf ==
  ASSUME SettingsInv, Old, op \in Operation, op.base.gen < MaxGeneration, MainMoves,
         UNCHANGED <<op, ext>>, MainLoaded' = MainTarget, ExtCommitted' = ExtCommitted
  PROVE  Half'
<1> DEFINE e == IF ext.head = 0 THEN DefaultExt ELSE ExtCommitted.ext
<1>1. TypeOK /\ JournalInv
  BY DEF SettingsInv
<1>2. op.base.gen = main.head /\ op.base.schema = MainLoaded.schema /\ main.head \in Nat
  BY <1>1, LoadedFacts, BoundsAssumption DEF Old, TypeOK, Journal
<1>3. /\ MainTarget.gen = main.head + 1 /\ MainTarget.main = op.values.main
      /\ MainTarget.led = FALSE /\ MainTarget.schema = RecordSchema
  BY <1>2 DEF MainTarget
<1>4. MainTarget \in MainRecord
  BY <1>2, <1>3, BoundsAssumption DEF MainTarget, MainRecord, Operation, DeviceSettings, RecordSchema
<1>5. MainTarget # Corrupt
  BY <1>4, MarksAssumption
<1>6. e \in ExtValues /\ e # Corrupt
  <2>1. CASE ext.head = 0
    <3>1. e \in ExtValues
      BY <2>1, DefaultsAssumption DEF DefaultExt, ExtValues
    <3> QED BY <3>1, MarksAssumption
  <2>2. CASE ext.head # 0
    <3>1. ExtCommitted.ext \in ExtValues
      BY <1>1, <2>2, LoadedParts DEF ExtRecord
    <3> QED BY <2>2, <3>1, MarksAssumption
  <2> QED BY <2>1, <2>2
<1>7. ExtLoaded(MainLoaded)' = e
  <2>1. CASE ext.head = 0
    BY <1>1, <1>3, <2>1, LoadedParts DEF ExtLoaded, DefaultExt
  <2>2. CASE ext.head # 0
    <3>1. ExtCommitted \in ExtRecord /\ ExtCommitted.gen <= main.head
      BY <1>1, <2>2, LoadedParts
    <3>2. ExtCommitted # Absent /\ ExtCommitted # Corrupt /\ ExtCommitted.gen \in Nat
      BY <3>1, MarksAssumption, BoundsAssumption DEF ExtRecord
    <3>3. ~(ExtCommitted.gen > MainTarget.gen)
      BY <1>2, <1>3, <3>1, <3>2
    <3> QED BY <2>2, <3>2, <3>3 DEF ExtLoaded
  <2> QED BY <2>1, <2>2
<1>8. Loaded' = [gen |-> MainTarget.gen, schema |-> MainTarget.schema,
                 values |-> [main |-> MainTarget.main, ext |-> e]]
  BY <1>5, <1>6, <1>7 DEF Loaded, Composite
<1>9. CASE op.base.schema = 3
  <2>1. ext.head = 0 /\ e = DefaultExt
    BY <1>1, <1>2, <1>9, LoadedParts
  <2>2. /\ Loaded'.gen = op.base.gen + 1 /\ Loaded'.values.main = op.values.main
        /\ Loaded'.values.ext = DefaultExt
    BY <1>2, <1>3, <1>8, <2>1
  <2>3. Loaded'.gen > op.base.gen
    BY <1>2, <2>2
  <2>4. Downgrading(Loaded)'
    BY <1>9, <2>1, <2>2, <2>3 DEF Downgrading, DefaultExt
  <2> QED BY <2>2, <2>4 DEF Half
<1>10. CASE op.base.schema # 3
  <2>1. op.base.values.ext = e
    <3>1. CASE ext.head = 0
      <4>1. MainLoaded.led = FALSE
        BY <1>1, <1>2, <1>10, LoadedParts DEF LoadedRecord
      <4> QED BY <1>1, <3>1, <4>1, LoadedFacts DEF Old, DefaultExt
    <3>2. CASE ext.head # 0
      BY <1>1, <3>2, LoadedFacts DEF Old
    <3> QED BY <3>1, <3>2
  <2> QED BY <1>2, <1>3, <1>8, <1>10, <2>1 DEF Half
<1> QED
  BY <1>9, <1>10

\* Half is all of it when the extension does not change.
LEMMA HalfIsNew ==
  ASSUME SettingsInv, op \in Operation, Half, MainMoves, ~ExtMoves
  PROVE  New
<1>1. Loaded \in Snapshot
  BY LoadedFacts DEF SettingsInv
<1>2. op.base.schema # 3 /\ op.base.values.ext = op.values.ext
  BY DEF MainMoves, ExtMoves, ExtChanged
<1>3. Loaded.values = op.values
  BY <1>1, <1>2 DEF Half, Downgrading, Snapshot, DeviceSettings, Operation
<1> QED
  BY <1>3 DEF New, Half, Target, MainMoves

LEMMA SelectMainStep ==
  ASSUME SettingsInv, SelectMain
  PROVE  SettingsInv'
<1>1. /\ pc = "select_main" /\ pc \in Saving /\ TypeOK /\ JournalInv
      /\ Old /\ MainMoves /\ op.base.gen < MaxGeneration /\ ExtReady
      /\ main.slot[SlotOf(main.head + 1)] = MainTarget
  BY DEF SelectMain, SettingsInv, SaveInv, Saving, Places
<1>2. op.base.gen = main.head
  BY <1>1, LoadedFacts DEF Old
<1>3. MainTarget \in MainRecord /\ MainTarget.gen = main.head + 1
      /\ MainTarget.schema = RecordSchema /\ ~MainTarget.led
  BY <1>1, <1>2, OperationFacts, BoundsAssumption
     DEF MainTarget, MainRecord, DeviceSettings, RecordSchema
<1>4. UNCHANGED <<marker, ext, op, owner>>
  BY DEF SelectMain, Go
<1>5. /\ MainMoves' = MainMoves /\ ExtReady' = ExtReady /\ MainTarget' = MainTarget
  BY <1>4 DEF MainMoves, ExtMoves, ExtReady, HasPrepared, Target, MainTarget
<1>6. CASE main' = main /\ Fault /\ pc' = "failed"
  <2>1. JournalTypes' /\ JournalInv' /\ Old'
    BY <1>1, <1>4, <1>6
       DEF JournalTypes, TypeOK, JournalInv, Selected, Old, Loaded, MainLoaded, ExtLoaded,
           ExtCommitted
  <2>2. SaveInv'
    BY <1>4, <1>6, <2>1, <1>1, OperationFacts, BoundsAssumption DEF SaveInv, Saving, Places, Fault
  <2> QED
    BY <1>1, <1>4, <1>6, <2>1, <2>2, GoesOn, OperationFacts, BoundsAssumption
       DEF Saving, Places, Fault
<1>7. CASE /\ main' = [main EXCEPT !.head = MainTarget.gen]
           /\ \/ pc' = "set_marker" /\ UNCHANGED faults
              \/ pc' = "check_main" /\ Fault
  <2>1. /\ JournalTypes' /\ JournalInv' /\ MainLoaded' = MainTarget
        /\ ExtCommitted' = ExtCommitted
    BY <1>1, <1>2, <1>3, <1>4, <1>7, MainMoved DEF TypeOK
  <2>2. Half'
    BY <1>1, <1>4, <2>1, MovedIsHalf, OperationFacts
  <2>3. faults' \in 0..MaxFaults /\ op.since <= faults'
    BY <1>1, <1>7, OperationFacts, BoundsAssumption DEF Fault
  <2>4. pc' \in {"set_marker", "check_main"}
    BY <1>7
  <2>5. SaveInv'
    BY <1>1, <1>4, <1>5, <2>1, <2>2, <2>3, <2>4, OperationFacts DEF SaveInv, Saving, Places
  <2> QED
    BY <1>1, <1>4, <2>1, <2>3, <2>4, <2>5, GoesOn, OperationFacts DEF Saving, Places
<1> QED
  BY <1>6, <1>7 DEF SelectMain, Go

\* A step of a save that leaves both heads and all records alone.
LEMMA JournalKept ==
  ASSUME TypeOK, JournalInv, UNCHANGED journal
  PROVE  /\ JournalTypes' /\ JournalInv' /\ Loaded' = Loaded
         /\ MainLoaded' = MainLoaded /\ ExtCommitted' = ExtCommitted
BY DEF journal, JournalTypes, TypeOK, JournalInv, Selected, Loaded, MainLoaded, ExtLoaded,
       ExtCommitted

LEMMA SetMarkerStep ==
  ASSUME SettingsInv, SetMarker
  PROVE  SettingsInv'
<1>1. /\ pc = "set_marker" /\ pc \in Saving /\ TypeOK /\ JournalInv
      /\ MainMoves /\ MainLoaded = MainTarget /\ Half /\ ExtReady
  BY DEF SetMarker, SettingsInv, SaveInv, Saving, Places
<1>2. /\ UNCHANGED <<main, ext, op, owner>> /\ pc' = "check_main" /\ marker' \in BOOLEAN
      /\ faults' \in 0..MaxFaults /\ op.since <= faults'
  <2>1. UNCHANGED <<main, ext, op, owner>> /\ pc' = "check_main"
    BY DEF SetMarker, Go
  <2>2. marker' \in {marker, TRUE} /\ (UNCHANGED faults \/ Fault)
    BY DEF SetMarker
  <2>3. marker' \in BOOLEAN
    BY <1>1, <2>2 DEF TypeOK
  <2> QED BY <1>1, <2>1, <2>2, <2>3, OperationFacts, BoundsAssumption DEF Fault
<1>3. main.head # 0
  <2>1. MainLoaded.gen = main.head /\ MainLoaded.gen = op.base.gen + 1
    BY <1>1, LoadedParts DEF MainTarget
  <2> QED BY <1>1, <2>1, OperationFacts
<1>4. MainLoaded' = MainLoaded /\ ExtCommitted' = ExtCommitted /\ JournalTypes' /\ JournalInv'
  BY <1>1, <1>2, <1>3
     DEF MainLoaded, ExtCommitted, Selected, JournalTypes, JournalInv, TypeOK
<1>5. Loaded' = Loaded
  BY <1>4, LoadedStays
<1>6. /\ MainMoves' = MainMoves /\ ExtReady' = ExtReady /\ MainTarget' = MainTarget /\ Half'
  BY <1>1, <1>2, <1>5
     DEF MainMoves, ExtMoves, ExtReady, HasPrepared, Target, MainTarget, Half, Downgrading
<1>7. SaveInv'
  BY <1>1, <1>2, <1>4, <1>6, OperationFacts DEF SaveInv, Saving, Places
<1> QED
  BY <1>1, <1>2, <1>4, <1>7, GoesOn, OperationFacts DEF Saving, Places

LEMMA CheckMainStep ==
  ASSUME SettingsInv, CheckMain
  PROVE  SettingsInv'
<1>1. /\ pc = "check_main" /\ pc \in Saving /\ TypeOK /\ JournalInv
      /\ MainMoves /\ MainLoaded = MainTarget /\ Half /\ ExtReady
  BY DEF CheckMain, SettingsInv, SaveInv, Saving, Places
<1>2. UNCHANGED <<journal, op, owner>>
  BY DEF CheckMain, Go
<1>3. JournalTypes' /\ JournalInv' /\ Loaded' = Loaded /\ MainLoaded' = MainLoaded
  BY <1>1, <1>2, JournalKept
<1>4. /\ MainMoves' = MainMoves /\ ExtMoves' = ExtMoves /\ HasPrepared' = HasPrepared
      /\ Half' = Half /\ New' = New
  BY <1>2, <1>3
     DEF journal, MainMoves, ExtMoves, HasPrepared, Target, Half, New, Downgrading
<1>5. CASE pc' = "failed" /\ Fault
  <2>1. SaveInv'
    BY <1>1, <1>2, <1>4, <1>5, OperationFacts, BoundsAssumption DEF SaveInv, Saving, Places, Fault
  <2> QED
    BY <1>1, <1>2, <1>3, <1>5, <2>1, GoesOn, OperationFacts, BoundsAssumption
       DEF Saving, Places, Fault
<1>6. CASE pc' = AfterMain /\ UNCHANGED faults
  <2>1. CASE ExtMoves
    <3>1. op.prepared # Absent
      <4>1. op.prepared \in ExtRecord
        <5>1. HasPrepared /\ ext.head \in Nat /\ ext.head < MaxSequence
          BY <1>1, <2>1, BoundsAssumption DEF ExtReady, HasPrepared, TypeOK, Journal
        <5>2. Target \in 0..MaxGeneration
          <6>1. Target = main.head
            BY <1>1, LoadedParts DEF Target, MainTarget, MainMoves
          <6> QED BY <1>1, <6>1 DEF TypeOK, Journal
        <5> QED
          BY <1>1, <5>1, <5>2, OperationFacts, BoundsAssumption
             DEF HasPrepared, ExtRecord, DeviceSettings
      <4> QED BY <4>1, MarksAssumption
    <3>2. pc' = "publish_ext"
      BY <1>6, <3>1 DEF AfterMain
    <3>3. MainLoaded'.schema # 3
      BY <1>1, <1>3 DEF MainTarget, RecordSchema
    <3>4. SaveInv'
      BY <1>1, <1>2, <1>4, <1>6, <2>1, <3>2, <3>3, OperationFacts
         DEF SaveInv, Saving, Places, ExtReady
    <3> QED
      BY <1>1, <1>2, <1>3, <1>6, <3>2, <3>4, GoesOn, OperationFacts DEF Saving, Places
  <2>2. CASE ~ExtMoves
    <3>1. pc' = "verify"
      BY <1>1, <1>6, <2>2 DEF AfterMain, ExtReady
    <3>2. New'
      BY <1>1, <1>4, <2>2, HalfIsNew, OperationFacts
    <3>3. SaveInv'
      BY <1>1, <1>2, <1>6, <3>1, <3>2, OperationFacts DEF SaveInv, Saving, Places
    <3> QED
      BY <1>1, <1>2, <1>3, <1>6, <3>1, <3>3, GoesOn, OperationFacts DEF Saving, Places
  <2> QED BY <2>1, <2>2
<1> QED
  BY <1>1, <1>5, <1>6 DEF CheckMain, Go

LEMMA PublishExtensionStep ==
  ASSUME SettingsInv, PublishExtension
  PROVE  SettingsInv'
<1>1. /\ pc = "publish_ext" /\ pc \in Saving /\ TypeOK /\ JournalInv
      /\ ExtMoves /\ HasPrepared /\ MainLoaded.schema # 3
      /\ IF MainMoves THEN Half ELSE Old
  BY DEF PublishExtension, SettingsInv, SaveInv, Saving, Places
<1>2. UNCHANGED <<main, marker, op, owner>>
  BY DEF PublishExtension, Go
<1>3. Target = main.head /\ Target \in 0..MaxGeneration
  BY <1>1, LoadedFacts DEF Target, Half, Old, MainMoves, TypeOK, Journal
<1>4. ext.head \in Nat /\ op.prepared.seq = ext.head + 1
  BY <1>1, BoundsAssumption DEF HasPrepared, TypeOK, Journal
<1>5. op.prepared \in ExtRecord /\ op.prepared.gen <= main.head
  BY <1>1, <1>3, <1>4, OperationFacts, BoundsAssumption
     DEF HasPrepared, ExtRecord, DeviceSettings
<1>6. faults' \in 0..MaxFaults /\ op.since <= faults' /\ (Fault => faults' > op.since)
  BY <1>1, OperationFacts, BoundsAssumption DEF PublishExtension, Fault
<1>7. CASE UNCHANGED ext /\ pc' = "failed" /\ Fault
  <2>1. JournalTypes' /\ JournalInv' /\ (Old \/ Half)'
    BY <1>1, <1>2, <1>7, JournalKept DEF journal, Old, Half, Downgrading
  <2>2. SaveInv'
    BY <1>1, <1>2, <1>6, <1>7, <2>1, OperationFacts DEF SaveInv, Saving, Places
  <2> QED
    BY <1>1, <1>2, <1>6, <1>7, <2>1, <2>2, GoesOn, OperationFacts DEF Saving, Places
<1>8. CASE ext' = [ext EXCEPT !.head = op.prepared.seq] /\ pc' = "check_ext"
  <2>1. /\ JournalTypes' /\ JournalInv' /\ MainLoaded' = MainLoaded
        /\ ExtCommitted' = op.prepared
    BY <1>1, <1>2, <1>4, <1>5, <1>8, ExtMoved DEF HasPrepared
  <2>2. New'
    <3>1. op.prepared # Absent /\ op.prepared # Corrupt /\ op.prepared.ext # Corrupt
      BY <1>5, MarksAssumption DEF ExtRecord
    <3>2. ~(op.prepared.gen > MainLoaded.gen) /\ MainLoaded.gen = Target
      <4>1. MainLoaded.gen = main.head /\ main.head \in Nat
        BY <1>1, LoadedParts, BoundsAssumption DEF TypeOK, Journal
      <4> QED BY <1>3, <1>5, <4>1, BoundsAssumption DEF ExtRecord
    <3>3. ExtLoaded(MainLoaded)' = op.prepared.ext
      BY <2>1, <3>1, <3>2 DEF ExtLoaded
    <3>4. MainLoaded # Corrupt
      BY <1>1, LoadedParts
    <3>5. Loaded' = [gen |-> MainLoaded.gen, schema |-> MainLoaded.schema,
                     values |-> [main |-> MainLoaded.main, ext |-> op.prepared.ext]]
      BY <2>1, <3>1, <3>3, <3>4 DEF Loaded, Composite
    <3>6. MainLoaded.main = op.values.main
      BY <1>1, LoadedFacts DEF Half, Old, MainMoves, MainChanged
    <3>7. op.prepared.ext = op.values.ext
      BY <1>1 DEF HasPrepared
    <3>8. [main |-> op.values.main, ext |-> op.values.ext] = op.values
      BY <1>1, OperationFacts DEF DeviceSettings
    <3>9. Target' = Target
      BY <1>2 DEF Target, MainMoves, MainChanged
    <3> QED BY <1>2, <3>2, <3>5, <3>6, <3>7, <3>8, <3>9 DEF New
  <2>3. SaveInv'
    BY <1>1, <1>2, <1>6, <1>8, <2>1, <2>2, OperationFacts DEF SaveInv, Saving, Places
  <2> QED
    BY <1>1, <1>2, <1>6, <1>8, <2>1, <2>3, GoesOn, OperationFacts DEF Saving, Places
<1> QED
  BY <1>1, <1>4, <1>7, <1>8 DEF PublishExtension, Go, HasPrepared

LEMMA CheckExtensionStep ==
  ASSUME SettingsInv, CheckExtension
  PROVE  SettingsInv'
<1>1. /\ pc = "check_ext" /\ pc \in Saving /\ TypeOK /\ JournalInv
      /\ New /\ ExtCommitted = op.prepared
  BY DEF CheckExtension, SettingsInv, SaveInv, Saving, Places
<1>2. UNCHANGED <<journal, op, owner>>
  BY DEF CheckExtension, Go
<1>3. JournalTypes' /\ JournalInv' /\ New'
  BY <1>1, <1>2, JournalKept DEF New, Target, MainMoves, MainChanged
<1>4. \/ pc' = "verify" /\ UNCHANGED faults
      \/ pc' = "failed" /\ Fault
  BY <1>1 DEF CheckExtension, Go
<1>5. /\ faults' \in 0..MaxFaults /\ op.since <= faults'
      /\ pc' = "failed" => faults' > op.since
  BY <1>1, <1>4, OperationFacts, BoundsAssumption DEF Fault
<1>6. SaveInv'
  BY <1>1, <1>2, <1>3, <1>4, <1>5, OperationFacts DEF SaveInv, Saving, Places
<1> QED
  BY <1>1, <1>2, <1>3, <1>4, <1>5, <1>6, GoesOn, OperationFacts DEF Saving, Places

LEMMA EndingSteps ==
  ASSUME SettingsInv, ReloadFailed \/ Verify
  PROVE  SettingsInv'
<1>1. TypeOK /\ JournalInv /\ pc \in Saving
  BY DEF ReloadFailed, Verify, SettingsInv, Saving, Places
<1>2. UNCHANGED <<journal, op>>
  BY DEF ReloadFailed, Verify
<1>3. JournalTypes' /\ JournalInv' /\ Loaded' = Loaded
  BY <1>1, <1>2, JournalKept
<1>4. Old' = Old /\ Half' = Half /\ New' = New
  BY <1>2, <1>3 DEF journal, Old, Half, New, Target, MainMoves, MainChanged, Downgrading
<1>5. Loaded # Corrupt /\ Known(Loaded) = Loaded
  BY <1>1, LoadedFacts DEF Known
<1>6. CASE ReloadFailed
  <2>1. (Old \/ Half \/ New) /\ faults > op.since
    BY <1>6 DEF ReloadFailed, SettingsInv, SaveInv
  <2> QED
    BY <1>1, <1>2, <1>3, <1>4, <1>5, <1>6, <2>1, Returns, OperationFacts, BoundsAssumption
       DEF ReloadFailed, Fault, Answers
<1>7. CASE Verify
  <2>1. New
    BY <1>7 DEF Verify, SettingsInv, SaveInv
  <2> QED
    BY <1>1, <1>2, <1>3, <1>4, <1>5, <1>7, <2>1, Returns, OperationFacts, BoundsAssumption
       DEF Verify, Fault, Answers, New
<1> QED
  BY <1>6, <1>7

-----------------------------------------------------------------------------
(* Boots, power cuts and beta27. *)

LEMMA BootSteps ==
  ASSUME SettingsInv, Boot \/ PowerCut
  PROVE  SettingsInv'
<1>1. TypeOK /\ JournalInv /\ UNCHANGED <<journal, faults>>
  BY DEF SettingsInv, Boot, PowerCut
<1>2. JournalTypes' /\ JournalInv' /\ Loaded' = Loaded /\ Loaded \in Snapshot
  BY <1>1, JournalKept, LoadedFacts
<1>3. CASE Boot
  <2>1. op = Unknown /\ result = "none"
    BY <1>3 DEF Boot, SettingsInv, SaveInv
  <2> QED
    BY <1>1, <1>2, <1>3, <2>1
       DEF SettingsInv, Boot, TypeOK, JournalTypes, SaveInv, Saving, Places,
           SnapshotAuthoritative, AnswersTell
<1>4. CASE PowerCut
  BY <1>1, <1>2, <1>4
     DEF SettingsInv, PowerCut, TypeOK, JournalTypes, SaveInv, Saving, Places,
         SnapshotAuthoritative, AnswersTell
<1> QED
  BY <1>3, <1>4

LEMMA Beta27Step ==
  ASSUME SettingsInv, NEW m \in MainValues, Beta27Saves(m)
  PROVE  SettingsInv'
<1> DEFINE r == [gen |-> main.head + 1, schema |-> RecordSchema, main |-> m, led |-> FALSE]
           j == Prepared(main, r.gen, r)
<1>1. TypeOK /\ JournalInv /\ pc = "off" /\ main.head < MaxGeneration /\ main.head \in Nat
  BY BoundsAssumption DEF SettingsInv, Beta27Saves, TypeOK, Journal
<1>2. r \in MainRecord
  BY <1>1, BoundsAssumption DEF MainRecord, RecordSchema
<1>3. j \in Journal(MainRecord, MaxGeneration) /\ j.slot[SlotOf(main.head + 1)] = r
  BY <1>1, <1>2, OtherSlot DEF Prepared, Journal, TypeOK
<1>4. main' = [j EXCEPT !.head = main.head + 1] /\ marker' = TRUE
      /\ UNCHANGED <<ext, pc, op, owner, faults>>
  BY DEF Beta27Saves
<1>5. JournalTypes' /\ JournalInv'
  BY <1>1, <1>2, <1>3, <1>4, MainMoved
<1> QED
  BY <1>1, <1>4, <1>5
     DEF SettingsInv, TypeOK, JournalTypes, owner, SaveInv, Saving, Places,
         SnapshotAuthoritative, AnswersTell

-----------------------------------------------------------------------------
(* The theorems *)

LEMMA StartsRight == Init => SettingsInv
<1> SUFFICES ASSUME Init PROVE SettingsInv
  OBVIOUS
<1>1. /\ ext = EmptyJournal /\ pc = "off" /\ op = Unknown /\ snapshot = Unknown
      /\ initialized = FALSE /\ result = "none" /\ faults = 0 /\ marker = (main.head # 0)
  BY DEF Init
<1>2. /\ ext \in Journal(ExtRecord, MaxSequence) /\ ext.head = 0
  BY <1>1, BoundsAssumption DEF Journal, EmptyJournal
<1>3. /\ main \in Journal(MainRecord, MaxGeneration)
      /\ main.head # 0 => /\ Selected(main) \in MainRecord /\ Selected(main).gen = main.head
                          /\ Selected(main).schema = RecordSchema => ~Selected(main).led
  <2>1. CASE main = EmptyJournal
    BY <2>1, BoundsAssumption DEF Journal, EmptyJournal
  <2>2. CASE main # EmptyJournal
    <3>1. PICK r \in MainRecord :
            /\ r.gen = 1 /\ main = OneRecord(r)
            /\ IF r.schema = 3 THEN DevelopmentImages ELSE ~r.led
      BY <2>2 DEF Init
    <3>2. SlotOf(r.gen) \in Slots /\ r.gen \in 0..MaxGeneration
      BY <3>1, OtherSlot, BoundsAssumption DEF MainRecord
    <3>3. main.slot \in [Slots -> MainRecord \cup {Absent}] /\ main.head = r.gen
          /\ main = [slot |-> main.slot, head |-> main.head]
      BY <3>1 DEF OneRecord
    <3>4. Selected(main) = r
      BY <3>1, <3>2 DEF Selected, OneRecord
    <3> QED BY <3>1, <3>2, <3>3, <3>4 DEF Journal, RecordSchema
  <2> QED BY <2>1, <2>2
<1>4. TypeOK
  <2>1. marker \in BOOLEAN /\ 0 \in 0..MaxFaults
    BY <1>1, BoundsAssumption
  <2> QED BY <1>1, <1>2, <1>3, <2>1 DEF TypeOK, Places
<1>5. JournalInv
  BY <1>1, <1>2, <1>3 DEF JournalInv
<1> QED
  BY <1>1, <1>4, <1>5
     DEF SettingsInv, SaveInv, Saving, Places, SnapshotAuthoritative, AnswersTell

LEMMA SettingsStep ==
  ASSUME SettingsInv, [Next]_vars
  PROVE  SettingsInv'
<1>1. CASE UNCHANGED vars
  <2>1. UNCHANGED <<journal, pc, op, owner, faults>> /\ TypeOK /\ JournalInv
    BY <1>1 DEF vars, SettingsInv
  <2>2. /\ JournalTypes' /\ JournalInv' /\ Loaded' = Loaded /\ MainLoaded' = MainLoaded
        /\ ExtCommitted' = ExtCommitted
    BY <2>1, JournalKept
  <2>3. TypeOK' /\ SnapshotAuthoritative' /\ AnswersTell'
    BY <2>1, <2>2
       DEF owner, SettingsInv, TypeOK, JournalTypes, SnapshotAuthoritative, AnswersTell
  <2>4. /\ Old' = Old /\ Half' = Half /\ New' = New /\ MainTarget' = MainTarget
        /\ ExtReady' = ExtReady /\ HasPrepared' = HasPrepared
        /\ MainMoves' = MainMoves /\ ExtMoves' = ExtMoves
    BY <2>1, <2>2
       DEF journal, Old, Half, New, Target, Downgrading, MainTarget, MainMoves, ExtMoves,
           ExtReady, HasPrepared
  <2>5. SaveInv'
    BY <2>1, <2>2, <2>4 DEF SettingsInv, SaveInv, owner, journal
  <2> QED BY <2>2, <2>3, <2>5 DEF SettingsInv
<1> QED
  BY <1>1, BootSteps, ApplyStep, PrepareExtensionStep, PrepareMainStep, SelectMainStep,
     SetMarkerStep, CheckMainStep, PublishExtensionStep, CheckExtensionStep, EndingSteps,
     Beta27Step DEF Next

\* The inductive invariant of the settings: what is selected is whole, and
\* where a save is says whether old, half or new settings are selected.
THEOREM SettingsInductive == Spec => []SettingsInv
<1>1. SettingsInv /\ [Next]_vars => SettingsInv'
  BY SettingsStep
<1> QED
  BY <1>1, StartsRight, PTL DEF Spec

\* The journals, the save's arguments and the owner's snapshot keep their types:
\* no generation or sequence is passed by.
THEOREM SettingsTypeCorrect == Spec => []TypeOK
BY SettingsInductive, PTL DEF SettingsInv

\* Wherever the power goes, whichever call fails and whatever beta27 saves in
\* between, the next boot finds settings it can load.
THEOREM LoadableHolds == Spec => []Loadable
<1>1. SettingsInv => Loadable
  BY LoadedFacts DEF SettingsInv, Loadable
<1> QED
  BY <1>1, SettingsInductive, PTL

\* What a power loss during a save exposes is old, new, or the new main record
\* with the old extension.
THEOREM PartsOldOrRequestedHolds == Spec => []PartsOldOrRequested
<1>1. SettingsInv => PartsOldOrRequested
  <2> SUFFICES ASSUME SettingsInv, op # Unknown PROVE PartsOldOrRequested
    BY DEF PartsOldOrRequested
  <2>1. op \in Operation
    BY DEF SettingsInv, SaveInv, TypeOK
  <2>2. Old \/ Half \/ New
    BY DEF SettingsInv, SaveInv, TypeOK, Saving, Places
  <2>3. op.base.gen \in Nat
    BY <2>1, BoundsAssumption DEF Operation, Snapshot
  <2>4. CASE Old
    BY <2>4 DEF Old, PartsOldOrRequested
  <2>5. CASE Half
    BY <2>5 DEF Half, PartsOldOrRequested
  <2>6. CASE New
    BY <2>6 DEF New, Target, PartsOldOrRequested
  <2> QED BY <2>2, <2>4, <2>5, <2>6
<1> QED
  BY <1>1, SettingsInductive, PTL

\* An open owner shows what is in flash, after a failure half way too.
THEOREM SnapshotAuthoritativeHolds == Spec => []SnapshotAuthoritative
BY SettingsInductive, PTL DEF SettingsInv

\* A save that is acknowledged is what the next boot loads, and one is refused
\* only for a failing call or a generation that is used up.
THEOREM AnswersTellHolds == Spec => []AnswersTell
BY SettingsInductive, PTL DEF SettingsInv

\* Both together: what the owner shows, and what it has answered, agree with
\* what a boot would load.
THEOREM AnswersTrueHolds == Spec => []AnswersTrue
BY SnapshotAuthoritativeHolds, AnswersTellHolds, PTL DEF AnswersTrue

-----------------------------------------------------------------------------
(* The migration gate.                                                     *)
(*                                                                         *)
(* The argument: a phase after the first is only ever recorded over        *)
(* settings that were just seen to be those of its source (GateInv); from  *)
(* then on a save either moves the generation past the marker's, or        *)
(* changes the extension alone.                                            *)

GatePlaces == {"off", "audited", "refused", "failed", "slot", "head", "initialized", "advance",
               "saving", "start", "running"}

Recorded(m) == m.phase # Preparing

\* The settings are what the source of m says, as m was about to record.
Results(m) == Loaded.gen = m.gen /\ Loaded.values = SourceValues[m.print]

Tells(m) ==
  \/ Loaded.gen > m.gen
  \/ Loaded.gen = m.gen /\ (extended \/ Loaded.values = SourceValues[m.print])

MigrationTypeOK ==
  /\ legacy \in Sources \cup {Absent}
  /\ migration \in
       [slot : [Slots -> Marker \cup {Absent}], head : Nat, initialized : BOOLEAN]
  /\ at \in GatePlaces
  /\ next \in Marker \cup {Absent}

MarkersInv ==
  /\ migration.head # 0 =>
       /\ Selected(migration) \in Marker /\ Selected(migration).seq = migration.head
       /\ Recorded(Selected(migration)) => Tells(Selected(migration))
  /\ at = "slot" => next \in Marker /\ next.seq = migration.head + 1
  /\ at = "head" => next \in Marker /\ migration.slot[SlotOf(next.seq)] = next
  /\ at \in {"slot", "head"} /\ Recorded(next) => Results(next)

SavesInv ==
  /\ at \notin {"saving", "running"} => pc \notin Saving
  /\ at = "saving" => Committed \in Marker /\ ~Recorded(Committed) /\ Committed.print = legacy
  /\ at = "running" /\ pc \in Saving /\ migration.head # 0 /\ Recorded(Selected(migration)) =>
       op.base.gen >= Selected(migration).gen

GateInv == MigrationTypeOK /\ MarkersInv /\ SavesInv

-----------------------------------------------------------------------------
(* What the gate reads. *)

\* A committed marker is the one the head selects.
LEMMA CommittedFacts ==
  ASSUME GateInv, Committed # Absent, Committed # Corrupt
  PROVE  /\ Committed \in Marker /\ Committed = Selected(migration)
         /\ migration.head # 0 /\ Committed.seq = migration.head
BY DEF GateInv, MarkersInv, Committed

\* A resumed migration is that of the legacy record there is, and not complete.
LEMMA ResumeFacts ==
  ASSUME GateInv, Plan = "resume"
  PROVE  /\ Committed # Absent /\ Committed # Corrupt /\ Committed \in Marker
         /\ Committed.print = legacy /\ legacy \in Sources
         /\ Committed.phase # Complete /\ CanResume(Committed)
<1>1. Committed # Corrupt /\ Committed # Absent
  BY DEF Plan, PlanTorn, PlanUnmarked
<1>2. Committed \in Marker
  BY <1>1, CommittedFacts
<1>3. Committed.print = legacy /\ PlanMarked(Committed) = "resume"
  BY <1>1 DEF Plan, PlanChanged
<1> QED
  BY <1>1, <1>2, <1>3 DEF PlanMarked, Marker

\* A migration is started over a legacy record.
LEMMA StartFacts ==
  ASSUME Plan = "start"
  PROVE  legacy # Absent
BY DEF Plan, PlanTorn, PlanUnmarked, PlanMarked, PlanChanged

LEMMA RecoverFacts ==
  ASSUME GateInv, Plan = "recover"
  PROVE  /\ migration.slot[1] \in Marker /\ migration.slot[1].seq = 1
         /\ ~Recorded(migration.slot[1])
<1>1. migration.slot[1] \in Marker \cup {Absent}
  BY DEF GateInv, MigrationTypeOK, Slots
<1> QED
  BY <1>1 DEF Plan, PlanTorn, PlanUnmarked, PlanMarked, PlanChanged, Recorded

\* The first marker of a migration, and the next of one under way.
LEMMA FirstMarkerFacts ==
  ASSUME SettingsInv, GateInv, Plan = "start"
  PROVE  /\ FirstMarker \in Marker /\ FirstMarker.seq = migration.head + 1
         /\ ~Recorded(FirstMarker)
<1>1. Loaded.gen \in Nat
  BY LoadedFacts, BoundsAssumption DEF SettingsInv, Snapshot
<1>2. legacy \in Sources /\ migration.head \in Nat
  BY StartFacts DEF GateInv, MigrationTypeOK
<1> QED
  BY <1>1, <1>2 DEF FirstMarker, Marker, Recorded, Preparing, Complete

LEMMA NextMarkerFacts ==
  ASSUME GateInv, Committed # Absent, Committed # Corrupt, Committed.phase # Complete,
         Committed.print = legacy, IsResult(Committed)
  PROVE  /\ NextMarker \in Marker /\ NextMarker.seq = migration.head + 1
         /\ Results(NextMarker)
<1>1. Committed \in Marker /\ Committed.seq = migration.head
  BY CommittedFacts
<1>2. Committed.phase \in 1..5 /\ Committed.phase # 5 /\ migration.head \in Nat
  BY <1>1 DEF Marker, Preparing, Complete, GateInv, MigrationTypeOK
<1>3. NextMarker \in Marker
  BY <1>1, <1>2 DEF NextMarker, Marker, Preparing, Complete
<1> QED
  BY <1>3 DEF NextMarker, IsResult, IsCompatibleResult, Results, Source

\* What the settings lemmas read does not change with the gate's journal.
LEMMA GateKeeps ==
  ASSUME UNCHANGED vars
  PROVE  Loaded' = Loaded /\ UNCHANGED <<pc, op>>
BY DEF vars, journal, Loaded, MainLoaded, ExtLoaded, ExtCommitted, Selected, Composite

-----------------------------------------------------------------------------
(* Every step of the gate is one of the settings, or leaves them alone. *)

LEMMA MigrationStepRefines ==
  ASSUME GateInv, [MNext]_mvars
  PROVE  [Next]_vars
<1>1. CASE UNCHANGED mvars \/ Execute \/ WriteSlot \/ WriteHead \/ WriteInitialized \/ Saved
             \/ StartOwner \/ ArduinoChanges
  BY <1>1
     DEF mvars, Execute, WriteSlot, WriteHead, WriteInitialized, Saved, StartOwner, ArduinoChanges
<1>2. CASE Audit
  BY <1>2 DEF Audit, Next
<1>3. CASE Advance
  <2>1. CASE UNCHANGED vars
    BY <2>1
  <2>2. CASE Plan = "resume" /\ \E f \in Forces : Apply(Source, f)
    <3>1. Source \in DeviceSettings
      BY <2>2, ResumeFacts, SourcesAssumption DEF Source
    <3> QED BY <2>2, <3>1 DEF Next
  <2>3. \A b \in BOOLEAN : [main |-> ~b, ext |-> TRUE] \in Forces
    BY DEF Forces
  <2> QED BY <1>3, <2>1, <2>2, <2>3 DEF Advance
<1>4. ASSUME NEW v \in DeviceSettings, UserSaves(v)
      PROVE  Next
  BY <1>4 DEF UserSaves, Next, Forces
<1>5. CASE SaveStep
  BY <1>5 DEF SaveStep, Next
<1>6. CASE PowerOff
  BY <1>6 DEF PowerOff, Next
<1>7. CASE Beta27
  BY <1>7 DEF Beta27, Next
<1> QED
  BY <1>1, <1>2, <1>3, <1>4, <1>5, <1>6, <1>7 DEF MNext

-----------------------------------------------------------------------------
(* The steps of the gate. *)

\* The steps that change neither journal of the settings nor the gate's, and
\* begin no save.
LEMMA PlaceMoves ==
  ASSUME GateInv, UNCHANGED <<journal, migration, extended>>, pc' \notin Saving,
         legacy' \in Sources \cup {Absent}, next' \in Marker \cup {Absent},
         at' \in GatePlaces \ {"saving"},
         at' = "slot" => next' \in Marker /\ next'.seq = migration.head + 1,
         at' = "head" => next' \in Marker /\ migration.slot[SlotOf(next'.seq)] = next',
         at' \in {"slot", "head"} /\ Recorded(next') => Results(next')
  PROVE  GateInv'
<1>1. Loaded' = Loaded
  BY DEF journal, Loaded, MainLoaded, ExtLoaded, ExtCommitted, Selected, Composite
<1>2. MigrationTypeOK'
  BY DEF GateInv, MigrationTypeOK
<1>3. MarkersInv'
  BY <1>1 DEF GateInv, MarkersInv, Selected, Recorded, Results, Tells
<1>4. SavesInv'
  BY DEF SavesInv
<1> QED
  BY <1>2, <1>3, <1>4 DEF GateInv

LEMMA FailingStep ==
  ASSUME GateInv, GateFails, UNCHANGED <<vars, legacy, migration, extended>>, pc \notin Saving
  PROVE  GateInv'
BY PlaceMoves DEF GateFails, GateInv, MigrationTypeOK, GatePlaces, vars

LEMMA AuditStep ==
  ASSUME SettingsInv, GateInv, Audit
  PROVE  GateInv'
<1>1. pc \notin Saving /\ legacy \in Sources \cup {Absent} /\ next \in Marker \cup {Absent}
  BY DEF Audit, GateInv, SavesInv, MigrationTypeOK
<1>2. UNCHANGED <<journal, legacy, migration, extended>> /\ pc' \notin Saving
  BY <1>1 DEF Audit, histories, vars, Boot, Saving, Places
<1>3. at' \in GatePlaces \ {"slot", "head", "saving"} /\ next' \in Marker \cup {Absent}
  BY <1>1 DEF Audit, GateFails, GateGoes, GatePlaces
<1> QED
  BY <1>1, <1>2, <1>3, PlaceMoves

LEMMA ExecuteStep ==
  ASSUME SettingsInv, GateInv, Execute
  PROVE  GateInv'
<1>1. pc \notin Saving /\ legacy \in Sources \cup {Absent} /\ next \in Marker \cup {Absent}
  BY DEF Execute, GateInv, SavesInv, MigrationTypeOK
<1>2. UNCHANGED <<journal, legacy, migration, extended>> /\ pc' \notin Saving
  BY <1>1 DEF Execute, histories, vars
<1>3. CASE at' \notin {"slot", "head"}
  <2>1. at' \in GatePlaces \ {"slot", "head", "saving"} /\ next' \in Marker \cup {Absent}
    BY <1>1, <1>3 DEF Execute, GateFails, GatePlaces
  <2> QED BY <1>1, <1>2, <2>1, PlaceMoves
<1>4. CASE at' = "slot"
  <2>1. Plan = "start" /\ next' = FirstMarker
    BY <1>4 DEF Execute, GateFails
  <2> QED
    BY <1>1, <1>2, <1>4, <2>1, FirstMarkerFacts, PlaceMoves DEF GatePlaces
<1>5. CASE at' = "head"
  <2>1. Plan = "recover" /\ next' = migration.slot[1]
    BY <1>5 DEF Execute, GateFails
  <2>2. SlotOf(1) = 1
    BY DEF SlotOf
  <2> QED
    BY <1>1, <1>2, <1>5, <2>1, <2>2, RecoverFacts, PlaceMoves DEF GatePlaces
<1> QED
  BY <1>3, <1>4, <1>5

\* The slot written is not the one that is selected.
LEMMA WriteSlotStep ==
  ASSUME SettingsInv, GateInv, WriteSlot
  PROVE  GateInv'
<1>1. /\ pc \notin Saving /\ UNCHANGED <<vars, legacy, extended>> /\ Loaded' = Loaded
      /\ next \in Marker /\ next.seq = migration.head + 1
      /\ legacy \in Sources \cup {Absent} /\ migration.head \in Nat
      /\ Recorded(next) => Results(next)
  BY GateKeeps DEF WriteSlot, histories, GateInv, MarkersInv, SavesInv, MigrationTypeOK
<1>2. CASE UNCHANGED migration /\ at' \in {"failed", "refused"}
  <2>1. next' \in Marker \cup {Absent} /\ pc' = pc
    BY <1>1, <1>2 DEF WriteSlot, GateFails, GateGoes, vars
  <2> QED
    BY <1>1, <1>2, <2>1, PlaceMoves DEF GatePlaces, vars
<1>3. CASE migration' = [migration EXCEPT !.slot[SlotOf(next.seq)] = next]
  <2>1. /\ SlotOf(next.seq) \in Slots /\ SlotOf(migration.head) \in Slots
        /\ SlotOf(next.seq) # SlotOf(migration.head)
    BY <1>1, OtherSlot
  <2>2. /\ migration.slot \in [Slots -> Marker \cup {Absent}] /\ migration.initialized \in BOOLEAN
        /\ migration = [slot |-> migration.slot, head |-> migration.head,
                        initialized |-> migration.initialized]
    BY DEF GateInv, MigrationTypeOK
  <2>3. /\ migration'.slot = [migration.slot EXCEPT ![SlotOf(next.seq)] = next]
        /\ migration'.head = migration.head
        /\ migration' \in
             [slot : [Slots -> Marker \cup {Absent}], head : Nat, initialized : BOOLEAN]
    BY <1>1, <1>3, <2>1, <2>2
  <2>4. Selected(migration)' = Selected(migration) /\ migration'.slot[SlotOf(next.seq)] = next
    BY <2>1, <2>2, <2>3 DEF Selected
  <2>5. /\ at' \in {"failed", "refused", "head"} /\ (at' = "head" => next' = next)
        /\ next' \in Marker \cup {Absent} /\ pc' = pc
    BY <1>1 DEF WriteSlot, GateFails, GateGoes, vars
  <2>6. MigrationTypeOK'
    BY <1>1, <2>3, <2>5 DEF MigrationTypeOK, GatePlaces
  <2>7. MarkersInv'
    BY <1>1, <2>3, <2>4, <2>5 DEF GateInv, MarkersInv, Recorded, Results, Tells
  <2>8. SavesInv'
    BY <1>1, <2>5 DEF SavesInv
  <2> QED BY <2>6, <2>7, <2>8 DEF GateInv
<1> QED
  BY <1>2, <1>3 DEF WriteSlot, GateFails, GateGoes

\* The head moves to a marker that is in its slot, and tells the truth.
LEMMA WriteHeadStep ==
  ASSUME SettingsInv, GateInv, WriteHead
  PROVE  GateInv'
<1>1. /\ pc \notin Saving /\ UNCHANGED <<vars, legacy, extended>> /\ Loaded' = Loaded
      /\ next \in Marker /\ migration.slot[SlotOf(next.seq)] = next
      /\ legacy \in Sources \cup {Absent} /\ (Recorded(next) => Results(next))
  BY GateKeeps DEF WriteHead, histories, GateInv, MarkersInv, SavesInv, MigrationTypeOK
<1>2. CASE UNCHANGED migration /\ at' = "failed"
  <2>1. next' \in Marker \cup {Absent} /\ pc' = pc
    BY <1>1, <1>2 DEF WriteHead, GateFails, GateGoes, vars
  <2> QED
    BY <1>1, <1>2, <2>1, PlaceMoves DEF GatePlaces, vars
<1>3. CASE migration' = [migration EXCEPT !.head = next.seq]
  <2>1. next.seq \in Nat /\ next.seq # 0
    BY <1>1 DEF Marker
  <2>2. /\ migration'.slot = migration.slot /\ migration'.head = next.seq
        /\ migration' \in
             [slot : [Slots -> Marker \cup {Absent}], head : Nat, initialized : BOOLEAN]
    BY <1>3, <2>1 DEF GateInv, MigrationTypeOK
  <2>3. Selected(migration)' = next
    BY <1>1, <2>2 DEF Selected
  <2>4. at' \in {"failed", "initialized"} /\ next' \in Marker \cup {Absent} /\ pc' = pc
    BY <1>1 DEF WriteHead, GateFails, GateGoes, vars
  <2>5. MigrationTypeOK'
    BY <1>1, <2>2, <2>4 DEF MigrationTypeOK, GatePlaces
  <2>6. MarkersInv'
    <3>1. next.seq = migration'.head /\ (Recorded(next) => Tells(next))
      BY <1>1, <2>2 DEF Results, Tells
    <3>2. at' \notin {"slot", "head"}
      BY <2>4
    <3> QED BY <1>1, <2>3, <3>1, <3>2 DEF MarkersInv, Recorded, Tells
  <2>7. SavesInv'
    BY <1>1, <2>4 DEF SavesInv
  <2> QED BY <2>5, <2>6, <2>7 DEF GateInv
<1> QED
  BY <1>2, <1>3 DEF WriteHead, GateFails, GateGoes

LEMMA WriteInitializedStep ==
  ASSUME SettingsInv, GateInv, WriteInitialized
  PROVE  GateInv'
<1>1. /\ pc \notin Saving /\ UNCHANGED <<vars, legacy, extended>> /\ Loaded' = Loaded
      /\ legacy \in Sources \cup {Absent}
  BY GateKeeps DEF WriteInitialized, histories, GateInv, SavesInv, MigrationTypeOK
<1>2. at' \in {"failed", "advance"} /\ next' \in Marker \cup {Absent} /\ pc' = pc
  BY <1>1 DEF WriteInitialized, GateFails, vars
<1>3. CASE UNCHANGED migration
  BY <1>1, <1>2, <1>3, PlaceMoves DEF GatePlaces, vars
<1>4. CASE migration' = [migration EXCEPT !.initialized = TRUE]
  <2>1. /\ migration'.slot = migration.slot /\ migration'.head = migration.head
        /\ migration' \in
             [slot : [Slots -> Marker \cup {Absent}], head : Nat, initialized : BOOLEAN]
    BY <1>4 DEF GateInv, MigrationTypeOK
  <2>2. Selected(migration)' = Selected(migration)
    BY <2>1 DEF Selected
  <2>3. MigrationTypeOK'
    BY <1>1, <1>2, <2>1 DEF MigrationTypeOK, GatePlaces
  <2>4. MarkersInv'
    BY <1>1, <1>2, <2>1, <2>2 DEF GateInv, MarkersInv, Recorded, Tells
  <2>5. SavesInv'
    BY <1>1, <1>2 DEF SavesInv
  <2> QED BY <2>3, <2>4, <2>5 DEF GateInv
<1> QED
  BY <1>3, <1>4 DEF WriteInitialized

\* A phase is recorded over settings just seen; an import begins only while the
\* first is.
LEMMA AdvanceStep ==
  ASSUME SettingsInv, GateInv, Advance
  PROVE  GateInv'
<1>1. /\ at = "advance" /\ pc \notin Saving /\ UNCHANGED <<legacy, migration, extended>>
      /\ legacy \in Sources \cup {Absent} /\ next \in Marker \cup {Absent}
  BY DEF Advance, GateInv, SavesInv, MigrationTypeOK
<1>2. CASE GateFails /\ UNCHANGED vars
  BY <1>1, <1>2, FailingStep
<1>3. CASE at' \in {"refused", "start"} /\ UNCHANGED <<vars, next>>
  BY <1>1, <1>3, PlaceMoves DEF GatePlaces, vars
<1>4. CASE /\ Plan = "resume" /\ IsResult(Committed)
           /\ at' = "slot" /\ next' = NextMarker /\ UNCHANGED vars
  BY <1>1, <1>4, ResumeFacts, NextMarkerFacts, PlaceMoves DEF GatePlaces, vars
<1>5. CASE /\ Plan = "resume" /\ ~IsResult(Committed) /\ at' = "saving"
           /\ \E f \in Forces : Apply(Source, f)
           /\ UNCHANGED next
  <2>1. UNCHANGED journal /\ Loaded' = Loaded
    <3>1. UNCHANGED journal
      BY <1>5 DEF Apply
    <3> QED BY <3>1, JournalKept DEF SettingsInv
  <2>2. Committed \in Marker /\ Committed.print = legacy /\ ~Recorded(Committed)
    BY <1>5, ResumeFacts DEF CanResume, Recorded
  <2>3. Committed' = Committed /\ Selected(migration)' = Selected(migration)
    BY <1>1 DEF Committed, Selected
  <2>4. MigrationTypeOK'
    BY <1>1, <1>5 DEF GateInv, MigrationTypeOK, GatePlaces
  <2>5. MarkersInv'
    BY <1>1, <1>5, <2>1, <2>3 DEF GateInv, MarkersInv, Recorded, Tells
  <2>6. SavesInv'
    BY <1>1, <1>5, <2>2, <2>3 DEF SavesInv, Recorded
  <2> QED BY <2>4, <2>5, <2>6 DEF GateInv
<1> QED
  <2>1. \A b \in BOOLEAN : [main |-> ~b, ext |-> TRUE] \in Forces
    BY DEF Forces
  <2> QED BY <1>2, <1>3, <1>4, <1>5, <2>1 DEF Advance, GateGoes

LEMMA SavedStep ==
  ASSUME SettingsInv, GateInv, Saved
  PROVE  GateInv'
<1>1. /\ at = "saving" /\ pc = "idle" /\ pc \notin Saving
      /\ UNCHANGED <<vars, legacy, migration, extended>>
      /\ legacy \in Sources \cup {Absent} /\ next \in Marker \cup {Absent}
  BY DEF Saved, histories, GateInv, MigrationTypeOK, Saving
<1>2. CASE at' = "slot"
  <2>1. next' = NextMarker /\ IsResult(Committed)
    BY <1>2 DEF Saved, GateFails
  <2>2. /\ Committed \in Marker /\ ~Recorded(Committed) /\ Committed.print = legacy
        /\ Committed.phase # Complete /\ Committed # Absent /\ Committed # Corrupt
    BY <1>1, MarkersAssumption DEF GateInv, SavesInv, Recorded, Preparing, Complete
  <2> QED
    BY <1>1, <1>2, <2>1, <2>2, NextMarkerFacts, PlaceMoves DEF GatePlaces, vars
<1>3. CASE at' # "slot"
  <2>1. at' = "failed" /\ next' \in Marker \cup {Absent}
    BY <1>1, <1>3 DEF Saved, GateFails
  <2> QED BY <1>1, <2>1, PlaceMoves DEF GatePlaces, vars
<1> QED
  BY <1>2, <1>3

LEMMA RestSteps ==
  ASSUME SettingsInv, GateInv, StartOwner \/ PowerOff \/ ArduinoChanges
  PROVE  GateInv'
<1>1. legacy \in Sources \cup {Absent} /\ next \in Marker \cup {Absent} /\ at \in GatePlaces
  BY DEF GateInv, MigrationTypeOK
<1>2. CASE StartOwner
  <2>1. pc \notin Saving /\ UNCHANGED <<vars, legacy, migration, extended>>
    BY <1>2 DEF StartOwner, histories, GateInv, SavesInv
  <2>2. at' \in {"failed", "running"} /\ next' \in Marker \cup {Absent}
    BY <1>1, <1>2 DEF StartOwner, GateFails
  <2> QED BY <1>1, <2>1, <2>2, PlaceMoves DEF GatePlaces, vars
<1>3. CASE PowerOff
  <2>1. pc' \notin Saving /\ UNCHANGED <<journal, legacy, migration, extended>>
    BY <1>3 DEF PowerOff, PowerCut, histories, Saving, vars
  <2> QED BY <1>1, <1>3, <2>1, PlaceMoves DEF PowerOff, GatePlaces
<1>4. CASE ArduinoChanges
  <2>1. /\ at = "off" /\ at' = at /\ next' = next
        /\ UNCHANGED <<vars, migration, extended>> /\ legacy' \in Sources \cup {Absent}
    BY <1>4 DEF ArduinoChanges, gate
  <2>2. pc \notin Saving
    BY <2>1 DEF GateInv, SavesInv
  <2> QED BY <1>1, <2>1, <2>2, PlaceMoves DEF GatePlaces, vars
<1> QED
  BY <1>2, <1>3, <1>4

-----------------------------------------------------------------------------
(* The saves, the gate's and the user's. *)

SaveAction ==
  \/ PrepareExtension \/ PrepareMain
  \/ SelectMain \/ SetMarker \/ CheckMain
  \/ PublishExtension \/ CheckExtension
  \/ ReloadFailed \/ Verify

LEMMA PreparedKeeps ==
  ASSUME NEW R, NEW top \in Nat, NEW j \in Journal(R, top), NEW r
  PROVE  LET k == Prepared(j, j.head + 1, r) IN k.head = j.head /\ Selected(k) = Selected(j)
BY OtherSlot DEF Journal, Prepared, Selected, Slots

\* What a boot would load changes with the heads only.
LEMMA SameHeads ==
  ASSUME TypeOK, JournalInv, UNCHANGED <<main.head, ext.head>>,
         Selected(main)' = Selected(main), Selected(ext)' = Selected(ext),
         UNCHANGED marker \/ main.head # 0
  PROVE  Loaded' = Loaded /\ ExtCommitted' = ExtCommitted
<1>1. MainLoaded' = MainLoaded /\ ExtCommitted' = ExtCommitted
  BY DEF MainLoaded, ExtCommitted
<1> QED
  BY <1>1, LoadedStays

\* A step of a save keeps its base; and changes nothing a boot would load, or
\* moves the main head to the next generation, or the extension's when the main
\* record has moved if it was to.
LEMMA SaveMoves ==
  ASSUME SettingsInv, SaveAction
  PROVE  /\ pc \in Saving
         /\ op'.base = op.base /\ op'.force = op.force /\ op'.values = op.values
         /\ \/ /\ UNCHANGED <<main.head, ext.head>>
               /\ Loaded' = Loaded /\ ExtCommitted' = ExtCommitted
            \/ main'.head = main.head + 1
            \/ /\ main'.head = main.head /\ ext'.head # ext.head
               /\ MainMoves => main.head = op.base.gen + 1
<1>1. TypeOK /\ JournalInv /\ pc \in Saving /\ MaxGeneration \in Nat /\ MaxSequence \in Nat
  BY BoundsAssumption
     DEF SettingsInv, SaveAction, PrepareExtension, PrepareMain, SelectMain, SetMarker, CheckMain,
         PublishExtension, CheckExtension, ReloadFailed, Verify, Saving, Places
<1>2. /\ op \in Operation /\ Loaded.gen = main.head /\ main.head \in Nat /\ ext.head \in Nat
      /\ main \in Journal(MainRecord, MaxGeneration) /\ ext \in Journal(ExtRecord, MaxSequence)
  BY <1>1, OperationFacts, LoadedFacts DEF TypeOK, Journal
<1>3. CASE PrepareExtension
  <2> DEFINE r == [seq |-> ext.head + 1, gen |-> Target, ext |-> op.values.ext]
  <2>1. op' = op \/ op' = [op EXCEPT !.prepared = r]
    BY <1>3 DEF PrepareExtension
  <2>2. op'.base = op.base /\ op'.force = op.force /\ op'.values = op.values
    BY <1>2, <2>1 DEF Operation
  <2>3. ext' \in {ext, Prepared(ext, ext.head + 1, r)} /\ UNCHANGED <<main, marker>>
    BY <1>3 DEF PrepareExtension
  <2>4. ext'.head = ext.head /\ Selected(ext)' = Selected(ext)
    BY <1>1, <1>2, <2>3, PreparedKeeps DEF Selected
  <2>5. Selected(main)' = Selected(main)
    BY <2>3 DEF Selected
  <2> QED BY <1>1, <2>2, <2>3, <2>4, <2>5, SameHeads
<1>4. CASE PrepareMain
  <2>1. main' \in {main, Prepared(main, MainTarget.gen, MainTarget)}
        /\ UNCHANGED <<ext, marker, op>>
    BY <1>4 DEF PrepareMain
  <2>2. MainTarget.gen = main.head + 1
    BY <1>2, <1>4 DEF PrepareMain, SettingsInv, SaveInv, MainTarget, Old
  <2>3. main'.head = main.head /\ Selected(main)' = Selected(main)
    BY <1>1, <1>2, <2>1, <2>2, PreparedKeeps DEF Selected
  <2>4. Selected(ext)' = Selected(ext)
    BY <2>1 DEF Selected
  <2> QED BY <1>1, <2>1, <2>3, <2>4, SameHeads
<1>5. CASE UNCHANGED <<journal, op>>
  BY <1>1, <1>5, JournalKept DEF journal
<1>6. CASE SelectMain
  <2>1. MainTarget.gen = main.head + 1
    BY <1>2, <1>6 DEF SelectMain, SettingsInv, SaveInv, MainTarget, Old
  <2>2. CASE UNCHANGED main
    BY <1>5, <1>6, <2>2 DEF SelectMain, Go, journal
  <2>3. CASE main' = [main EXCEPT !.head = MainTarget.gen]
    BY <1>1, <1>2, <1>6, <2>1, <2>3 DEF SelectMain, Go, Journal
  <2> QED BY <1>6, <2>2, <2>3 DEF SelectMain
<1>7. CASE SetMarker
  <2>1. MainLoaded = MainTarget /\ UNCHANGED <<main, ext, op>>
    BY <1>7 DEF SetMarker, SettingsInv, SaveInv, Go
  <2>2. main.head # 0
    BY <1>1, <1>2, <2>1, LoadedParts, OperationFacts DEF SettingsInv, MainTarget
  <2>3. Selected(main)' = Selected(main) /\ Selected(ext)' = Selected(ext)
    BY <2>1 DEF Selected
  <2> QED BY <1>1, <2>1, <2>2, <2>3, SameHeads
<1>8. CASE PublishExtension
  <2>1. UNCHANGED <<main, marker, op>>
    BY <1>8 DEF PublishExtension, Go
  <2>2. MainMoves => main.head = op.base.gen + 1
    BY <1>2, <1>8 DEF PublishExtension, SettingsInv, SaveInv, Half
  <2>3. CASE UNCHANGED ext
    BY <1>5, <2>1, <2>3 DEF journal
  <2>4. CASE ext' = [ext EXCEPT !.head = op.prepared.seq]
    <3>1. op.prepared.seq = ext.head + 1
      BY <1>8 DEF PublishExtension, SettingsInv, SaveInv, HasPrepared
    <3>2. ext'.head # ext.head
      BY <1>2, <2>4, <3>1 DEF Journal
    <3> QED BY <1>1, <2>1, <2>2, <3>2
  <2> QED BY <1>8, <2>3, <2>4 DEF PublishExtension
<1> QED
  BY <1>3, <1>4, <1>5, <1>6, <1>7, <1>8
     DEF SaveAction, CheckMain, CheckExtension, ReloadFailed, Verify, Go

\* The generation is the main head.
LEMMA LoadedHead == SettingsInv => Loaded.gen = main.head
BY LoadedFacts DEF SettingsInv

LEMMA LoadedHeadNext == (SettingsInv => Loaded.gen = main.head)'
BY LoadedHead, PTL

LEMMA SaveStepStep ==
  ASSUME SettingsInv, SettingsInv', GateInv, SaveStep
  PROVE  GateInv'
<1>1. SaveAction /\ at \in {"saving", "running"} /\ UNCHANGED <<legacy, migration, gate>>
  BY DEF SaveStep, SaveAction
<1>2. MigrationTypeOK' /\ at' = at /\ Committed' = Committed
      /\ Selected(migration)' = Selected(migration)
  BY <1>1 DEF GateInv, MigrationTypeOK, gate, Committed, Selected
<1>3. CASE migration.head # 0 /\ Recorded(Selected(migration))
  <2> DEFINE s == Selected(migration)
  <2>1. s \in Marker /\ s.seq = migration.head /\ Tells(s) /\ s.gen \in Nat
    BY <1>3 DEF GateInv, MarkersInv, Marker
  <2>2. at = "running"
    BY <1>1, <1>3, CommittedFacts, MarkersAssumption DEF GateInv, SavesInv
  <2>3. op.base.gen >= s.gen /\ pc \in Saving /\ op'.base = op.base
    BY <1>1, <1>3, <2>2, SaveMoves DEF GateInv, SavesInv
  <2>4. /\ Loaded.gen = main.head /\ Loaded'.gen = main'.head
        /\ main.head \in Nat /\ op.base.gen \in Nat
    BY <2>3, LoadedHead, LoadedHeadNext, OperationFacts DEF SettingsInv, TypeOK, Journal
  <2>5. main.head >= s.gen
    BY <2>1, <2>4 DEF Tells
  <2>6. \/ Loaded'.gen > s.gen
        \/ Loaded'.gen = s.gen /\ (extended' \/ Loaded'.values = SourceValues[s.print])
    <3>1. CASE UNCHANGED <<main.head, ext.head>> /\ Loaded' = Loaded
      <4>1. extended' = extended
        BY <3>1 DEF SaveStep
      <4> QED BY <2>1, <3>1, <4>1 DEF Tells
    <3>2. CASE main'.head = main.head + 1
      BY <2>1, <2>4, <2>5, <3>2
    <3>3. CASE /\ main'.head = main.head /\ ext'.head # ext.head
               /\ MainMoves => main.head = op.base.gen + 1
      <4>1. CASE MainMoves
        BY <2>1, <2>3, <2>4, <3>3, <4>1
      <4>2. CASE ~MainMoves
        <5>1. extended'
          BY <2>2, <3>3, <4>2 DEF SaveStep
        <5> QED BY <2>1, <2>4, <2>5, <3>3, <5>1
      <4> QED BY <4>1, <4>2
    <3> QED BY <1>1, <3>1, <3>2, <3>3, SaveMoves
  <2>7. MarkersInv'
    <3>1. migration'.head = migration.head /\ at' \notin {"slot", "head"}
      BY <1>1, <1>2, <2>2
    <3> QED BY <1>2, <2>1, <2>6, <3>1 DEF MarkersInv, Tells
  <2>8. SavesInv'
    BY <1>1, <1>2, <2>2, <2>3 DEF SavesInv
  <2> QED BY <1>2, <2>7, <2>8 DEF GateInv
<1>4. CASE migration.head = 0 \/ ~Recorded(Selected(migration))
  <2>1. migration'.head = migration.head /\ legacy' = legacy
    BY <1>1
  <2>2. MarkersInv'
    BY <1>1, <1>2, <1>4, <2>1 DEF GateInv, MarkersInv, Recorded
  <2>3. SavesInv'
    BY <1>1, <1>2, <1>4, <2>1 DEF GateInv, SavesInv, Recorded
  <2> QED BY <1>2, <2>2, <2>3 DEF GateInv
<1> QED
  BY <1>3, <1>4

\* A save of the user's starts from settings that are the marker's, or newer.
LEMMA UserSavesStep ==
  ASSUME SettingsInv, GateInv, NEW v \in DeviceSettings, UserSaves(v)
  PROVE  GateInv'
<1>1. /\ at = "running" /\ UNCHANGED <<journal, legacy, migration, gate, extended>>
      /\ op'.base = Loaded
  BY DEF UserSaves, Apply, histories
<1>2. MigrationTypeOK' /\ at' = at /\ Selected(migration)' = Selected(migration)
  BY <1>1 DEF GateInv, MigrationTypeOK, gate, Selected
<1>3. Loaded' = Loaded /\ Loaded.gen \in Nat
  BY <1>1, JournalKept, LoadedFacts, BoundsAssumption DEF SettingsInv, Snapshot
<1>4. MarkersInv'
  BY <1>1, <1>2, <1>3 DEF GateInv, MarkersInv, Recorded, Tells
<1>5. migration.head # 0 /\ Recorded(Selected(migration)) =>
        Loaded.gen >= Selected(migration).gen
  BY <1>3 DEF GateInv, MarkersInv, Tells, Marker
<1>6. SavesInv'
  BY <1>1, <1>2, <1>5 DEF SavesInv, Recorded
<1> QED
  BY <1>2, <1>4, <1>6 DEF GateInv

LEMMA Beta27GateStep ==
  ASSUME SettingsInv, SettingsInv', GateInv, Beta27
  PROVE  GateInv'
<1>1. /\ at = "off" /\ UNCHANGED <<legacy, migration, gate>> /\ pc \notin Saving
      /\ \E m \in MainValues : Beta27Saves(m)
  BY DEF Beta27, GateInv, SavesInv
<1>2. MigrationTypeOK' /\ at' = at /\ Selected(migration)' = Selected(migration)
  BY <1>1 DEF GateInv, MigrationTypeOK, gate, Selected
<1>3. main'.head = main.head + 1 /\ pc' = pc
  BY <1>1 DEF Beta27Saves, SettingsInv, TypeOK, Journal, Prepared
<1>4. Loaded.gen = main.head /\ Loaded'.gen = main.head + 1 /\ main.head \in Nat
  BY <1>3, LoadedHead, LoadedHeadNext, BoundsAssumption DEF SettingsInv, TypeOK, Journal
<1>5. migration.head # 0 /\ Recorded(Selected(migration)) =>
        Loaded'.gen > Selected(migration).gen
  BY <1>4 DEF GateInv, MarkersInv, Tells, Marker
<1>6. MarkersInv'
  BY <1>1, <1>2, <1>5 DEF GateInv, MarkersInv, Recorded, Tells
<1>7. SavesInv'
  BY <1>1, <1>2, <1>3 DEF SavesInv
<1> QED
  BY <1>2, <1>6, <1>7 DEF GateInv

LEMMA GateStutters ==
  ASSUME GateInv, UNCHANGED mvars
  PROVE  GateInv'
<1>1. UNCHANGED <<vars, legacy, migration, at, next, extended>> /\ Loaded' = Loaded
      /\ UNCHANGED <<pc, op>>
  BY GateKeeps DEF mvars, gate, histories
<1>2. Committed' = Committed /\ Selected(migration)' = Selected(migration)
  BY <1>1 DEF Committed, Selected
<1> QED
  BY <1>1, <1>2
     DEF GateInv, MigrationTypeOK, MarkersInv, SavesInv, Recorded, Results, Tells

-----------------------------------------------------------------------------
(* The theorems of the migration *)

LEMMA MigrationStarts == MInit => SettingsInv /\ GateInv
<1> SUFFICES ASSUME MInit PROVE SettingsInv /\ GateInv
  OBVIOUS
<1>1. SettingsInv
  BY StartsRight DEF MInit
<1>2. GateInv
  BY DEF MInit, Init, GateInv, MigrationTypeOK, MarkersInv, SavesInv, GatePlaces, Saving, Slots
<1> QED
  BY <1>1, <1>2

\* The inductive invariant of the settings over many boots: that of the
\* settings, and what the gate's journal and its place say of them.
THEOREM MigrationInductive == MSpec => [](SettingsInv /\ GateInv)
<1>1. SettingsInv /\ GateInv /\ [MNext]_mvars => SettingsInv' /\ GateInv'
  <2> SUFFICES ASSUME SettingsInv, GateInv, [MNext]_mvars
               PROVE  SettingsInv' /\ GateInv'
    OBVIOUS
  <2>1. SettingsInv'
    BY MigrationStepRefines, SettingsStep
  <2>2. GateInv'
    BY <2>1, AuditStep, ExecuteStep, WriteSlotStep, WriteHeadStep, WriteInitializedStep,
       AdvanceStep, SavedStep, RestSteps, UserSavesStep, SaveStepStep, Beta27GateStep,
       GateStutters DEF MNext
  <2> QED BY <2>1, <2>2
<1> QED
  BY <1>1, MigrationStarts, PTL DEF MSpec

\* Over many boots, with the gate's imports among the user's saves and older
\* firmwares in between, the settings do nothing that SettingsJournal does not
\* allow: its theorems hold of the whole.
THEOREM MigrationRefinesSettings == MSpec => Spec
<1>1. MInit => Init
  BY DEF MInit
<1>2. GateInv /\ [MNext]_mvars => [Next]_vars
  BY MigrationStepRefines
<1> QED
  BY <1>1, <1>2, MigrationInductive, PTL DEF MSpec, Spec

\* Wherever the migration was cut, a phase that is on record is true of the
\* settings a boot would load.
THEOREM PhaseTellsHolds == MSpec => []PhaseTells
<1>1. GateInv => PhaseTells
  <2> SUFFICES ASSUME GateInv, Committed # Absent, Committed # Corrupt,
                      Committed.phase # Preparing
               PROVE  Tells(Committed)
    BY DEF PhaseTells, Tells
  <2> QED BY CommittedFacts DEF GateInv, MarkersInv, Recorded
<1> QED
  BY <1>1, MigrationInductive, PTL

-----------------------------------------------------------------------------
(* What a boot finds of a migration that was cut.                          *)
(*                                                                         *)
(* The argument: a marker is committed over settings its migration can go  *)
(* on from (NextReady), and stays so while nothing but the gate moves      *)
(* them; once the last phase is recorded, the settings are the marker's    *)
(* or newer, and the extension was written for them (WireTells).           *)

\* The first marker a device ever commits.
First(m) == m.seq = 1 /\ ~Recorded(m)

\* The "initialized" key is written once, after the first marker and its head.
Shape ==
  /\ migration.initialized => migration.head # 0
  /\ ~migration.initialized =>
       /\ migration.head \in {0, 1} /\ migration.slot[0] = Absent
       /\ migration.slot[1] # Absent => First(migration.slot[1])

\* The settings are those m was made over, or made from.
Ready(m) ==
  IF Recorded(m) THEN IsResult(m)
  ELSE IF m.seq = 1 THEN CanResumePrepared(m) ELSE CanResumeRollover(m)

NextReady ==
  /\ at = "slot" => TransitionAllowed
  /\ at = "head" => IF migration.initialized THEN next.seq # 1 ELSE First(next)
  /\ at = "initialized" => migration.head # 0 /\ next = Selected(migration)
  /\ at \in {"slot", "head"} => Ready(next)
  /\ at \in {"slot", "head", "initialized"} => next.print = legacy /\ turn < next.phase

\* Unless an old firmware ran in between, a migration under way can go on.
GoesOnFrom ==
  ~crossed =>
    /\ ~migration.initialized /\ migration.slot[1] # Absent =>
         migration.slot[1].print = legacy /\ CanResumePrepared(migration.slot[1])
    /\ migration.initialized /\ Selected(migration).phase # Complete =>
         Selected(migration).print = legacy /\ CanResume(Selected(migration))

\* Recorded settings that nobody has replaced were written with their extension.
WireTells ==
  migration.head # 0 /\ Recorded(Selected(migration)) /\ Loaded.gen = Selected(migration).gen =>
    WireAuthority(Selected(migration))

\* What the gate has read in this boot still holds.
PlaceInv ==
  /\ turn \in Nat /\ (at \in {"off", "audited"} => turn = 0)
  /\ at = "audited" => plan = Plan /\ plan # "refused"
  /\ at \in {"advance", "saving"} =>
       Committed \in Marker /\ Committed.print = legacy /\ turn < Committed.phase
  /\ at = "saving" /\ pc \in Saving => op.values = Source /\ Target = Committed.gen
  /\ at \in {"start", "running"} => ~UnderWay

ResumeInv ==
  Shape /\ NextReady /\ GoesOnFrom /\ WireTells /\ PlaceInv /\ RefusedOnlyIfDisturbed

-----------------------------------------------------------------------------
(* What the gate reads, and when it reads the same. *)

\* A committed marker, by the journal.
LEMMA CommittedIs ==
  ASSUME GateInv, Shape
  PROVE  /\ migration.initialized => Committed = Selected(migration) /\ Committed \in Marker
         /\ ~migration.initialized => Committed = Absent \/ Committed = Corrupt
         /\ Committed = Corrupt =>
              /\ ~migration.initialized /\ migration.head \in {0, 1}
              /\ migration.slot[0] = Absent /\ migration.slot[1] \in Marker
         /\ Committed = Absent =>
              /\ ~migration.initialized /\ migration.head = 0
              /\ \A s \in Slots : migration.slot[s] = Absent
<1>1. /\ migration.head # 0 => Selected(migration) \in Marker
                               /\ Selected(migration).seq = migration.head
      /\ migration.slot \in [Slots -> Marker \cup {Absent}]
      /\ Absent \notin Marker /\ Corrupt \notin Marker /\ Absent # Corrupt
  BY MarkersAssumption, MarksAssumption DEF GateInv, MarkersInv, MigrationTypeOK
<1>2. ASSUME migration.initialized
      PROVE  Committed = Selected(migration) /\ Committed \in Marker
  BY <1>1, <1>2 DEF Committed, Shape
<1>3. ASSUME ~migration.initialized
      PROVE  Committed = Absent \/ Committed = Corrupt
  BY <1>3 DEF Committed
<1>4. ASSUME Committed = Corrupt
      PROVE  /\ ~migration.initialized /\ migration.head \in {0, 1}
             /\ migration.slot[0] = Absent /\ migration.slot[1] \in Marker
  <2>1. ~migration.initialized
    BY <1>1, <1>2, <1>4
  <2>2. migration.head \in {0, 1} /\ migration.slot[0] = Absent
    BY <2>1 DEF Shape
  <2>3. migration.slot[1] \in Marker
    <3>1. CASE migration.head = 1
      BY <1>1, <3>1 DEF Selected, SlotOf
    <3>2. CASE migration.head = 0
      BY <1>1, <1>4, <2>1, <2>2, <3>2 DEF Committed, Slots
    <3> QED BY <2>2, <3>1, <3>2
  <2> QED BY <2>1, <2>2, <2>3
<1>5. ASSUME Committed = Absent
      PROVE  /\ ~migration.initialized /\ migration.head = 0
             /\ \A s \in Slots : migration.slot[s] = Absent
  BY <1>1, <1>5 DEF Committed
<1> QED
  BY <1>2, <1>3, <1>4, <1>5

\* What is read of the settings and of the two slots decides everything else.
LEMMA ReadsStay ==
  ASSUME Loaded' = Loaded, ExtCommitted' = ExtCommitted, UNCHANGED <<migration, legacy>>
  PROVE  Committed' = Committed /\ Plan' = Plan /\ UnderWay' = UnderWay
<1>1. Committed' = Committed
  BY DEF Committed, Selected
<1> QED
  BY <1>1
     DEF UnderWay, Plan, PlanTorn, PlanUnmarked, PlanChanged, PlanMarked, CanResume,
         CanResumePrepared, CanResumeRollover, CompletedBase, MatchesHistorical, Historical,
         HasMainProjection, IsResult, IsCompatibleResult, WireAuthority, Source

LEMMA MarkersStay ==
  ASSUME Loaded' = Loaded, ExtCommitted' = ExtCommitted, UNCHANGED legacy, NEW m,
         migration'.slot[SlotOf(m.seq + 1)] = migration.slot[SlotOf(m.seq + 1)]
  PROVE  /\ CanResumePrepared(m)' <=> CanResumePrepared(m)
         /\ CanResumeRollover(m)' <=> CanResumeRollover(m)
         /\ CanResume(m)' <=> CanResume(m)
         /\ WireAuthority(m)' <=> WireAuthority(m)
         /\ IsResult(m)' <=> IsResult(m)
         /\ Ready(m)' <=> Ready(m)
BY DEF Ready, Recorded, CanResume, CanResumePrepared, CanResumeRollover, CompletedBase, Historical,
       MatchesHistorical, HasMainProjection, IsResult, IsCompatibleResult, WireAuthority, Source

\* A step that changes nothing a boot reads.
LEMMA BootReadsStay ==
  ASSUME ResumeInv, Loaded' = Loaded, ExtCommitted' = ExtCommitted,
         UNCHANGED <<migration, legacy>>, ~crossed' => ~crossed
  PROVE  Shape' /\ GoesOnFrom' /\ WireTells'
<1>1. Shape' /\ Selected(migration)' = Selected(migration)
  BY DEF ResumeInv, Shape, First, Recorded, Selected
<1>2. GoesOnFrom'
  BY <1>1, MarkersStay DEF ResumeInv, GoesOnFrom
<1>3. WireTells'
  BY <1>1, MarkersStay DEF ResumeInv, WireTells, Recorded
<1> QED
  BY <1>1, <1>2, <1>3

-----------------------------------------------------------------------------
(* The gate does not refuse an undisturbed device. *)

LEMMA PlanGoesOn ==
  ASSUME SettingsInv, GateInv, ResumeInv, ~crossed, ~extended
  PROVE  Plan # "refused"
<1>1. Shape /\ GoesOnFrom /\ WireTells
  BY DEF ResumeInv
<1>2. CASE Committed = Corrupt
  <2> DEFINE m == migration.slot[1]
  <2>1. /\ ~migration.initialized /\ migration.head \in {0, 1}
        /\ migration.slot[0] = Absent /\ m \in Marker /\ m # Absent
    BY <1>1, <1>2, CommittedIs, MarkersAssumption
  <2>2. First(m) /\ m.print = legacy /\ CanResumePrepared(m)
    BY <1>1, <2>1 DEF Shape, GoesOnFrom
  <2>3. legacy # Absent
    BY <2>1, <2>2, SourcesAssumption DEF Marker
  <2>4. PlanTorn = "recover"
    BY <2>1, <2>2, <2>3 DEF PlanTorn, First, Recorded
  <2> QED BY <1>2, <2>4, MarksAssumption DEF Plan
<1>3. CASE Committed = Absent
  BY <1>3, MarksAssumption DEF Plan, PlanUnmarked
<1>4. CASE Committed # Corrupt /\ Committed # Absent
  <2> DEFINE m == Committed
  <2>1. /\ migration.initialized /\ m = Selected(migration) /\ m \in Marker /\ migration.head # 0
    BY <1>1, <1>4, CommittedIs, CommittedFacts
  <2>2. Recorded(m) => Tells(m)
    BY <2>1 DEF GateInv, MarkersInv
  <2>3. /\ m.gen \in Nat /\ Loaded.gen \in Nat /\ Loaded.gen <= MaxGeneration
        /\ Preparing # Complete
    BY <2>1, LoadedFacts, BoundsAssumption
       DEF SettingsInv, Snapshot, Marker, Preparing, Complete
  <2>4. CASE m.phase = Complete
    <3>1. Loaded.gen > m.gen \/ (Loaded.gen = m.gen /\ Loaded.values = SourceValues[m.print])
      BY <2>2, <2>3, <2>4 DEF Tells, Recorded
    <3>2. Loaded.gen = m.gen => WireAuthority(m)
      BY <1>1, <2>1, <2>3, <2>4 DEF WireTells, Recorded
    <3>3. CASE m.print = legacy
      <4>1. Loaded.gen > m.gen \/ IsCompatibleResult(m)
        BY <3>1, <3>2, <3>3 DEF IsCompatibleResult, Source
      <4> QED BY <1>4, <2>4, <3>3, <4>1 DEF Plan, PlanMarked
    <3>4. CASE m.print # legacy
      <4>1. ~(Loaded.gen < m.gen)
        BY <2>3, <3>1
      <4>2. ~(Loaded.gen > m.gen) /\ m.gen # MaxGeneration => CompletedBase(m)
        BY <2>3, <2>4, <3>1, <3>2, BoundsAssumption DEF CompletedBase
      <4> QED BY <1>4, <2>4, <3>4, <4>1, <4>2 DEF Plan, PlanChanged
    <3> QED BY <3>3, <3>4
  <2>5. CASE m.phase # Complete
    <3>1. m.print = legacy /\ CanResume(m)
      BY <1>1, <2>1, <2>5 DEF GoesOnFrom
    <3> QED BY <1>4, <2>5, <3>1 DEF Plan, PlanMarked
  <2> QED BY <2>4, <2>5
<1> QED
  BY <1>2, <1>3, <1>4

\* What each plan tells.
LEMMA StartPlans ==
  ASSUME GateInv, Shape, Plan = "start"
  PROVE  \/ /\ Committed = Absent /\ legacy # Absent /\ (Loaded.gen = 0 \/ MatchesHistorical)
         \/ /\ Committed # Absent /\ Committed # Corrupt
            /\ Committed = Selected(migration) /\ migration.initialized
            /\ Committed.print # legacy /\ CompletedBase(Committed)
<1>1. Committed # Corrupt
  BY MarksAssumption DEF Plan, PlanTorn
<1>2. CASE Committed = Absent
  BY <1>1, <1>2 DEF Plan, PlanUnmarked
<1>3. CASE Committed # Absent
  <2>1. Committed.print # legacy
    BY <1>1, <1>3 DEF Plan, PlanMarked
  <2> QED BY <1>1, <1>3, <2>1, CommittedIs DEF Plan, PlanChanged
<1> QED
  BY <1>2, <1>3

LEMMA RecoverPlan ==
  ASSUME GateInv, Shape, Plan = "recover"
  PROVE  /\ ~migration.initialized
         /\ migration.slot[1] \in Marker /\ First(migration.slot[1])
         /\ migration.slot[1].print = legacy /\ CanResumePrepared(migration.slot[1])
<1>1. Committed = Corrupt
  BY DEF Plan, PlanUnmarked, PlanMarked, PlanChanged
<1> QED
  BY <1>1, CommittedIs, MarksAssumption DEF Plan, PlanTorn, First, Recorded

\* A plan that starts the product leaves no migration under way.
LEMMA ProductPlans ==
  ASSUME Plan \in {"fresh", "native", "complete"}
  PROVE  ~UnderWay
<1>1. Committed # Corrupt
  BY MarksAssumption DEF Plan, PlanTorn
<1>2. Committed = Absent \/ Committed.phase = Complete
  BY <1>1 DEF Plan, PlanMarked, PlanChanged
<1> QED
  BY <1>1, <1>2 DEF UnderWay

\* With the marker's source there, a boot may only finish what is under way.
LEMMA MarkedPlans ==
  ASSUME Committed \in Marker, Committed.print = legacy
  PROVE  /\ Plan \in {"complete", "resume", "refused"}
         /\ Plan = "complete" => ~UnderWay
         /\ Plan = "resume" => Committed.phase # Complete /\ CanResume(Committed)
BY MarkersAssumption DEF Plan, PlanMarked, UnderWay

-----------------------------------------------------------------------------
(* The steps of the gate, again. *)

\* A step to a place of which nothing more is claimed.
LEMMA QuietPlace ==
  ASSUME ResumeInv, Loaded' = Loaded, ExtCommitted' = ExtCommitted,
         UNCHANGED <<migration, legacy>>, ~crossed' => ~crossed,
         at' \in {"failed", "refused"}, turn' \in Nat, at' = "refused" => crossed' \/ extended'
  PROVE  ResumeInv'
<1>1. NextReady' /\ PlaceInv' /\ RefusedOnlyIfDisturbed'
  BY DEF NextReady, PlaceInv, RefusedOnlyIfDisturbed
<1> QED
  BY <1>1, BootReadsStay DEF ResumeInv

LEMMA JournalReads ==
  ASSUME SettingsInv, UNCHANGED journal
  PROVE  Loaded' = Loaded /\ ExtCommitted' = ExtCommitted
BY JournalKept DEF SettingsInv

LEMMA AuditResumes ==
  ASSUME SettingsInv, GateInv, ResumeInv, Audit
  PROVE  ResumeInv'
<1>1. /\ UNCHANGED <<journal, migration, legacy, crossed, extended>>
      /\ turn' \in Nat /\ (at' = "failed" \/ turn' = 0)
  BY DEF Audit, histories, vars, Boot, GateFails, GateGoes, ResumeInv, PlaceInv
<1>2. /\ Loaded' = Loaded /\ ExtCommitted' = ExtCommitted
      /\ UNCHANGED <<migration, legacy, crossed, extended>>
  BY <1>1, JournalReads
<1>3. CASE at' = "failed"
  BY <1>1, <1>2, <1>3, QuietPlace
<1>4. CASE at' = "refused"
  <2>1. Plan = "refused"
    BY <1>4 DEF Audit, GateFails, GateGoes
  <2> QED BY <1>1, <1>2, <1>4, <2>1, PlanGoesOn, QuietPlace
<1>5. CASE at' = "audited" /\ plan' = Plan /\ Plan # "refused"
  <2>1. Plan' = Plan
    BY <1>2, ReadsStay
  <2>2. PlaceInv'
    BY <1>1, <1>5, <2>1 DEF PlaceInv
  <2>3. NextReady' /\ RefusedOnlyIfDisturbed'
    BY <1>5 DEF NextReady, RefusedOnlyIfDisturbed
  <2> QED BY <1>2, <2>2, <2>3, BootReadsStay DEF ResumeInv
<1> QED
  BY <1>3, <1>4, <1>5 DEF Audit, GateFails, GateGoes

\* The first marker of a migration: of the device, or after a completed one.
LEMMA FirstMarkerReady ==
  ASSUME SettingsInv, GateInv, Shape, Plan = "start"
  PROVE  /\ FirstMarker.print = legacy /\ FirstMarker.phase = Preparing
         /\ ~Recorded(FirstMarker) /\ Ready(FirstMarker)
         /\ next' = FirstMarker /\ UNCHANGED <<migration, legacy>> => TransitionAllowed'
<1> DEFINE m == FirstMarker
<1>1. /\ m.print = legacy /\ m.phase = Preparing /\ ~Recorded(m)
      /\ m.seq = migration.head + 1 /\ m.gen = Loaded.gen + 1
      /\ Loaded.gen \in Nat /\ migration.head \in Nat
  BY LoadedFacts, BoundsAssumption
     DEF FirstMarker, Recorded, SettingsInv, Snapshot, GateInv, MigrationTypeOK
<1>2. CASE Committed = Absent /\ (Loaded.gen = 0 \/ MatchesHistorical)
  <2>1. m.seq = 1
    BY <1>1, <1>2, CommittedIs
  <2>2. CanResumePrepared(m)
    BY <1>1, <1>2 DEF CanResumePrepared, MatchesHistorical
  <2>3. next' = m /\ UNCHANGED <<migration, legacy>> => TransitionAllowed'
    <3>1. UNCHANGED migration => Committed' = Committed
      BY DEF Committed, Selected
    <3> QED BY <1>1, <1>2, <3>1, MarksAssumption DEF TransitionAllowed
  <2> QED BY <1>1, <2>1, <2>2, <2>3 DEF Ready
<1>3. CASE /\ Committed # Absent /\ Committed # Corrupt
           /\ Committed = Selected(migration) /\ migration.initialized
           /\ Committed.print # legacy /\ CompletedBase(Committed)
  <2>1. /\ Committed \in Marker /\ Committed.seq = migration.head /\ migration.head # 0
        /\ Committed.phase = Complete /\ Loaded.gen = Committed.gen
    BY <1>3, CommittedFacts DEF CompletedBase
  <2>2. m.seq # 1 /\ SlotOf(m.seq + 1) = SlotOf(migration.head)
    BY <1>1, <2>1 DEF SlotOf
  <2>3. CanResumeRollover(m)
    BY <1>1, <1>3, <2>1, <2>2 DEF CanResumeRollover, Selected
  <2>4. next' = m /\ UNCHANGED <<migration, legacy>> => TransitionAllowed'
    <3>1. UNCHANGED migration => Committed' = Committed
      BY DEF Committed, Selected
    <3> QED BY <1>1, <1>3, <2>1, <3>1 DEF TransitionAllowed
  <2> QED BY <1>1, <2>2, <2>3, <2>4 DEF Ready
<1> QED
  BY <1>2, <1>3, StartPlans

\* The next one, over settings just seen to be the source's.
LEMMA NextMarkerReady ==
  ASSUME SettingsInv, GateInv, Committed \in Marker, Committed.print = legacy,
         Committed.phase # Complete, IsResult(Committed)
  PROVE  /\ NextMarker.print = legacy /\ NextMarker.phase = Committed.phase + 1
         /\ Recorded(NextMarker) /\ Ready(NextMarker)
         /\ next' = NextMarker /\ UNCHANGED <<migration, legacy>> => TransitionAllowed'
<1> DEFINE m == NextMarker
<1>1. /\ m.print = legacy /\ m.phase = Committed.phase + 1 /\ m.gen = Committed.gen
      /\ Committed.phase \in 1..5
  BY DEF NextMarker, Marker, Preparing, Complete
<1>2. Recorded(m)
  BY <1>1 DEF Recorded, Preparing
<1>3. IsResult(m)
  BY <1>1 DEF IsResult, IsCompatibleResult, WireAuthority
<1>4. next' = m /\ UNCHANGED <<migration, legacy>> => TransitionAllowed'
  <2>1. UNCHANGED migration => Committed' = Committed
    BY DEF Committed, Selected
  <2> QED BY <1>1, <2>1, MarkersAssumption DEF TransitionAllowed
<1> QED
  BY <1>1, <1>2, <1>3, <1>4 DEF Ready

\* A marker that is next, before anything of it is written.
LEMMA NextStarts ==
  ASSUME SettingsInv, GateInv, ResumeInv, NEW m \in Marker, next' = m, m.print = legacy, Ready(m),
         at' = "slot", TransitionAllowed', turn' \in Nat, turn' < m.phase,
         UNCHANGED <<journal, migration, legacy, crossed, extended>>
  PROVE  ResumeInv'
<1>1. Loaded' = Loaded /\ ExtCommitted' = ExtCommitted
  BY JournalReads
<1>2. Ready(m)'
  BY <1>1, MarkersStay
<1>3. NextReady'
  BY <1>2 DEF NextReady, Ready, Recorded
<1>4. PlaceInv' /\ RefusedOnlyIfDisturbed'
  BY DEF PlaceInv, RefusedOnlyIfDisturbed
<1> QED
  BY <1>1, <1>3, <1>4, BootReadsStay DEF ResumeInv

LEMMA ExecuteResumes ==
  ASSUME SettingsInv, GateInv, ResumeInv, Execute
  PROVE  ResumeInv'
<1>1. /\ UNCHANGED <<journal, migration, legacy, crossed, extended>>
      /\ plan = Plan /\ Plan # "refused" /\ turn = 0 /\ turn' = 0 /\ Shape
  BY DEF Execute, GateFails, histories, vars, ResumeInv, PlaceInv
<1>2. Loaded' = Loaded /\ ExtCommitted' = ExtCommitted
  BY <1>1, JournalReads
<1>3. CASE at' = "failed"
  BY <1>1, <1>2, <1>3, QuietPlace
<1>4. CASE Plan \in {"fresh", "native", "complete"} /\ at' = "start"
  <2>1. ~UnderWay'
    BY <1>1, <1>2, <1>4, ProductPlans, ReadsStay
  <2>2. NextReady' /\ PlaceInv' /\ RefusedOnlyIfDisturbed'
    BY <1>1, <1>4, <2>1 DEF NextReady, PlaceInv, RefusedOnlyIfDisturbed
  <2> QED BY <1>1, <1>2, <2>2, BootReadsStay DEF ResumeInv
<1>5. CASE Plan = "start" /\ at' = "slot" /\ next' = FirstMarker /\ turn' = turn
  <2>1. FirstMarker \in Marker /\ turn' < FirstMarker.phase
    BY <1>1, <1>5, FirstMarkerFacts, FirstMarkerReady DEF Preparing
  <2> QED BY <1>1, <1>5, <2>1, FirstMarkerReady, NextStarts
<1>6. CASE Plan = "recover" /\ at' = "head" /\ next' = migration.slot[1] /\ turn' = turn
  <2> DEFINE m == migration.slot[1]
  <2>1. /\ ~migration.initialized /\ m \in Marker /\ First(m)
        /\ m.print = legacy /\ CanResumePrepared(m)
    BY <1>1, <1>6, RecoverPlan
  <2>2. CanResumePrepared(m)'
    BY <1>1, <1>2, <2>1, MarkersStay
  <2>3. Ready(next)'
    BY <1>1, <1>6, <2>1, <2>2 DEF Ready, First, Recorded
  <2>4. turn' < next'.phase /\ First(next)' /\ next'.print = legacy'
    BY <1>1, <1>6, <2>1 DEF Marker, Preparing, Complete, First, Recorded
  <2>5. NextReady'
    BY <1>1, <1>6, <2>1, <2>3, <2>4 DEF NextReady
  <2>6. PlaceInv' /\ RefusedOnlyIfDisturbed'
    BY <1>1, <1>6 DEF PlaceInv, RefusedOnlyIfDisturbed
  <2> QED BY <1>1, <1>2, <2>5, <2>6, BootReadsStay DEF ResumeInv
<1>7. CASE Plan = "resume" /\ at' = "advance" /\ turn' = turn
  <2>1. /\ Committed \in Marker /\ Committed.print = legacy /\ turn < Committed.phase
    BY <1>1, <1>7, ResumeFacts DEF Marker, Preparing
  <2>2. Committed' = Committed
    BY <1>1, <1>2, ReadsStay
  <2>3. PlaceInv'
    BY <1>1, <1>7, <2>1, <2>2 DEF PlaceInv
  <2>4. NextReady' /\ RefusedOnlyIfDisturbed'
    BY <1>7 DEF NextReady, RefusedOnlyIfDisturbed
  <2> QED BY <1>1, <1>2, <2>3, <2>4, BootReadsStay DEF ResumeInv
<1> QED
  BY <1>1, <1>3, <1>4, <1>5, <1>6, <1>7 DEF Execute, GateFails

\* Which slot a marker is written to, and which one it is resumed from.
LEMMA SlotsAlternate ==
  ASSUME NEW n \in Nat
  PROVE  /\ SlotOf(n) \in Slots /\ SlotOf(n + 1) \in Slots /\ SlotOf(n + 1) # SlotOf(n)
         /\ SlotOf(n + 1 + 1) = SlotOf(n) /\ SlotOf(1) = 1
BY DEF SlotOf, Slots

LEMMA ReadyGoesOn ==
  ASSUME NEW m, Ready(m)
  PROVE  /\ CanResume(m)
         /\ m.seq = 1 /\ ~Recorded(m) => CanResumePrepared(m)
         /\ Recorded(m) => IsResult(m)
BY DEF Ready, CanResume, Recorded

\* The other slot is written: the marker there was cannot be gone back to, and
\* need not be.
LEMMA WriteSlotResumes ==
  ASSUME SettingsInv, GateInv, ResumeInv, WriteSlot
  PROVE  ResumeInv'
<1>1. /\ at = "slot" /\ UNCHANGED <<vars, legacy, crossed, extended>>
      /\ TransitionAllowed /\ Ready(next) /\ next.print = legacy /\ turn < next.phase
      /\ Shape /\ GoesOnFrom /\ WireTells /\ turn' \in Nat
      /\ next \in Marker /\ next.seq = migration.head + 1 /\ migration.head \in Nat
      /\ migration.slot \in [Slots -> Marker \cup {Absent}]
  BY DEF WriteSlot, GateFails, GateGoes, histories, ResumeInv, NextReady, PlaceInv,
         GateInv, MarkersInv, MigrationTypeOK
<1>2. /\ Loaded' = Loaded /\ ExtCommitted' = ExtCommitted
  BY <1>1, JournalReads DEF vars
<1>3. CASE UNCHANGED migration /\ at' = "failed"
  BY <1>1, <1>2, <1>3, QuietPlace
<1>4. CASE /\ migration' = [migration EXCEPT !.slot[SlotOf(next.seq)] = next]
           /\ \/ at' = "failed"
              \/ at' = "head" /\ next' = next /\ turn' = turn
  <2> DEFINE h == migration.head
  <2>1. /\ SlotOf(next.seq) \in Slots /\ SlotOf(h) \in Slots /\ SlotOf(h) # SlotOf(next.seq)
        /\ SlotOf(next.seq + 1) = SlotOf(h) /\ SlotOf(1) = 1
    BY <1>1, SlotsAlternate
  <2>2. /\ migration'.slot = [migration.slot EXCEPT ![SlotOf(next.seq)] = next]
        /\ migration'.head = h /\ migration'.initialized = migration.initialized
    BY <1>1, <1>4, <2>1 DEF GateInv, MigrationTypeOK
  <2>3. /\ Selected(migration)' = Selected(migration)
        /\ migration'.slot[SlotOf(next.seq + 1)] = migration.slot[SlotOf(next.seq + 1)]
        /\ migration'.slot[SlotOf(next.seq)] = next
    BY <1>1, <2>1, <2>2 DEF Selected
  <2>4. \A m : m = next => Ready(m)' /\ (CanResumePrepared(m) => CanResumePrepared(m)')
    BY <1>1, <1>2, <2>3, MarkersStay
  <2>5. \A m : (IsResult(m) => IsResult(m)') /\ (WireAuthority(m) => WireAuthority(m)')
    BY <1>1, <1>2 DEF IsResult, IsCompatibleResult, WireAuthority, Source
  <2>6. ASSUME ~migration.initialized
        PROVE  /\ h = 0 /\ First(next) /\ CanResumePrepared(next)
               /\ migration'.slot[1] = next /\ migration'.slot[0] = migration.slot[0]
    <3>1. Committed = Absent
      BY <1>1, <2>6, CommittedIs, MarksAssumption DEF TransitionAllowed
    <3>2. h = 0 /\ next.phase = Preparing
      BY <1>1, <3>1, CommittedIs, MarksAssumption DEF TransitionAllowed
    <3>3. next.seq = 1 /\ First(next)
      BY <1>1, <3>2 DEF First, Recorded
    <3> QED BY <1>1, <2>1, <2>2, <3>2, <3>3, ReadyGoesOn DEF First, Slots
  <2>7. Shape'
    BY <1>1, <2>2, <2>6 DEF Shape, First, Recorded
  <2>8. ASSUME migration.initialized, Selected(migration).phase # Complete
        PROVE  CanResume(Selected(migration))'
    <3> DEFINE m == Selected(migration)
    <3>1. Committed = m /\ m # Absent /\ m # Corrupt /\ m \in Marker
      BY <1>1, <2>8, CommittedIs, MarkersAssumption
    <3>2. next.gen = m.gen /\ next.print = m.print /\ next.phase = m.phase + 1
      BY <1>1, <2>8, <3>1 DEF TransitionAllowed
    <3>3. Recorded(next)
      BY <3>1, <3>2 DEF Recorded, Marker, Preparing, Complete
    <3>4. IsResult(next)
      BY <1>1, <3>3, ReadyGoesOn
    <3>5. IsResult(m)
      BY <3>2, <3>4 DEF IsResult, IsCompatibleResult, WireAuthority
    <3>6. IsResult(m)'
      BY <2>3, <2>5, <3>5
    <3> QED BY <3>6 DEF CanResume
  <2>9. GoesOnFrom'
    BY <1>1, <2>2, <2>3, <2>4, <2>6, <2>8 DEF GoesOnFrom
  <2>10. WireTells'
    BY <1>1, <1>2, <2>2, <2>3, <2>5 DEF WireTells, Recorded
  <2>11. NextReady'
    <3>1. CASE at' = "failed"
      BY <3>1 DEF NextReady
    <3>2. CASE at' = "head" /\ next' = next /\ turn' = turn
      <4>1. Ready(next)'
        BY <2>4, <3>2
      <4>2. IF migration'.initialized THEN next.seq # 1 ELSE First(next)
        BY <1>1, <2>2, <2>6 DEF Shape
      <4> QED BY <1>1, <3>2, <4>1, <4>2 DEF NextReady, First, Recorded
    <3> QED BY <1>4, <3>1, <3>2
  <2>12. PlaceInv' /\ RefusedOnlyIfDisturbed'
    BY <1>1, <1>4 DEF PlaceInv, RefusedOnlyIfDisturbed
  <2> QED BY <2>7, <2>9, <2>10, <2>11, <2>12 DEF ResumeInv
<1> QED
  BY <1>1, <1>3, <1>4 DEF WriteSlot, GateFails, GateGoes

LEMMA WriteHeadResumes ==
  ASSUME SettingsInv, GateInv, ResumeInv, WriteHead
  PROVE  ResumeInv'
<1>1. /\ at = "head" /\ UNCHANGED <<vars, legacy, crossed, extended>>
      /\ Ready(next) /\ next.print = legacy /\ turn < next.phase
      /\ IF migration.initialized THEN next.seq # 1 ELSE First(next)
      /\ Shape /\ GoesOnFrom /\ WireTells /\ turn' \in Nat
      /\ next \in Marker /\ migration.slot[SlotOf(next.seq)] = next
  BY DEF WriteHead, GateFails, GateGoes, histories, ResumeInv, NextReady, PlaceInv,
         GateInv, MarkersInv
<1>2. /\ Loaded' = Loaded /\ ExtCommitted' = ExtCommitted
  BY <1>1, JournalReads DEF vars
<1>3. CASE UNCHANGED migration /\ at' = "failed"
  BY <1>1, <1>2, <1>3, QuietPlace
<1>4. CASE /\ migration' = [migration EXCEPT !.head = next.seq]
           /\ \/ at' = "failed"
              \/ at' = "initialized" /\ next' = next /\ turn' = turn
  <2>1. /\ migration'.slot = migration.slot /\ migration'.head = next.seq
        /\ migration'.initialized = migration.initialized
        /\ next.seq \in Nat /\ next.seq # 0
    BY <1>1, <1>4 DEF GateInv, MigrationTypeOK, Marker
  <2>2. Selected(migration)' = next
    BY <1>1, <2>1 DEF Selected
  <2>3. Shape'
    BY <1>1, <2>1 DEF Shape, First, Recorded
  <2>4. CanResume(next) /\ (Recorded(next) => WireAuthority(next))
    BY <1>1, ReadyGoesOn DEF IsResult, IsCompatibleResult
  <2>5. \A m : /\ CanResume(m) <=> CanResume(m)'
               /\ WireAuthority(m) <=> WireAuthority(m)'
               /\ CanResumePrepared(m) <=> CanResumePrepared(m)'
    BY <1>1, <1>2, <2>1, MarkersStay
  <2>6. GoesOnFrom'
    BY <1>1, <2>1, <2>2, <2>4, <2>5 DEF GoesOnFrom
  <2>7. WireTells'
    BY <1>1, <2>1, <2>2, <2>4, <2>5 DEF WireTells, Recorded
  <2>8. NextReady' /\ PlaceInv' /\ RefusedOnlyIfDisturbed'
    BY <1>1, <1>4, <2>1, <2>2 DEF NextReady, PlaceInv, RefusedOnlyIfDisturbed
  <2> QED BY <2>3, <2>6, <2>7, <2>8 DEF ResumeInv
<1> QED
  BY <1>1, <1>3, <1>4 DEF WriteHead, GateFails, GateGoes

LEMMA WriteInitializedResumes ==
  ASSUME SettingsInv, GateInv, ResumeInv, WriteInitialized
  PROVE  ResumeInv'
<1>1. /\ at = "initialized" /\ UNCHANGED <<vars, legacy, crossed, extended>>
      /\ migration.head # 0 /\ next = Selected(migration)
      /\ next.print = legacy /\ turn < next.phase
      /\ Shape /\ GoesOnFrom /\ WireTells /\ turn' \in Nat
      /\ next \in Marker /\ next.seq = migration.head
  BY DEF WriteInitialized, GateFails, histories, ResumeInv, NextReady, PlaceInv,
         GateInv, MarkersInv
<1>2. /\ Loaded' = Loaded /\ ExtCommitted' = ExtCommitted
  BY <1>1, JournalReads DEF vars
<1>3. CASE UNCHANGED migration /\ at' = "failed"
  BY <1>1, <1>2, <1>3, QuietPlace
<1>4. CASE /\ migration' = [migration EXCEPT !.initialized = TRUE]
           /\ at' = "failed" \/ (at' = "advance" /\ turn' = turn)
  <2>1. /\ migration'.slot = migration.slot /\ migration'.head = migration.head
        /\ migration'.initialized
    BY <1>4 DEF GateInv, MigrationTypeOK
  <2>2. Selected(migration)' = Selected(migration) /\ Committed' = Selected(migration)
    BY <1>1, <2>1, MarkersAssumption DEF Selected, Committed
  <2>3. Shape'
    BY <1>1, <2>1 DEF Shape
  <2>4. ~crossed /\ next.phase # Complete => CanResume(next)
    <3>1. CASE migration.initialized
      BY <1>1, <3>1 DEF GoesOnFrom
    <3>2. CASE ~migration.initialized
      <4>1. migration.head = 1 /\ next = migration.slot[1] /\ next # Absent
        BY <1>1, <3>2, SlotsAlternate, MarkersAssumption DEF Shape, Selected
      <4> QED BY <1>1, <3>2, <4>1 DEF GoesOnFrom, Shape, First, CanResume, Recorded
    <3> QED BY <3>1, <3>2
  <2>5. /\ CanResume(Selected(migration)) <=> CanResume(Selected(migration))'
        /\ WireAuthority(Selected(migration)) <=> WireAuthority(Selected(migration))'
    BY <1>1, <1>2, <2>1, <2>2, MarkersStay
  <2>6. GoesOnFrom'
    BY <1>1, <2>1, <2>2, <2>4, <2>5 DEF GoesOnFrom
  <2>7. WireTells'
    BY <1>1, <1>2, <2>1, <2>2, <2>5 DEF WireTells, Recorded
  <2>8. NextReady' /\ PlaceInv' /\ RefusedOnlyIfDisturbed'
    BY <1>1, <1>4, <2>2 DEF NextReady, PlaceInv, RefusedOnlyIfDisturbed
  <2> QED BY <2>3, <2>6, <2>7, <2>8 DEF ResumeInv
<1> QED
  BY <1>1, <1>3, <1>4 DEF WriteInitialized, GateFails

\* With no migration under way, there is none to go on from.
LEMMA AtRestGoesOn ==
  ASSUME GateInv, Shape, ~UnderWay, UNCHANGED migration
  PROVE  Shape' /\ GoesOnFrom'
<1>1. Shape' /\ Selected(migration)' = Selected(migration)
  BY DEF Shape, First, Recorded, Selected
<1>2. CASE Committed = Absent
  BY <1>1, <1>2, CommittedIs DEF GoesOnFrom, Slots
<1>3. CASE Committed # Absent
  <2>1. Committed # Corrupt /\ Committed.phase = Complete
    BY <1>3 DEF UnderWay
  <2>2. migration.initialized /\ Committed = Selected(migration)
    BY <1>3, <2>1, CommittedIs
  <2> QED BY <1>1, <2>1, <2>2 DEF GoesOnFrom
<1> QED
  BY <1>2, <1>3

\* What the gate's import is about to write is what the marker announces.
LEMMA ImportTarget ==
  ASSUME SettingsInv, GateInv, ResumeInv, Plan = "resume", ~IsResult(Committed),
         Committed \in Marker, ~HasMainProjection(Committed)
  PROVE  Committed.gen = Loaded.gen + 1 /\ ~Recorded(Committed)
<1>1. CanResume(Committed) /\ ~Recorded(Committed)
  BY ResumeFacts DEF CanResume, Recorded
<1>2. /\ Committed.gen \in Nat /\ Loaded.gen \in Nat
  BY LoadedFacts, BoundsAssumption DEF SettingsInv, Snapshot, Marker
<1>3. CanResumePrepared(Committed) \/ CanResumeRollover(Committed)
  BY <1>1 DEF CanResume, Recorded
<1>4. CASE CanResumePrepared(Committed)
  BY <1>1, <1>2, <1>4 DEF CanResumePrepared
<1>5. CASE CanResumeRollover(Committed)
  BY <1>1, <1>5 DEF CanResumeRollover, CompletedBase
<1> QED
  BY <1>1, <1>3, <1>4, <1>5

\* The gate begins a save: of both journals, or of the extension alone when the
\* main record is there already.
LEMMA ImportBegins ==
  ASSUME SettingsInv, GateInv, ResumeInv, at = "advance", Plan = "resume", ~IsResult(Committed),
         Apply(Source, [main |-> ~HasMainProjection(Committed), ext |-> TRUE])
  PROVE  /\ UNCHANGED journal /\ op'.values = Source /\ op'.base = Loaded
         /\ op'.force.main <=> ~HasMainProjection(Committed)
         /\ Target' = Committed.gen
<1> DEFINE half == HasMainProjection(Committed)
           f == [main |-> ~half, ext |-> TRUE]
<1>1. /\ UNCHANGED journal
      /\ op' = [values |-> Source, force |-> f, base |-> Loaded, since |-> faults,
                prepared |-> Absent]
  BY DEF Apply
<1>2. op'.values = Source /\ op'.base = Loaded /\ op'.force = f
  BY <1>1
<1>3. op'.force.main <=> ~half
  <2>1. CASE half
    BY <1>2, <2>1, f = [main |-> FALSE, ext |-> TRUE]
  <2>2. CASE ~half
    BY <1>2, <2>2, f = [main |-> TRUE, ext |-> TRUE]
  <2> QED BY <2>1, <2>2
<1>4. Committed \in Marker
  BY DEF ResumeInv, PlaceInv
<1>5. Target' = Committed.gen
  <2>1. CASE ~half
    <3>1. MainMoves'
      BY <1>3, <2>1 DEF MainMoves, MainChanged
    <3> QED BY <1>2, <1>4, <2>1, <3>1, ImportTarget DEF Target
  <2>2. CASE half
    <3>1. Loaded.gen = Committed.gen /\ Loaded.schema = 2 /\ Loaded.values.main = Source.main
      BY <2>2 DEF HasMainProjection, RecordSchema
    <3>2. ~MainMoves'
      BY <1>2, <1>3, <2>2, <3>1 DEF MainMoves, MainChanged, RecordSchema
    <3> QED BY <1>2, <3>1, <3>2 DEF Target
  <2> QED BY <2>1, <2>2
<1> QED
  BY <1>1, <1>2, <1>3, <1>5

LEMMA AdvanceResumes ==
  ASSUME SettingsInv, GateInv, ResumeInv, Advance
  PROVE  ResumeInv'
<1>1. /\ at = "advance" /\ UNCHANGED <<legacy, migration, extended>>
      /\ Committed \in Marker /\ Committed.print = legacy
      /\ turn < Committed.phase /\ Committed.phase \in 1..5 /\ Shape
      /\ turn \in Nat /\ turn' \in Nat
  BY DEF Advance, GateFails, GateGoes, ResumeInv, PlaceInv, Marker, Preparing, Complete
<1>2. CASE GateFails /\ UNCHANGED <<vars, crossed>>
  BY <1>1, <1>2, JournalReads, QuietPlace DEF GateFails, vars
<1>3. CASE /\ turn = Rounds \/ Plan \notin {"complete", "resume"}
           /\ at' = "refused" /\ UNCHANGED <<vars, crossed>>
  <2>1. Plan = "refused"
    BY <1>1, <1>3, MarkedPlans DEF Rounds
  <2>2. crossed' \/ extended'
    BY <1>1, <1>3, <2>1, PlanGoesOn
  <2> QED BY <1>1, <1>3, <2>2, JournalReads, QuietPlace DEF vars
<1>4. CASE Plan = "complete" /\ at' = "start" /\ crossed' = FALSE /\ UNCHANGED vars
  <2>1. Loaded' = Loaded /\ ExtCommitted' = ExtCommitted
    BY <1>4, JournalReads DEF vars
  <2>2. ~UnderWay /\ ~UnderWay'
    BY <1>1, <1>4, <2>1, ProductPlans, ReadsStay
  <2>3. Shape' /\ GoesOnFrom'
    BY <1>1, <2>2, AtRestGoesOn
  <2>4. WireTells'
    BY <1>1, <2>1 DEF ResumeInv, WireTells, Recorded, Selected, WireAuthority
  <2>5. NextReady' /\ PlaceInv' /\ RefusedOnlyIfDisturbed'
    BY <1>1, <1>4, <2>2 DEF NextReady, PlaceInv, RefusedOnlyIfDisturbed
  <2> QED BY <2>3, <2>4, <2>5 DEF ResumeInv
<1>5. CASE /\ Plan = "resume" /\ IsResult(Committed) /\ turn' = turn + 1
           /\ at' = "slot" /\ next' = NextMarker /\ UNCHANGED <<vars, crossed>>
  <2>1. Committed.phase # Complete
    BY <1>1, <1>5, MarkedPlans
  <2>2. /\ NextMarker.print = legacy /\ Ready(NextMarker) /\ TransitionAllowed'
        /\ NextMarker.phase = Committed.phase + 1
    BY <1>1, <1>5, <2>1, NextMarkerReady
  <2>3. NextMarker \in Marker
    BY <1>1, <1>5, <2>1, NextMarkerFacts, MarkersAssumption
  <2>4. turn' < NextMarker.phase
    BY <1>1, <1>5, <2>2
  <2> QED BY <1>1, <1>5, <2>2, <2>3, <2>4, NextStarts DEF vars
<1>6. CASE /\ Plan = "resume" /\ ~IsResult(Committed) /\ at' = "saving"
           /\ Apply(Source, [main |-> ~HasMainProjection(Committed), ext |-> TRUE])
           /\ UNCHANGED <<next, turn, crossed>>
  <2>1. UNCHANGED journal /\ op'.values = Source /\ Target' = Committed.gen
    BY <1>1, <1>6, ImportBegins
  <2>2. Loaded' = Loaded /\ ExtCommitted' = ExtCommitted
    BY <2>1, JournalReads
  <2>3. Committed' = Committed /\ Source' = Source
    BY <1>1, <2>2, ReadsStay DEF Source
  <2>4. PlaceInv'
    BY <1>1, <1>6, <2>1, <2>3 DEF PlaceInv
  <2>5. NextReady' /\ RefusedOnlyIfDisturbed'
    BY <1>6 DEF NextReady, RefusedOnlyIfDisturbed
  <2> QED BY <1>1, <1>6, <2>2, <2>4, <2>5, BootReadsStay DEF ResumeInv
<1> QED
  BY <1>2, <1>3, <1>4, <1>5, <1>6 DEF Advance, GateGoes

LEMMA SavedResumes ==
  ASSUME SettingsInv, GateInv, ResumeInv, Saved
  PROVE  ResumeInv'
<1>1. /\ at = "saving" /\ UNCHANGED <<vars, legacy, migration, crossed, extended>>
      /\ Committed \in Marker /\ Committed.print = legacy
      /\ turn < Committed.phase /\ Committed.phase # Complete
      /\ turn \in Nat /\ turn' \in Nat /\ Committed.phase \in 1..5
  BY DEF Saved, GateFails, Marker, histories, ResumeInv, PlaceInv, GateInv, SavesInv, Recorded,
         Preparing, Complete
<1>2. CASE at' = "failed"
  BY <1>1, <1>2, JournalReads, QuietPlace DEF vars
<1>3. CASE IsResult(Committed) /\ at' = "slot" /\ next' = NextMarker /\ turn' = turn + 1
  <2>1. /\ NextMarker.print = legacy /\ Ready(NextMarker) /\ TransitionAllowed'
        /\ NextMarker.phase = Committed.phase + 1
    BY <1>1, <1>3, NextMarkerReady
  <2>2. NextMarker \in Marker
    BY <1>1, <1>3, NextMarkerFacts, MarkersAssumption
  <2> QED BY <1>1, <1>3, <2>1, <2>2, NextStarts DEF vars
<1> QED
  BY <1>1, <1>2, <1>3 DEF Saved, GateFails

-----------------------------------------------------------------------------
(* The saves, and what else may happen to the device. *)

LEMMA LoadedTells ==
  SettingsInv =>
    /\ Loaded.gen = main.head /\ main.head \in Nat /\ Loaded.schema = MainLoaded.schema
    /\ Loaded.values.main = MainLoaded.main
    /\ main.head # 0 /\ MainLoaded.schema # 3 => Loaded.schema = RecordSchema
    /\ ext.head # 0 => ExtCommitted \in ExtRecord /\ ExtCommitted.gen <= main.head
    /\ ext.head = 0 => ExtCommitted = Absent
<1> SUFFICES ASSUME SettingsInv PROVE
      /\ Loaded.gen = main.head /\ main.head \in Nat /\ Loaded.schema = MainLoaded.schema
      /\ Loaded.values.main = MainLoaded.main
      /\ main.head # 0 /\ MainLoaded.schema # 3 => Loaded.schema = RecordSchema
      /\ ext.head # 0 => ExtCommitted \in ExtRecord /\ ExtCommitted.gen <= main.head
      /\ ext.head = 0 => ExtCommitted = Absent
  OBVIOUS
<1>1. main.head \in Nat
  BY BoundsAssumption DEF SettingsInv, TypeOK, Journal
<1>2. main.head # 0 => MainLoaded = Selected(main) /\ Selected(main) \in MainRecord
  BY MarksAssumption DEF SettingsInv, JournalInv, MainLoaded
<1>3. main.head # 0 /\ MainLoaded.schema # 3 => MainLoaded.schema = RecordSchema
  BY <1>2 DEF MainRecord
<1> QED
  BY <1>1, <1>3, LoadedFacts, LoadedParts DEF SettingsInv

LEMMA LoadedTellsNext ==
  SettingsInv' =>
    /\ Loaded'.gen = main'.head /\ main'.head \in Nat /\ Loaded'.schema = MainLoaded'.schema
    /\ Loaded'.values.main = MainLoaded'.main
    /\ main'.head # 0 /\ MainLoaded'.schema # 3 => Loaded'.schema = RecordSchema
    /\ ext'.head # 0 => ExtCommitted' \in ExtRecord /\ ExtCommitted'.gen <= main'.head
    /\ ext'.head = 0 => ExtCommitted' = Absent
<1>1. (SettingsInv =>
         /\ Loaded.gen = main.head /\ main.head \in Nat /\ Loaded.schema = MainLoaded.schema
         /\ Loaded.values.main = MainLoaded.main
         /\ main.head # 0 /\ MainLoaded.schema # 3 => Loaded.schema = RecordSchema
         /\ ext.head # 0 => ExtCommitted \in ExtRecord /\ ExtCommitted.gen <= main.head
         /\ ext.head = 0 => ExtCommitted = Absent)'
  BY LoadedTells, PTL
<1> QED
  BY <1>1

\* When a save moves the main record's head, the new record is what was asked for.
LEMMA MainArrives ==
  ASSUME SettingsInv, SettingsInv', SaveAction, main'.head # main.head
  PROVE  /\ MainMoves /\ Loaded'.gen = Target /\ main'.head = op.base.gen + 1
         /\ main.head = op.base.gen
         /\ Loaded'.schema = RecordSchema /\ Loaded'.values.main = op.values.main
<1>1. SelectMain /\ main' = [main EXCEPT !.head = MainTarget.gen]
  <2>1. PrepareMain => main'.head = main.head
    BY DEF PrepareMain, Prepared, SettingsInv, TypeOK, Journal
  <2> QED
    BY <2>1 DEF SaveAction, PrepareExtension, SelectMain, SetMarker, CheckMain, PublishExtension,
                CheckExtension, ReloadFailed, Verify, journal
<1>2. pc' \in {"set_marker", "check_main"} /\ op' = op /\ pc = "select_main"
  <2>1. UNCHANGED main => main'.head = main.head
    OBVIOUS
  <2> QED BY <1>1, <2>1 DEF SelectMain, Go
<1>3. MainMoves /\ Loaded = op.base /\ op \in Operation
  BY <1>2, OperationFacts DEF SettingsInv, SaveInv, Old, Saving, Places
<1>4. MainLoaded' = MainTarget /\ main'.head = op.base.gen + 1
  <2>1. MainLoaded' = MainTarget'
    BY <1>2 DEF SettingsInv, SaveInv
  <2>2. MainTarget' = MainTarget
    BY <1>2 DEF MainTarget
  <2> QED
    BY <1>1, <2>1, <2>2 DEF MainTarget, SettingsInv, TypeOK, Journal
<1> QED
  BY <1>3, <1>4, LoadedTells, LoadedTellsNext DEF MainTarget, RecordSchema, Target

\* When it moves the extension's, all that was asked for is there.
LEMMA ExtensionArrives ==
  ASSUME SettingsInv, SettingsInv', SaveAction, main'.head = main.head, ext'.head # ext.head
  PROVE  /\ Loaded'.gen = Target /\ Loaded'.values = op.values
         /\ ExtCommitted' # Absent /\ ExtCommitted'.gen = Target
         /\ main.head # 0 => Loaded'.schema = RecordSchema
<1>1. /\ PublishExtension /\ pc = "publish_ext"
      /\ ext' = [ext EXCEPT !.head = op.prepared.seq] /\ pc' = "check_ext"
      /\ op' = op /\ UNCHANGED <<main, marker>>
  <2>1. PrepareExtension => ext'.head = ext.head
    BY DEF PrepareExtension, Prepared, SettingsInv, TypeOK, Journal
  <2>2. UNCHANGED ext => ext'.head = ext.head
    OBVIOUS
  <2> QED
    BY <2>1, <2>2
       DEF SaveAction, PrepareMain, SelectMain, SetMarker, CheckMain, PublishExtension,
           CheckExtension, ReloadFailed, Verify, journal, Go
<1>2. /\ HasPrepared /\ MainLoaded.schema # 3
      /\ New' /\ ExtCommitted' = op.prepared
  BY <1>1 DEF SettingsInv, SaveInv
<1>3. /\ op.prepared.gen = Target /\ op.prepared.seq = ext.head + 1
      /\ ext.head \in Nat
  BY <1>2, BoundsAssumption DEF HasPrepared, SettingsInv, TypeOK, Journal
<1>4. Target' = Target /\ MainLoaded' = MainLoaded
  BY <1>1 DEF Target, MainMoves, MainLoaded, Selected
<1>5. ext'.head # 0
  BY <1>1, <1>3 DEF SettingsInv, TypeOK, Journal
<1>6. ExtCommitted' # Absent
  BY <1>5, LoadedTellsNext, MarksAssumption
<1> QED
  BY <1>1, <1>2, <1>3, <1>4, <1>6, LoadedTellsNext DEF New

\* The gate's import, step by step: the old settings, the main record, all.
LEMMA ImportResumes ==
  ASSUME SettingsInv, SettingsInv', GateInv, ResumeInv, SaveStep, at = "saving"
  PROVE  GoesOnFrom' /\ WireTells'
<1> DEFINE m == Committed
<1>1. /\ SaveAction /\ UNCHANGED <<legacy, migration, gate, crossed>>
      /\ m \in Marker /\ ~Recorded(m) /\ m.print = legacy /\ legacy \in Sources
      /\ pc \in Saving /\ op.values = Source /\ Target = m.gen
  BY SaveMoves DEF SaveStep, SaveAction, ResumeInv, PlaceInv, GateInv, SavesInv, Marker
<1>2. /\ migration.initialized /\ m = Selected(migration)
      /\ migration.head # 0 /\ migration'.initialized
      /\ Selected(migration)' = Selected(migration)
  BY <1>1, CommittedIs, MarkersAssumption DEF ResumeInv, Shape, Selected
<1>3. WireTells'
  BY <1>1, <1>2 DEF WireTells, Recorded
<1>4. m.gen # 0
  BY <1>1 DEF Marker
<1>5. CASE UNCHANGED <<main.head, ext.head>> /\ Loaded' = Loaded /\ ExtCommitted' = ExtCommitted
  BY <1>1, <1>5, BootReadsStay
<1>6. ASSUME CanResume(Selected(migration))'
      PROVE  GoesOnFrom'
  BY <1>1, <1>2, <1>6 DEF GoesOnFrom
<1>7. CASE main'.head # main.head
  <2>1. /\ Loaded'.gen = m.gen /\ Loaded'.schema = RecordSchema
        /\ Loaded'.values.main = Source.main
    BY <1>1, <1>7, MainArrives
  <2>2. HasMainProjection(Selected(migration))'
    BY <1>1, <1>2, <2>1 DEF HasMainProjection, Source
  <2>3. CanResume(Selected(migration))'
    BY <1>1, <1>2, <2>2 DEF CanResume, Recorded
  <2> QED BY <1>3, <1>6, <2>3
<1>8. CASE main'.head = main.head /\ ext'.head # ext.head
  <2>1. /\ Loaded'.gen = m.gen /\ Loaded'.values = Source
        /\ ExtCommitted' # Absent /\ ExtCommitted'.gen = m.gen
    BY <1>1, <1>8, ExtensionArrives
  <2>2. Loaded'.schema = RecordSchema
    BY <1>1, <1>4, <1>8, <2>1, ExtensionArrives, LoadedTellsNext
  <2>3. WireAuthority(Selected(migration))' /\ Source' = Source
    BY <1>1, <1>2, <2>1, <2>2 DEF WireAuthority, Source
  <2>4. IsResult(Selected(migration))'
    BY <1>1, <1>2, <2>1, <2>2, <2>3 DEF IsResult, IsCompatibleResult
  <2>5. CanResume(Selected(migration))'
    BY <2>4 DEF CanResume
  <2> QED BY <1>3, <1>6, <2>5
<1> QED
  BY <1>1, <1>3, <1>5, <1>7, <1>8, SaveMoves, LoadedTells

\* A save of the user's: the generation moves past the marker's, or the
\* extension is written for the same one.
LEMMA UserSaveResumes ==
  ASSUME SettingsInv, SettingsInv', GateInv, ResumeInv, SaveStep, at = "running"
  PROVE  GoesOnFrom' /\ WireTells'
<1> DEFINE s == Selected(migration)
<1>1. SaveAction /\ UNCHANGED <<legacy, migration, gate, crossed>> /\ Shape /\ ~UnderWay
  BY DEF SaveStep, SaveAction, ResumeInv, PlaceInv
<1>2. GoesOnFrom' /\ Selected(migration)' = Selected(migration)
  BY <1>1, AtRestGoesOn DEF Selected
<1>3. CASE ~(migration.head # 0 /\ Recorded(s))
  BY <1>1, <1>2, <1>3 DEF WireTells, Recorded
<1>4. CASE migration.head # 0 /\ Recorded(s)
  <2>1. /\ s \in Marker /\ Tells(s) /\ s.gen \in Nat /\ s.gen # 0
        /\ Loaded.gen = main.head /\ Loaded'.gen = main'.head
        /\ main.head \in Nat
    BY <1>4, LoadedTells, LoadedTellsNext DEF GateInv, MarkersInv, Marker
  <2>2. main.head >= s.gen
    BY <2>1 DEF Tells
  <2>3. CASE UNCHANGED <<main.head, ext.head>> /\ Loaded' = Loaded /\ ExtCommitted' = ExtCommitted
    BY <1>1, <1>2, <2>3, BootReadsStay
  <2>4. CASE main'.head = main.head + 1
    <3>1. Loaded'.gen # s.gen
      BY <2>1, <2>2, <2>4
    <3> QED BY <1>1, <1>2, <3>1 DEF WireTells
  <2>5. CASE main'.head = main.head /\ ext'.head # ext.head
    <3>1. /\ ExtCommitted' # Absent /\ ExtCommitted'.gen = Loaded'.gen
          /\ main.head # 0 => Loaded'.schema = RecordSchema
      BY <1>1, <2>5, ExtensionArrives
    <3>2. Loaded'.gen = s.gen => Loaded'.schema = RecordSchema
      BY <2>1, <2>5, <3>1
    <3>3. Loaded'.gen = s.gen => WireAuthority(s)'
      BY <1>2, <3>1, <3>2 DEF WireAuthority
    <3> QED BY <1>1, <1>2, <3>3 DEF WireTells
  <2> QED BY <1>1, <2>3, <2>4, <2>5, SaveMoves
<1> QED
  BY <1>2, <1>3, <1>4

LEMMA SaveStepResumes ==
  ASSUME SettingsInv, SettingsInv', GateInv, ResumeInv, SaveStep
  PROVE  ResumeInv'
<1>1. /\ SaveAction /\ at \in {"saving", "running"} /\ at' = at /\ turn' = turn
      /\ UNCHANGED <<legacy, migration, gate, crossed>>
  BY DEF SaveStep, SaveAction, gate
<1>2. GoesOnFrom' /\ WireTells'
  BY <1>1, ImportResumes, UserSaveResumes
<1>3. /\ Shape' /\ Committed' = Committed /\ UnderWay' = UnderWay /\ Source' = Source
  BY <1>1 DEF ResumeInv, Shape, First, Recorded, Committed, Selected, UnderWay, Source
<1>4. /\ pc \in Saving /\ op'.base = op.base /\ op'.force = op.force /\ op'.values = op.values
  BY <1>1, SaveMoves
<1>5. Target' = Target
  BY <1>4 DEF Target, MainMoves
<1>6. PlaceInv'
  BY <1>1, <1>3, <1>4, <1>5 DEF ResumeInv, PlaceInv
<1>7. NextReady' /\ RefusedOnlyIfDisturbed'
  BY <1>1 DEF NextReady, RefusedOnlyIfDisturbed
<1> QED
  BY <1>2, <1>3, <1>6, <1>7 DEF ResumeInv

\* An old firmware may do what it likes to a device whose migration is at rest.
LEMMA RestResumes ==
  ASSUME SettingsInv, SettingsInv', GateInv, ResumeInv,
         \/ StartOwner \/ PowerOff \/ ArduinoChanges \/ Beta27
         \/ \E v \in DeviceSettings : UserSaves(v)
         \/ UNCHANGED mvars
  PROVE  ResumeInv'
<1>1. CASE StartOwner
  <2>1. /\ at = "start" /\ UNCHANGED <<vars, legacy, migration, crossed, extended>>
        /\ turn' = 0 /\ at' \in {"failed", "running"} /\ ~UnderWay
    BY <1>1 DEF StartOwner, GateFails, histories, ResumeInv, PlaceInv
  <2>2. Loaded' = Loaded /\ ExtCommitted' = ExtCommitted
    BY <2>1, JournalReads DEF vars
  <2>3. ~UnderWay' /\ pc \notin Saving
    BY <2>1, <2>2, ReadsStay DEF GateInv, SavesInv
  <2>4. NextReady' /\ PlaceInv' /\ RefusedOnlyIfDisturbed'
    BY <2>1, <2>3 DEF NextReady, PlaceInv, RefusedOnlyIfDisturbed
  <2> QED BY <2>1, <2>2, <2>4, BootReadsStay DEF ResumeInv
<1>2. CASE PowerOff
  <2>1. /\ UNCHANGED <<journal, legacy, migration, crossed, extended>>
        /\ turn' = 0 /\ at' = "off"
    BY <1>2 DEF PowerOff, PowerCut, histories, vars
  <2>2. NextReady' /\ PlaceInv' /\ RefusedOnlyIfDisturbed'
    BY <2>1 DEF NextReady, PlaceInv, RefusedOnlyIfDisturbed
  <2> QED BY <2>1, <2>2, JournalReads, BootReadsStay DEF ResumeInv
<1>3. CASE ArduinoChanges \/ Beta27
  <2>1. /\ at = "off" /\ at' = "off" /\ turn' = turn /\ migration' = migration
        /\ crossed' = (crossed \/ UnderWay)
        /\ Shape /\ turn = 0
    BY <1>3 DEF ArduinoChanges, Beta27, gate, ResumeInv, PlaceInv
  <2>2. Shape' /\ Selected(migration)' = Selected(migration)
    BY <2>1 DEF Shape, First, Recorded, Selected
  <2>3. GoesOnFrom'
    <3>1. CASE UnderWay
      BY <2>1, <3>1 DEF GoesOnFrom
    <3>2. CASE ~UnderWay
      BY <2>1, <3>2, AtRestGoesOn
    <3> QED BY <3>1, <3>2
  <2>4. WireTells'
    <3>1. CASE ArduinoChanges
      <4>1. Loaded' = Loaded /\ ExtCommitted' = ExtCommitted
        BY <3>1, JournalReads DEF ArduinoChanges, vars
      <4> QED BY <2>1, <2>2, <4>1 DEF ResumeInv, WireTells, Recorded, WireAuthority
    <3>2. CASE Beta27
      <4>1. main'.head = main.head + 1
        BY <3>2 DEF Beta27, Beta27Saves, SettingsInv, TypeOK, Journal, Prepared
      <4>2. migration.head # 0 /\ Recorded(Selected(migration)) =>
              Loaded'.gen # Selected(migration).gen
        BY <4>1, LoadedTells, LoadedTellsNext DEF GateInv, MarkersInv, Tells, Marker
      <4> QED BY <2>1, <2>2, <4>2 DEF WireTells, Recorded
    <3> QED BY <1>3, <3>1, <3>2
  <2>5. NextReady' /\ PlaceInv' /\ RefusedOnlyIfDisturbed'
    BY <2>1 DEF NextReady, PlaceInv, RefusedOnlyIfDisturbed
  <2> QED BY <2>2, <2>3, <2>4, <2>5 DEF ResumeInv
<1>4. CASE \E v \in DeviceSettings : UserSaves(v)
  <2>1. /\ at = "running" /\ at' = "running" /\ turn' = turn
        /\ UNCHANGED <<journal, legacy, migration, crossed, extended>>
    BY <1>4 DEF UserSaves, Apply, gate, histories
  <2>2. Loaded' = Loaded /\ ExtCommitted' = ExtCommitted
    BY <2>1, JournalReads
  <2>3. ~UnderWay'
    BY <2>1, <2>2, ReadsStay DEF ResumeInv, PlaceInv
  <2>4. NextReady' /\ PlaceInv' /\ RefusedOnlyIfDisturbed'
    BY <2>1, <2>3 DEF ResumeInv, NextReady, PlaceInv, RefusedOnlyIfDisturbed
  <2> QED BY <2>1, <2>2, <2>4, BootReadsStay DEF ResumeInv
<1>5. CASE UNCHANGED mvars
  <2>1. UNCHANGED <<journal, pc, op, legacy, migration, at, plan, turn, next, crossed, extended>>
    BY <1>5 DEF mvars, vars, gate, histories
  <2>2. Loaded' = Loaded /\ ExtCommitted' = ExtCommitted
    BY <2>1, JournalReads
  <2>3. /\ Committed' = Committed /\ Plan' = Plan /\ UnderWay' = UnderWay
        /\ Source' = Source /\ Target' = Target /\ Selected(migration)' = Selected(migration)
        /\ TransitionAllowed' = TransitionAllowed
    <3>1. Committed' = Committed /\ Plan' = Plan /\ UnderWay' = UnderWay
      BY <2>1, <2>2, ReadsStay
    <3> QED BY <2>1, <3>1 DEF Source, Target, MainMoves, Selected, TransitionAllowed
  <2>4. Ready(next) => Ready(next)'
    <3>1. \A m : m = next => (Ready(m) => Ready(m)')
      BY <2>1, <2>2, MarkersStay
    <3> QED BY <2>1, <3>1
  <2>5. NextReady'
    BY <2>1, <2>3, <2>4 DEF ResumeInv, NextReady, First, Recorded
  <2>6. PlaceInv' /\ RefusedOnlyIfDisturbed'
    BY <2>1, <2>3 DEF ResumeInv, PlaceInv, RefusedOnlyIfDisturbed
  <2> QED BY <2>1, <2>2, <2>5, <2>6, BootReadsStay DEF ResumeInv
<1> QED
  BY <1>1, <1>2, <1>3, <1>4, <1>5

LEMMA ResumeStarts == MInit => ResumeInv
BY DEF MInit, ResumeInv, Shape, NextReady, GoesOnFrom, WireTells, PlaceInv, RefusedOnlyIfDisturbed,
       Slots

LEMMA ResumeStep ==
  ASSUME SettingsInv, SettingsInv', GateInv, ResumeInv, [MNext]_mvars
  PROVE  ResumeInv'
BY AuditResumes, ExecuteResumes, WriteSlotResumes, WriteHeadResumes, WriteInitializedResumes,
   AdvanceResumes, SavedResumes, SaveStepResumes, RestResumes DEF MNext

-----------------------------------------------------------------------------
(* What the gate may overwrite.                                            *)
(*                                                                         *)
(* The argument: a user's save leaves the generation past every marker's,  *)
(* so a record of a marker's own generation is an importer's (ImportsInv); *)
(* and the gate writes over the generation of the marker before, or over   *)
(* none, or over what beta27's importer writes into empty settings.        *)

\* The marker a boot would go by: what the head selects, or a first one without it.
Live == IF migration.head = 0 THEN migration.slot[1] ELSE Selected(migration)

\* The main record is an importer's, if it is of the marker's generation and
\* the phase says so, or the extension was written for it.
Imported(m) ==
  m.gen = main.head /\ (Recorded(m) \/ (ExtCommitted # Absent /\ ExtCommitted.gen = main.head))
    => imported = main.head

ImportsInv ==
  /\ \A s \in Slots : LET r == migration.slot[s] IN
       r # Absent /\ Recorded(r) => r.gen <= main.head /\ Imported(r)
  /\ Live # Absent => Imported(Live)
  /\ at \in {"slot", "head"} => Imported(next)
  /\ at = "saving" /\ pc \in Saving /\ (main.head # op.base.gen \/ ~op.force.main) =>
       imported = main.head
  /\ NoSaveLost

LEMMA ImportedStays ==
  ASSUME main'.head = main.head, imported' = imported, ExtCommitted' = ExtCommitted
  PROVE  \A m : Imported(m)' <=> Imported(m)
BY DEF Imported, Recorded

\* Settings that are a marker's own, whole, are an importer's.
LEMMA ResultIsImported ==
  ASSUME SettingsInv, GateInv, ResumeInv, ImportsInv, Committed \in Marker, IsResult(Committed)
  PROVE  imported = main.head
<1>1. Committed = Live /\ Live # Absent
  BY MarkersAssumption, CommittedFacts DEF Live
<1>2. Committed.gen = main.head
  BY LoadedTells DEF IsResult, IsCompatibleResult
<1>3. ExtCommitted # Absent /\ ExtCommitted.gen = main.head
  BY <1>2 DEF IsResult, IsCompatibleResult, WireAuthority, RecordSchema
<1> QED
  BY <1>1, <1>2, <1>3 DEF ImportsInv, Imported

\* A step that leaves the settings and the gate's journal alone, and begins no save.
LEMMA QuietImports ==
  ASSUME SettingsInv, ImportsInv, UNCHANGED <<journal, migration, imported>>, at' # "saving",
         at' \in {"slot", "head"} => Imported(next)'
  PROVE  ImportsInv'
<1>1. \A m : Imported(m)' <=> Imported(m)
  BY JournalReads, ImportedStays DEF journal
<1>2. /\ main'.head = main.head /\ Live' = Live
  BY DEF journal, Live, Selected
<1>3. NoSaveLost'
  BY DEF NoSaveLost
<1> QED
  BY <1>1, <1>2, <1>3 DEF ImportsInv, Recorded

LEMMA NextIsImported ==
  ASSUME SettingsInv, GateInv, ResumeInv, ImportsInv, UNCHANGED <<journal, migration, imported>>,
         \/ Plan = "start" /\ next' = FirstMarker
         \/ Plan = "recover" /\ next' = migration.slot[1]
         \/ Committed \in Marker /\ IsResult(Committed) /\ next' = NextMarker
  PROVE  Imported(next)'
<1>1. main'.head = main.head /\ (\A m : Imported(m)' <=> Imported(m))
  BY JournalReads, ImportedStays DEF journal
<1>2. CASE Plan = "start" /\ next' = FirstMarker
  <2>1. FirstMarker.gen = main.head + 1 /\ main.head \in Nat
    BY LoadedTells DEF FirstMarker
  <2> QED BY <1>1, <1>2, <2>1 DEF Imported
<1>3. CASE Plan = "recover" /\ next' = migration.slot[1]
  <2>1. ~migration.initialized /\ migration.slot[1] \in Marker
    BY <1>3, RecoverPlan DEF ResumeInv
  <2>2. Live = migration.slot[1] /\ Live # Absent
    BY <2>1, MarkersAssumption, SlotsAlternate DEF Live, Selected, ResumeInv, Shape
  <2>3. Imported(Live)
    BY <2>2 DEF ImportsInv
  <2> QED BY <1>1, <1>3, <2>2, <2>3
<1>4. CASE Committed \in Marker /\ IsResult(Committed) /\ next' = NextMarker
  <2>1. imported' = main'.head
    BY <1>1, <1>4, ResultIsImported
  <2> QED BY <2>1 DEF Imported
<1> QED
  BY <1>2, <1>3, <1>4

LEMMA GateImports ==
  ASSUME SettingsInv, GateInv, ResumeInv, ImportsInv, Audit \/ Execute \/ Saved
  PROVE  ImportsInv'
<1>1. UNCHANGED <<journal, migration, imported>>
  BY DEF Audit, Execute, Saved, histories, vars, Boot
<1>2. CASE Audit
  BY <1>1, <1>2, QuietImports DEF Audit, GateFails, GateGoes
<1>3. CASE Execute
  BY <1>1, <1>3, NextIsImported, QuietImports DEF Execute, GateFails
<1>4. CASE Saved
  <2>1. Committed \in Marker
    BY <1>4 DEF Saved, GateInv, SavesInv
  <2> QED BY <1>1, <1>4, <2>1, NextIsImported, QuietImports DEF Saved, GateFails
<1> QED
  BY <1>2, <1>3, <1>4

LEMMA WritesImport ==
  ASSUME SettingsInv, GateInv, ResumeInv, ImportsInv, WriteSlot \/ WriteHead \/ WriteInitialized
  PROVE  ImportsInv'
<1>1. UNCHANGED <<journal, imported>> /\ at' # "saving"
  BY DEF WriteSlot, WriteHead, WriteInitialized, GateFails, GateGoes, histories, vars
<1>2. /\ main'.head = main.head /\ NoSaveLost'
      /\ \A m : Imported(m)' <=> Imported(m)
  BY <1>1, JournalReads, ImportedStays DEF journal, NoSaveLost
<1>3. CASE UNCHANGED migration /\ at' \notin {"slot", "head"}
  BY <1>1, <1>3, QuietImports
<1>4. /\ migration.head \in Nat
      /\ migration.slot \in [Slots -> Marker \cup {Absent}]
  BY DEF GateInv, MigrationTypeOK
<1>5. CASE WriteSlot /\ migration' = [migration EXCEPT !.slot[SlotOf(next.seq)] = next]
  <2>1. /\ next \in Marker /\ next.seq = migration.head + 1 /\ Imported(next)
        /\ Recorded(next) => Results(next)
    BY <1>5 DEF WriteSlot, GateInv, MarkersInv, ImportsInv
  <2>2. /\ SlotOf(next.seq) \in Slots /\ SlotOf(migration.head) # SlotOf(next.seq)
        /\ SlotOf(migration.head) \in Slots /\ SlotOf(1) = 1
    BY <1>4, <2>1, SlotsAlternate
  <2>3. /\ migration'.slot = [migration.slot EXCEPT ![SlotOf(next.seq)] = next]
        /\ migration'.head = migration.head
    BY <1>4, <1>5, <2>2 DEF GateInv, MigrationTypeOK
  <2>4. \A s \in Slots : migration'.slot[s] = IF s = SlotOf(next.seq) THEN next
                                              ELSE migration.slot[s]
    BY <1>4, <2>2, <2>3
  <2>5. Live' \in {next, Live}
    BY <2>1, <2>2, <2>3, <2>4 DEF Live, Selected
  <2>6. Recorded(next) => next.gen <= main.head
    BY <2>1, LoadedTells DEF Results
  <2>7. at' \in {"slot", "head"} => next' = next
    BY <1>5 DEF WriteSlot, GateFails, GateGoes
  <2>8. \A s \in Slots : LET r == migration'.slot[s] IN
          r # Absent /\ Recorded(r) => r.gen <= main.head /\ Imported(r)
    BY <2>1, <2>4, <2>6 DEF ImportsInv
  <2>9. Live' # Absent => Imported(Live)'
    BY <1>2, <2>1, <2>5 DEF ImportsInv
  <2>10. at' \in {"slot", "head"} => Imported(next)'
    BY <1>2, <2>1, <2>7
  <2> QED BY <1>1, <1>2, <2>8, <2>9, <2>10 DEF ImportsInv, Recorded
<1>6. CASE WriteHead /\ migration' = [migration EXCEPT !.head = next.seq]
  <2>1. /\ next \in Marker /\ Imported(next) /\ migration.slot[SlotOf(next.seq)] = next
    BY <1>6 DEF WriteHead, GateInv, MarkersInv, ImportsInv
  <2>2. migration'.slot = migration.slot /\ migration'.head = next.seq /\ next.seq # 0
    BY <1>6, <2>1 DEF GateInv, MigrationTypeOK, Marker
  <2>3. Live' = next
    BY <2>1, <2>2 DEF Live, Selected
  <2>4. at' \notin {"slot", "head"}
    BY <1>6 DEF WriteHead, GateFails, GateGoes
  <2> QED BY <1>1, <1>2, <2>1, <2>2, <2>3, <2>4 DEF ImportsInv, Recorded
<1>7. CASE WriteInitialized /\ migration' = [migration EXCEPT !.initialized = TRUE]
  <2>1. migration'.slot = migration.slot /\ migration'.head = migration.head
    BY <1>7 DEF GateInv, MigrationTypeOK
  <2>2. Live' = Live
    BY <2>1 DEF Live, Selected
  <2>3. at' \notin {"slot", "head"}
    BY <1>7 DEF WriteInitialized, GateFails
  <2> QED BY <1>1, <1>2, <2>1, <2>2, <2>3 DEF ImportsInv, Recorded
<1>8. CASE WriteSlot /\ ~TransitionAllowed
  BY <1>8 DEF WriteSlot, ResumeInv, NextReady
<1> QED
  BY <1>3, <1>5, <1>6, <1>7, <1>8 DEF WriteSlot, WriteHead, WriteInitialized, GateFails, GateGoes

\* The gate's save starts from none, from an importer's record, or from one that
\* looks like beta27's import.
LEMMA AdvanceImports ==
  ASSUME SettingsInv, GateInv, ResumeInv, ImportsInv, Advance
  PROVE  ImportsInv'
<1>1. /\ at = "advance" /\ UNCHANGED <<legacy, migration>>
      /\ Committed \in Marker /\ Committed.print = legacy
  BY DEF Advance, ResumeInv, PlaceInv
<1>2. CASE UNCHANGED <<vars, imported>> /\ at' \in {"failed", "refused", "start"}
  BY <1>1, <1>2, QuietImports DEF vars
<1>3. CASE /\ IsResult(Committed) /\ at' = "slot" /\ next' = NextMarker
           /\ UNCHANGED <<vars, imported>>
  BY <1>1, <1>3, NextIsImported, QuietImports DEF vars
<1>4. CASE /\ Plan = "resume" /\ ~IsResult(Committed) /\ at' = "saving"
           /\ Apply(Source, [main |-> ~HasMainProjection(Committed), ext |-> TRUE])
           /\ imported' = IF HasMainProjection(Committed) THEN Loaded.gen ELSE imported
  <2> DEFINE half == HasMainProjection(Committed)
  <2>1. /\ UNCHANGED journal /\ op'.base = Loaded /\ (op'.force.main <=> ~half)
        /\ main'.head = main.head /\ Live' = Live /\ Loaded.gen = main.head
    BY <1>1, <1>4, ImportBegins, LoadedTells DEF journal, Live, Selected
  <2>2. /\ ExtCommitted' = ExtCommitted /\ (half => imported' = main.head)
        /\ ~half => imported' = imported
    BY <1>4, <2>1, JournalReads
  <2>3. \A m : Imported(m) => Imported(m)'
    BY <2>1, <2>2 DEF Imported, Recorded
  <2>4. NoSaveLost'
    <3>1. CASE half
      BY <2>1, <3>1 DEF NoSaveLost
    <3>2. ASSUME ~half
          PROVE  \/ Loaded.gen \in {0, imported}
                 \/ Loaded.gen = 1 /\ Loaded.values = Historical
      <4>1. ~Recorded(Committed) /\ CanResume(Committed)
        BY <1>1, <1>4, <3>2, ImportTarget, MarkedPlans
      <4>2. CASE CanResumePrepared(Committed)
        BY <1>4, <4>2 DEF CanResumePrepared, MatchesHistorical
      <4>3. CASE CanResumeRollover(Committed)
        <5> DEFINE before == migration.slot[SlotOf(Committed.seq + 1)]
        <5>1. /\ before # Absent /\ before.phase = Complete /\ Loaded.gen = before.gen
          BY <4>3 DEF CanResumeRollover, CompletedBase
        <5>2. SlotOf(Committed.seq + 1) \in Slots /\ Recorded(before)
          BY <1>1, <5>1, SlotsAlternate DEF Marker, Recorded, Preparing, Complete
        <5>3. Imported(before)
          BY <5>1, <5>2 DEF ImportsInv
        <5> QED BY <2>1, <5>1, <5>2, <5>3 DEF Imported
      <4> QED BY <1>4, <3>2, <4>1, <4>2, <4>3 DEF CanResume, Recorded
    <3>3. Historical' = Historical
      BY <1>1 DEF Historical, Source
    <3> QED BY <2>1, <2>2, <3>1, <3>2, <3>3 DEF NoSaveLost
  <2> QED BY <1>1, <1>4, <2>1, <2>2, <2>3, <2>4 DEF ImportsInv, Recorded
<1> QED
  BY <1>2, <1>3, <1>4 DEF Advance, GateFails, GateGoes

\* Once the main record has moved, it is the importer's, or past every marker.
LEMMA SaveStepImports ==
  ASSUME SettingsInv, SettingsInv', GateInv, ResumeInv, ImportsInv, SaveStep
  PROVE  ImportsInv'
<1>1. /\ SaveAction /\ at \in {"saving", "running"} /\ at' = at
      /\ UNCHANGED <<legacy, migration, gate>>
      /\ imported' = IF at = "saving" /\ main'.head # main.head THEN main'.head ELSE imported
  BY DEF SaveStep, SaveAction, gate
<1>2. /\ pc \in Saving /\ op'.base = op.base /\ op'.force = op.force
      /\ main.head \in Nat /\ main.head >= op.base.gen
  <2>1. pc \in Saving /\ op'.base = op.base /\ op'.force = op.force
    BY <1>1, SaveMoves
  <2>2. op.base.gen \in Nat /\ Target \in {op.base.gen, op.base.gen + 1}
    BY <2>1, OperationFacts DEF Target
  <2>3. Loaded.gen \in {op.base.gen, op.base.gen + 1}
    BY <2>1, <2>2 DEF SettingsInv, SaveInv, Old, Half, New, Saving, Places
  <2> QED BY <2>1, <2>2, <2>3, LoadedTells
<1>3. Live' = Live /\ Historical' = Historical
  BY <1>1 DEF Live, Selected, Historical, Source
<1>4. at = "running" /\ Live # Absent =>
        Recorded(Live) /\ \E s \in Slots : Live = migration.slot[s]
  <2>1. CASE Committed = Absent
    BY <2>1, CommittedIs DEF Live, Slots, ResumeInv
  <2>2. CASE Committed # Absent /\ at = "running"
    <3>1. Committed # Corrupt /\ Committed.phase = Complete
      BY <2>2 DEF ResumeInv, PlaceInv, UnderWay
    <3>2. Committed = Selected(migration) /\ migration.head # 0 /\ migration.head \in Nat
      BY <2>2, <3>1, CommittedFacts DEF GateInv, MigrationTypeOK
    <3> QED BY <3>1, <3>2, SlotsAlternate DEF Live, Recorded, Preparing, Complete, Selected
  <2> QED BY <2>1, <2>2
<1>5. CASE main'.head = main.head /\ ExtCommitted' = ExtCommitted
  <2>1. imported' = imported /\ \A m : Imported(m)' <=> Imported(m)
    BY <1>1, <1>5, ImportedStays
  <2>2. NoSaveLost'
    BY <1>1, <1>2, <1>3, <1>5, <2>1 DEF ImportsInv, NoSaveLost
  <2> QED BY <1>1, <1>2, <1>3, <1>5, <2>1, <2>2 DEF ImportsInv, Recorded
<1>6. CASE main'.head = main.head + 1
  <2>1. /\ at = "saving" => imported' = main'.head
        /\ main'.head # op.base.gen
    BY <1>1, <1>2, <1>6
  <2>2. \A s \in Slots : LET r == migration.slot[s] IN
          r # Absent /\ Recorded(r) => r.gen <= main'.head /\ r.gen # main'.head
    <3>1. \A s \in Slots : migration.slot[s] # Absent => migration.slot[s].gen \in Nat
      BY DEF GateInv, MigrationTypeOK, Marker
    <3> QED BY <1>2, <1>6, <3>1 DEF ImportsInv
  <2>3. Live' # Absent => Imported(Live)'
    <3>1. CASE at = "saving"
      BY <2>1, <3>1 DEF Imported
    <3>2. CASE at = "running"
      BY <1>3, <1>4, <2>2, <3>2 DEF Imported
    <3> QED BY <1>1, <3>1, <3>2
  <2>4. NoSaveLost'
    BY <1>2, <2>1 DEF NoSaveLost
  <2> QED BY <1>1, <1>2, <2>1, <2>2, <2>3, <2>4 DEF ImportsInv, Recorded, Imported
<1>7. CASE main'.head = main.head /\ ext'.head # ext.head
  <2>1. imported' = imported
    BY <1>1, <1>7
  <2>2. at = "saving" => imported = main.head
    <3>1. MainMoves => main.head = op.base.gen + 1
      BY <1>1, <1>2, <1>7, SaveMoves
    <3>2. op.force.main => MainMoves
      BY DEF MainMoves, MainChanged
    <3>3. op.base.gen \in Nat
      BY <1>2, OperationFacts
    <3> QED BY <1>2, <3>1, <3>2, <3>3 DEF ImportsInv
  <2>3. \A m : Recorded(m) /\ Imported(m) => Imported(m)'
    BY <1>7, <2>1 DEF Imported, Recorded
  <2>4. Live' # Absent => Imported(Live)'
    <3>1. CASE at = "saving"
      BY <1>7, <2>1, <2>2, <3>1 DEF Imported
    <3>2. CASE at = "running"
      BY <1>3, <1>4, <2>3, <3>2 DEF ImportsInv
    <3> QED BY <1>1, <3>1, <3>2
  <2>5. NoSaveLost'
    BY <1>1, <1>2, <1>3, <1>7, <2>1 DEF ImportsInv, NoSaveLost
  <2>6. \A s \in Slots : LET r == migration.slot[s] IN
          r # Absent /\ Recorded(r) => r.gen <= main.head /\ Imported(r)
    BY DEF ImportsInv
  <2> QED BY <1>1, <1>2, <1>7, <2>1, <2>2, <2>3, <2>4, <2>5, <2>6 DEF ImportsInv, Recorded
<1> QED
  BY <1>1, <1>5, <1>6, <1>7, SaveMoves

LEMMA RestImports ==
  ASSUME SettingsInv, SettingsInv', GateInv, ResumeInv, ImportsInv,
         \/ StartOwner \/ PowerOff \/ ArduinoChanges \/ Beta27
         \/ \E v \in DeviceSettings : UserSaves(v)
         \/ UNCHANGED mvars
  PROVE  ImportsInv'
<1>1. CASE StartOwner \/ PowerOff \/ ArduinoChanges \/ \E v \in DeviceSettings : UserSaves(v)
  <2>1. UNCHANGED <<journal, migration, imported>> /\ at' \notin {"saving", "slot", "head"}
    BY <1>1 DEF StartOwner, PowerOff, PowerCut, ArduinoChanges, UserSaves, Apply, GateFails,
                gate, histories, vars
  <2> QED BY <2>1, QuietImports
<1>2. CASE Beta27
  <2>1. /\ at = "off" /\ UNCHANGED <<migration, gate, ext>> /\ at' = "off"
    BY <1>2 DEF Beta27, Beta27Saves, gate
  <2>2. main'.head = main.head + 1 /\ ExtCommitted' = ExtCommitted /\ Live' = Live
    BY <1>2, <2>1
       DEF Beta27, Beta27Saves, SettingsInv, TypeOK, Journal, Prepared, ExtCommitted, Selected, Live
  <2>3. main.head \in Nat /\ (ExtCommitted # Absent => ExtCommitted.gen # main'.head)
    BY <2>2, LoadedTells, BoundsAssumption DEF ExtRecord
  <2>4. \A s \in Slots : LET r == migration.slot[s] IN
          r # Absent /\ Recorded(r) => r.gen <= main'.head /\ r.gen # main'.head
    <3>1. \A s \in Slots : migration.slot[s] # Absent => migration.slot[s].gen \in Nat
      BY DEF GateInv, MigrationTypeOK, Marker
    <3> QED BY <2>2, <2>3, <3>1 DEF ImportsInv
  <2>5. Live' # Absent /\ Recorded(Live) => Live.gen # main'.head
    <3>1. CASE migration.head = 0
      BY <2>2, <2>4, <3>1 DEF Live, Slots
    <3>2. CASE migration.head # 0
      BY <2>2, <2>4, <3>2, SlotsAlternate DEF Live, Selected, GateInv, MigrationTypeOK
    <3> QED BY <3>1, <3>2
  <2>6. Live' # Absent => Imported(Live)'
    BY <2>2, <2>3, <2>5 DEF Imported, Recorded
  <2>7. NoSaveLost'
    BY <2>1 DEF NoSaveLost
  <2> QED BY <2>1, <2>4, <2>6, <2>7 DEF ImportsInv, Imported, Recorded
<1>3. CASE UNCHANGED mvars
  <2>1. UNCHANGED <<journal, main, pc, op, legacy, migration, at, next, imported>>
    BY <1>3 DEF mvars, vars, journal, gate, histories
  <2>2. \A m : Imported(m)' <=> Imported(m)
    BY <2>1, JournalReads, ImportedStays
  <2>3. Live' = Live /\ Historical' = Historical
    BY <2>1 DEF Live, Selected, Historical, Source
  <2> QED BY <2>1, <2>2, <2>3 DEF ImportsInv, NoSaveLost, Recorded
<1> QED
  BY <1>1, <1>2, <1>3

LEMMA ImportsStart == MInit => ImportsInv
BY DEF MInit, ImportsInv, NoSaveLost, Live, Slots

LEMMA ImportsStep ==
  ASSUME SettingsInv, SettingsInv', GateInv, ResumeInv, ImportsInv, [MNext]_mvars
  PROVE  ImportsInv'
BY GateImports, WritesImport, AdvanceImports, SaveStepImports, RestImports DEF MNext

\* The inductive invariant of the gate: what a cut boot goes on from, and whose
\* the record is that it may write over.
THEOREM GateInductive == MSpec => [](ResumeInv /\ ImportsInv)
<1>1. /\ (SettingsInv /\ GateInv) /\ (SettingsInv /\ GateInv)' /\ ResumeInv /\ ImportsInv
      /\ [MNext]_mvars
      => ResumeInv' /\ ImportsInv'
  BY ResumeStep, ImportsStep
<1> QED
  BY <1>1, ResumeStarts, ImportsStart, MigrationInductive, PTL DEF MSpec

\* Wherever a boot was cut, and however often, the gate of an undisturbed device
\* goes on and does not refuse.
THEOREM RefusedOnlyIfDisturbedHolds == MSpec => []RefusedOnlyIfDisturbed
<1>1. ResumeInv => RefusedOnlyIfDisturbed
  BY DEF ResumeInv
<1> QED
  BY <1>1, GateInductive, PTL

\* No main record that a user saved is written over by the gate, unless it is
\* what beta27's importer would have written.
THEOREM NoSaveLostHolds == MSpec => []NoSaveLost
<1>1. ImportsInv => NoSaveLost
  BY DEF ImportsInv
<1> QED
  BY <1>1, GateInductive, PTL
=============================================================================
