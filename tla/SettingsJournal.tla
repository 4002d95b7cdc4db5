----------------------------- MODULE SettingsJournal -----------------------------
(***************************************************************************)
(* The settings of the device, in two journals of one NVS namespace.       *)
(*                                                                         *)
(* The main journal must stay readable by the beta27 firmware the device   *)
(* may be rolled back to, so what beta27 does not know (the swap of the    *)
(* LED roles, the number of image-generation steps) is in an extension     *)
(* journal of its own.  Each journal has two slots and a head whose parity *)
(* selects one: a save prepares the other slot, reads it back, and moves   *)
(* the head.  NVS writes one key at a time, all or nothing, and nothing    *)
(* joins two keys: a save that changes both journals moves two heads.      *)
(*                                                                         *)
(* A save holds the owner's mutex from commitLocked() to its return, so    *)
(* one is under way at most; the power may go at any of its steps.         *)
(***************************************************************************)
EXTENDS Naturals

CONSTANTS
  MainValues,     \* what the main journal holds, as a whole
  FreshMain,      \* of the fresh defaults
  Steps, DefaultSteps,
  MaxGeneration,  \* of a main record, 2^32 - 1 in the code
  MaxSequence,    \* of an extension record, 2^32 - 1 in the code
  DevelopmentImages, \* may the device come from an image that wrote schema 3?
  Absent, Corrupt, Unknown,
  MaxFaults       \* bound: NVS calls that fail

ASSUME DefaultsAssumption == FreshMain \in MainValues /\ DefaultSteps \in Steps
ASSUME BoundsAssumption ==
  /\ MaxGeneration \in Nat \ {0} /\ MaxSequence \in Nat \ {0} /\ MaxFaults \in Nat
  /\ DevelopmentImages \in BOOLEAN
RecordSchema == 2       \* kSettingsRecordSchema

ExtValues == [led : BOOLEAN, steps : Steps]
DeviceSettings == [main : MainValues, ext : ExtValues]
MainRecord ==
  [gen : 1..MaxGeneration, schema : {RecordSchema, 3}, main : MainValues, led : BOOLEAN]
ExtRecord == [seq : 1..MaxSequence, gen : 0..MaxGeneration, ext : ExtValues]
Snapshot == [gen : 0..MaxGeneration, schema : {0, RecordSchema, 3}, values : DeviceSettings]

\* The marks are no records.
ASSUME MarksAssumption ==
  /\ Absent # Corrupt
  /\ {Absent, Corrupt} \cap (ExtValues \cup MainRecord \cup ExtRecord \cup Snapshot) = {}
  /\ Corrupt # [gen |-> 0, schema |-> 0, main |-> FreshMain, led |-> FALSE]

VARIABLES
  main,         \* [slot, head] of the main journal; head 0 is an absent one
  marker,       \* the advisory "initialized" key
  ext,          \* [slot, head] of the extension journal
  pc,           \* where saveRollbackCompatibleSettings() is
  op,           \* its arguments and what it has prepared
  snapshot,     \* snapshot_ of the owner
  initialized,  \* initialized_ of the owner
  result,       \* what the last save returned
  faults

journal == <<main, marker, ext>>
owner == <<snapshot, initialized, result>>
vars == <<journal, pc, op, owner, faults>>

Slots == {0, 1}
SlotOf(n) == n % 2
Selected(j) == j.slot[SlotOf(j.head)]

-----------------------------------------------------------------------------
\* SettingsStoreCore::load().
MainLoaded ==
  IF main.head = 0 THEN
    IF marker THEN Corrupt
    ELSE [gen |-> 0, schema |-> 0, main |-> FreshMain, led |-> FALSE]
  ELSE IF Selected(main) = Absent \/ Selected(main).gen # main.head THEN Corrupt
  ELSE Selected(main)

\* inspectCommitted().
ExtCommitted ==
  IF ext.head = 0 THEN Absent
  ELSE IF Selected(ext) = Absent \/ Selected(ext).seq # ext.head THEN Corrupt
  ELSE Selected(ext)

\* SettingsExtensionStoreCore::load(): an extension may outlive the main
\* record it was written for, since beta27 saves main records only.
ExtLoaded(m) == LET e == ExtCommitted IN
  IF e = Absent THEN [led |-> m.led, steps |-> DefaultSteps]
  ELSE IF e = Corrupt \/ e.gen > m.gen THEN Corrupt
  ELSE e.ext

\* loadRollbackCompatibleSettings().
Composite(m, e) ==
  IF e = Corrupt THEN Corrupt
  ELSE [gen |-> m.gen, schema |-> m.schema, values |-> [main |-> m.main, ext |-> e]]
Loaded ==
  LET m == MainLoaded IN IF m = Corrupt THEN Corrupt ELSE Composite(m, ExtLoaded(m))

-----------------------------------------------------------------------------
Journal(record, top) == [slot : [Slots -> record \cup {Absent}], head : 0..top]
EmptyJournal == [slot |-> [s \in Slots |-> Absent], head |-> 0]

OneRecord(r) ==
  [slot |-> [s \in Slots |-> IF s = SlotOf(r.gen) THEN r ELSE Absent], head |-> r.gen]

\* The device is new, was last saved by beta27, or by a development image.
Init ==
  /\ main \in {EmptyJournal}
       \cup {OneRecord(r) : r \in {x \in MainRecord :
               x.gen = 1 /\ IF x.schema = 3 THEN DevelopmentImages ELSE ~x.led}}
  /\ marker = (main.head # 0)
  /\ ext = EmptyJournal
  /\ pc = "off" /\ op = Unknown
  /\ snapshot = Unknown /\ initialized = FALSE /\ result = "none"
  /\ faults = 0

Fault ==
  /\ faults < MaxFaults
  /\ faults' = faults + 1

\* initialize(), after the migration gate.
Boot ==
  /\ pc = "off" /\ Loaded # Corrupt
  /\ pc' = "idle"
  /\ snapshot' = Loaded /\ initialized' = TRUE
  /\ UNCHANGED <<journal, op, result, faults>>

\* Power loss, at any point.
PowerCut ==
  /\ pc # "off"
  /\ pc' = "off" /\ op' = Unknown
  /\ snapshot' = Unknown /\ initialized' = FALSE /\ result' = "none"
  /\ UNCHANGED <<journal, faults>>

\* Mutant: a failed save leaves the owner with the snapshot it had.
ReturnStale(code, authoritative) ==
  /\ snapshot' = IF code = "ok" THEN authoritative ELSE snapshot
  /\ initialized' = (authoritative # Unknown)
  /\ result' = code
  /\ pc' = "idle"

\* The end of commitLocked(): what the save left is the new snapshot; an owner
\* that does not know what is there closes until the next boot.
Return(code, authoritative) ==
  /\ snapshot' = IF authoritative # Unknown THEN authoritative ELSE snapshot
  /\ initialized' = (authoritative # Unknown)
  /\ result' = code
  /\ pc' = "idle"

\* The migration gate forces both journals to be written, or the extension alone.
NoForce == [main |-> FALSE, ext |-> FALSE]
Forces == {NoForce, [main |-> TRUE, ext |-> TRUE], [main |-> FALSE, ext |-> TRUE]}

MainChanged(base, v, f) ==
  f.main \/ base.schema > RecordSchema \/ base.values.main # v.main

\* A schema-3 record's LED roles are moved to the extension with the first save.
ExtChanged(base, v, f) ==
  \/ base.values.ext # v.ext
  \/ MainChanged(base, v, f) /\ base.schema >= 3
  \/ f.main \/ f.ext

\* applyPortalSettings(), a voice command or the gate: up to the first write.
Apply(v, f) == LET l == Loaded IN
  /\ pc = "idle" /\ initialized
  /\ op' = [values |-> v, force |-> f, base |-> l, since |-> faults, prepared |-> Absent]
  /\ UNCHANGED journal
  /\ \/ Fault /\ Return("storage", Unknown)
     \/ /\ UNCHANGED faults
        /\ IF l = Corrupt THEN Return("corrupt", Unknown)
           ELSE IF l.gen # snapshot.gen THEN Return("conflict", l)
           ELSE IF MainChanged(l, v, f) /\ l.gen = MaxGeneration THEN Return("exhausted", l)
           ELSE IF ExtChanged(l, v, f) THEN pc' = "prepare_ext" /\ UNCHANGED owner
           ELSE IF MainChanged(l, v, f) THEN pc' = "prepare_main" /\ UNCHANGED owner
           ELSE Return("ok", l)

MainMoves == MainChanged(op.base, op.values, op.force)
Target == IF MainMoves THEN op.base.gen + 1 ELSE op.base.gen

\* A prepare step fails on a read, on the write, or on reading back; the record
\* may be in its slot all the same.  Nothing selects it.
Prepared(j, n, r) == [j EXCEPT !.slot[SlotOf(n)] = r]

\* Mutant: the extension's head moves before the main record's.
ExtensionFirst ==
  LET r == [seq |-> ext.head + 1, gen |-> op.base.gen, ext |-> op.values.ext] IN
  /\ pc = "prepare_ext" /\ ext.head < MaxSequence
  /\ ext' = [Prepared(ext, r.seq, r) EXCEPT !.head = r.seq]
  /\ pc' = IF MainMoves THEN "prepare_main" ELSE "verify"
  /\ UNCHANGED <<main, marker, op, owner, faults>>

\* SettingsExtensionStoreCore::prepare().
PrepareExtension ==
  LET r == [seq |-> ext.head + 1, gen |-> Target, ext |-> op.values.ext] IN
  /\ pc = "prepare_ext"
  /\ UNCHANGED <<main, marker>>
  /\ IF ext.head = MaxSequence
     THEN Return("exhausted", op.base) /\ UNCHANGED <<ext, op, faults>>
     ELSE \/ Fault /\ ext' \in {ext, Prepared(ext, r.seq, r)}
             /\ Return("storage", op.base) /\ UNCHANGED op
          \/ /\ ext' = Prepared(ext, r.seq, r)
             /\ op' = [op EXCEPT !.prepared = r]
             /\ pc' = IF MainMoves THEN "prepare_main"
                      ELSE "publish_ext"
             /\ UNCHANGED <<owner, faults>>

MainTarget ==
  [gen |-> op.base.gen + 1, schema |-> RecordSchema, main |-> op.values.main, led |-> FALSE]

\* SettingsStoreCore::prepare().
PrepareMain ==
  /\ pc = "prepare_main"
  /\ UNCHANGED <<marker, ext, op>>
  /\ \/ /\ Fault
        /\ main' \in {main, Prepared(main, MainTarget.gen, MainTarget)}
        /\ Return("storage", op.base)
     \/ /\ main' = Prepared(main, MainTarget.gen, MainTarget)
        /\ pc' = "select_main"
        /\ UNCHANGED <<owner, faults>>

Go(p) == pc' = p /\ UNCHANGED <<op, owner>>

\* commitPreparedInternal(): what was prepared is read again, then the head is
\* moved, then the marker set.  A failed read leaves everything as it was; a
\* head whose write was reported as failed may have moved.
SelectMain ==
  /\ pc = "select_main"
  /\ UNCHANGED <<marker, ext>>
  /\ \/ main' = [main EXCEPT !.head = MainTarget.gen] /\ Go("set_marker") /\ UNCHANGED faults
     \/ Fault /\ UNCHANGED main /\ Go("failed")
     \/ Fault /\ main' = [main EXCEPT !.head = MainTarget.gen] /\ Go("check_main")

SetMarker ==
  /\ pc = "set_marker"
  /\ UNCHANGED <<main, ext>>
  /\ Go("check_main")
  /\ \/ marker' = TRUE /\ UNCHANGED faults
     \/ Fault /\ marker' \in {marker, TRUE}

AfterMain == IF op.prepared = Absent THEN "verify" ELSE "publish_ext"

\* What the head selects now decides, whatever its write returned.
CheckMain ==
  /\ pc = "check_main"
  /\ UNCHANGED journal
  /\ \/ Go(IF MainLoaded = MainTarget THEN AfterMain ELSE "failed") /\ UNCHANGED faults
     \/ Fault /\ Go("failed")

\* SettingsExtensionStoreCore::publish(), up to its write.
PublishExtension ==
  /\ pc = "publish_ext"
  /\ UNCHANGED <<main, marker>>
  /\ \/ /\ UNCHANGED faults
        /\ IF /\ ext.head + 1 = op.prepared.seq
              /\ ext.slot[SlotOf(op.prepared.seq)] = op.prepared
           THEN ext' = [ext EXCEPT !.head = op.prepared.seq] /\ Go("check_ext")
           ELSE UNCHANGED ext /\ Go("failed")
     \/ Fault /\ UNCHANGED ext /\ Go("failed")
     \/ Fault /\ ext' = [ext EXCEPT !.head = op.prepared.seq] /\ Go("check_ext")

CheckExtension ==
  /\ pc = "check_ext"
  /\ UNCHANGED journal
  /\ \/ Go(IF ExtCommitted = op.prepared THEN "verify" ELSE "failed") /\ UNCHANGED faults
     \/ Fault /\ Go("failed")

Known(l) == IF l = Corrupt THEN Unknown ELSE l

\* A head did not move, or is not known to have: the save fails with what is
\* there, if that can be read.
ReloadFailed ==
  /\ pc = "failed"
  /\ UNCHANGED <<journal, op>>
  /\ \/ Return("storage", Known(Loaded)) /\ UNCHANGED faults
     \/ Fault /\ Return("storage", Unknown)

\* Both journals are read again before the save is acknowledged.
Verify ==
  /\ pc = "verify"
  /\ UNCHANGED <<journal, op>>
  /\ \/ /\ UNCHANGED faults
        /\ IF Loaded # Corrupt /\ Loaded.gen = Target /\ Loaded.values = op.values
           THEN Return("ok", Loaded)
           ELSE Return("storage", Known(Loaded))
     \/ Fault /\ Return("storage", Unknown)

\* The device is rolled back to beta27, saves there, and is updated again.
\* beta27 does not read schema 3 and knows nothing of the extension.
Beta27Saves(m) ==
  LET r == [gen |-> main.head + 1, schema |-> RecordSchema, main |-> m, led |-> FALSE] IN
  /\ pc = "off"
  /\ MainLoaded # Corrupt /\ MainLoaded.schema # 3 /\ main.head < MaxGeneration
  /\ main' = [Prepared(main, r.gen, r) EXCEPT !.head = r.gen]
  /\ marker' = TRUE
  /\ UNCHANGED <<ext, pc, op, owner, faults>>

Next ==
  \/ Boot \/ PowerCut
  \/ \E v \in DeviceSettings, f \in Forces : Apply(v, f)
  \/ PrepareExtension \/ PrepareMain
  \/ SelectMain \/ SetMarker \/ CheckMain
  \/ PublishExtension \/ CheckExtension
  \/ ReloadFailed \/ Verify
  \/ \E m \in MainValues : Beta27Saves(m)

Spec == Init /\ [][Next]_vars

-----------------------------------------------------------------------------
Places == {"off", "idle", "prepare_ext", "prepare_main", "select_main", "set_marker",
           "check_main", "publish_ext", "check_ext", "failed", "verify"}

Operation == [values : DeviceSettings, force : Forces, base : Snapshot, since : 0..MaxFaults,
              prepared : ExtRecord \cup {Absent}]

\* Every variable holds a value of its type.
TypeOK ==
  /\ main \in Journal(MainRecord, MaxGeneration)
  /\ ext \in Journal(ExtRecord, MaxSequence)
  /\ marker \in BOOLEAN
  /\ pc \in Places
  /\ op \in Operation \cup {Unknown}
  /\ snapshot \in Snapshot \cup {Unknown}
  /\ initialized \in BOOLEAN
  /\ result \in {"none", "ok", "storage", "conflict", "exhausted", "corrupt"}
  /\ faults \in 0..MaxFaults

\* Wherever the power goes, and whatever firmware saved last, the next boot
\* finds settings it can load.
Loadable == Loaded # Corrupt

\* The one exception: a schema-3 record is replaced before the LED roles it held
\* are in the extension.
Downgrading(l) ==
  /\ op.base.schema = 3 /\ ext.head = 0 /\ l.gen > op.base.gen
  /\ l.values.ext = [led |-> FALSE, steps |-> DefaultSteps]

\* From its first step to its return a save leaves each journal with what it
\* had or what was asked for, and the extension is never ahead of the main
\* record: what a power loss exposes is old, new, or the new main record with
\* the old extension.
PartsOldOrRequested ==
  op # Unknown =>
    LET l == Loaded IN
    /\ l.values.main \in {op.base.values.main, op.values.main}
    /\ l.values.ext \in {op.base.values.ext, op.values.ext} \/ Downgrading(l)
    /\ l.values.ext # op.base.values.ext => l.values.main = op.values.main
    /\ l.gen \in {op.base.gen, op.base.gen + 1}

\* An open owner shows what is in flash, after a partial failure too.
SnapshotAuthoritative ==
  pc = "idle" /\ initialized => snapshot = Loaded

\* A save that was acknowledged is what the next boot loads; one that was
\* refused met a failing call, or found a generation used up and did nothing.
AnswersTell ==
  pc = "idle" =>
    /\ result = "ok" => Loaded.values = op.values
    /\ result \in {"storage", "conflict", "corrupt"} => faults > op.since
    /\ result = "exhausted" => Loaded = op.base

\* Whatever a save of commitLocked() met, what the owner shows and what it has
\* answered agree with what a boot would load.
AnswersTrue == SnapshotAuthoritative /\ AnswersTell

\* inkloop_settings/README.md: "If the final selector fails, the caller receives
\* failure plus an authoritative reload (new main, old extension)".
FailedSaveKeepsExtension ==
  pc = "idle" /\ initialized /\ result = "storage" =>
    snapshot.values.ext \in {op.base.values.ext, op.values.ext}
=============================================================================
