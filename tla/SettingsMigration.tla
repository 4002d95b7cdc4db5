---------------------------- MODULE SettingsMigration ----------------------------
(***************************************************************************)
(* The settings over many boots of a device that once ran the Arduino      *)
(* firmware, or beta27, and may be rolled back to either.                  *)
(*                                                                         *)
(* Before any owner of the product is made, app_main() lets the migration  *)
(* gate audit what is in flash, read-only, and then carry its plan out:    *)
(* the legacy record is imported through a forced save of SettingsJournal, *)
(* and a journal of its own (two slots, a head, an "initialized" key)      *)
(* records the phase reached, so that a boot goes on where the last one    *)
(* was cut.  A gate that finds what it cannot explain refuses, and the     *)
(* device starts the recovery network instead of the product.              *)
(***************************************************************************)
EXTENDS SettingsJournal

CONSTANTS
  Sources,         \* the legacy records there may be, by fingerprint
  SourceValues,    \* the settings each holds
  LedMaps,         \* those that are an early LED calibration and nothing else
  HistoricalMain,  \* a main value without the fields beta27's importer left out
  MaxTroubles      \* bound: NVS calls of the gate's own that fail

ASSUME SourcesAssumption ==
  /\ SourceValues \in [Sources -> DeviceSettings]
  /\ LedMaps \subseteq Sources /\ Absent \notin Sources
  /\ HistoricalMain \in [MainValues -> MainValues]
  /\ MaxTroubles \in Nat

VARIABLES
  legacy,     \* the legacy record, or Absent
  migration,  \* the gate's journal: two slots, a head, the "initialized" key
  at,         \* where the boot is
  plan,       \* what the audit authorised
  turn,       \* the rounds advance() has made
  next,       \* the marker being committed
  troubles,
  imported,   \* history: the main generation an importer wrote, or found written, last
  crossed,    \* history: an old firmware ran over a migration under way
  extended    \* history: the user has changed the extension and nothing since

gate == <<at, plan, turn, next>>
histories == <<imported, crossed, extended>>
mvars == <<vars, legacy, migration, gate, troubles, histories>>

\* MigrationPhase, in the order in which they are recorded.
Preparing == 1   \* Prepared
Complete == 5    \* after TargetWritten, TargetVerified, CommitRecorded
Marker == [seq : Nat \ {0}, gen : Nat \ {0}, print : Sources, phase : Preparing..Complete]

ASSUME MarkersAssumption == {Absent, Corrupt} \cap Marker = {}

-----------------------------------------------------------------------------
\* collect(): the legacy settings and the journal.
Source == SourceValues[legacy]

\* MigrationMarkerJournalCore::inspect().
Committed ==
  IF migration.head = 0 /\ ~migration.initialized /\ \A s \in Slots : migration.slot[s] = Absent
  THEN Absent
  ELSE IF migration.head = 0 \/ ~migration.initialized THEN Corrupt
  ELSE IF Selected(migration) = Absent \/ Selected(migration).seq # migration.head THEN Corrupt
  ELSE Selected(migration)

\* completedWireAuthority(): the extension was written for that generation.
WireAuthority(m) ==
  \/ Loaded.schema >= 3
  \/ Loaded.schema = RecordSchema /\ ExtCommitted # Absent /\ ExtCommitted.gen = m.gen

IsCompatibleResult(m) == Loaded.gen = m.gen /\ Loaded.values = Source /\ WireAuthority(m)
IsResult(m) == IsCompatibleResult(m) /\ Loaded.schema = RecordSchema
HasMainProjection(m) ==
  Loaded.gen = m.gen /\ Loaded.schema = RecordSchema /\ Loaded.values.main = Source.main

Historical == [main |-> HistoricalMain[Source.main],
               ext |-> [led |-> FALSE, steps |-> DefaultSteps]]

\* Mutant: beta27's projection is recognised at any generation.
MatchesHistoricalAnyGeneration ==
  /\ Loaded.gen > 0 /\ Loaded.schema = RecordSchema
  /\ legacy \notin LedMaps /\ Loaded.values = Historical

MatchesHistorical ==
  /\ Loaded.gen = 1 /\ Loaded.schema = RecordSchema
  /\ legacy \notin LedMaps /\ Loaded.values = Historical

\* targetCanResumePrepared(), for the first migration of a device.
CanResumePrepared(m) ==
  \/ m.gen = 1 /\ Loaded.gen = 0
  \/ m.gen > 1 /\ Loaded.gen = m.gen - 1 /\ MatchesHistorical
  \/ IsResult(m)

CompletedBase(m) ==
  m.phase = Complete /\ m.gen < MaxGeneration /\ Loaded.gen = m.gen /\ WireAuthority(m)

\* targetCanResumePostCompleteRollover(): the other slot still holds the marker
\* of the migration before.
CanResumeRollover(m) ==
  LET before == migration.slot[SlotOf(m.seq + 1)] IN
  /\ before # Absent /\ before.seq = m.seq - 1
  /\ before.gen + 1 = m.gen /\ before.print # m.print
  /\ CompletedBase(before)

\* Mutant: a save cut between its two journals is not recognised.
CanResumeWhole(m) ==
  IF m.phase # Preparing THEN IsResult(m)
  ELSE \/ IsResult(m)
       \/ IF m.seq = 1 THEN CanResumePrepared(m) ELSE CanResumeRollover(m)

CanResume(m) ==
  IF m.phase # Preparing THEN IsResult(m)
  ELSE \/ IsResult(m) \/ HasMainProjection(m)
       \/ IF m.seq = 1 THEN CanResumePrepared(m) ELSE CanResumeRollover(m)

-----------------------------------------------------------------------------
\* compose().
PlanTorn ==
  LET m == migration.slot[1] IN
  IF /\ legacy # Absent /\ migration.head \in {0, 1}
     /\ migration.slot[0] = Absent /\ m # Absent
     /\ m.seq = 1 /\ m.phase = Preparing /\ m.print = legacy /\ CanResumePrepared(m)
  THEN "recover" ELSE "refused"

PlanUnmarked ==
  IF legacy # Absent /\ (Loaded.gen = 0 \/ MatchesHistorical) THEN "start"
  ELSE IF Loaded.gen = 0 THEN "fresh" ELSE "native"

\* The source of the last migration is gone, or has changed since.
PlanChanged(m) ==
  IF m.phase # Complete \/ Loaded.gen < m.gen THEN "refused"
  ELSE IF legacy = Absent \/ Loaded.gen > m.gen \/ m.gen = MaxGeneration THEN "native"
  ELSE IF CompletedBase(m) THEN "start" ELSE "refused"

PlanMarked(m) ==
  IF m.phase = Complete
  THEN IF Loaded.gen > m.gen \/ IsCompatibleResult(m) THEN "complete" ELSE "refused"
  ELSE IF CanResume(m) THEN "resume" ELSE "refused"

Plan ==
  CASE Committed = Corrupt -> PlanTorn
    [] Committed = Absent -> PlanUnmarked
    [] OTHER -> IF Committed.print = legacy THEN PlanMarked(Committed)
                                            ELSE PlanChanged(Committed)

\* markerFor(), as execute() starts a migration; advance() only moves the phase.
FirstMarker ==
  [seq |-> migration.head + 1, gen |-> Loaded.gen + 1, print |-> legacy, phase |-> Preparing]
NextMarker ==
  [seq |-> migration.head + 1, gen |-> Committed.gen, print |-> Committed.print,
   phase |-> Committed.phase + 1]

-----------------------------------------------------------------------------
MInit ==
  /\ Init
  /\ legacy \in Sources \cup {Absent}
  /\ migration = [slot |-> [s \in Slots |-> Absent], head |-> 0, initialized |-> FALSE]
  /\ at = "off" /\ plan = "none" /\ turn = 0 /\ next = Absent
  /\ troubles = 0
  /\ imported = 0 /\ crossed = FALSE /\ extended = FALSE

Trouble == troubles < MaxTroubles /\ troubles' = troubles + 1

\* A call of the gate fails: no product in this boot.
GateFails ==
  /\ Trouble
  /\ at' = "failed" /\ plan' = "none" /\ turn' = 0 /\ next' = Absent

GateGoes(place) == at' = place /\ UNCHANGED <<plan, turn, next>>

\* auditReadOnly(), with the partition mounted read-only.
Audit ==
  /\ at = "off"
  /\ UNCHANGED <<legacy, migration, histories>>
  /\ \/ GateFails /\ UNCHANGED vars
     \/ Plan = "refused" /\ GateGoes("refused") /\ UNCHANGED <<vars, troubles>>
     \/ /\ Plan # "refused" /\ Boot
        /\ at' = "audited" /\ plan' = Plan /\ UNCHANGED <<turn, next, troubles>>

\* execute(): everything is read again before the first write.
Execute ==
  /\ at = "audited"
  /\ UNCHANGED <<vars, legacy, migration, histories>>
  /\ \/ GateFails
     \/ /\ UNCHANGED <<plan, turn, troubles>>
        /\ \/ plan # Plan /\ at' = "refused" /\ UNCHANGED next
           \/ /\ plan = Plan /\ plan \in {"fresh", "native", "complete"}
              /\ at' = "start" /\ UNCHANGED next
           \/ plan = Plan /\ plan = "start" /\ at' = "slot" /\ next' = FirstMarker
           \/ plan = Plan /\ plan = "recover" /\ at' = "head" /\ next' = migration.slot[1]
           \/ plan = Plan /\ plan = "resume" /\ at' = "advance" /\ UNCHANGED next

\* commitTransitionAllowed().
TransitionAllowed ==
  LET m == Committed IN
  CASE m = Absent -> next.phase = Preparing
    [] m = Corrupt -> FALSE
    [] OTHER -> \/ next.gen = m.gen /\ next.print = m.print /\ next.phase = m.phase + 1
                \/ m.phase = Complete /\ next.phase = Preparing /\ next.gen = m.gen + 1

\* MigrationMarkerJournalCore::commit(), in three writes.
WriteSlot ==
  LET written == [migration EXCEPT !.slot[SlotOf(next.seq)] = next] IN
  /\ at = "slot"
  /\ UNCHANGED <<vars, legacy, histories>>
  /\ \/ GateFails /\ migration' \in {migration, written}
     \/ ~TransitionAllowed /\ GateGoes("refused") /\ UNCHANGED <<migration, troubles>>
     \/ TransitionAllowed /\ migration' = written /\ GateGoes("head") /\ UNCHANGED troubles

WriteHead ==
  LET written == [migration EXCEPT !.head = next.seq] IN
  /\ at = "head"
  /\ UNCHANGED <<vars, legacy, histories>>
  /\ \/ GateFails /\ migration' \in {migration, written}
     \/ migration' = written /\ GateGoes("initialized") /\ UNCHANGED troubles

\* The second key of writeHeadAndMarkerAndCommit(), and the last inspection.
WriteInitialized ==
  LET written == [migration EXCEPT !.initialized = TRUE] IN
  /\ at = "initialized"
  /\ UNCHANGED <<vars, legacy, histories>>
  /\ \/ GateFails /\ migration' \in {migration, written}
     \/ /\ migration' = written /\ at' = "advance" /\ next' = Absent
        /\ UNCHANGED <<plan, turn, troubles>>

Rounds == 5
\* Mutant: the phase is recorded without looking whether the settings are there.
AdvanceBlindly ==
  /\ at = "advance"
  /\ UNCHANGED <<vars, legacy, migration, imported, extended>>
  /\ \/ GateFails /\ UNCHANGED crossed
     \/ /\ Plan = "complete"
        /\ GateGoes("start") /\ crossed' = FALSE /\ UNCHANGED troubles
     \/ /\ turn < Rounds /\ Plan # "complete"
        /\ at' = "slot" /\ next' = NextMarker /\ turn' = turn + 1
        /\ UNCHANGED <<plan, troubles, crossed>>

\* One round of advance(): commit the next phase, after the import if the
\* settings are not there yet.
Advance ==
  LET half == HasMainProjection(Committed) IN
  /\ at = "advance"
  /\ UNCHANGED <<legacy, migration, extended>>
  /\ \/ GateFails /\ UNCHANGED <<vars, imported, crossed>>
     \/ /\ turn = Rounds \/ Plan \notin {"complete", "resume"}
        /\ GateGoes("refused") /\ UNCHANGED <<vars, troubles, imported, crossed>>
     \/ /\ turn < Rounds /\ Plan = "complete"
        /\ GateGoes("start") /\ crossed' = FALSE /\ UNCHANGED <<vars, troubles, imported>>
     \/ /\ turn < Rounds /\ Plan = "resume" /\ IsResult(Committed)
        /\ at' = "slot" /\ next' = NextMarker /\ turn' = turn + 1
        /\ UNCHANGED <<vars, plan, troubles, imported, crossed>>
     \/ /\ turn < Rounds /\ Plan = "resume" /\ ~IsResult(Committed)
        /\ Apply(Source, [main |-> ~half, ext |-> TRUE])
        /\ imported' = IF half THEN Loaded.gen ELSE imported
        /\ GateGoes("saving") /\ UNCHANGED <<troubles, crossed>>

\* The forced save has returned; its result is read again.
Saved ==
  /\ at = "saving" /\ pc = "idle"
  /\ UNCHANGED <<vars, legacy, migration, histories>>
  /\ \/ GateFails
     \/ /\ result = "ok" /\ IsResult(Committed)
        /\ at' = "slot" /\ next' = NextMarker /\ turn' = turn + 1 /\ UNCHANGED <<plan, troubles>>
     \/ /\ ~(result = "ok" /\ IsResult(Committed))
        /\ at' = "failed" /\ plan' = "none" /\ turn' = 0 /\ UNCHANGED <<next, troubles>>

\* NativeDeviceStateOwner::initialize() reads again what the gate has left.
StartOwner ==
  /\ at = "start"
  /\ UNCHANGED <<vars, legacy, migration, histories>>
  /\ \/ GateFails
     \/ /\ at' = "running" /\ plan' = "none" /\ turn' = 0
        /\ UNCHANGED <<next, troubles>>

-----------------------------------------------------------------------------
\* A save of the user's.  Bound: an extension sequence is left for each save
\* that may still move the main record.
UserSaves(v) ==
  /\ at = "running"
  /\ MainChanged(Loaded, v, NoForce) \/ ext.head + MaxGeneration - main.head < MaxSequence
  /\ Apply(v, NoForce)
  /\ UNCHANGED <<legacy, migration, gate, troubles, histories>>

\* A step of a save, the user's or the gate's.
SaveStep ==
  /\ at \in {"saving", "running"}
  /\ \/ PrepareExtension \/ PrepareMain
     \/ SelectMain \/ SetMarker \/ CheckMain
     \/ PublishExtension \/ CheckExtension
     \/ ReloadFailed \/ Verify
  /\ imported' = IF at = "saving" /\ main'.head # main.head THEN main'.head ELSE imported
  /\ extended' = IF main'.head # main.head THEN FALSE
                 ELSE IF ext'.head # ext.head THEN at = "running" /\ ~MainMoves
                 ELSE extended
  /\ UNCHANGED <<legacy, migration, gate, troubles, crossed>>

PowerOff ==
  /\ at # "off"
  /\ IF pc = "off" THEN UNCHANGED vars ELSE PowerCut
  /\ at' = "off" /\ plan' = "none" /\ turn' = 0 /\ next' = Absent
  /\ UNCHANGED <<legacy, migration, troubles, histories>>

\* No marker, or one that will not move again, is a migration at rest.
UnderWay == Committed # Absent /\ (Committed = Corrupt \/ Committed.phase # Complete)

\* beta27 imports a portal record into empty settings by itself.
Beta27Imports == main.head = 0 /\ legacy # Absent /\ legacy \notin LedMaps
Beta27 ==
  /\ at = "off"
  /\ \E m \in MainValues : (Beta27Imports => m = Historical.main) /\ Beta27Saves(m)
  /\ imported' = IF Beta27Imports THEN 1 ELSE imported
  /\ crossed' = (crossed \/ UnderWay)
  /\ extended' = FALSE
  /\ UNCHANGED <<legacy, migration, gate, troubles>>

\* The Arduino firmware saves its own settings, or is reset to none.
ArduinoChanges ==
  /\ at = "off"
  /\ legacy' \in (Sources \cup {Absent}) \ {legacy}
  /\ crossed' = (crossed \/ UnderWay)
  /\ UNCHANGED <<vars, migration, gate, troubles, imported, extended>>

MNext ==
  \/ Audit \/ Execute
  \/ WriteSlot \/ WriteHead \/ WriteInitialized
  \/ Advance \/ Saved \/ StartOwner
  \/ \E v \in DeviceSettings : UserSaves(v)
  \/ SaveStep
  \/ PowerOff \/ Beta27 \/ ArduinoChanges

MSpec == MInit /\ [][MNext]_mvars

-----------------------------------------------------------------------------
\* Wherever a boot was cut, the next one goes on: the gate refuses only what an
\* old firmware did to a migration under way, or what an edit of the extension
\* alone looks like (EditedDeviceStarts).
RefusedOnlyIfDisturbed == at = "refused" => crossed \/ extended

\* The gate writes main settings over nothing, over what an importer wrote, or
\* over a first record that beta27's importer would have written.
NoSaveLost ==
  at = "saving" /\ op.force.main /\ main.head = op.base.gen =>
    \/ op.base.gen \in {0, imported}
    \/ op.base.gen = 1 /\ op.base.values = Historical

\* Once a phase after the first is recorded, the settings are those of its
\* source or newer.
PhaseTells ==
  LET m == Committed IN
  (m # Absent /\ m # Corrupt /\ m.phase # Preparing) =>
    \/ Loaded.gen > m.gen
    \/ Loaded.gen = m.gen /\ (extended \/ Loaded.values = SourceValues[m.print])

\* native_settings_migration_gate.cpp:479-481: "Any native user edit, schema-3
\* native save, or merely similar record remains authoritative".
EditedDeviceStarts == at = "refused" => crossed
=============================================================================
