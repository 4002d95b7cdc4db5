# Inkloop PaperColor firmware: TLA+ specifications and proofs

Inkloop is an e-paper frame with buttons, voice, Wi-Fi and an SD card.  The
program that matters here is its native ESP-IDF firmware,
`src/firmware/inkloop-idf` (C++, about 60 000 lines): eight pinned FreeRTOS tasks
on two cores, interrupts, deep sleep, and data on file systems and in NVS that
must survive a power cut at any instruction.  This directory models its
concurrent and crash-prone core, checks the models with TLC and proves the
invariants that matter most with TLAPS.

    tlc -workers 2 -config supervisor.cfg MCRuntimeSupervisor.tla
    tlapm DeepSleep_proofs.tla

`PROJECT.json` holds the same information for tools: components, runs, mutants
(one plausible bug per property, which TLC must catch), the lines of C++ each
definition translates, findings, hazards and theorems.

## 1. Inventory

Paths below are relative to `src/firmware/inkloop-idf/components` unless they
say otherwise.

| Component | State it keeps | Operations | What makes it correct |
|---|---|---|---|
| **Runtime supervisor** `inkloop_runtime` | lifecycle, one queue, task, admission counter and callback flag per lane, generation floors, sleep barrier, ISR button latch | register, initialize, start, stop, shutdown, post, cancelBefore, freeze/thaw for sleep, each task's loop | counters agree with queues; nothing runs behind the barrier; a cancelled command never starts; every command is answered, refused or dropped once; stop() ends |
| **Deep-sleep attempt** `inkloop_product/native_power_owner`, `inkloop_power` | what must be rolled back (Wi-Fi, board, barrier), raw-edge mailbox | tick: look, quiesce, freeze, power down, look again, sleep, or roll back | sleeps only when quiet; no press is slept through; a failed attempt is undone |
| **Three-file commit** (album and task stores, `inkloop_storage`) | index.json / .next / .prev | recover, commit | a power cut or failing call leaves the old document or the new one, and the answer tells which |
| **Album store** `posix_atomic_album_store` | PNG files by hash, staging file, index, maintenance gate | begin, append, commit, abort, list, mark, restyle, remove, prune, clear | never an entry without its file; no orphan after a success |
| **Settings journals** `inkloop_settings`, `_idf`, `native_device_state_owner` | two NVS journals (slots and head), the owner's snapshot | boot, apply, reload | always loadable; old or new, or new main with old extension; the snapshot is what is in flash |
| **Settings migration gate** `native_settings_migration_gate`, `upgrade_marker_journal`, `legacy_portal_import` | a marker journal of its own beside both settings journals | audit and plan at boot, import, resumed at any phase, taken further after a rollback | goes on wherever a boot was cut; writes over no save of the user's; a phase tells the truth |
| **Boot audit, legacy recovery** `upgrade_audit`, `legacy_file_transaction_recovery`, `main/recovery_action_owner` | what the operator was shown, the restart that is due | audit at every boot; in Recovery inspect, resolve, restart | no store chooses between files for the operator; his choice takes effect wholly or not at all; he gets the product back |
| Upgrade executor `upgrade_executor` | marker journal | phases of an in-place upgrade | no caller in the product at this commit |
| **MyAI client** `inkloop_myai`, `_idf`, and its driver in `native_voice_service` | credential journal (four NVS keys), the client's copy, activation, wishes | initialize, start and poll a pairing, check, rebind, sessions, image request | the copy is what flash holds; a bound device's token is never rotated; the device never stops asking |
| **Realtime voice** `native_voice_service`, `esp_wss_transport` | client, session lease, socket, heartbeat mailbox, image handover, the Voice lane's turn, capture and playback | press, begin, finish, cancel, results, reconnect, prompt, image request, ticks of three lanes | no session leaks; a press is answered; the microphone is released; a turn ends |
| **Audio bridge** `inkloop_audio`, `_idf` | bounded ring, hardware state, playback generation, the device's session | begin, write, end, abort from the Network lane; the Voice lane's tick and its cancellations | PCM only in the device's format; it can always begin again; a segment ends |
| **Display service** `native_display_service`, `album_navigation_core` | catalogue, navigation, pages, the guard after a user's choice, what is on the glass | display an image, next and previous, pages, restore, the lane's tick | what is recorded as current was drawn; a page gives way |
| **Inkloop service** `native_inkloop_service`, `inkloop_cloud`, task store `posix_task_store` | task file, applied revision, registration, mailbox of the scheduled display | register, synchronise, reconcile, download, display, mark | a task is done only when its frame was shown; the plan converges |
| **Portal owner** `native_portal_owner`, `slow_io_arbitration` | accepted commands and upload, their queues | drain, serve an upload, the gates between the lane's stages | accepted work is drained; nobody waits for a lane that waits for him |
| Voice runtime `inkloop_voice` | turn, generation, prompt, confirmation | a portable machine that no owner of the product constructs | |
| Wi-Fi station `wifi_station_core`; provisioning | connection phase, deadlines | connect, events, tick | one answer per attempt; late events do not revive it |
| Wake recovery, sleep policy `inkloop_power` | recovery phase and retries; deadlines | step; plan | a fault is final and seen; deadlines are wrap-safe |
| Product runtime, storage maintenance `inkloop_product` | owners, maintenance handshake | start, stop, tick; format, export | the card is formatted only when nobody uses it |
| **OTA** `inkloop_ota`, `main/ota_update_owner`, `main/ota_outcome_journal` | slots, outcome journal, boot health | accept, acquire, select, trial boot, verdict, record | an image to fall back to; an outcome that is true; a verdict |
| Recovery firmware `inkloop_recovery`, `main/` | recovery session | confirm, format, export, OTA | nothing destructive without confirmation |
| Portal HTTP core, local tools, onboarding, rendering, chat stores, boards | small or none | requests, forms, pixels, pins | mostly parsing and formatting |
| `src/firmware/m5-papercolor` | superseded Arduino firmware | | read only as the origin of legacy files |
| `src/app`, `src/db`, `src/worker` | a web designer and its HTTP API | requests | not the device |

**How they interact.**  Producers (buttons, network callbacks, HTTP handlers)
call `post()` on the supervisor, which admits an envelope to its lane's queue or
refuses it at once; the lane's task runs the owner's handler, and the result is
posted to Control.  Portal's tick runs the power owner, which freezes the
supervisor's admission before it powers the board down.  Owners call the stores
and the settings owner directly, under their mutexes.  OTA, Recovery and deep
sleep all end in a fresh boot; there the read-only audit and the migration gate
run before anything may write and before the supervisor is started.  A store cut short by a power
cut is refused by that audit, and waits in the Recovery network for an operator
who names the file to keep; its own recovery, which could have gone on by itself, only ever tidies
up after calls that failed in the same boot.

**What is hard about it.**  Two cores and interrupts between any two critical
sections; `stop()` deleting a task in the middle of a handler; a decision to
sleep taken from state that others change; a result that finds Control's queue
full; power cuts between any two file or NVS writes, inside a recovery as well;
calls that fail, and clean-ups that fail after them.  `PROJECT.json` lists each
hazard at its line, with the properties that cover it or the reason none does.
Components in bold above are modelled, wholly or in part.

## 2. Modules

| Module | Models | Extends / uses |
|---|---|---|
| `RuntimeSupervisor` | `runtime_supervisor.cpp`, `runtime_admission.cpp` | |
| `DeepSleep` | `native_power_owner.cpp`, `executeSleepAttempt()`, the raw-edge mailbox, the product's start and stop | EXTENDS `RuntimeSupervisor`, refines it |
| `AtomicDocument` | the promise of a one-document store | abstract |
| `TransactionFiles` | `recoverIndex()`/`commitIndex()`, and their twins in the task store | refines `AtomicDocument` |
| `BootRecovery` | the boot audit, the operator's resolution of a store's three files, restarts and power cuts around a store | EXTENDS `TransactionFiles`, refines `AtomicDocument` |
| `AlbumStore` | `PosixAtomicAlbumStore` | INSTANCE `TransactionFiles`, refines it |
| `SettingsJournal` | both settings journals, the composite save, the owner | |
| `SettingsMigration` | the migration gate over many boots, its marker journal, old firmware in between | EXTENDS `SettingsJournal`, refines it |
| `CredentialJournal` | `CredentialPersistenceCore`, four NVS keys | refines `AtomicDocument` |
| `MyAiPairing` | `MyAiClient`'s activation, the Network tick that drives it, the image request | EXTENDS `CredentialJournal` |
| `VoiceSession` | one conversation over four lanes | |
| `AudioBridge` | the playback half of `EspCrossCoreAudioBridge` and the core under it | |
| `OtaUpdate` | update owner, outcome journal, boot health, over many boots | |
| `AlbumDisplay` | `NativeDisplayService`, `AlbumNavigationCore`, `ManualPanelGuard` | |
| `TaskSync` | Inkloop service, cloud client, task file, Portal owner's tick | EXTENDS `AlbumDisplay` |
| `..._proofs` | | theorems and proofs about the module of that name and the one it extends; `AudioBridge_proofs` also about `VoiceSession` |
| `MC...` | the small instances TLC explores | |

### RuntimeSupervisor
Every `portENTER_CRITICAL ... portEXIT_CRITICAL` section is one action; between
two sections anything may happen on the other core.  `pc[l]` is where lane l's
task stands in `run()`: it receives, releases its admission, validates again,
runs the handler, delivers the result, finishes, ticks.  `used` is the admission
counter and `queue` the FreeRTOS queue; that they are two things, updated at two
moments, is the point of `AdmissionAccounting`.  `start()` is three steps (begin;
queues and tasks; commit or fail); `stop()` is a bounded wait, then one deletion
per task that has not gone by itself, then the reset; `shutdown()` adds the forgetting
of floors and handlers.  `freezeAdmissionForSleep()` is one section.  Histories:
`fate` (what became of each command) and `cancelled` (the floors asked for).
A refused `post()` changes nothing but telemetry and is a stuttering step;
telemetry, diagnostics and the latency observer are left out.  Deadlines are a
choice between in time and expired.

### DeepSleep
`powerPc` walks through `executeSleepAttempt()`; each of its looks at the owners,
the supervisor, the wake pins and the mailbox is a step, because interrupts and
lanes go on between them.  The owner's flags (`networkQuiesced`,
`workAdmissionFrozen`, `boardRestoreNeeded`) are kept apart from the truth
(`frozen`, `boardDown`).  Lane steps are the supervisor's own actions, joined with
what their callbacks do to `busy`; freeze, thaw, start, stop and shutdown are the
product's only uses of them.  `PowerShutdown` is a step of its own before the
supervisor's shutdown, with the thaw of a barrier the owner still believes in.  The idle period and the retry back-off are a
choice: an attempt may be skipped at any tick.  One boot is modelled, since
sleep ends it.

### TransactionFiles and AtomicDocument
Each call that changes a file is a step and may fail; a power cut may come
between any two, and leaves anything of a file not yet fsynced.  `Held` is the
document the next recovery would find.  `AtomicDocument` promises: a change
takes effect wholly or not at all, "ok" means it did, "failed" that it did not,
a power cut during it leaves either.

*Assumed of the file systems* (LittleFS, FAT): unlink, rename and creation are
atomic and durable when they return; written bytes are durable only after
`fsync()`; `stat()` does not lie.  The failure to read an intact file is kept
apart in `MisreadSpec`, because one such failure breaks the protocol (section 5).

### BootRecovery
`boot` says where a boot stands: the audit, the product (in which the store takes
the steps of `TransactionFiles`), Recovery, "sealed" (Recovery with files that cannot be
mounted, where nothing is offered), or off.  `resolve()` and `finishCurrent()` are
walked through by `step`, one step per call that changes or syncs a file; a call
that changes one is followed by an `fsync()` of the directory and may therefore
fail with the change made.  `inspection` tells whether what the operator was
shown still is what the files hold.  With `gated` false the audit is not there, and the store
stands for the class alone, as its host tests use it; then the recovery of the store
meets whatever a power cut leaves.  A gated store may start with any three files, torn or not, of which one
parses.  The other transactions and the chat log are a flag each: what the audit
makes of them, and whether the operator can do something about it.  `BootDocument`
maps the operator's choice to a proposal of `AtomicDocument`, on a document that is
what the store would otherwise have found.  NVS records, the display journal's own
resolution, the export of an album and the verdict on a pending image are left out.

### AlbumStore
The album's operations as steps between the calls of the three-file protocol,
which it uses by INSTANCE: a save stages, renames the PNG to its hash, commits
the index, and takes the PNG back if that fails and no other entry uses it;
removals commit first and unlink after.  Entries have a task (which owns its
entry, or shares one found by content), a content hash and a strategy.  PNG
validation, capacities in bytes and JSON are abstracted to success or failure.

### SettingsJournal
Each NVS key written is a step, all or nothing; nothing joins two keys.  A save
prepares the slot of each changed journal, moves the main head, then the
extension head, and reads both again; a head whose write is reported as
failed may have moved.  `Loaded` is what the next boot would load.  A rollback to
beta27 firmware, which saves without the extension, is an action of its own.
A save may be forced to write both journals or the extension alone, as the
migration gate asks.  Record bytes and CRCs are abstracted (a record is whole or
absent).

### SettingsMigration
Every boot passes the gate: `at` goes from the audit over the plan's execution to
the running owner, or to "refused" (the recovery network instead of the
product) or "failed".  `Plan` is `compose()`: a decision on the legacy record, the
loaded settings and the marker, one operator per branch.  A marker is committed in
three writes (slot, head, "initialized"), the import is a forced save whose steps
are those of `SettingsJournal`, and a power cut may come between any two.  While the
device is off, beta27 may run, import the legacy record in its own way and save, and
the Arduino firmware may change or reset the legacy record.  `imported`, `crossed` and
`extended` are histories: what an importer wrote last, whether an old firmware ran over
a migration under way, whether the user's last change was of the extension alone.
`CanResumePrepared` and its like ask what a cut attempt could have left.  JSON and
SHA-256 are abstracted to the identity of a legacy record; the fallback slot of
that record, a marker sequence near 2^64 and a blank partition are left out.

### CredentialJournal and MyAiPairing
`storeNext()` is five steps: slot, read-back, head, marker, confirmation.  A
failing call may have written its key, which is why `answer` is not enough to know
what is in flash and `credentialHealthy_` exists.  `MyAiPairing` puts the client over
it.  One lane at a time calls the client, so `at` is where that lane is: the
Network tick (`serviceRequestedPairingActions`, start, poll, check, hand-over,
voice) or the Portal lane during an exclusive image request.  Every request has a
few outcomes; what each does to activation, credential and lease is the code's
`handle...` branch.  A change of the credential takes the lane through
`CredentialJournal`'s steps, and power cuts reset all but the keys.

### VoiceSession
Voice, Network, Portal and Control lanes with their queues: the Voice lane owns
`task` (state, pending Begin, deferred Ready) and the bridge's `capture` and `play`,
Network owns `client` (state, socket, lease, pending TTS completion) and `net`, the
Portal lane runs the heartbeat and the image request, Control turns a result
into the next message.  `open` is what the gateway believes; `turn` is the flag that
keeps device and storage in use.  A queued Begin or Cancel is handled or expires.
Control's messages to the Voice lane are taken as delivered: `handleControlResult()`
ignores what `post()` answers (`native_voice_service.cpp:1737-1743`), so a Voice queue
that is full, or frozen, would lose one, which the model and its properties leave out.
Transcripts, tools, tutorial and chat change none of this and are left out.

### AudioBridge
The Voice lane's tick is a sequence of locked sections with the I2S calls between
them; a device call and the section behind it are one step, with `voice` the
values it read before.  The Network lane's `begin()`, `write()`, `end()` and
`abort()` come at any point.  PCM is counted in chunks of one format each; a segment
longer than any may be is a chunk that faults the core, and the `abort()` that follows.
Between ticks the Voice lane itself may cancel, for a button or an ended session: it
aborts the device (`CancelCapture`) and then the bridge (`CancelPlayback`).  `device`
is what `EspI2sAudioDevice` keeps of a playback session.  Closing it may fail, in
`endPlayback()` and in `abort()`, whose caller is not told: `Stopped` is the device
closed, or still in its mode with codec and feed monitor off.

### OtaUpdate
`app_main()` over any number of boots: `main.at` is where it is, from the start
through the acquisition phases to the restart, or recovery.  `app`, `selected` and
`running` are the two slots and ESP-IDF's otadata as the bootloader uses them.
`health` is the boot-health gate and `slots` the outcome journal; a power cut or a
failing flash call may come in any of the writes.  `past` is the history that
`OutcomeTrue` compares the record with.

### AlbumDisplay and TaskSync
`AlbumDisplay` is the Display lane: drawing is three steps (read the album, write
the glass, record the image as current), and a command names an image by its
place in the album as it was when the command was queued.  `TaskSync` is the
Portal lane above it: pages, browser commands, the upload pipeline, and the
Inkloop service, which registers, fetches the plan, reconciles album and task
file, downloads the first due task's frame, queues its display and records it as
done when its result comes back through Control's mailbox.  The gates of
`slow_io_arbitration.hpp` are the guards of these stages.  `panel` is the glass, which
keeps its image when the power goes; `shown` is the history of `MarkedWasShown`.

## 3. Runs

| Run | Question | Instance | Result |
|---|---|---|---|
| `supervisor` | are barrier and cancellation right under every interleaving, does every teardown end and every command settle? | Control, Portal; 2 commands, timed Portal ones, 2 generations, Control's queue 1 deep, Portal's 2 | holds |
| `sleep` | does the device sleep only when it may, is nothing lost by it, is the composition a supervisor, and does a failed attempt bring Wi-Fi back? | Input, Control, Portal; owners Portal and Input; 1 command, 1 raw edge | holds |
| `boot` | is a store of one document atomic, whoever recovers it; does only the operator choose, and does he get the product back? | 3 documents, 2 failing calls in each operation; a provisioned store without the audit, or any three files of which one parses behind it | holds |
| `album` | do index and files agree through everything? | a server task, a local task, 2 contents, 2 strategies, 2 entries, 1 failing call in each operation | holds |
| `settings` | is what a save leaves always one of the promised combinations, and does a migration end right wherever it was cut? | 2 main values, 2 extension values, generations to 3, sequences to 4, 1 failing call of a save and 1 of the gate; a portal record and an early LED calibration | holds |
| `pairing` | do client, credential and screen agree, is no token rotated, does the device keep asking? | generations to 5, 2 failing calls or power cuts | holds |
| `voice` | do sessions, turns and the microphone end whatever ends first? | 2 sessions, 1 heartbeat, a Network queue of 1, Voice 1 message behind | holds |
| `audio` | does a segment end, and can the next always begin? | 2 formats, 3 generations, a ring of 2 chunks | holds |
| `ota` | is there always a confirmed image, and is what the screen says of an attempt true? | 3 versions, 2 requests, 2 power cuts, 1 failing flash call, soak of 1 tick, records of 2 boots | holds |
| `tasks` | is a task recorded only when shown, and does the device end up with the plan? | plan of 2 tasks, then one with a new frame for the first; an upload; an old image; 3 request ids; 2 troubles | holds |
| `frozen_rollback` | is a rollback behind the barrier retried, as a comment says? | Input, Control, Portal, no commands | violated |
| `extension_edit` | does a migrated device start after any edit, as a comment says? | as `settings` | violated |

The largest instance is `settings`, with 1,352,766 distinct states (about a minute
on two workers); `album` follows with 516,009 and `tasks` with some 353,000.

**Why the bounds are enough.**  The supervisor's lanes differ only in their roles:
Control, which receives results, and Portal, which freezes; Input, which produces and
ticks, is added in `sleep`.  What one more ordinary lane would add, the theorems
cover for any set of lanes.  Two commands fill Control's one place and leave one
waiting; two generations are one before and one after a cancellation.  Three
documents tell apart what was there, what is wanted and what was there before.
Two failing calls are a failure and the failure of its clean-up; a third one in
the same operation does break the atomicity of a provisioned store (a rename, the
rename back and the clean-up all fail), which is the limit of what the protocol can
promise.  In `album`, two contents are the least for one entry to replace
another; server and local task are the two ways of finding an entry; the
limit of two lets an insertion be refused.  In `settings`, three generations are an import, a save of the user's
or a second migration over it, and one more that is refused; four extension
sequences leave one for every main record still to come, so that the gate's own
saves are not cut short by the bound; one main value is what beta27's importer
carries over and one is not, and of the two legacy records one is a record beta27
imports and one it ignores.  In `pairing`, five generations are a pairing, a bound credential, its
loss, another pairing, and one refused as the last.  In `voice`, one session can replace
another while a heartbeat of the first is out; longer queues only delay.  In
`audio`, a third generation begins while the Voice lane still holds the first and
the second has been aborted.  In `ota`, a rolled-back image is followed by a newer
one, and the journal's two slots are both overwritten.  In `tasks`, `MaxTroubles`
bounds all disturbances together (a power cut, a failed call, a result lost or
late, a user's command, button, upload or page, and a new device at the start):
two are a disturbance and one during its recovery; an onboarding without a device
code of six digits, which keeps a device from registering, counts as a failed call; two plans are the least for a
task to be replaced and another to be dropped; request ids are reused once
forgotten, and a third is there for a new request while an old result is on its way.

Commands in `supervisor`'s instance are few enough to go without symmetry, which its
liveness forbids; contents and strategies in `album` are interchangeable (`SYMMETRY`):
the model compares them and never orders them, and no liveness is checked there.

`CHECK_DEADLOCK FALSE` is said of the sleep runs, where a device asleep has ended
its boot; of `ota`, where a device with no requests, cuts and faults left rests; and
of `tasks`, where one with nothing left to do and no troubles left does.

**Fairness.**  `TeardownEnds` assumes only that a teardown goes on: its only wait
is bounded by `kSupervisorStopTimeoutMs`, and nothing at all is assumed of the
tasks, so a handler that hangs does not matter.  `EveryCommandSettles` adds weak
fairness of each lane's task: FreeRTOS runs a ready task in the end and the tasks
block on their queues between callbacks.  `SleepFairSpec` assumes the same, that
Portal's tick, which is periodic, becomes due again and again (strong fairness,
because messages may overtake it), that `tick()` returns, and that hardware
asked again and again to come back does so.  The later modules assume, each in the
comment of its `FairSpec`: weak fairness of the lanes' steps and of the HTTP
server's task; strong fairness of a step of a periodic tick (a clean-up, a pump,
a poll or retry that is due again and again), since other work of the same lane
may come before it each time, and of a device that plays what it holds.  In
`boot` the operator is the one who goes on: he looks again and chooses again, any
file each time, until a restart is due; nothing is claimed unless calls have stopped
failing and the power stays on (`Calm`).  In
`tasks` strong fairness of registering or synchronising, and of running or
downloading the due task, says that a server reached again and again answers
once; failures are not fair and are bounded.  No fairness of producers, buttons,
power cuts or callers is assumed anywhere.

## 4. Proofs

All theorems hold for every value of the constants that satisfies the named
ASSUMEs of the modules (`LaneAssumption`, `DepthAssumption`, ...): any set of lanes
with Control and Portal, any queue depths, any commands and generations, any
set of documents, formats, plans, any bound on faults and cuts.

**DeepSleep_proofs, part one: the supervisor.**  `Inductive` proves `SupervisorInv`, which strengthens
the properties by what each critical section relies on: a task that has
received an envelope holds one (`HandsFull`); the counter never falls below
what is queued and in flight, in a teardown either (`NeverUndercounts`); a
task inside a callback has its flag up (`CallbacksFlagged`, which is what the
freeze looks at); a frozen supervisor has counted nothing (`FrozenIdle`);
whatever is dismantled is empty (`DormantIsEmpty`, `AbsentIsEmpty`); and the floors are the ones
asked for.  From it follow `TypeCorrectness`, `SleepBarrierHolds`,
`AccountingHolds`, `QueuesStayBounded`, `ReadyIsQuiescentHolds` and the action property
`CancellationHolds`.  `CommandConservationHolds` adds `Conserved`, which numbers the places of a queue:
no command is at two places, in two hands, or at a place and in a hand, so each
step moves, adds or settles exactly one.  The barrier alone is not inductive: without the counter
and the flags, nothing connects what `freezeAdmissionForSleep()` reads to where
the tasks are.

**DeepSleep_proofs, part two: the sleep attempt.**  `SleepRefinesSupervisor` shows that the composition makes only the
supervisor's steps, so all of the above holds of it.  `SleepInductive` proves
`SleepInv`, which ties the owner's flags to the barrier and the board, and
gives `NoCallbackOnDeadBoardHolds`, `PressKeepsAwakeHolds` and `BarrierAgreementHolds`: owner
and supervisor disagree about the barrier only once a stop has lifted it, so the thaw in
`NativePowerOwner::shutdown()` never finds a supervisor that runs.  `SleepsOnlyQuietHolds` adds
`QuietInv`: once Wi-Fi is stopped and the board down they stay so while the attempt
goes on, and after the last look only Portal itself can get work.

**BootRecovery_proofs, part one: the three files.**  `FilesInductive` proves `FilesInv`, whose parts say, for
each place in a recovery and a commit, which of the three files may be missing
or torn and which document they hold.  `RenamesLandClearHolds`, `HoldsOneOfTwoHolds` and
`RecoveryKeepsDocumentHolds` follow for any number of faults;
`RefusedOnlyByFaultHolds` for a provisioned store.  `ImplementsAtomicDocument`
shows the refinement of `AtomicDocument` when at most one call fails in each operation.
That bound is real: on a fresh store, a commit whose `fsync()` and whose
clean-up both fail answers "failed" and may still take effect.

**BootRecovery_proofs, part two: the boot.**  `BootInductive` proves `BootInv`: through every
audit, resolution and power cut the protocol's steps find the files where part one
expects them (`FilesInv` again, now over the operator's steps as well), product and
operator never work at the same time (`OneAtATime`), and a gated store in whose boot no
call has failed has files the audit let through, or those a commit makes of them
between two calls (`Orderly`, `GateKept`).  The last part is what `OnlyOperatorSelectsHolds`
rests on: a store whose files are so leaves its own recovery nothing to choose.
`BootImplementsDocument` is the refinement of `AtomicDocument` by store and operator together.
`ResolutionSound` says, for each step of a resolution, where the chosen document is
and that a boot would find it or the one it would have found before; `Anchored`, that
a provisioned store always has a document to fall back to; `TwiceCharged`, that a commit
given up without index.json back in place has had two calls fail.  The last is why
the theorem assumes `MaxFaults <= 2`: the third failure, of the clean-up behind those
two, makes a commit that answers "failed" take effect.  One is enough of a bound in part one
because its store may be empty.

**AudioBridge_proofs.**  `BridgeInductive` proves `BridgeInv`: besides the types,
that what the Voice lane has read is current or is noticed to be stale
(`TickIsCurrent`), that an ended generation stays over (`EndIsOver`), and that the
device has a session running exactly while the hardware says so, in the format of the
generation it plays (`DeviceIsOpen`), save between the two halves of a cancellation on
the Voice lane.  `SourceIsFinished` is why a stop is never refused: a source the bridge
calls finished is finished at the device, and its teardown committed.  Nothing assumes
that the device can be closed.  From it, `PcmFitsDeviceHolds`, `RecoverableHolds` and the
bound on the ring (`BridgeTypeCorrect`), for any formats, generations and ring.
`RecoverableHolds` says that a bridge at rest or in Fault leaves no session of the
device running, not that the device is closed: section 5 has the formula that says
so and does not hold (`IdleDeviceClosed`).

Part two is about `VoiceSession`, whose `play` is this bridge in four values; the module
extends both, which is why the names of `VoiceSession` carry a V.  `SessionInductive` proves
`SessionInv`, for any sessions, heartbeats and queue depths.  `OneLease` alone is not
inductive: an answer of the gateway would bring a second session if a lease were still
held.  It is not, because a connection starts without a socket and without a clean-up
due (`ConnectsAfresh`), and a client without a socket has no lease or a clean-up due
(`LeaseIsCleaned`); every path that loses a socket asks for that clean-up, and only giving the
session back takes it off.  `OneLeaseHolds` and `ImageOwnsClientHolds` follow.

**MyAiPairing_proofs.**  `PairingInductive` proves `PairingInv`.  Its `JournalInv` follows the
five steps of `storeNext()`: the slot the head selects holds the record the head counts,
the record being stored is the one after it and so goes into the other slot, and
what has been written at each step is in flash.  The rest ties the client to it: the lane
that asked for a change waits for it and does nothing else (`WaitsForStore`), and a
client away from rest is initialized (`AwayReady`).  `ActivationCoherentHolds`,
the action property `NoTokenRotationHolds` and `ImplementsDurable`, the refinement of
`AtomicDocument` by the journal, follow for any number of generations, failing calls
and power cuts.  `JournalMarks` is assumed: a missing and a corrupt record are told from
every record.

**OtaUpdate_proofs.**  `OtaInductive` proves `OtaInv`: the owner waits for the
trial to end (`AttemptIsConfirmed`), a selection is of an image just written
(`SelectionIsNew`), and where `app_main()` is says what the slots hold.  It gives
`OtaTypeCorrect` and `FallbackKeptHolds`.  `NeverRewoundHolds` proves the action
property from the journal alone: `commit()` writes the slot the latest record is
not in.  `OutcomeTrueHolds` adds `OutcomesTold`, which holds as long as no flash call has
failed: every record and what is on the screen tell the truth, no two requests are mixed
up (`RequestsDiffer`), a trial's record is open (`TrialIsOpen`), a boot without a trial
tells from the running version what a selected image came to, even if a power cut has
left it only the older record (`OpenResolves`), and no attempt starts before the one
before it is resolved (`LatestResolved`).  `JournalMarks` is assumed: an empty and a torn slot
are told from every record.

**TaskSync_proofs.**  `RequestsMean` proves `TaskInv`, and `DoneWasShown` the action
property `MarkedWasShown` from it.  The argument follows one request: while the
mailbox waits for it, no other command or result bears its id; the Portal lane
only passes its own stages by, so no commit moves the album under the ordinal
the command carries nor touches the task file; and the Display lane puts the
frame at that ordinal into `shown` before it answers "drawn" or "unchanged".  Only
then does the mailbox become ready, and only a ready mailbox marks.

**SettingsMigration_proofs.**  Of `SettingsJournal`'s own specification, `SettingsInductive` proves `SettingsInv`, which adds two
parts to the types.  `JournalInv`: only the slot that no head selects is ever
written, so what the heads select is whole; the extension is never ahead of the
main record, and there is none under a schema-3 record.  `SaveInv`: where a save
is says whether a boot would now load the old settings, the new main record with
the old extension, or the new settings.  `LoadableHolds`, `PartsOldOrRequestedHolds`,
`AnswersTrueHolds` (from `SnapshotAuthoritativeHolds` and `AnswersTellHolds`) follow, for
any values, generations and faults.  `MigrationRefinesSettings` shows that the gate, the
owner and the old firmware make only steps of that specification, so all of this
holds over any number of boots.  `MigrationInductive` adds `GateInv`: what the slots
and the head of the marker journal can hold, that the marker about to be
written is the one the last reading allows, and that a phase after the first is written
only over settings just seen to be the source's (`SavesInv` follows them through a
save).  It gives `PhaseTellsHolds`: from then on a save moves the generation past the
marker's, or changes the extension alone.

`GateInductive` adds two more invariants.  `ResumeInv` is about what a boot finds of a
migration that was cut.  A marker is only committed over settings from which its migration
can go on (`NextReady`), and it stays so while nothing but the gate moves them
(`GoesOnFrom`); once the last phase is recorded the settings are the marker's, with the
extension written for them, or newer (`WireTells`); and what the gate has read in this boot
still holds when it acts on it (`PlaceInv`).  `RefusedOnlyIfDisturbedHolds` follows: the gate of
a device no old firmware disturbed goes on wherever it was cut, and however often.
`ImportsInv` is about what the gate may write over: a user's save leaves the
generation past every marker's, so a record of a marker's own generation is an importer's
(`Imported`), and the gate writes over no other.  `NoSaveLostHolds` follows.

**AlbumStore_proofs.**  The module instantiates `BootRecovery_proofs` over the
album's index, with the variables of the boot at rest, for its part one: `IndexFacts` discharges its assumptions about documents, and every
index that is committed is one the parser accepts.  `AlbumDrivesFiles` shows that
the album makes only steps of that protocol.  `NoDanglingEntryHolds` rests on
`FramesInv`: the frames of whatever index the files hold are there, during a commit
those of both indexes are, the frames about to be unlinked are in neither, and a
promoted frame that may still be taken back is not in the old one.  It is
proved for at most one failing call in an operation: with two, a commit may
answer "failed" although the new index will be recovered, and its frame is taken back.
`NoOrphansHolds`, under the same bound, adds `PlansInv`: while an index is committed its
frames and the doomed ones are together all that the old one has, and a frame just
promoted is one of the new one's; so no step but the three the property names
takes a frame out of index and plans without taking it off the card.

**Only model-checked.**  Liveness (`TeardownEnds`, `EveryCommandSettles`,
`UnfrozenRollbackCompletes`, `DeviceKeepsAsking`, `PressAnswered`, `MicrophoneReleased`,
`TurnSettles`, `ReconnectResumes`, `SegmentEnds`, `TrialEnds`, `RequestEnds`,
`PlanConverges`, `EveryTaskShown`, `PageGivesWay`, `DeviceStartsAgain`), which is out of the
prover's reach.  Every other property of a passing run is a theorem.  No module declares a
RECURSIVE operator, and no theorem needs induction over data.

## 5. Where code and documents disagree

Two runs show a disagreement, quoted with its lines in `PROJECT.json`:

* `frozen_rollback`: a rollback that fails behind the barrier is to be retried by
  Portal's tick, but the barrier suppresses that tick too; admission stays
  frozen until a stop or a reset.
* `extension_edit`: the gate takes the main generation for the guard of the user's
  edits, but a save of LED roles or steps alone does not move it.  The legacy
  record stays in flash beside a Complete marker that still names it, so after such
  an edit the gate finds the settings at the marker's generation with other values,
  calls them corrupt, and every later boot goes to Recovery.  (If the legacy record has
  also changed, the rollover does not compare values and writes over the edit.)

Others are stated as formulas in the modules and were found violated by TLC; no
run of the suite stands for them:

* `AcceptedUploadEnds` (`TaskSync`): an accepted upload is to be drained during its own
  transaction (`slow_io_arbitration.hpp:5-10`), but once its Begin event is drained the
  album's open staging makes the display busy (`native_display_service.cpp:622`), and
  what was not yet queued then is drained only when it is not
  (`native_portal_owner.cpp:1641`).
* `StaleButtonReachesControl` (`RuntimeSupervisor`): a stale Button command is to
  reach Control as NotReady, but its result carries the stale generation and is
  refused by the same floor.
* `RefusedOnlyByFault` from a fresh store (`TransactionFiles`, `Spec`): a power cut
  during a store's first commit leaves a torn next file; every later operation
  is refused and nothing removes it.  On a device the audit refuses it first, and
  there is no candidate to offer the operator.
* `TornLineIgnored` (`BootRecovery`): a power cut in the middle of a chat line, or a
  line whose `fsync()` fails and whose sequence number is then used again, shows as
  corruption to `recover()`; `probeChatPair()` reports it as Recoverable
  (`posix_upgrade_inventory.cpp:288`) and the audit refuses every boot, while Recovery
  offers no action on the chat log and restarts only when all is clean.  The
  log's test says a torn final line is "ignored and marked"
  (`src/tests/esp-idf-local-chat-log.test.mjs:99`).
* `CommittedNotReverted` (`TransactionFiles`, `MisreadSpec`): one transient read error
  of the index is taken for damage, and the committed index is deleted in favour
  of the previous one.
* `FailedSaveKeepsExtension` (`SettingsJournal`): the first save over a schema-3
  record drops the LED roles before the extension holds them (a development
  format, never released).
* `OrphanIgnored` (`CredentialJournal`'s first record): a power cut between the very
  first slot and its head leaves keys that cannot be loaded, although the test
  of the journal says an orphan slot is ignored.
* `OfflinePairingRetried` (`MyAiPairing`): a device without a token that an outage has
  taken offline asks for no pairing again until a reboot or the user does.
* `ReadyButton` (`VoiceSession`, under `ButtonSpec`): a Begin that expires puts the button
  in Error while the session stays Ready; presses then do nothing until the
  session changes.
* `FinishedRecordingSent` (`VoiceSession`): after the second press the Voice lane's
  next tick may find the stopped microphone and call it a hardware failure
  before Network has drained the recording (`native_voice_service.cpp:1654`).
* `IdleDeviceClosed` (`AudioBridge`): `abort()` of the device drops the failure of
  `stopPlaybackSession()` and stays in its playback mode when the channel cannot be
  disabled or the DMA ring not be cleaned (`esp_i2s_audio.cpp:827-834`), while the bridge
  goes Idle in any case (`esp_cross_core_audio_bridge.cpp:297-308`).  The next segment is
  refused by the device and ends in Fault; only its `abort()`, or a cancellation on the
  Voice lane, tries to close the device again.
* `ShownOutcomeCurrent` (`OtaUpdate`): a power cut between selection and record
  leaves the screen with the outcome of an earlier attempt.

And, met while the display and task code was modelled, behaviours the models show
and no property forbids:

* After a reboot with a page on the glass, `onboarding_visible_` is lost and the
  album's current image is skipped as unchanged, so the page stays
  (`product_runtime.cpp:734-737` expects the album back).
* `markCurrent()` fails while a frame is being received: glass and
  `album.current` then differ, and a later request for the old current image is
  answered "unchanged".
* A current image that can never be decoded keeps `album_restore_pending_`, and with
  it `busy()`, true for good.
* The browser's `DisplayAlbumItem` carries an ordinal; a removal before it is drained
  shows another image.
* The first due task is the only one tried: one whose frame never downloads
  holds back those behind it.
* A scheduled image that replaces the provisioning page while the access point is
  up is not followed by the page again, whose fingerprint still matches.
* A choice of the operator that was carried out is answered "verification failed"
  while other transactions are still dirty.
* A mount for writing that fails, and whose way back fails too, leaves Recovery with
  nothing to offer until the power is cycled.
* An old firmware that runs between two phases of a migration, and changes the legacy
  record or the settings, leaves a device the gate refuses until they are put back: it
  fails closed, as its tests ask.
* A browser command left queued when Wi-Fi drops keeps `mutationBusy` true, and
  with it the scheduled display and deep sleep waiting, until the device is online.

## 6. Not modelled, and what would come next

Not modelled for good: parsing and formatting (JSON, PNG, CRC, WAV), rendering and
resampling, pins and panel commands, TLS and HTTP, signatures (external); the
Arduino firmware in `src/firmware/m5-papercolor`, which is superseded, and the web
application.  They are most of the repository's lines, which is why the models
cover a small share of the lines and most of the native firmware's concurrent core.  `VoiceRuntime` (`inkloop_voice`) and
the upgrade executor are compiled and tested but no owner of the product
constructs them at this commit, so no behaviour of the device depends on them.

Within modelled components: the capture half of the audio bridge is abstracted
in `VoiceSession`; repeating schedules of the task store, the Portal's settings
commands and caches, AIGC (which has the gates of the Inkloop service), an image
chosen by a local voice tool, wake recovery and retry arithmetic.

What would come next, the most important first: the Wi-Fi station core and
wake recovery; storage maintenance; the rest of the recovery firmware; proofs of what
the liveness properties rest on, such as that a clean-up which is due stays enabled.
