------------------------------- MODULE AudioBridge -----------------------------
(***************************************************************************)
(* The playback half of EspCrossCoreAudioBridge: the Network lane receives *)
(* segments of speech and puts their PCM into one ring, the Voice lane     *)
(* drains the ring into the one I2S device.  Both work under a spinlock,   *)
(* but the Voice lane calls the device outside it, so that every tick is   *)
(* a few locked sections with the Network lane's calls in between.         *)
(*                                                                         *)
(* A device call and the locked section behind it are one step, since the  *)
(* device is the Voice lane's alone.  A recording or a local prompt may    *)
(* have it between two ticks: to the bridge that is a start that fails.  A *)
(* chunk is one message of PCM; a generation is known by its identity and  *)
(* may be used again when nobody holds it any more.                        *)
(***************************************************************************)
EXTENDS Naturals

CONSTANTS
  Formats,      \* sample rates and channel counts
  Generations,  \* identities of playback generations
  None,         \* no generation (0), no format
  RingChunks    \* chunks the ring has place for

ASSUME BridgeConstants ==
  /\ None \notin Formats \cup Generations
  /\ RingChunks \in Nat \ {0}

VARIABLES
  hw,        \* playback_hardware_
  gen,       \* playback_hardware_generation_
  fmt,       \* playback_sample_rate_hz_, playback_channels_
  restart,   \* playback_restart_after_stop_
  teardown,  \* playback_teardown_committed_
  finished,  \* playback_source_finished_
  drained,   \* playback_drained_since_us_ is set
  core,      \* the core's state and the chunks in its ring
  device,    \* the device's format while its mode is Playback; is its session
             \* running, has it had PCM, is its source finished, has it played all
  voice      \* where the Voice lane is in its tick, and what it has read

bridge == <<hw, gen, fmt, restart, teardown, finished, drained>>
vars == <<bridge, core, device, voice>>

HwStates == {"Idle", "StartPending", "Starting", "Active", "StopPending",
             "Stopping", "AbortPending", "Fault"}
CoreStates == {"Idle", "Open", "Draining", "Complete", "Cancelled", "Fault"}

Closed == [fmt |-> None, live |-> FALSE, dirty |-> FALSE, finished |-> FALSE,
           silent |-> TRUE]
Opened(f) == [Closed EXCEPT !.fmt = f, !.live = TRUE]

\* stopPlaybackSession() turns the codec off and stops the monitor whatever
\* fails; with the channel still enabled, or PCM left in its ring, the mode
\* stays Playback.
Stopped == {Closed} \cup (IF device.dirty THEN {[device EXCEPT !.live = FALSE]} ELSE {})

AtRest == [at |-> "rest", gen |-> None, fmt |-> None, finished |-> FALSE, pcm |-> None]

Init ==
  /\ hw = "Idle" /\ gen = None /\ fmt = None
  /\ restart = FALSE /\ teardown = FALSE /\ finished = FALSE /\ drained = FALSE
  /\ core = [state |-> "Idle", chunks |-> 0, fmt |-> None]
  /\ device = Closed
  /\ voice = AtRest

-----------------------------------------------------------------------------
\* DuplexPcmBridgeCore and the ring under it.
Startable == core.state \in {"Idle", "Complete", "Cancelled"}
CoreBegin(f) == core' = [state |-> "Open", chunks |-> 0, fmt |-> f]
CoreCancel == core' = [core EXCEPT !.state = "Cancelled", !.chunks = 0]

\* A failure outside begin() cancels the generation, whichever it is by now.
CancelCurrent == IF gen # None THEN CoreCancel ELSE UNCHANGED core

\* Mutant: a queued generation is left open behind the abort.
FailPlaybackOpen ==
  /\ hw' = "AbortPending" /\ restart' = FALSE
  /\ UNCHANGED <<core, gen, fmt, teardown, finished, drained>>

FailPlayback ==
  /\ CancelCurrent
  /\ hw' = "AbortPending" /\ restart' = FALSE
  /\ UNCHANGED <<gen, fmt, teardown, finished, drained>>

-----------------------------------------------------------------------------
\* The current generation, or the one queued behind the teardown, can go on.
Resumable == ~teardown \/ restart

\* begin(): a segment of the same format goes on in the current generation.
Resume(f) ==
  /\ gen # None /\ f = fmt /\ Resumable
  /\ core.state \in {"Draining", "Complete"} /\ core.fmt = f
  /\ core' = [core EXCEPT !.state = "Open"]
  /\ hw' = IF hw = "StopPending" /\ ~restart THEN "Active" ELSE hw
  /\ restart' = (restart \/ hw = "Stopping")
  /\ drained' = FALSE
  /\ UNCHANGED <<gen, fmt, teardown, finished>>

\* begin(): another segment replaces a generation that is all played; hardware
\* that runs is stopped first and started again.
Replace(f) ==
  /\ hw \in {"StartPending", "Active", "StopPending", "Stopping"}
  /\ f # fmt \/ ~Resumable
  /\ core.state = "Complete"
  /\ CoreBegin(f)
  /\ gen' \in Generations \ {gen, voice.gen} /\ fmt' = f
  /\ drained' = FALSE
  /\ IF hw = "StartPending"
       THEN /\ restart' = FALSE /\ teardown' = FALSE /\ finished' = FALSE
            /\ UNCHANGED hw
       ELSE /\ hw' = (IF hw = "Active" THEN "StopPending" ELSE hw)
            /\ restart' = TRUE
            /\ UNCHANGED <<teardown, finished>>

\* begin(): an idle bridge starts.
Start(f) ==
  /\ hw = "Idle"
  /\ IF Startable
       THEN /\ CoreBegin(f)
            /\ gen' \in Generations \ {gen, voice.gen} /\ fmt' = f
            /\ restart' = FALSE /\ teardown' = FALSE /\ finished' = FALSE
            /\ drained' = FALSE
            /\ hw' = "StartPending"
       ELSE /\ core' = [core EXCEPT !.state = "Fault"]
            /\ hw' = "Fault"
            /\ UNCHANGED <<gen, fmt, restart, teardown, finished, drained>>

\* begin() as a whole; a bridge that is busy refuses and changes nothing.
Begin(f) == (Resume(f) \/ Replace(f) \/ Start(f)) /\ UNCHANGED <<device, voice>>

\* A segment that is longer than any may be faults the core.
CoreAccept ==
  /\ core.state = "Open"
  /\ \/ core' = [core EXCEPT !.chunks = @ + 1]
     \/ core' = [core EXCEPT !.state = "Fault", !.chunks = 0]

\* write(): a full ring refuses; it, or a fault, is followed by an abort().
Write ==
  /\ core.chunks < RingChunks
  /\ CoreAccept
  /\ UNCHANGED <<bridge, device, voice>>

\* end()
End ==
  /\ gen # None /\ core.state = "Open"
  /\ core' = [core EXCEPT !.state = IF core.chunks = 0 THEN "Complete" ELSE "Draining"]
  /\ UNCHANGED <<bridge, device, voice>>

\* abort()
AbortPlayback ==
  /\ gen # None
  /\ CoreCancel
  /\ hw' = "AbortPending" /\ restart' = FALSE
  /\ UNCHANGED <<gen, fmt, teardown, finished, drained>>

Abort == AbortPlayback /\ UNCHANGED <<device, voice>>

-----------------------------------------------------------------------------
Rest == voice' = AtRest
Goes(place) == voice' = [voice EXCEPT !.at = place]

\* A button or an ended session on the Voice lane: cancelCapture() aborts the
\* device, whatever it is open for, and abort() the bridge.
CancelCapture ==
  /\ voice.at = "rest"
  /\ device' \in Stopped
  /\ Goes("cancel")
  /\ UNCHANGED <<bridge, core>>

CancelPlayback ==
  /\ voice.at = "cancel"
  /\ AbortPlayback \/ (gen = None /\ UNCHANGED <<bridge, core>>)
  /\ Rest
  /\ UNCHANGED device

\* servicePlayback() reads the bridge; a start or a stop is now under way.
Snapshot ==
  /\ voice.at = "rest"
  /\ hw \in {"StartPending", "Active", "StopPending", "AbortPending"}
  /\ voice' = [at |-> hw, gen |-> gen, fmt |-> fmt, finished |-> finished, pcm |-> None]
  /\ hw' = CASE hw = "StartPending" -> "Starting"
             [] hw = "StopPending" -> "Stopping"
             [] OTHER -> hw
  /\ teardown' = (teardown \/ hw = "StopPending")
  /\ UNCHANGED <<gen, fmt, restart, finished, drained, core, device>>

\* The device opens or fails; an abort in between has the last word.
ServiceStart ==
  /\ voice.at = "StartPending"
  /\ \E ok \in IF device = Closed THEN BOOLEAN ELSE {FALSE} :
       /\ device' = IF ok THEN Opened(voice.fmt) ELSE device
       /\ IF gen = voice.gen /\ hw = "Starting"
            THEN /\ hw' = (IF ok THEN "Active" ELSE "Fault")
                 /\ teardown' = FALSE /\ finished' = FALSE
                 /\ IF ok THEN UNCHANGED core ELSE CoreCancel
            ELSE UNCHANGED <<hw, teardown, finished, core>>
  /\ Rest
  /\ UNCHANGED <<gen, fmt, restart, drained>>

\* The bridge is idle again whether or not the device could be closed.
ServiceAbort ==
  /\ voice.at = "AbortPending"
  /\ device' \in Stopped
  /\ hw' = "Idle" /\ gen' = None
  /\ restart' = FALSE /\ teardown' = FALSE /\ finished' = FALSE /\ drained' = FALSE
  /\ Rest
  /\ UNCHANGED <<fmt, core>>

\* The stop: the device's source is finished once, ...
ServiceStop ==
  /\ voice.at = "StopPending"
  /\ \/ /\ ~voice.finished
        /\ FailPlayback /\ Rest
        /\ UNCHANGED device
     \/ /\ voice.finished \/ device.fmt # None
        /\ device' = [device EXCEPT !.finished = @ \/ ~voice.finished]
        /\ finished' = TRUE
        /\ Goes("drain")
        /\ UNCHANGED <<hw, gen, fmt, restart, teardown, drained, core>>

\* ... and the device closed once it has played what it holds.
\* Mutant: a stop that has to wait for the device is not tried again.
ServiceWaitOnce ==
  /\ voice.at = "drain"
  /\ Rest
  /\ UNCHANGED <<bridge, core, device>>

ServiceWait ==
  /\ voice.at = "drain"
  /\ hw' = IF hw = "Stopping" THEN "StopPending" ELSE hw
  /\ Rest
  /\ UNCHANGED <<gen, fmt, restart, teardown, finished, drained, core, device>>

ServiceClose ==
  /\ voice.at = "drain"
  /\ \E ok \in BOOLEAN :
       /\ \/ device.finished /\ ok /\ device' = Closed
          \/ device.finished /\ ~ok /\ device.dirty /\ device' \in Stopped
          \/ ~device.finished /\ ~ok /\ UNCHANGED device
       /\ IF hw # "Stopping"
            THEN UNCHANGED <<hw, gen, restart, teardown, finished, drained, core>>
            ELSE /\ IF ~ok THEN hw' = "Fault" /\ CancelCurrent /\ UNCHANGED gen
                    ELSE IF restart THEN hw' = "StartPending" /\ UNCHANGED <<gen, core>>
                    ELSE hw' = "Idle" /\ gen' = None /\ UNCHANGED core
                 /\ drained' = FALSE /\ restart' = FALSE
                 /\ teardown' = (teardown /\ ~ok) /\ finished' = (finished /\ ~ok)
  /\ Rest
  /\ UNCHANGED fmt

\* The ring is drained, unless the generation or the hardware has changed.
Pump ==
  /\ voice.at = "Active"
  /\ IF gen # voice.gen \/ hw # "Active" THEN Rest /\ UNCHANGED core
     ELSE IF core.chunks > 0 /\ core.state \in {"Open", "Draining"}
       THEN /\ core' = [core EXCEPT !.chunks = @ - 1,
                          !.state = IF @ = "Draining" /\ core.chunks = 1
                                      THEN "Complete" ELSE @]
            /\ voice' = [voice EXCEPT !.at = "write", !.pcm = core.fmt]
       ELSE Goes("write") /\ UNCHANGED core
  /\ UNCHANGED <<bridge, device>>

AllPlayed == gen = voice.gen /\ hw = "Active" /\ core.state = "Complete"

\* The chunk goes to the device, or the device fails and playback with it.
ServiceWrite ==
  /\ voice.at = "write"
  /\ \/ /\ voice.pcm # None
        /\ FailPlayback /\ Rest
        /\ device' = [device EXCEPT !.dirty = @ \/ device.fmt # None]
     \/ /\ voice.pcm = None \/ (device.fmt # None /\ ~device.finished)
        /\ device' = [device EXCEPT !.silent = @ /\ voice.pcm = None,
                                    !.dirty = @ \/ voice.pcm # None]
        /\ Goes(IF AllPlayed THEN "complete" ELSE "tail")
        /\ UNCHANGED <<bridge, core>>

\* Playback that is complete and has been silent for the grace time is stopped.
ServiceTail ==
  /\ voice.at \in {"complete", "tail"}
  /\ \/ /\ voice.at = "complete"
        /\ FailPlayback
        /\ UNCHANGED device
     \/ /\ voice.at = "complete" => device.fmt # None
        /\ device' \in {[device EXCEPT !.silent = s] : s \in {TRUE, device.silent}}
        /\ drained' = (AllPlayed /\ device'.silent)
        /\ \/ hw' = "StopPending" /\ drained /\ drained'
           \/ UNCHANGED hw
        /\ UNCHANGED <<gen, fmt, restart, teardown, finished, core>>
  /\ Rest

-----------------------------------------------------------------------------
Network == (\E f \in Formats : Begin(f)) \/ Write \/ End \/ Abort

Service == Snapshot \/ ServiceStart \/ ServiceAbort \/ ServiceStop \/ ServiceWait
           \/ ServiceClose \/ Pump \/ ServiceWrite \/ ServiceTail

Next == Network \/ CancelCapture \/ CancelPlayback \/ Service

Spec == Init /\ [][Next]_vars

\* The lane goes on and comes to its tick whatever commands it has, the device
\* plays what it holds and the grace time passes.
FairSpec ==
  /\ Spec
  /\ WF_vars(Service \/ CancelPlayback)
  /\ SF_vars(Snapshot)
  /\ SF_vars(ServiceClose)
  /\ SF_vars(ServiceTail /\ device'.silent)
  /\ SF_vars(ServiceTail /\ hw' = "StopPending")

-----------------------------------------------------------------------------
\* The types of the bridge, the core, the device and the Voice lane's reads.
TypeOK ==
  /\ hw \in HwStates
  /\ gen \in Generations \cup {None} /\ fmt \in Formats \cup {None}
  /\ restart \in BOOLEAN /\ teardown \in BOOLEAN
  /\ finished \in BOOLEAN /\ drained \in BOOLEAN
  /\ core \in [state: CoreStates, chunks: 0 .. RingChunks, fmt: Formats \cup {None}]
  /\ device \in [fmt: Formats \cup {None}, live: BOOLEAN, dirty: BOOLEAN,
                 finished: BOOLEAN, silent: BOOLEAN]
  /\ voice \in [at: {"rest", "StartPending", "Active", "StopPending", "AbortPending",
                     "drain", "write", "complete", "tail", "cancel"},
                gen: Generations \cup {None}, fmt: Formats \cup {None},
                finished: BOOLEAN, pcm: Formats \cup {None}]

\* PCM reaches the device only in the format the device was opened with and
\* before its source is finished, whatever segments the Network lane begins
\* between the tick's locked sections.
PcmFitsDevice ==
  voice.at = "write" /\ voice.pcm # None =>
    device.fmt = voice.pcm /\ ~device.finished

\* The bridge can always begin again.  At rest the core is not left open behind
\* an abort and no generation is owned; a hardware failure still owns its
\* cancelled generation, without which abort() would not recover from it; and
\* neither leaves a session of the device running, though it may not have let
\* itself be closed.
Recoverable ==
  /\ hw = "Idle" => Startable /\ gen = None
  /\ hw = "Fault" => gen # None /\ core.state = "Cancelled"
  /\ hw \in {"Idle", "Fault"} => ~device.live

\* Violated: the bridge calls itself idle over a device that abort() could not
\* close.  The next segment then fails, and only its abort() tries again.
IdleDeviceClosed == hw = "Idle" => device = Closed

\* A segment that is all received and played, or cancelled, ends: the hardware
\* is idle or failed, unless another segment begins.
SegmentEnds ==
  core.state \in {"Complete", "Cancelled"}
    ~> hw \in {"Idle", "Fault"} \/ core.state \in {"Open", "Draining"}
=============================================================================
