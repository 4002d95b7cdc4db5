--------------------------- MODULE AudioBridge_proofs ---------------------------
(***************************************************************************)
(* Proofs about the playback bridge: whatever segments the Network lane    *)
(* begins, ends and aborts between the locked sections of the Voice lane's *)
(* tick, no chunk reaches the device in another format than its own, and   *)
(* the bridge can always begin again.  Part two is about the conversation  *)
(* of VoiceSession: whose the gateway's session is.                        *)
(***************************************************************************)
EXTENDS AudioBridge, VoiceSession, TLAPS

-----------------------------------------------------------------------------
(* PART ONE: the playback bridge *)

\* A generation is owned exactly while the hardware is not idle.
Owned == hw = "Idle" <=> gen = None

\* Where the Voice lane's tick stands, the hardware is where the tick left it,
\* or has been aborted.
TickIsCurrent ==
  /\ voice.at \notin {"rest", "cancel"} => hw # "Idle"
  /\ voice.at = "StartPending" =>
       hw \in {"Starting", "AbortPending"} /\ (hw = "Starting" => gen = voice.gen)
  /\ voice.at = "AbortPending" => hw = "AbortPending"
  /\ voice.at \in {"StopPending", "drain"} =>
       hw \in {"Stopping", "AbortPending"} /\ (hw = "Stopping" => teardown)
  /\ voice.at \in {"Active", "write", "complete", "tail"} =>
       hw \in {"Active", "StopPending", "AbortPending"}

\* An abort has cancelled the core, and a stop that nothing is queued behind has
\* played all.
EndIsOver ==
  /\ hw = "AbortPending" => core.state = "Cancelled"
  /\ hw \in {"StopPending", "Stopping"} /\ ~restart => core.state = "Complete"

\* The format the tick has read is still the bridge's if the generation is, and
\* a pump starts with no PCM in hand.
FormatIsKnown ==
  /\ gen # None => core.fmt = fmt /\ fmt # None
  /\ voice.at \notin {"rest", "cancel"} =>
       voice.fmt # None /\ (gen = voice.gen => voice.fmt = fmt)
  /\ voice.at = "Active" => voice.pcm = None

\* The device has a session running exactly while the hardware says so, save for
\* the moment between the two halves of a cancellation on the Voice lane.
\* Hardware that is active, or can be made so again by a segment that resumes
\* the generation, is open in the core's format and has not been told that its
\* source is finished.
Running == {"Active", "StopPending", "Stopping"}
DeviceIsOpen ==
  /\ device.live => hw \in Running \cup {"AbortPending"} /\ device.fmt # None
  /\ device.finished => device.fmt # None
  /\ voice.at # "cancel" =>
       /\ hw \in Running => device.live
       /\ hw = "Active" => device.fmt = core.fmt /\ ~device.finished
       /\ hw \in {"StopPending", "Stopping"} /\ ~restart =>
            device.fmt = core.fmt /\ (device.finished => teardown)

\* A source the bridge calls finished is finished, and its teardown committed:
\* endPlayback() is never refused.
SourceIsFinished ==
  /\ hw = "Active" => ~finished
  /\ finished /\ hw \in {"StopPending", "Stopping"} => teardown
  /\ voice.at # "cancel" /\ finished /\ hw \in {"StopPending", "Stopping"} =>
       device.finished
  /\ voice.at = "StopPending" => device.live /\ (voice.finished => device.finished)
  /\ voice.at = "drain" => device.finished

BridgeInv ==
  /\ TypeOK
  /\ Recoverable
  /\ PcmFitsDevice
  /\ Owned
  /\ TickIsCurrent
  /\ EndIsOver
  /\ FormatIsKnown
  /\ DeviceIsOpen
  /\ SourceIsFinished

-----------------------------------------------------------------------------
(* Type correctness, in five parts *)

FlagTypes ==
  /\ restart \in BOOLEAN /\ teardown \in BOOLEAN
  /\ finished \in BOOLEAN /\ drained \in BOOLEAN

CoreType ==
  core \in [state: CoreStates, chunks: 0 .. RingChunks, fmt: Formats \cup {None}]

HardwareTypes ==
  hw \in HwStates /\ gen \in Generations \cup {None} /\ fmt \in Formats \cup {None}

DeviceType ==
  device \in [fmt: Formats \cup {None}, live: BOOLEAN, dirty: BOOLEAN, finished: BOOLEAN,
              silent: BOOLEAN]

TickPlaces == {"rest", "StartPending", "Active", "StopPending", "AbortPending",
               "drain", "write", "complete", "tail", "cancel"}
VoiceType ==
  voice \in [at: TickPlaces, gen: Generations \cup {None}, fmt: Formats \cup {None},
             finished: BOOLEAN, pcm: Formats \cup {None}]

LEMMA TypeParts ==
  TypeOK <=> FlagTypes /\ CoreType /\ HardwareTypes /\ DeviceType /\ VoiceType
BY DEF TypeOK, FlagTypes, CoreType, HardwareTypes, DeviceType, VoiceType, TickPlaces

LEMMA FlagsKeepType == ASSUME FlagTypes, Next PROVE FlagTypes'
<1> USE DEF FlagTypes, bridge
<1>1. ASSUME NEW f \in Formats, Begin(f) PROVE FlagTypes'
  <2>1. CASE Resume(f)
    BY <2>1 DEF Resume
  <2>2. CASE Replace(f)
    BY <2>2 DEF Replace
  <2>3. CASE Start(f)
    BY <2>3 DEF Start
  <2> QED
    BY <1>1, <2>1, <2>2, <2>3 DEF Begin
<1>2. CASE Write \/ End \/ Abort \/ CancelCapture \/ CancelPlayback
  BY <1>2 DEF Write, End, Abort, AbortPlayback, CancelCapture, CancelPlayback
<1>3. CASE FailPlayback
  BY <1>3 DEF FailPlayback
<1>4. CASE Snapshot \/ ServiceStart \/ ServiceAbort
  BY <1>4 DEF Snapshot, ServiceStart, ServiceAbort
<1>5. CASE ServiceStop
  BY <1>3, <1>5 DEF ServiceStop
<1>6. CASE ServiceWait
  BY <1>6 DEF ServiceWait
<1>7. CASE ServiceClose
  BY <1>7 DEF ServiceClose
<1>8. CASE Pump
  BY <1>8 DEF Pump
<1>9. CASE ServiceWrite
  BY <1>3, <1>9 DEF ServiceWrite
<1>10. CASE ServiceTail
  BY <1>3, <1>10 DEF ServiceTail, AllPlayed
<1> QED
  BY <1>1, <1>2, <1>4, <1>5, <1>6, <1>7, <1>8, <1>9, <1>10 DEF Next, Network, Service

LEMMA EmptyRing == 0 \in 0 .. RingChunks
BY BridgeConstants

LEMMA CancelKeepsType == ASSUME CoreType, CoreCancel PROVE CoreType'
<1>1. "Cancelled" \in CoreStates
  BY DEF CoreStates
<1> QED
  BY <1>1, EmptyRing DEF CoreType, CoreCancel

LEMMA CoreKeepsType == ASSUME CoreType, Next PROVE CoreType'
<1>1. ASSUME NEW f \in Formats, CoreBegin(f) PROVE CoreType'
  BY <1>1, EmptyRing DEF CoreType, CoreBegin, CoreStates
<1>2. ASSUME NEW s \in CoreStates, core' = [core EXCEPT !.state = s] PROVE CoreType'
  BY <1>2 DEF CoreType
<1>3. {"Open", "Complete", "Draining", "Fault"} \subseteq CoreStates
  BY DEF CoreStates
<1>4. ASSUME NEW f \in Formats, Begin(f) PROVE CoreType'
  <2>1. CASE Resume(f)
    BY <1>2, <1>3, <2>1 DEF Resume
  <2>2. CASE Replace(f)
    BY <1>1, <2>2 DEF Replace
  <2>3. CASE Start(f)
    BY <1>1, <1>2, <1>3, <2>3 DEF Start
  <2> QED
    BY <1>4, <2>1, <2>2, <2>3 DEF Begin
<1>5. CASE Write
  <2>1. CASE core' = [core EXCEPT !.chunks = @ + 1]
    <3>1. core.chunks + 1 \in 0 .. RingChunks
      BY <1>5, BridgeConstants DEF Write, CoreType
    <3> QED
      BY <2>1, <3>1 DEF CoreType
  <2>2. CASE core' = [core EXCEPT !.state = "Fault", !.chunks = 0]
    BY <1>3, <2>2, EmptyRing DEF CoreType
  <2> QED
    BY <1>5, <2>1, <2>2 DEF Write, CoreAccept
<1>6. CASE End
  BY <1>2, <1>3, <1>6 DEF End
<1>7. CASE AbortPlayback \/ FailPlayback
  BY <1>7, CancelKeepsType DEF AbortPlayback, FailPlayback, CancelCurrent, CoreType
<1>8. CASE Snapshot \/ ServiceAbort \/ ServiceWait \/ CancelCapture
  BY <1>8 DEF Snapshot, ServiceAbort, ServiceWait, CancelCapture, CoreType
<1>9. CASE ServiceStart
  BY <1>9, CancelKeepsType DEF ServiceStart, CoreType
<1>10. CASE Abort \/ CancelPlayback \/ ServiceStop \/ ServiceWrite \/ ServiceTail
  BY <1>7, <1>10 DEF Abort, CancelPlayback, ServiceStop, ServiceWrite, ServiceTail, CoreType
<1>11. CASE ServiceClose
  BY <1>11, CancelKeepsType DEF ServiceClose, CancelCurrent, CoreType
<1>12. CASE Pump
  <2>1. CASE UNCHANGED core
    BY <2>1 DEF CoreType
  <2>2. CASE core.chunks > 0 /\ core' = [core EXCEPT !.chunks = @ - 1,
               !.state = IF @ = "Draining" /\ core.chunks = 1 THEN "Complete" ELSE @]
    <3>1. core.chunks - 1 \in 0 .. RingChunks
      BY <2>2, BridgeConstants DEF CoreType
    <3> QED
      BY <1>3, <2>2, <3>1 DEF CoreType
  <2> QED
    BY <1>12, <2>1, <2>2 DEF Pump
<1> QED
  BY <1>4, <1>5, <1>6, <1>7, <1>8, <1>9, <1>10, <1>11, <1>12 DEF Next, Network, Service

LEMMA HardwareKeepsType ==
  ASSUME HardwareTypes, VoiceType, Next
  PROVE  HardwareTypes'
<1> USE DEF HardwareTypes, HwStates, bridge
<1>1. ASSUME NEW f \in Formats, Begin(f) PROVE HardwareTypes'
  BY <1>1 DEF Begin, Resume, Replace, Start
<1>2. CASE Write \/ End \/ Abort \/ CancelCapture \/ CancelPlayback
  BY <1>2 DEF Write, End, Abort, AbortPlayback, CancelCapture, CancelPlayback
<1>3. CASE FailPlayback
  BY <1>3 DEF FailPlayback
<1>4. CASE Snapshot \/ ServiceStart \/ ServiceAbort \/ ServiceWait
  BY <1>4 DEF Snapshot, ServiceStart, ServiceAbort, ServiceWait
<1>5. CASE ServiceClose
  BY <1>5 DEF ServiceClose
<1>6. CASE Pump
  BY <1>6 DEF Pump
<1>7. CASE ServiceStop \/ ServiceWrite \/ ServiceTail
  BY <1>3, <1>7 DEF ServiceStop, ServiceWrite, ServiceTail
<1> QED
  BY <1>1, <1>2, <1>4, <1>5, <1>6, <1>7 DEF Next, Network, Service

LEMMA DeviceKeepsType ==
  ASSUME DeviceType, VoiceType, Next
  PROVE  DeviceType'
<1>1. CASE UNCHANGED device
  BY <1>1 DEF DeviceType
<1>2. CASE device' \in Stopped
  <2>1. CASE device' = Closed
    BY <2>1 DEF Closed, DeviceType
  <2>2. CASE device' = [device EXCEPT !.live = FALSE]
    BY <2>2 DEF DeviceType
  <2> QED
    BY <1>2, <2>1, <2>2 DEF Stopped
<1>3. CASE Network \/ Snapshot \/ ServiceWait \/ Pump \/ CancelPlayback
  BY <1>1, <1>3 DEF Network, Begin, Write, End, Abort, Snapshot, ServiceWait, Pump,
     CancelPlayback
<1>4. CASE ServiceStart
  BY <1>4 DEF ServiceStart, Opened, Closed, VoiceType, DeviceType
<1>5. CASE ServiceAbort \/ CancelCapture
  BY <1>2, <1>5 DEF ServiceAbort, CancelCapture
<1>6. CASE ServiceStop
  BY <1>1, <1>6 DEF ServiceStop, VoiceType, DeviceType
<1>7. CASE ServiceClose
  BY <1>1, <1>2, <1>7 DEF ServiceClose, Stopped
<1>8. CASE ServiceWrite
  BY <1>8 DEF ServiceWrite, DeviceType
<1>9. CASE ServiceTail
  BY <1>1, <1>9 DEF ServiceTail, DeviceType
<1> QED
  BY <1>3, <1>4, <1>5, <1>6, <1>7, <1>8, <1>9 DEF Next, Service

LEMMA VoiceKeepsType ==
  ASSUME VoiceType, FlagTypes, HardwareTypes, CoreType, Next
  PROVE  VoiceType'
<1>1. ASSUME NEW p \in TickPlaces, Goes(p) PROVE VoiceType'
  BY <1>1 DEF VoiceType, Goes
<1>2. CASE Rest
  BY <1>2 DEF VoiceType, Rest, AtRest, TickPlaces
<1>3. {"drain", "write", "complete", "tail", "cancel"} \subseteq TickPlaces
  BY DEF TickPlaces
<1>4. CASE Network
  BY <1>4 DEF Network, Begin, Write, End, Abort, VoiceType
<1>5. CASE Snapshot
  BY <1>5 DEF Snapshot, VoiceType, TickPlaces, FlagTypes, HardwareTypes
<1>6. CASE Pump
  <2>1. ASSUME NEW f \in Formats \cup {None},
               voice' = [voice EXCEPT !.at = "write", !.pcm = f]
        PROVE  VoiceType'
    BY <1>3, <2>1 DEF VoiceType
  <2>2. core.fmt \in Formats \cup {None}
    BY DEF CoreType
  <2> QED
    BY <1>1, <1>2, <1>3, <1>6, <2>1, <2>2 DEF Pump
<1>7. CASE ServiceStart \/ ServiceAbort \/ ServiceWait \/ ServiceClose \/ ServiceTail
           \/ CancelPlayback
  BY <1>2, <1>7 DEF ServiceStart, ServiceAbort, ServiceWait, ServiceClose, ServiceTail,
     CancelPlayback
<1>8. CASE ServiceStop \/ ServiceWrite \/ CancelCapture
  BY <1>1, <1>2, <1>3, <1>8 DEF ServiceStop, ServiceWrite, CancelCapture
<1> QED
  BY <1>4, <1>5, <1>6, <1>7, <1>8 DEF Next, Service

LEMMA NextKeepsType == ASSUME TypeOK, Next PROVE TypeOK'
<1> USE TypeParts
<1>1. FlagTypes' /\ CoreType'
  BY FlagsKeepType, CoreKeepsType
<1>2. HardwareTypes' /\ DeviceType' /\ VoiceType'
  BY HardwareKeepsType, DeviceKeepsType, VoiceKeepsType
<1> QED
  BY <1>1, <1>2 DEF TypeOK, FlagTypes, CoreType, HardwareTypes, DeviceType, VoiceType,
     TickPlaces

-----------------------------------------------------------------------------
(* The Network lane *)

LEMMA NetworkKeepsInv == ASSUME BridgeInv, Network PROVE BridgeInv'
<1>1. TypeOK'
  BY NextKeepsType DEF BridgeInv, Next
<1> USE BridgeConstants DEF BridgeInv, TypeOK, Recoverable, PcmFitsDevice, Owned,
    TickIsCurrent, EndIsOver, FormatIsKnown, DeviceIsOpen, Running, SourceIsFinished,
    Startable, CoreStates, HwStates, CoreBegin, CoreCancel, bridge
<1>2. ASSUME NEW f \in Formats, Begin(f) PROVE BridgeInv'
  <2>1. CASE Resume(f)
    <3>1. CASE hw = "StopPending" /\ ~restart
      BY <1>1, <1>2, <2>1, <3>1 DEF Begin, Resume, Resumable
    <3>2. CASE hw = "Stopping" \/ restart
      <4>1. restart' /\ hw' = hw
        BY <2>1, <3>2 DEF Resume
      <4> QED
        BY <1>1, <1>2, <2>1, <4>1 DEF Begin, Resume
    <3>3. CASE hw \notin {"StopPending", "Stopping"}
      BY <1>1, <1>2, <2>1, <3>3 DEF Begin, Resume
    <3> QED
      BY <3>1, <3>2, <3>3
  <2>2. CASE Replace(f)
    BY <1>1, <1>2, <2>2 DEF Begin, Replace
  <2>3. CASE Start(f)
    BY <1>1, <1>2, <2>3 DEF Begin, Start
  <2> QED
    BY <1>2, <2>1, <2>2, <2>3 DEF Begin
<1>3. CASE Write
  <2>1. /\ core'.fmt = core.fmt /\ core.state = "Open" /\ core'.state \in {"Open", "Fault"}
        /\ UNCHANGED <<bridge, device, voice>>
    BY <1>3 DEF Write, CoreAccept
  <2>2. hw \notin {"Idle", "Fault", "AbortPending"}
    BY <2>1
  <2> QED
    BY <1>1, <2>1, <2>2
<1>4. CASE End
  BY <1>1, <1>4 DEF End
<1>5. CASE Abort
  BY <1>1, <1>5 DEF Abort, AbortPlayback
<1> QED
  BY <1>2, <1>3, <1>4, <1>5 DEF Network

-----------------------------------------------------------------------------
(* The Voice lane *)

\* A failure aborts playback; the tick that finds it owns a generation.
LEMMA FailureKeepsInv ==
  ASSUME BridgeInv, TypeOK', FailPlayback, voice.at \notin {"rest", "cancel"},
         voice' = AtRest, device'.fmt = device.fmt, device'.live = device.live,
         device'.finished = device.finished
  PROVE  BridgeInv'
BY BridgeConstants DEF BridgeInv, TypeOK, Recoverable, PcmFitsDevice, Owned, TickIsCurrent,
   EndIsOver, FormatIsKnown, DeviceIsOpen, Running, SourceIsFinished, Startable,
   CancelCurrent, CoreCancel, FailPlayback, AtRest

LEMMA ServiceKeepsInv ==
  ASSUME BridgeInv, Service \/ CancelCapture \/ CancelPlayback
  PROVE  BridgeInv'
<1>1. TypeOK'
  BY NextKeepsType DEF BridgeInv, Next
<1>2. CASE FailPlayback /\ voice.at \notin {"rest", "cancel"} /\ Rest /\ UNCHANGED device
  BY <1>1, <1>2, FailureKeepsInv DEF Rest
<1> USE BridgeConstants DEF BridgeInv, TypeOK, Recoverable, PcmFitsDevice, Owned,
    TickIsCurrent, EndIsOver, FormatIsKnown, DeviceIsOpen, Running, SourceIsFinished,
    Startable, CoreStates, HwStates, CoreCancel, CancelCurrent, Closed, AtRest, Rest, Goes, bridge
<1>3. CASE Snapshot
  BY <1>1, <1>3 DEF Snapshot
<1>4. CASE ServiceStart
  <2> PICK ok \in BOOLEAN :
        /\ device' = IF ok THEN Opened(voice.fmt) ELSE device
        /\ IF gen = voice.gen /\ hw = "Starting"
             THEN /\ hw' = (IF ok THEN "Active" ELSE "Fault")
                  /\ teardown' = FALSE /\ finished' = FALSE
                  /\ IF ok THEN UNCHANGED core ELSE CoreCancel
             ELSE UNCHANGED <<hw, teardown, finished, core>>
    BY <1>4 DEF ServiceStart
  <2> USE DEF Opened
  <2>1. UNCHANGED <<gen, fmt, restart>> /\ voice' = AtRest /\ voice.at = "StartPending"
    BY <1>4 DEF ServiceStart
  <2>2. CASE gen = voice.gen /\ hw = "Starting" /\ ok
    BY <1>1, <2>1, <2>2
  <2>3. CASE gen = voice.gen /\ hw = "Starting" /\ ~ok
    BY <1>1, <2>1, <2>3
  <2>4. CASE ~(gen = voice.gen /\ hw = "Starting")
    BY <1>1, <2>1, <2>4
  <2> QED
    BY <2>2, <2>3, <2>4
<1>5. CASE ServiceAbort
  BY <1>1, <1>5 DEF ServiceAbort, Stopped
<1>6. CASE ServiceStop
  BY <1>1, <1>2, <1>6 DEF ServiceStop
<1>7. CASE ServiceWait
  <2>1. CASE hw = "Stopping"
    BY <1>1, <1>7, <2>1 DEF ServiceWait
  <2>2. CASE hw # "Stopping"
    BY <1>1, <1>7, <2>2 DEF ServiceWait
  <2> QED
    BY <2>1, <2>2
<1>8. CASE ServiceClose
  <2>1. voice.at = "drain" /\ device.finished /\ voice' = AtRest /\ UNCHANGED fmt
    BY <1>8 DEF ServiceClose
  <2>2. ~device'.live /\ (device'.finished => device'.fmt # None)
    BY <1>8, <2>1 DEF ServiceClose, Stopped
  <2>3. CASE hw # "Stopping"
    <3>1. UNCHANGED <<hw, gen, restart, teardown, finished, core>> /\ hw = "AbortPending"
      BY <1>8, <2>1, <2>3 DEF ServiceClose
    <3> QED
      BY <1>1, <2>1, <2>2, <3>1
  <2>4. CASE hw = "Stopping"
    <3>1. \/ hw' = "Fault" /\ CoreCancel /\ UNCHANGED gen
          \/ hw' = "StartPending" /\ ~finished' /\ UNCHANGED <<gen, core>>
          \/ hw' = "Idle" /\ gen' = None /\ ~restart /\ ~finished' /\ UNCHANGED core
      BY <1>8, <2>4 DEF ServiceClose
    <3> QED
      BY <1>1, <2>1, <2>2, <2>4, <3>1
  <2> QED
    BY <2>3, <2>4
<1>9. CASE Pump
  <2>1. CASE gen # voice.gen \/ hw # "Active"
    BY <1>1, <1>9, <2>1 DEF Pump
  <2>2. CASE /\ gen = voice.gen /\ hw = "Active"
             /\ core.chunks > 0 /\ core.state \in {"Open", "Draining"}
    <3>1. /\ voice'.at = "write" /\ voice'.pcm = core.fmt
          /\ voice'.gen = voice.gen /\ voice'.fmt = voice.fmt
      BY <1>9, <2>2 DEF Pump
    <3>2. core'.fmt = core.fmt /\ core'.state \in {"Open", "Draining", "Complete"}
      BY <1>9, <2>2 DEF Pump
    <3>3. UNCHANGED <<hw, gen, fmt, restart, teardown, device>>
      BY <1>9 DEF Pump
    <3>4. device.fmt = core.fmt /\ ~device.finished
      BY <1>9, <2>2 DEF Pump
    <3>5. PcmFitsDevice' /\ DeviceIsOpen' /\ SourceIsFinished'
      BY <1>9, <2>2, <3>1, <3>2, <3>3, <3>4 DEF Pump
    <3>6. Recoverable' /\ EndIsOver'
      BY <2>2, <3>2, <3>3
    <3>7. Owned' /\ TickIsCurrent' /\ FormatIsKnown'
      BY <1>9, <2>2, <3>1, <3>2, <3>3 DEF Pump
    <3> QED
      BY <1>1, <3>5, <3>6, <3>7
  <2>3. CASE /\ gen = voice.gen /\ hw = "Active"
             /\ ~(core.chunks > 0 /\ core.state \in {"Open", "Draining"})
    <3>1. voice' = [voice EXCEPT !.at = "write"] /\ voice.pcm = None
      BY <1>9, <2>3 DEF Pump
    <3> QED
      BY <1>1, <1>9, <2>3, <3>1 DEF Pump
  <2> QED
    BY <2>1, <2>2, <2>3
<1>10. CASE ServiceWrite
  <2>1. CASE FailPlayback /\ Rest /\ device' = [device EXCEPT !.dirty = @ \/ device.fmt # None]
    BY <1>1, <1>10, <2>1, FailureKeepsInv DEF ServiceWrite
  <2>2. CASE /\ device' = [device EXCEPT !.silent = @ /\ voice.pcm = None,
                                         !.dirty = @ \/ voice.pcm # None]
             /\ Goes(IF AllPlayed THEN "complete" ELSE "tail")
             /\ UNCHANGED <<bridge, core>>
    <3>1. /\ device'.fmt = device.fmt /\ device'.live = device.live
          /\ device'.finished = device.finished
      BY <2>2
    <3>2. voice' = [voice EXCEPT !.at = "complete"] \/ voice' = [voice EXCEPT !.at = "tail"]
      BY <2>2
    <3>3. voice.at = "write"
      BY <1>10 DEF ServiceWrite
    <3> QED
      BY <1>1, <2>2, <3>1, <3>2, <3>3
  <2> QED
    BY <1>10, <2>1, <2>2 DEF ServiceWrite
<1>11. CASE ServiceTail
  BY <1>1, <1>2, <1>11 DEF ServiceTail, AllPlayed
<1>12. CASE CancelCapture
  BY <1>1, <1>12 DEF CancelCapture, Stopped
<1>13. CASE CancelPlayback
  BY <1>1, <1>13 DEF CancelPlayback, AbortPlayback
<1> QED
  BY <1>3, <1>4, <1>5, <1>6, <1>7, <1>8, <1>9, <1>10, <1>11, <1>12, <1>13 DEF Service

-----------------------------------------------------------------------------
(* The theorems *)

\* The inductive invariant of the bridge: what hardware, core, device and the
\* reads of the Voice lane's tick have to do with each other.
THEOREM BridgeInductive == Spec => []BridgeInv
<1>1. ASSUME Init PROVE BridgeInv
  <2>1. FlagTypes
    BY <1>1 DEF Init, FlagTypes
  <2>2. CoreType
    BY <1>1, EmptyRing DEF Init, CoreType, CoreStates
  <2>3. HardwareTypes /\ DeviceType /\ VoiceType
    BY <1>1 DEF Init, HardwareTypes, HwStates, DeviceType, Closed, VoiceType, TickPlaces,
       AtRest
  <2>4. TypeOK
    BY <2>1, <2>2, <2>3, TypeParts
  <2> QED
    BY <1>1, <2>4 DEF Init, BridgeInv, Recoverable, PcmFitsDevice, Owned, TickIsCurrent,
       EndIsOver, FormatIsKnown, DeviceIsOpen, Running, SourceIsFinished, Startable, Closed,
       AtRest
<1>2. ASSUME BridgeInv, [Next]_vars PROVE BridgeInv'
  <2>1. CASE UNCHANGED vars
    BY <1>2, <2>1 DEF vars, bridge, BridgeInv, TypeOK, Recoverable, PcmFitsDevice, Owned,
       TickIsCurrent, EndIsOver, FormatIsKnown, DeviceIsOpen, Running, SourceIsFinished,
       Startable
  <2> QED
    BY <1>2, <2>1, NetworkKeepsInv, ServiceKeepsInv DEF Next
<1> QED
  BY <1>1, <1>2, PTL DEF Spec

\* The bridge's variables stay in their types; above all, the ring never holds
\* more than it has place for.
THEOREM BridgeTypeCorrect == Spec => []TypeOK
BY BridgeInductive, PTL DEF BridgeInv

\* servicePlayback() never writes PCM to a device open in another format, or
\* told that its source is finished, whatever begin() did between its sections.
THEOREM PcmFitsDeviceHolds == Spec => []PcmFitsDevice
BY BridgeInductive, PTL DEF BridgeInv

\* An idle bridge accepts begin(), one in Fault can be recovered by abort(), and
\* neither leaves a session of the device running, whatever close or abort failed.
THEOREM RecoverableHolds == Spec => []Recoverable
BY BridgeInductive, PTL DEF BridgeInv

-----------------------------------------------------------------------------
(* PART TWO: the conversation.  Its session and the client's lease of it.  *)

\* A client without a socket has no lease, or the clean-up of it is due.
LeaseIsCleaned == ~client.socket /\ ~net.cleanup => client.lease = Nothing

\* The Network lane waits for an answer only with nothing to give back, and
\* not while the Portal lane has the client.
ConnectsAfresh ==
  net.connecting => ~client.socket /\ ~net.cleanup /\ image # "exclusive"

SessionInv ==
  /\ VTypeOK
  /\ OneLease
  /\ LeaseIsCleaned
  /\ ConnectsAfresh
  /\ ImageOwnsClient

\* What the lanes keep of the Voice lane's, as far as types go.
QueueTypes ==
  /\ toVoice \in Seq(Messages)
  /\ toNet \in Seq({"Begin", "Cancel"}) /\ Len(toNet) <= NetDepth
  /\ toControl \in Seq(BOOLEAN)

HardwareOfTurn ==
  /\ task \in [state: VoiceStates, begin: BOOLEAN, deferred: BOOLEAN]
  /\ turn \in BOOLEAN
  /\ capture \in {"idle", "open", "draining"}
  /\ play \in {"idle", "open", "ended", "abort"}

SessionTypes ==
  /\ client \in [voice: VoiceStates, socket: BOOLEAN, lease: Sessions \cup {Nothing},
                 tts: BOOLEAN]
  /\ open \subseteq Sessions
  /\ net \in [cleanup: BOOLEAN, online: BOOLEAN, connecting: BOOLEAN]

BeatTypes ==
  /\ heart \in [phase: {"idle", "queued", "running", "complete"},
                beat: Beats \cup {Nothing}, session: Sessions \cup {Nothing}]
  /\ portal \in [asked: SUBSET Beats, beat: Beats \cup {Nothing},
                 session: Sessions \cup {Nothing}]
  /\ image \in {"idle", "pending", "exclusive"}

LEMMA SessionTypeParts ==
  VTypeOK <=> QueueTypes /\ HardwareOfTurn /\ SessionTypes /\ BeatTypes
BY DEF VTypeOK, QueueTypes, HardwareOfTurn, SessionTypes, BeatTypes

\* A command is admitted only to a queue with room.
LEMMA PostNetBounded ==
  ASSUME QueueTypes, NEW command \in {"Begin", "Cancel"}, NEW q \in PostNet(toNet, command)
  PROVE  q \in Seq({"Begin", "Cancel"}) /\ Len(q) <= NetDepth
BY SessionBounds DEF QueueTypes, PostNet

\* A message more for the Voice lane, or one less.
LEMMA VoiceQueueTyped ==
  ASSUME QueueTypes
  PROVE  /\ \A m \in Messages : Append(toVoice, m) \in Seq(Messages)
         /\ toVoice # <<>> => Tail(toVoice) \in Seq(Messages) /\ Head(toVoice) \in Messages
         /\ \A b \in BOOLEAN : Append(toControl, b) \in Seq(BOOLEAN)
         /\ toControl # <<>> => Tail(toControl) \in Seq(BOOLEAN) /\ Head(toControl) \in BOOLEAN
         /\ toNet # <<>> => /\ Tail(toNet) \in Seq({"Begin", "Cancel"})
                            /\ Len(Tail(toNet)) <= NetDepth
BY SessionBounds DEF QueueTypes

LEMMA AbortedTyped ==
  ASSUME HardwareOfTurn PROVE Aborted \in {"idle", "open", "ended", "abort"}
BY DEF HardwareOfTurn, Aborted

\* Whatever the client is told, it is told the Voice lane too.
LEMMA SetVoiceTyped ==
  ASSUME QueueTypes, HardwareOfTurn, NEW c, NEW v \in VoiceStates, SetVoice(c, v)
  PROVE  /\ toVoice' \in Seq(Messages) /\ turn' \in BOOLEAN
         /\ client' = [c EXCEPT !.voice = v]
<1>1. toVoice' \in Seq(Messages) /\ client' = [c EXCEPT !.voice = v]
  BY VoiceQueueTyped DEF SetVoice, Messages
<1>2. turn' = turn \/ turn' = (v \in Live)
  BY DEF SetVoice
<1>3. (v \in Live) \in BOOLEAN /\ turn \in BOOLEAN
  BY DEF HardwareOfTurn
<1> QED
  BY <1>1, <1>2, <1>3

\* A session that is given back leaves none, if the client's was the only one.
LEMMA DisconnectEnds ==
  ASSUME VTypeOK, Disconnect
  PROVE  /\ client' \in [voice: VoiceStates, socket: BOOLEAN, lease: Sessions \cup {Nothing},
                         tts: BOOLEAN]
         /\ client'.voice = "Idle" /\ ~client'.socket /\ client'.lease = Nothing
         /\ open' = open \ {client.lease} /\ open' \subseteq Sessions
         /\ toVoice' \in Seq(Messages) /\ turn' \in BOOLEAN
         /\ play' \in {"idle", "open", "ended", "abort"}
         /\ OneLease => open' = {}
<1>1. QueueTypes /\ HardwareOfTurn /\ SessionTypes
  BY SessionTypeParts
<1>2. SetVoice([client EXCEPT !.socket = FALSE, !.lease = Nothing, !.tts = FALSE], "Idle")
  BY DEF Disconnect
<1>3. toVoice' \in Seq(Messages) /\ turn' \in BOOLEAN
      /\ client' = [[client EXCEPT !.socket = FALSE, !.lease = Nothing, !.tts = FALSE]
                      EXCEPT !.voice = "Idle"]
  BY <1>1, <1>2, SetVoiceTyped DEF VoiceStates
<1>4. /\ client' \in [voice: VoiceStates, socket: BOOLEAN, lease: Sessions \cup {Nothing},
                      tts: BOOLEAN]
      /\ client'.voice = "Idle" /\ ~client'.socket /\ client'.lease = Nothing
  BY <1>1, <1>3 DEF SessionTypes, VoiceStates
<1> QED
  BY <1>1, <1>3, <1>4, AbortedTyped DEF Disconnect, SessionTypes, OneLease

\* A socket that is lost keeps the lease for the clean-up it asks for.
LEMMA SocketLostKeeps ==
  ASSUME VTypeOK, SocketLost
  PROVE  /\ client' \in [voice: VoiceStates, socket: BOOLEAN, lease: Sessions \cup {Nothing},
                         tts: BOOLEAN]
         /\ client'.lease = client.lease /\ ~client'.socket
         /\ net' \in [cleanup: BOOLEAN, online: BOOLEAN, connecting: BOOLEAN]
         /\ net'.cleanup /\ net'.connecting = net.connecting
         /\ toVoice' \in Seq(Messages) /\ turn' \in BOOLEAN
         /\ play' \in {"idle", "open", "ended", "abort"}
<1>1. QueueTypes /\ HardwareOfTurn /\ SessionTypes
  BY SessionTypeParts
<1>2. SetVoice([client EXCEPT !.socket = FALSE, !.tts = FALSE], "Error")
  BY DEF SocketLost
<1>3. toVoice' \in Seq(Messages) /\ turn' \in BOOLEAN
      /\ client' = [[client EXCEPT !.socket = FALSE, !.tts = FALSE] EXCEPT !.voice = "Error"]
  BY <1>1, <1>2, SetVoiceTyped DEF VoiceStates
<1> QED
  BY <1>1, <1>3, AbortedTyped DEF SocketLost, SessionTypes, VoiceStates

\* A client that only changes what it says keeps its session.
Says(c, v) == \/ c = client
              \/ \E b \in BOOLEAN : c = [client EXCEPT !.tts = b]

LEMMA SaysKeeps ==
  ASSUME VTypeOK, NEW c, NEW v \in VoiceStates, Says(c, v), SetVoice(c, v)
  PROVE  /\ client' \in [voice: VoiceStates, socket: BOOLEAN, lease: Sessions \cup {Nothing},
                         tts: BOOLEAN]
         /\ client'.lease = client.lease /\ client'.socket = client.socket
         /\ toVoice' \in Seq(Messages) /\ turn' \in BOOLEAN
<1>1. QueueTypes /\ HardwareOfTurn /\ SessionTypes
  BY SessionTypeParts
<1>2. toVoice' \in Seq(Messages) /\ turn' \in BOOLEAN /\ client' = [c EXCEPT !.voice = v]
  BY <1>1, SetVoiceTyped
<1> QED
  BY <1>1, <1>2 DEF SessionTypes, Says

-----------------------------------------------------------------------------
(* The lanes *)

\* The Voice lane and the producers change nothing of the session.
SessionRests == UNCHANGED <<client, open, net, heart, portal, image>>

LEMMA RestKeepsSession ==
  ASSUME SessionInv, SessionRests, QueueTypes', HardwareOfTurn'
  PROVE  SessionInv'
<1>1. SessionTypes /\ BeatTypes
  BY SessionTypeParts DEF SessionInv
<1>2. VTypeOK'
  BY <1>1, SessionTypeParts DEF SessionRests, SessionTypes, BeatTypes, VTypeOK, QueueTypes,
     HardwareOfTurn
<1> QED
  BY <1>2 DEF SessionInv, SessionRests, OneLease, LeaseIsCleaned, ConnectsAfresh,
     ImageOwnsClient

LEMMA VoiceLaneKeeps ==
  ASSUME SessionInv, Press \/ VoiceLane \/ HandleResult
  PROVE  SessionInv'
<1>1. QueueTypes /\ HardwareOfTurn
  BY SessionTypeParts DEF SessionInv
<1> DEFINE Kept == SessionRests /\ QueueTypes' /\ HardwareOfTurn'
<1>f. ASSUME FailHardware
      PROVE  /\ task' \in [state: VoiceStates, begin: BOOLEAN, deferred: BOOLEAN]
             /\ turn' = FALSE /\ toNet' \in Seq({"Begin", "Cancel"}) /\ Len(toNet') <= NetDepth
  BY <1>1, <1>f, PostNetBounded DEF FailHardware, HardwareOfTurn, VoiceStates
<1>2. CASE Press
  <2>1. toVoice' \in Seq(Messages)
    BY <1>1, <1>2, VoiceQueueTyped DEF Press, Messages
  <2> QED
    BY <1>1, <1>2, <2>1, RestKeepsSession
       DEF Press, SessionRests, portalVars, voiceVars, QueueTypes, HardwareOfTurn
<1>3. CASE HandleResult
  <2>1. /\ toVoice' \in Seq(Messages) /\ toControl' \in Seq(BOOLEAN) /\ turn' \in BOOLEAN
    BY <1>1, <1>3, VoiceQueueTyped DEF HandleResult, Messages, VoiceStates, HardwareOfTurn
  <2> QED
    BY <1>1, <1>3, <2>1, RestKeepsSession
       DEF HandleResult, SessionRests, portalVars, voiceVars, QueueTypes, HardwareOfTurn
<1>4. CASE HandleButton
  <2>0. toVoice' \in Seq(Messages) /\ UNCHANGED toControl /\ SessionRests
    BY <1>1, <1>4, VoiceQueueTyped DEF HandleButton, SessionRests, portalVars
  <2>1. HardwareOfTurn' /\ toNet' \in Seq({"Begin", "Cancel"}) /\ Len(toNet') <= NetDepth
    <3>1. CASE BeginTurn
      BY <1>1, <3>1, PostNetBounded DEF BeginTurn, HardwareOfTurn, QueueTypes
    <3>2. CASE FinishRecording
      BY <1>1, <1>f, <3>2 DEF FinishRecording, HardwareOfTurn, QueueTypes, VoiceStates
    <3>3. CASE CancelTurn
      BY <1>1, <3>3, PostNetBounded, AbortedTyped DEF CancelTurn, HardwareOfTurn, QueueTypes
    <3>4. CASE Blocked
      BY <1>1, <3>4 DEF Blocked, voiceVars, HardwareOfTurn, QueueTypes
    <3> QED
      BY <1>4, <3>1, <3>2, <3>3, <3>4 DEF HandleButton
  <2> QED
    BY <1>1, <2>0, <2>1, RestKeepsSession DEF QueueTypes
<1>5. CASE HandleStart
  <2>0. toVoice' \in Seq(Messages) /\ UNCHANGED <<toControl, play>> /\ SessionRests
    BY <1>1, <1>5, VoiceQueueTyped DEF HandleStart, SessionRests, portalVars
  <2>1. HardwareOfTurn' /\ toNet' \in Seq({"Begin", "Cancel"}) /\ Len(toNet') <= NetDepth
    BY <1>1, <1>f, <1>5, <2>0 DEF HandleStart, HardwareOfTurn, QueueTypes
  <2> QED
    BY <1>1, <2>0, <2>1, RestKeepsSession DEF QueueTypes
<1>6. CASE HandleState
  <2>0. toVoice' \in Seq(Messages) /\ UNCHANGED <<toControl, toNet, turn>> /\ SessionRests
    BY <1>1, <1>6, VoiceQueueTyped DEF HandleState, SessionRests, portalVars
  <2>1. HardwareOfTurn'
    BY <1>1, <1>6, <2>0, AbortedTyped DEF HandleState, Reconcile, HardwareOfTurn
  <2> QED
    BY <1>1, <2>0, <2>1, RestKeepsSession DEF QueueTypes
<1>7. CASE ServicePlayback \/ ServiceCapture \/ ServiceDeferred
  <2>0. UNCHANGED <<toVoice, toControl>> /\ SessionRests
    BY <1>7 DEF ServicePlayback, ServiceCapture, ServiceDeferred, SessionRests, portalVars
  <2>1. HardwareOfTurn' /\ toNet' \in Seq({"Begin", "Cancel"}) /\ Len(toNet') <= NetDepth
    BY <1>1, <1>f, <1>7
       DEF ServicePlayback, ServiceCapture, ServiceDeferred, HardwareOfTurn, QueueTypes,
           VoiceStates
  <2> QED
    BY <1>1, <2>0, <2>1, RestKeepsSession DEF QueueTypes
<1> QED
  BY <1>2, <1>3, <1>4, <1>5, <1>6, <1>7 DEF VoiceLane

\* What a step leaves of the session is said of the client, the gateway and the
\* lane's flags; the queues and the hardware only have their types to keep.
SessionSound == OneLease /\ LeaseIsCleaned /\ ConnectsAfresh /\ ImageOwnsClient

LEMMA SessionInvParts ==
  SessionInv <=> /\ QueueTypes /\ HardwareOfTurn /\ SessionTypes /\ BeatTypes
                 /\ SessionSound
BY SessionTypeParts DEF SessionInv, SessionSound

LEMMA SessionInvNext ==
  ASSUME QueueTypes', HardwareOfTurn', SessionTypes', BeatTypes', SessionSound'
  PROVE  SessionInv'
BY DEF SessionInv, VTypeOK, QueueTypes, HardwareOfTurn, SessionTypes, BeatTypes, SessionSound

\* Each step that ends the session.
LEMMA EndsKeep ==
  ASSUME SessionInv,
         NetworkCancel \/ ApplyPrompt \/ TickOffline \/ TickCleanup \/ HandoffImage
  PROVE  SessionInv'
<1>1. QueueTypes /\ HardwareOfTurn /\ SessionTypes /\ BeatTypes /\ SessionSound
  BY SessionInvParts
<1>2. Disconnect /\ ~net.connecting
  BY DEF NetworkCancel, ApplyPrompt, TickOffline, TickCleanup, HandoffImage, Ticks, TickRuns,
         NetworkRuns
<1>3. /\ client' \in [voice: VoiceStates, socket: BOOLEAN, lease: Sessions \cup {Nothing},
                      tts: BOOLEAN]
      /\ client'.voice = "Idle" /\ ~client'.socket /\ client'.lease = Nothing
      /\ open' = {}
      /\ toVoice' \in Seq(Messages) /\ turn' \in BOOLEAN
      /\ play' \in {"idle", "open", "ended", "abort"}
  BY <1>1, <1>2, DisconnectEnds DEF SessionInv, SessionSound
<1>4. /\ net' \in [cleanup: BOOLEAN, online: BOOLEAN, connecting: BOOLEAN]
      /\ ~net'.connecting
      /\ UNCHANGED <<portal, heart, task, capture, toControl>>
  BY <1>1, <1>2
     DEF NetworkCancel, ApplyPrompt, TickOffline, TickCleanup, HandoffImage, portalVars,
         voiceVars, SessionTypes
<1>5. /\ image' = image \/ (image' = "exclusive" /\ heart.phase = "idle")
      /\ toNet' = toNet \/ (toNet # <<>> /\ toNet' = Tail(toNet))
  BY DEF NetworkCancel, ApplyPrompt, TickOffline, TickCleanup, HandoffImage, portalVars, Beating
<1>6. QueueTypes' /\ HardwareOfTurn'
  BY <1>1, <1>3, <1>4, <1>5, VoiceQueueTyped DEF QueueTypes, HardwareOfTurn
<1>7. SessionTypes' /\ BeatTypes'
  BY <1>1, <1>3, <1>4, <1>5 DEF SessionTypes, BeatTypes
<1>8. SessionSound'
  BY <1>1, <1>3, <1>4, <1>5
     DEF SessionSound, OneLease, LeaseIsCleaned, ConnectsAfresh, ImageOwnsClient
<1> QED
  BY <1>6, <1>7, <1>8, SessionInvNext

\* A client that keeps its lease, and its socket unless a clean-up is due.
Holds ==
  /\ client'.lease = client.lease /\ open' = open
  /\ client'.socket = client.socket \/ (~client'.socket /\ net'.cleanup)
  /\ net.cleanup => net'.cleanup
  /\ ~net.connecting /\ ~net'.connecting /\ image # "exclusive"
  /\ UNCHANGED <<image, heart, portal>>

LEMMA HoldsSound ==
  ASSUME SessionSound, Holds PROVE SessionSound'
BY DEF SessionSound, Holds, OneLease, LeaseIsCleaned, ConnectsAfresh, ImageOwnsClient

LEMMA HoldsKeeps ==
  ASSUME SessionInv, Holds, QueueTypes', HardwareOfTurn',
         client' \in [voice: VoiceStates, socket: BOOLEAN, lease: Sessions \cup {Nothing},
                      tts: BOOLEAN],
         net' \in [cleanup: BOOLEAN, online: BOOLEAN, connecting: BOOLEAN]
  PROVE  SessionInv'
<1>1. SessionTypes /\ BeatTypes /\ SessionSound
  BY SessionInvParts
<1>2. SessionTypes' /\ BeatTypes'
  BY <1>1 DEF SessionTypes, BeatTypes, Holds
<1> QED
  BY <1>1, <1>2, HoldsSound, SessionInvNext

\* A turn begins only over a socket.
LEMMA BeginKeeps ==
  ASSUME SessionInv, NetworkBegin PROVE SessionInv'
<1>1. QueueTypes /\ HardwareOfTurn /\ SessionTypes /\ BeatTypes /\ SessionSound
  BY SessionInvParts
<1>2. /\ toNet' \in Seq({"Begin", "Cancel"}) /\ Len(toNet') <= NetDepth
      /\ ~net.connecting /\ UNCHANGED <<open, heart, portal, image, task, capture>>
  BY <1>1, VoiceQueueTyped DEF NetworkBegin, NetworkRuns, portalVars, voiceVars
<1>3. CASE client.socket /\ client.voice = "Ready"
  <2>0. image # "exclusive"
    BY <1>1, <1>3 DEF SessionSound, ImageOwnsClient
  <2>1. CASE SetVoice(client, "Listening") /\ toControl' = Append(toControl, TRUE)
             /\ UNCHANGED <<play, net>>
    <3>1. /\ client' \in [voice: VoiceStates, socket: BOOLEAN, lease: Sessions \cup {Nothing},
                          tts: BOOLEAN]
          /\ client'.lease = client.lease /\ client'.socket = client.socket
          /\ toVoice' \in Seq(Messages) /\ turn' \in BOOLEAN
      BY <2>1, SaysKeeps DEF Says, VoiceStates, SessionInv
    <3>2. QueueTypes' /\ HardwareOfTurn'
      BY <1>1, <1>2, <2>1, <3>1, VoiceQueueTyped DEF QueueTypes, HardwareOfTurn
    <3>3. Holds
      BY <1>2, <2>0, <2>1, <3>1 DEF Holds
    <3> QED
      BY <1>1, <2>1, <3>1, <3>2, <3>3, HoldsKeeps DEF SessionTypes
  <2>2. CASE SocketLost /\ toControl' = Append(toControl, FALSE)
    <3>1. QueueTypes' /\ HardwareOfTurn'
      BY <1>1, <1>2, <2>2, SocketLostKeeps, VoiceQueueTyped
         DEF QueueTypes, HardwareOfTurn, SessionInv
    <3>2. Holds
      BY <1>2, <2>0, <2>2, SocketLostKeeps DEF Holds, SessionInv
    <3> QED
      BY <2>2, <3>1, <3>2, HoldsKeeps, SocketLostKeeps DEF SessionInv
  <2> QED
    BY <1>3, <2>1, <2>2 DEF NetworkBegin
<1>4. CASE ~(client.socket /\ client.voice = "Ready")
  <2>1. SessionRests /\ toControl' = Append(toControl, FALSE) /\ UNCHANGED <<turn, play, toVoice>>
    BY <1>2, <1>4 DEF NetworkBegin, SessionRests
  <2>2. QueueTypes' /\ HardwareOfTurn'
    BY <1>1, <1>2, <2>1, VoiceQueueTyped DEF QueueTypes, HardwareOfTurn
  <2> QED
    BY <2>1, <2>2, RestKeepsSession
<1> QED
  BY <1>3, <1>4

\* Commands that expire, a station that comes up, an image request.
LEMMA QuietKeeps ==
  ASSUME SessionInv, NetworkExpires \/ TickOnline \/ RequestImage PROVE SessionInv'
<1>1. QueueTypes /\ HardwareOfTurn /\ SessionTypes /\ BeatTypes /\ SessionSound
  BY SessionInvParts
<1>2. CASE NetworkExpires
  <2>1. QueueTypes' /\ HardwareOfTurn' /\ SessionRests
    BY <1>1, <1>2, VoiceQueueTyped
       DEF NetworkExpires, QueueTypes, HardwareOfTurn, SessionRests, portalVars, voiceVars
  <2> QED
    BY <2>1, RestKeepsSession
<1>3. CASE TickOnline \/ RequestImage
  <2>1. /\ net' \in [cleanup: BOOLEAN, online: BOOLEAN, connecting: BOOLEAN]
        /\ net'.cleanup = net.cleanup /\ net'.connecting = net.connecting /\ ~net.connecting
        /\ image' = image \/ image' = "pending"
        /\ UNCHANGED <<client, open, heart, portal, task, turn, capture, play, toVoice, toNet,
                       toControl>>
    BY <1>1, <1>3 DEF TickOnline, RequestImage, TickRuns, NetworkRuns, portalVars, voiceVars,
       SessionTypes
  <2>2. QueueTypes' /\ HardwareOfTurn' /\ SessionTypes' /\ BeatTypes'
    BY <1>1, <2>1 DEF QueueTypes, HardwareOfTurn, SessionTypes, BeatTypes
  <2>3. SessionSound'
    BY <1>1, <2>1 DEF SessionSound, OneLease, LeaseIsCleaned, ConnectsAfresh, ImageOwnsClient
  <2> QED
    BY <2>2, <2>3, SessionInvNext
<1> QED
  BY <1>2, <1>3

\* A connection starts without a lease, and its answer brings the only one.
LEMMA ConnectKeeps ==
  ASSUME SessionInv, Connect \/ Connected PROVE SessionInv'
<1>1. QueueTypes /\ HardwareOfTurn /\ SessionTypes /\ BeatTypes /\ SessionSound
  BY SessionInvParts
<1>2. CASE Connect
  <2>1. /\ client' \in [voice: VoiceStates, socket: BOOLEAN, lease: Sessions \cup {Nothing},
                        tts: BOOLEAN]
        /\ client'.lease = client.lease /\ client'.socket = client.socket
        /\ toVoice' \in Seq(Messages) /\ turn' \in BOOLEAN
    BY <1>2, SaysKeeps DEF Connect, Says, VoiceStates, SessionInv
  <2>2. /\ net' \in [cleanup: BOOLEAN, online: BOOLEAN, connecting: BOOLEAN]
        /\ net'.cleanup = net.cleanup /\ ~net.cleanup /\ ~client.socket /\ image # "exclusive"
        /\ UNCHANGED <<open, heart, portal, image, task, capture, play, toNet, toControl>>
    BY <1>1, <1>2 DEF Connect, Ticks, TickRuns, portalVars, voiceVars, SessionTypes
  <2>3. QueueTypes' /\ HardwareOfTurn' /\ SessionTypes' /\ BeatTypes'
    BY <1>1, <2>1, <2>2 DEF QueueTypes, HardwareOfTurn, SessionTypes, BeatTypes
  <2>4. SessionSound'
    BY <1>1, <2>1, <2>2 DEF SessionSound, OneLease, LeaseIsCleaned, ConnectsAfresh,
       ImageOwnsClient
  <2> QED
    BY <2>3, <2>4, SessionInvNext
<1>3. CASE Connected
  <2>1. /\ ~client.socket /\ ~net.cleanup /\ image # "exclusive" /\ client.lease = Nothing
        /\ open = {}
    BY <1>1, <1>3 DEF Connected, SessionSound, ConnectsAfresh, LeaseIsCleaned, OneLease
  <2>2. UNCHANGED <<heart, portal, image, task, capture, play, toNet, toControl>>
    BY <1>3 DEF Connected, portalVars, voiceVars
  <2>3. CASE SetVoice(client, "Error") /\ UNCHANGED open
             /\ net' = [net EXCEPT !.connecting = FALSE, !.cleanup = TRUE]
    <3>1. /\ client' \in [voice: VoiceStates, socket: BOOLEAN, lease: Sessions \cup {Nothing},
                          tts: BOOLEAN]
          /\ client'.lease = client.lease /\ client'.socket = client.socket
          /\ toVoice' \in Seq(Messages) /\ turn' \in BOOLEAN
      BY <2>3, SaysKeeps DEF Says, VoiceStates, SessionInv
    <3>2. QueueTypes' /\ HardwareOfTurn' /\ SessionTypes' /\ BeatTypes'
      <4>1. QueueTypes' /\ HardwareOfTurn'
        BY <1>1, <2>2, <3>1 DEF QueueTypes, HardwareOfTurn
      <4>2. SessionTypes' /\ BeatTypes'
        BY <1>1, <2>2, <2>3, <3>1 DEF SessionTypes, BeatTypes
      <4> QED
        BY <4>1, <4>2
    <3>3. SessionSound'
      BY <1>1, <2>1, <2>2, <2>3, <3>1 DEF SessionTypes, SessionSound, OneLease, LeaseIsCleaned,
         ConnectsAfresh, ImageOwnsClient
    <3> QED
      BY <3>2, <3>3, SessionInvNext
  <2>4. ASSUME NEW s \in Fresh, open' = open \cup {s},
               \/ /\ client' = [client EXCEPT !.socket = TRUE, !.lease = s]
                  /\ net' = [net EXCEPT !.connecting = FALSE]
                  /\ UNCHANGED <<turn, toVoice>>
               \/ /\ SetVoice([client EXCEPT !.lease = s], "Error")
                  /\ net' = [net EXCEPT !.connecting = FALSE, !.cleanup = TRUE]
        PROVE  SessionInv'
    <3>0. s \in Sessions
      BY <2>4 DEF Fresh
    <3>1. /\ client' \in [voice: VoiceStates, socket: BOOLEAN, lease: Sessions \cup {Nothing},
                          tts: BOOLEAN]
          /\ client'.lease = s /\ (client'.socket \/ net'.cleanup)
          /\ net' \in [cleanup: BOOLEAN, online: BOOLEAN, connecting: BOOLEAN]
          /\ ~net'.connecting
          /\ toVoice' \in Seq(Messages) /\ turn' \in BOOLEAN
      <4>1. CASE SetVoice([client EXCEPT !.lease = s], "Error")
                 /\ net' = [net EXCEPT !.connecting = FALSE, !.cleanup = TRUE]
        <5>1. /\ toVoice' \in Seq(Messages) /\ turn' \in BOOLEAN
              /\ client' = [[client EXCEPT !.lease = s] EXCEPT !.voice = "Error"]
          BY <1>1, <4>1, SetVoiceTyped DEF VoiceStates
        <5> QED
          BY <1>1, <3>0, <4>1, <5>1 DEF SessionTypes, VoiceStates
      <4>2. CASE /\ client' = [client EXCEPT !.socket = TRUE, !.lease = s]
                 /\ net' = [net EXCEPT !.connecting = FALSE]
                 /\ UNCHANGED <<turn, toVoice>>
        BY <1>1, <3>0, <4>2 DEF SessionTypes, QueueTypes, HardwareOfTurn
      <4> QED
        BY <2>4, <4>1, <4>2
    <3>2. QueueTypes' /\ HardwareOfTurn' /\ SessionTypes' /\ BeatTypes'
      BY <1>1, <2>1, <2>2, <2>4, <3>0, <3>1
         DEF QueueTypes, HardwareOfTurn, SessionTypes, BeatTypes
    <3>3. SessionSound'
      BY <2>1, <2>2, <2>4, <3>0, <3>1, SessionBounds DEF SessionSound, OneLease,
         LeaseIsCleaned, ConnectsAfresh, ImageOwnsClient
    <3> QED
      BY <3>2, <3>3, SessionInvNext
  <2> QED
    BY <1>3, <2>3, <2>4 DEF Connected
<1> QED
  BY <1>2, <1>3

\* What the gateway says, and what the recording sends.
LEMMA IngressKeeps ==
  ASSUME SessionInv, Gateway \/ PumpCapture PROVE SessionInv'
<1>1. QueueTypes /\ HardwareOfTurn /\ SessionTypes /\ BeatTypes /\ SessionSound
  BY SessionInvParts
<1> DEFINE
  Said == /\ client' \in [voice: VoiceStates, socket: BOOLEAN, lease: Sessions \cup {Nothing},
                          tts: BOOLEAN]
          /\ client'.lease = client.lease
          /\ client'.socket = client.socket \/ (~client'.socket /\ net'.cleanup)
          /\ toVoice' \in Seq(Messages) /\ turn' \in BOOLEAN
          /\ play' \in {"idle", "open", "ended", "abort"}
          /\ net' \in [cleanup: BOOLEAN, online: BOOLEAN, connecting: BOOLEAN]
          /\ net.cleanup => net'.cleanup
          /\ net'.connecting = net.connecting
<1>2. Ingress /\ ~net.connecting /\ image # "exclusive"
  BY DEF Gateway, PumpCapture, Ingress, Hears, SessionReady, Transcript, SpeechStarts,
         SpeechStops, ResponseDone, SpeechFails, ProviderError, SocketCloses, Ticks, TickRuns,
         NetworkRuns
<1>3. /\ UNCHANGED <<open, heart, portal, image, task, toNet, toControl>>
      /\ capture' \in {"idle", "open", "draining"}
  BY <1>1 DEF Gateway, PumpCapture, portalVars, voiceVars, HardwareOfTurn
<1>4. ASSUME SocketLost PROVE Said
  BY <1>4, SocketLostKeeps DEF SessionInv
<1>5. ASSUME NEW v \in VoiceStates, NEW c, Says(c, v), SetVoice(c, v),
             net' = net \/ net' = [net EXCEPT !.cleanup = TRUE],
             play' \in {"idle", "open", "ended", "abort"}
      PROVE  Said
  BY <1>1, <1>5, SaysKeeps DEF SessionInv, SessionTypes
<1>6. play \in {"idle", "open", "ended", "abort"} /\ Aborted \in {"idle", "open", "ended", "abort"}
  BY <1>1, AbortedTyped DEF HardwareOfTurn
<1>7. Said
  <2>1. CASE SocketLost
    BY <1>4, <2>1
  <2>2. CASE SessionReady \/ Transcript \/ ResponseDone
    <3>1. ASSUME NEW v \in {"Ready", "Thinking"},
                 SetVoice(client, v) \/ SetVoice([client EXCEPT !.tts = FALSE], v),
                 UNCHANGED <<net, play>>
          PROVE  Said
      BY <1>5, <1>6, <3>1 DEF Says, VoiceStates
    <3> QED
      BY <2>1, <2>2, <3>1 DEF SessionReady, Transcript, ResponseDone, Hears
  <2>3. CASE SpeechStarts
    BY <1>5, <1>6, <2>3 DEF SpeechStarts, Says, VoiceStates
  <2>4. CASE SpeechStops
    BY <1>1, <2>4 DEF SpeechStops, SessionTypes, QueueTypes, HardwareOfTurn
  <2>5. CASE SpeechFails \/ ProviderError
    BY <1>5, <1>6, <2>5 DEF SpeechFails, ProviderError, SessionError, Says, VoiceStates
  <2>6. CASE PumpCapture
    <3>1. CASE SetVoice(client, "Thinking") /\ UNCHANGED <<net, play>>
      BY <1>5, <1>6, <3>1 DEF Says, VoiceStates
    <3>2. CASE net' = [net EXCEPT !.cleanup = TRUE] /\ UNCHANGED <<client, turn, toVoice, play>>
      BY <1>1, <3>2 DEF SessionTypes, QueueTypes, HardwareOfTurn
    <3> QED
      BY <2>1, <2>6, <3>1, <3>2 DEF PumpCapture
  <2> QED
    BY <2>1, <2>2, <2>3, <2>4, <2>5, <2>6 DEF Gateway, SocketCloses
<1>8. Holds
  BY <1>2, <1>3, <1>7 DEF Holds
<1>9. QueueTypes' /\ HardwareOfTurn'
  BY <1>1, <1>3, <1>7 DEF QueueTypes, HardwareOfTurn
<1> QED
  BY <1>7, <1>8, <1>9, HoldsKeeps

\* The heartbeat and the Portal lane.
LEMMA BeatKeeps ==
  ASSUME SessionInv, ScheduleBeat \/ ConsumeBeat \/ BeatWatchdog \/ PortalLane
  PROVE  SessionInv'
<1>1. QueueTypes /\ HardwareOfTurn /\ SessionTypes /\ BeatTypes /\ SessionSound
  BY SessionInvParts
<1>2. /\ UNCHANGED <<client, open, task, turn, capture, play, toVoice, toNet, toControl>>
      /\ QueueTypes' /\ HardwareOfTurn'
  BY <1>1 DEF ScheduleBeat, ConsumeBeat, BeatWatchdog, PortalLane, PortalTakesBeat,
     PortalEndsBeat, FinishImage, voiceVars, QueueTypes, HardwareOfTurn
<1>3. CASE ScheduleBeat
  <2>1. heart' \in [phase: {"idle", "queued", "running", "complete"},
                    beat: Beats \cup {Nothing}, session: Sessions \cup {Nothing}]
        /\ portal' \in [asked: SUBSET Beats, beat: Beats \cup {Nothing},
                        session: Sessions \cup {Nothing}]
    BY <1>1, <1>3 DEF ScheduleBeat, BeatTypes, SessionTypes
  <2>2. UNCHANGED <<net, image>> /\ image # "exclusive"
    BY <1>3 DEF ScheduleBeat, Ticks, TickRuns
  <2>3. SessionTypes' /\ BeatTypes' /\ SessionSound'
    BY <1>1, <1>2, <2>1, <2>2 DEF SessionTypes, BeatTypes, SessionSound, OneLease,
       LeaseIsCleaned, ConnectsAfresh, ImageOwnsClient
  <2> QED
    BY <1>2, <2>3, SessionInvNext
<1>4. CASE ConsumeBeat \/ BeatWatchdog
  <2>1. /\ heart' = NoBeat /\ ~net.connecting /\ UNCHANGED <<portal, image>>
        /\ net' = net \/ net' = [net EXCEPT !.cleanup = TRUE]
    BY <1>4 DEF ConsumeBeat, BeatWatchdog, TickRuns, NetworkRuns
  <2>2. SessionTypes' /\ BeatTypes'
    BY <1>1, <1>2, <2>1 DEF SessionTypes, BeatTypes, NoBeat
  <2>3. SessionSound'
    BY <1>1, <1>2, <2>1 DEF SessionTypes, SessionSound, OneLease, LeaseIsCleaned,
       ConnectsAfresh, ImageOwnsClient, NoBeat
  <2> QED
    BY <1>2, <2>2, <2>3, SessionInvNext
<1>5. CASE PortalLane
  <2>1. /\ UNCHANGED net
        /\ image' = image \/ image' = "idle"
        /\ heart.phase = "idle" => heart'.phase = "idle"
    BY <1>5 DEF PortalLane, PortalTakesBeat, PortalEndsBeat, FinishImage
  <2>2. BeatTypes'
    <3>1. CASE PortalTakesBeat
      BY <1>1, <3>1 DEF PortalTakesBeat, BeatTypes
    <3>2. CASE PortalEndsBeat
      BY <1>1, <3>2 DEF PortalEndsBeat, BeatTypes
    <3>3. CASE FinishImage
      BY <1>1, <3>3 DEF FinishImage, BeatTypes
    <3> QED
      BY <1>5, <3>1, <3>2, <3>3 DEF PortalLane
  <2>3. SessionTypes' /\ SessionSound'
    BY <1>1, <1>2, <2>1 DEF SessionTypes, SessionSound, OneLease,
       LeaseIsCleaned, ConnectsAfresh, ImageOwnsClient
  <2> QED
    BY <1>2, <2>2, <2>3, SessionInvNext
<1> QED
  BY <1>3, <1>4, <1>5

\* The inductive invariant of the conversation: a lease without a socket is due
\* to be given back, and a new session is asked for only when there is none.
THEOREM SessionInductive == VSpec => []SessionInv
<1>1. VInit => SessionInv
  <2>1. ASSUME VInit PROVE QueueTypes /\ HardwareOfTurn /\ SessionTypes /\ BeatTypes
    <3>1. QueueTypes
      BY <2>1, SessionBounds DEF VInit, QueueTypes
    <3>2. HardwareOfTurn /\ SessionTypes
      BY <2>1 DEF VInit, HardwareOfTurn, SessionTypes, VoiceStates
    <3>3. BeatTypes
      BY <2>1 DEF VInit, BeatTypes, NoBeat
    <3> QED
      BY <3>1, <3>2, <3>3
  <2>2. ASSUME VInit PROVE SessionSound
    BY <2>2 DEF VInit, SessionSound, OneLease, LeaseIsCleaned, ConnectsAfresh, ImageOwnsClient
  <2> QED
    BY <2>1, <2>2, SessionInvParts
<1>2. ASSUME SessionInv, [VNext]_vvars PROVE SessionInv'
  <2>1. CASE UNCHANGED vvars
    BY <1>2, <2>1 DEF vvars, voiceVars, portalVars, SessionInv, VTypeOK, OneLease, LeaseIsCleaned,
       ConnectsAfresh, ImageOwnsClient
  <2>2. CASE NetworkLane
    BY <1>2, <2>2, BeginKeeps, EndsKeep, QuietKeeps, ConnectKeeps, IngressKeeps, BeatKeeps
       DEF NetworkLane
  <2> QED
    BY <1>2, <2>1, <2>2, VoiceLaneKeeps, BeatKeeps DEF VNext
<1> QED
  BY <1>1, <1>2, PTL DEF VSpec

\* Every variable of the conversation keeps its type.
THEOREM SessionTypeCorrect == VSpec => []VTypeOK
BY SessionInductive, PTL DEF SessionInv

\* The one session the gateway has open is the one the client holds the lease of,
\* whatever ended the one before and whichever requests failed.
THEOREM OneLeaseHolds == VSpec => []OneLease
BY SessionInductive, PTL DEF SessionInv

\* While an image is generated the Portal lane is alone with the client.
THEOREM ImageOwnsClientHolds == VSpec => []ImageOwnsClient
BY SessionInductive, PTL DEF SessionInv
=============================================================================
