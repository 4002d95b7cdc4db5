------------------------------ MODULE VoiceSession -----------------------------
(***************************************************************************)
(* One realtime voice conversation at a time, held by four lanes: the      *)
(* button and the audio hardware are the Voice lane's, the gateway session *)
(* and its socket the Network lane's, the heartbeat and an image request   *)
(* the Portal lane's, and Control turns the result of a command into the   *)
(* next one.  They meet in the lanes' queues, in the heartbeat mailbox, in *)
(* the audio bridge and in a few flags under a critical section.           *)
(*                                                                         *)
(* A deadline that may have passed is a choice: a queued Begin or Cancel   *)
(* is handled or expires.  The Voice lane's messages are taken to be       *)
(* delivered: Network posts only while at most Backlog of them wait.       *)
(***************************************************************************)
EXTENDS Naturals, Sequences, FiniteSets

CONSTANTS
  Sessions,  \* identities of gateway sessions, reused once forgotten
  Beats,     \* identities of heartbeats, reused once forgotten
  Nothing,   \* no session, no heartbeat
  NetDepth,  \* places in the Network queue
  Backlog    \* messages the Voice lane may be behind by

ASSUME SessionBounds ==
  /\ Nothing \notin Sessions \cup Beats
  /\ NetDepth \in Nat \ {0} /\ Backlog \in Nat \ {0}

VARIABLES
  client,    \* voiceState_, voiceSocketOpen_, voiceLease_, voiceTtsCompletionPending_
  open,      \* sessions started at the gateway and not given back
  net,       \* reconnect_cleanup_pending_, wifi_was_online_, inside connectVoice()
  heart,     \* the heartbeat mailbox: phase, heartbeat, session
  portal,    \* the Portal lane: heartbeats queued, and the one it runs
  image,     \* "idle", "pending" or "exclusive"
  task,      \* voice_task_state_, voice_begin_pending_, ready_deferred_for_audio_
  turn,      \* voice_turn_active_
  capture,   \* the bridge's capture: "idle", "open", "draining"
  play,      \* its playback: "idle", "open", "ended", "abort"
  toVoice, toNet, toControl  \* the queues

voiceVars == <<task, capture>>
portalVars == <<heart, portal, image>>
vvars == <<client, open, net, heart, portal, image, task, turn, capture, play,
           toVoice, toNet, toControl>>

VoiceStates == {"Idle", "Connecting", "Ready", "Listening", "Thinking",
                "Speaking", "Error"}
Live == {"Listening", "Thinking", "Speaking"}
Messages == VoiceStates \cup {"Button", "Start"}

NoBeat == [phase |-> "idle", beat |-> Nothing, session |-> Nothing]

VInit ==
  /\ client = [voice |-> "Idle", socket |-> FALSE, lease |-> Nothing, tts |-> FALSE]
  /\ open = {}
  /\ net = [cleanup |-> FALSE, online |-> FALSE, connecting |-> FALSE]
  /\ heart = NoBeat
  /\ portal = [asked |-> {}, beat |-> Nothing, session |-> Nothing]
  /\ image = "idle"
  /\ task = [state |-> "Idle", begin |-> FALSE, deferred |-> FALSE]
  /\ turn = FALSE /\ capture = "idle" /\ play = "idle"
  /\ toVoice = <<>> /\ toNet = <<>> /\ toControl = <<>>

-----------------------------------------------------------------------------
\* post() to the Network lane: admitted, or refused by a queue that may be
\* full of other work.
PostNet(q, command) ==
  {q} \cup (IF Len(q) < NetDepth THEN {Append(q, command)} ELSE {})

\* setVoice() and onVoiceState(): the Voice lane is told, the turn is noted.
SetVoice(c, v) ==
  /\ client' = [c EXCEPT !.voice = v]
  /\ toVoice' = Append(toVoice, v)
  /\ turn' = IF v = "Connecting" THEN turn ELSE v \in Live

\* abort() of the bridge: playback, if any, is the Voice lane's to end.
Aborted == IF play = "idle" THEN "idle" ELSE "abort"

\* disconnectVoice(): the session is given back whatever the answer.
Disconnect ==
  /\ SetVoice([client EXCEPT !.socket = FALSE, !.lease = Nothing, !.tts = FALSE], "Idle")
  /\ open' = open \ {client.lease}
  /\ play' = Aborted

\* Mutant: a socket that closes schedules no clean-up of its session.
SocketLostUnclean ==
  /\ SetVoice([client EXCEPT !.socket = FALSE, !.tts = FALSE], "Error")
  /\ play' = Aborted
  /\ UNCHANGED net

\* The socket is gone: onWebSocketClosed(), and scheduleReconnect().
SocketLost ==
  /\ SetVoice([client EXCEPT !.socket = FALSE, !.tts = FALSE], "Error")
  /\ play' = Aborted
  /\ net' = [net EXCEPT !.cleanup = TRUE]

\* An error the session survives until the reconnect's clean-up.
SessionError(c) ==
  SetVoice(c, "Error") /\ net' = [net EXCEPT !.cleanup = TRUE]

\* The Network lane is free, the Voice lane not too far behind, and the result
\* of the last command handled by Control, the lane of the highest priority.
NetworkRuns == ~net.connecting /\ Len(toVoice) < Backlog /\ toControl = <<>>

\* networkTick() past its early returns; Ticks also past wifi_was_online_.
TickRuns == NetworkRuns /\ image # "exclusive"
Ticks == TickRuns /\ net.online

Beating == heart.phase # "idle"

-----------------------------------------------------------------------------
\* The button, which waits for its last press to be taken.
Press ==
  /\ "Button" \notin {toVoice[i] : i \in DOMAIN toVoice}
  /\ toVoice' = Append(toVoice, "Button")
  /\ UNCHANGED <<client, open, net, portalVars, voiceVars, turn, play, toNet, toControl>>

\* handleTopButton() of a Ready voice: a turn is asked of the Network lane.
BeginTurn ==
  /\ task.state = "Ready" /\ ~task.begin /\ play = "idle" /\ capture = "idle"
  /\ toNet' \in PostNet(toNet, "Begin")
  /\ task' = [task EXCEPT !.begin = (toNet' # toNet)]
  /\ turn' = (toNet' # toNet)
  /\ UNCHANGED <<capture, play>>

\* failVoiceHardware(): the turn is over and the session is to be cancelled.
FailHardware ==
  /\ task' = [task EXCEPT !.state = "Error", !.begin = FALSE]
  /\ turn' = FALSE
  /\ toNet' \in PostNet(toNet, "Cancel")

\* handleTopButton() of a voice that listens: the recording is finished.
FinishRecording ==
  /\ task.state = "Listening" /\ ~task.begin /\ capture # "idle"
  /\ \/ /\ capture = "open" /\ capture' = "draining"
        /\ task' = [task EXCEPT !.state = "Thinking"]
        /\ UNCHANGED <<turn, toNet>>
     \/ FailHardware /\ UNCHANGED capture
  /\ UNCHANGED play

\* handleTopButton() of a turn under way: it is cancelled.
CancelTurn ==
  /\ task.begin \/ task.state \in Live
  /\ ~(task.state = "Listening" /\ ~task.begin /\ capture # "idle")
  /\ task' = [task EXCEPT !.begin = FALSE]
  /\ capture' = "idle" /\ play' = Aborted
  /\ toNet' \in PostNet(toNet, "Cancel")
  /\ UNCHANGED turn

\* handleTopButton() of a voice that can do nothing: the LED says so.
Blocked ==
  /\ ~task.begin /\ task.state \notin Live
  /\ ~(task.state = "Ready" /\ play = "idle" /\ capture = "idle")
  /\ UNCHANGED <<voiceVars, turn, play, toNet>>

HandleButton ==
  /\ toVoice # <<>> /\ Head(toVoice) = "Button"
  /\ toVoice' = Tail(toVoice)
  /\ BeginTurn \/ FinishRecording \/ CancelTurn \/ Blocked
  /\ UNCHANGED <<client, open, net, portalVars, toControl>>

\* startCapture(): only for a voice that listens.
HandleStart ==
  /\ toVoice # <<>> /\ Head(toVoice) = "Start"
  /\ toVoice' = Tail(toVoice)
  /\ IF task.state = "Listening" /\ capture = "idle" /\ play = "idle"
       THEN \/ /\ capture' = "open" /\ task' = [task EXCEPT !.begin = FALSE]
               /\ UNCHANGED <<turn, toNet>>
            \/ FailHardware /\ UNCHANGED capture
       ELSE /\ task' = [task EXCEPT !.begin = FALSE]
            /\ UNCHANGED <<capture, turn, toNet>>
  /\ UNCHANGED <<client, open, net, portalVars, play, toControl>>

\* Mutant: an ended session leaves the recording.
ReconcileRecording(v) ==
  /\ task' = [task EXCEPT !.state = v,
                          !.begin = @ /\ v \notin {"Idle", "Error"},
                          !.deferred = @ /\ v # "Ready"]
  /\ play' = (IF v \in {"Idle", "Error"} THEN Aborted ELSE play)
  /\ UNCHANGED capture

\* reconcileVoiceState(): the button's view follows the session; an end of the
\* session, and nothing else, ends what the audio hardware does.
Reconcile(v) ==
  /\ task' = [task EXCEPT !.state = v,
                          !.begin = @ /\ v \notin {"Idle", "Error"},
                          !.deferred = @ /\ v # "Ready"]
  /\ IF v \in {"Idle", "Error"} THEN capture' = "idle" /\ play' = Aborted
                                ELSE UNCHANGED <<capture, play>>

HandleState ==
  /\ toVoice # <<>> /\ Head(toVoice) \in VoiceStates
  /\ toVoice' = Tail(toVoice)
  /\ IF Head(toVoice) = "Ready" /\ play # "idle"
       THEN task' = [task EXCEPT !.deferred = TRUE] /\ UNCHANGED <<capture, play>>
       ELSE Reconcile(Head(toVoice))
  /\ UNCHANGED <<client, open, net, portalVars, turn, toNet, toControl>>

\* serviceVoice(): playback ends by itself or fails; a failure of the capture
\* needs a recording.  readCapture() refuses a microphone already stopped, so
\* the step of a recording that drains always fails.
ServicePlayback ==
  /\ play # "idle"
  /\ \/ /\ play \in {"ended", "abort"} /\ play' = "idle"
        /\ UNCHANGED <<task, turn, toNet>>
     \/ play' = "abort" /\ FailHardware
  /\ UNCHANGED <<client, open, net, portalVars, capture, toVoice, toControl>>

ServiceCapture ==
  /\ capture # "idle"
  /\ FailHardware
  /\ UNCHANGED <<client, open, net, portalVars, capture, play, toVoice, toControl>>

ServiceDeferred ==
  /\ task.deferred /\ play = "idle"
  /\ task' = [task EXCEPT !.state = "Ready", !.deferred = FALSE]
  /\ UNCHANGED <<client, open, net, portalVars, turn, capture, play, toVoice,
                 toNet, toControl>>

-----------------------------------------------------------------------------
\* Mutant: a turn that could not begin stays noted, or is not told of.
HandleResultNoted ==
  /\ toControl # <<>>
  /\ toVoice' = Append(toVoice, IF Head(toControl) THEN "Start" ELSE "Error")
  /\ toControl' = Tail(toControl)
  /\ UNCHANGED <<client, open, net, portalVars, voiceVars, turn, play, toNet>>

HandleResultSilent ==
  /\ toControl # <<>>
  /\ toVoice' = IF Head(toControl) THEN Append(toVoice, "Start") ELSE toVoice
  /\ turn' = (turn /\ Head(toControl))
  /\ toControl' = Tail(toControl)
  /\ UNCHANGED <<client, open, net, portalVars, voiceVars, play, toNet>>

\* handleControlResult() of a Begin: the recording starts, or the turn is over.
HandleResult ==
  /\ toControl # <<>>
  /\ toVoice' = Append(toVoice, IF Head(toControl) THEN "Start" ELSE "Error")
  /\ turn' = (turn /\ Head(toControl))
  /\ toControl' = Tail(toControl)
  /\ UNCHANGED <<client, open, net, portalVars, voiceVars, play, toNet>>

\* beginVoiceTurn() on the Network lane; the socket may fail under it.
NetworkBegin ==
  /\ NetworkRuns /\ toNet # <<>> /\ Head(toNet) = "Begin"
  /\ toNet' = Tail(toNet)
  /\ IF client.socket /\ client.voice = "Ready"
       THEN \/ /\ SetVoice(client, "Listening")
               /\ toControl' = Append(toControl, TRUE)
               /\ UNCHANGED <<play, net>>
            \/ SocketLost /\ toControl' = Append(toControl, FALSE)
       ELSE /\ toControl' = Append(toControl, FALSE)
            /\ UNCHANGED <<client, net, turn, play, toVoice>>
  /\ UNCHANGED <<open, portalVars, voiceVars>>

\* NetworkVoiceCancel.
NetworkCancel ==
  /\ NetworkRuns /\ toNet # <<>> /\ Head(toNet) = "Cancel"
  /\ toNet' = Tail(toNet)
  /\ Disconnect
  /\ net' = [net EXCEPT !.cleanup = FALSE]
  /\ UNCHANGED <<portalVars, voiceVars, toControl>>

\* A command whose second has passed is answered Expired and not handled.
NetworkExpires ==
  /\ ~net.connecting /\ toNet # <<>> /\ toControl = <<>>
  /\ toNet' = Tail(toNet)
  /\ toControl' = IF Head(toNet) = "Begin" THEN Append(toControl, FALSE) ELSE toControl
  /\ UNCHANGED <<client, open, net, portalVars, voiceVars, turn, play, toVoice>>

\* applyPendingSystemPrompt(): a new prompt needs a new session.
ApplyPrompt ==
  /\ Ticks /\ client.lease # Nothing
  /\ Disconnect
  /\ UNCHANGED <<net, portalVars, voiceVars, toNet, toControl>>

\* networkTick() with the station up, and with it down.
TickOnline ==
  /\ TickRuns /\ ~net.online
  /\ net' = [net EXCEPT !.online = TRUE]
  /\ UNCHANGED <<client, open, portalVars, voiceVars, turn, play, toVoice, toNet, toControl>>

TickOffline ==
  /\ TickRuns /\ net.online
  /\ Disconnect
  /\ net' = [net EXCEPT !.cleanup = FALSE, !.online = FALSE]
  /\ UNCHANGED <<portalVars, voiceVars, toNet, toControl>>

\* The reconnect's clean-up, which waits for a heartbeat under way.
TickCleanup ==
  /\ Ticks /\ net.cleanup /\ ~Beating
  /\ Disconnect
  /\ net' = [net EXCEPT !.cleanup = FALSE]
  /\ UNCHANGED <<portalVars, voiceVars, toNet, toControl>>

\* connectVoice(): its requests leave the lane waiting.
Connect ==
  /\ Ticks /\ ~net.cleanup /\ ~client.socket
  /\ SetVoice(client, "Connecting")
  /\ net' = [net EXCEPT !.connecting = TRUE]
  /\ UNCHANGED <<open, portalVars, voiceVars, play, toNet, toControl>>

\* Sessions nobody holds any more.
Fresh == Sessions \ ({client.lease, heart.session, portal.session} \cup open)

\* The answer: no session, or none whose socket opens, which is given back; an
\* open socket; or one that its first message closes.
Connected ==
  /\ net.connecting /\ Len(toVoice) < Backlog
  /\ \/ /\ SetVoice(client, "Error")
        /\ net' = [net EXCEPT !.connecting = FALSE, !.cleanup = TRUE]
        /\ UNCHANGED open
     \/ \E s \in Fresh :
          /\ open' = open \cup {s}
          /\ \/ /\ client' = [client EXCEPT !.socket = TRUE, !.lease = s]
                /\ net' = [net EXCEPT !.connecting = FALSE]
                /\ UNCHANGED <<turn, toVoice>>
             \/ /\ SetVoice([client EXCEPT !.lease = s], "Error")
                /\ net' = [net EXCEPT !.connecting = FALSE, !.cleanup = TRUE]
  /\ UNCHANGED <<portalVars, voiceVars, play, toNet, toControl>>

-----------------------------------------------------------------------------
\* pollIngress(): what the gateway says, one message at a time.
Ingress == Ticks /\ ~net.cleanup /\ client.socket

Hears(v, from) == client.voice \in from /\ SetVoice(client, v) /\ UNCHANGED <<net, play>>

\* session.ready
SessionReady == Ingress /\ Hears("Ready", {"Connecting"})

\* asr.final: the words are a local command, or the response is asked for.
Transcript ==
  /\ Ingress
  /\ \/ Hears("Ready", {"Thinking"}) \/ Hears("Thinking", {"Thinking"})
     \/ client.voice = "Thinking" /\ SocketLost

\* tts.start: refused while the last segment is still being received.
SpeechStarts ==
  /\ Ingress /\ client.voice \in {"Thinking", "Speaking"}
  /\ play \in {"idle", "ended"}
  /\ play' = "open"
  /\ SetVoice([client EXCEPT !.tts = FALSE], "Speaking")
  /\ UNCHANGED net

\* tts.stop
SpeechStops ==
  /\ Ingress /\ client.voice = "Speaking" /\ play = "open"
  /\ play' = "ended"
  /\ client' = [client EXCEPT !.tts = TRUE]
  /\ UNCHANGED <<net, turn, toVoice>>

\* response.done
ResponseDone ==
  /\ Ingress /\ client.voice \in {"Thinking", "Speaking"}
  /\ SetVoice([client EXCEPT !.tts = FALSE], "Ready")
  /\ UNCHANGED <<net, play>>

\* failVoiceTtsAudio(), an "error" of the provider, and the end of the socket.
SpeechFails ==
  /\ Ingress /\ client.voice = "Speaking"
  /\ play' = Aborted /\ SessionError([client EXCEPT !.tts = FALSE])
ProviderError ==
  Ingress /\ SessionError([client EXCEPT !.tts = FALSE]) /\ UNCHANGED play
SocketCloses == Ingress /\ SocketLost

Gateway ==
  /\ \/ SessionReady \/ Transcript \/ SpeechStarts \/ SpeechStops \/ ResponseDone
     \/ SpeechFails \/ ProviderError \/ SocketCloses
  /\ UNCHANGED <<open, portalVars, voiceVars, toNet, toControl>>

\* pumpCaptureToNetwork(): a recording goes up, and its end ends the turn.  A
\* session that does not listen is made anew.
PumpCapture ==
  /\ Ingress /\ capture # "idle"
  /\ \/ /\ client.voice = "Listening" /\ capture = "draining"
        /\ SetVoice(client, "Thinking") /\ capture' = "idle"
        /\ UNCHANGED <<net, play>>
     \/ client.voice = "Listening" /\ SocketLost /\ UNCHANGED capture
     \/ /\ client.voice # "Listening"
        /\ net' = [net EXCEPT !.cleanup = TRUE]
        /\ UNCHANGED <<client, turn, toVoice, capture, play>>
  /\ UNCHANGED <<open, portalVars, task, toNet, toControl>>

-----------------------------------------------------------------------------
\* scheduleVoiceHeartbeat(): the request is prepared and the Portal lane asked.
ScheduleBeat ==
  /\ Ticks /\ ~net.cleanup /\ client.socket /\ ~Beating
  /\ \E b \in Beats \ (portal.asked \cup {portal.beat}) :
       /\ heart' = [phase |-> "queued", beat |-> b, session |-> client.lease]
       /\ portal' = [portal EXCEPT !.asked = @ \cup {b}]
  /\ UNCHANGED <<client, open, net, image, voiceVars, turn, play, toVoice, toNet, toControl>>

\* performVoiceHeartbeat() begins, finds its heartbeat gone, or has expired.
PortalTakesBeat ==
  /\ portal.beat = Nothing
  /\ \E b \in portal.asked :
       \/ /\ heart.phase = "queued" /\ heart.beat = b
          /\ heart' = [heart EXCEPT !.phase = "running"]
          /\ portal' = [asked |-> portal.asked \ {b}, beat |-> b, session |-> heart.session]
       \/ /\ portal' = [portal EXCEPT !.asked = @ \ {b}]
          /\ UNCHANGED heart
  /\ UNCHANGED <<client, open, net, image, voiceVars, turn, play, toVoice, toNet, toControl>>

\* The request is over: its answer is left in the mailbox if that still waits
\* for it.
PortalEndsBeat ==
  /\ portal.beat # Nothing
  /\ heart' = IF heart.phase = "running" /\ heart.beat = portal.beat
                THEN [heart EXCEPT !.phase = "complete"] ELSE heart
  /\ portal' = [portal EXCEPT !.beat = Nothing, !.session = Nothing]
  /\ UNCHANGED <<client, open, net, image, voiceVars, turn, play, toVoice, toNet, toControl>>

\* consumeVoiceHeartbeatCompletion() and completeVoiceHeartbeat(): an answer for
\* another session says nothing of this one.
ConsumeBeat ==
  /\ TickRuns /\ heart.phase = "complete"
  /\ heart' = NoBeat
  /\ \/ UNCHANGED net
     \/ /\ client.socket /\ heart.session = client.lease
        /\ net' = [net EXCEPT !.cleanup = TRUE]
  /\ UNCHANGED <<client, open, portal, image, voiceVars, turn, play, toVoice, toNet, toControl>>

\* Mutant: a heartbeat that was never begun is waited for.
BeatWatchdogRunning ==
  /\ TickRuns /\ heart.phase = "running"
  /\ heart' = NoBeat
  /\ net' = [net EXCEPT !.cleanup = TRUE]
  /\ UNCHANGED <<client, open, portal, image, voiceVars, turn, play, toVoice, toNet, toControl>>

\* The watchdog of a heartbeat that the Portal lane did not answer in time.
BeatWatchdog ==
  /\ TickRuns /\ heart.phase \in {"queued", "running"}
  /\ heart' = NoBeat
  /\ net' = [net EXCEPT !.cleanup = TRUE]
  /\ UNCHANGED <<client, open, portal, image, voiceVars, turn, play, toVoice, toNet, toControl>>

-----------------------------------------------------------------------------
\* acceptAigcPrompt()
RequestImage ==
  /\ image = "idle" /\ NetworkRuns
  /\ image' = "pending"
  /\ UNCHANGED <<client, open, net, heart, portal, voiceVars, turn, play, toVoice,
                 toNet, toControl>>

\* handoffAigcIfReady(): the voice is given up and the Portal lane has the client.
HandoffImage ==
  /\ Ticks /\ image = "pending" /\ ~Beating
  /\ ~client.tts /\ client.voice \notin Live \cup {"Connecting"}
  /\ ~task.begin /\ play = "idle" /\ capture = "idle"
  /\ Disconnect
  /\ image' = "exclusive"
  /\ UNCHANGED <<net, heart, portal, voiceVars, toNet, toControl>>

\* finishAigc()
FinishImage ==
  /\ image = "exclusive" /\ portal.beat = Nothing
  /\ image' = "idle"
  /\ UNCHANGED <<client, open, net, heart, portal, voiceVars, turn, play, toVoice,
                 toNet, toControl>>

-----------------------------------------------------------------------------
VoiceLane == HandleButton \/ HandleStart \/ HandleState \/ ServicePlayback
             \/ ServiceCapture \/ ServiceDeferred
NetworkLane == NetworkBegin \/ NetworkCancel \/ NetworkExpires \/ ApplyPrompt
               \/ TickOnline \/ TickOffline \/ TickCleanup \/ Connect \/ Connected
               \/ Gateway \/ PumpCapture \/ ScheduleBeat \/ ConsumeBeat \/ BeatWatchdog
               \/ RequestImage \/ HandoffImage
PortalLane == PortalTakesBeat \/ PortalEndsBeat \/ FinishImage

VNext == Press \/ VoiceLane \/ HandleResult \/ NetworkLane \/ PortalLane

VSpec == VInit /\ [][VNext]_vvars

\* The Voice lane takes its messages and runs its tick; Control takes its
\* results; a queued command is handled or expires, a request is answered, and
\* every tick of the Network lane comes by its clean-up, its watchdog and its
\* pump, however often it is busy with something else in between.
VFairSpec ==
  /\ VSpec
  /\ WF_vvars(HandleButton \/ HandleStart \/ HandleState)
  /\ SF_vvars(ServicePlayback /\ play' = "idle")
  /\ WF_vvars(HandleResult) /\ WF_vvars(PortalLane)
  /\ SF_vvars(NetworkBegin \/ NetworkCancel \/ NetworkExpires)
  /\ SF_vvars(Connected) /\ SF_vvars(TickCleanup) /\ SF_vvars(PumpCapture)
  /\ SF_vvars(ConsumeBeat \/ BeatWatchdog)

\* And an image request that could be handed over is.
ButtonSpec == VFairSpec /\ SF_vvars(HandoffImage)

-----------------------------------------------------------------------------
\* The types of the session's parts, and queues no longer than they can be.
VTypeOK ==
  /\ client \in [voice: VoiceStates, socket: BOOLEAN, lease: Sessions \cup {Nothing},
                 tts: BOOLEAN]
  /\ open \subseteq Sessions
  /\ net \in [cleanup: BOOLEAN, online: BOOLEAN, connecting: BOOLEAN]
  /\ heart \in [phase: {"idle", "queued", "running", "complete"},
                beat: Beats \cup {Nothing}, session: Sessions \cup {Nothing}]
  /\ portal \in [asked: SUBSET Beats, beat: Beats \cup {Nothing},
                 session: Sessions \cup {Nothing}]
  /\ image \in {"idle", "pending", "exclusive"}
  /\ task \in [state: VoiceStates, begin: BOOLEAN, deferred: BOOLEAN]
  /\ turn \in BOOLEAN
  /\ capture \in {"idle", "open", "draining"}
  /\ play \in {"idle", "open", "ended", "abort"}
  /\ toVoice \in Seq(Messages)
  /\ toNet \in Seq({"Begin", "Cancel"}) /\ Len(toNet) <= NetDepth
  /\ toControl \in Seq(BOOLEAN)

\* No session leaks: however the socket was lost, the prompt changed, the turn
\* was cancelled or the station dropped, the one session the gateway still has
\* open is the one the client holds the lease of.
OneLease == open = {client.lease} \ {Nothing}

\* While an image is generated the Portal lane is alone with the client: no
\* voice session, socket or unfinished connection is left beside it.
ImageOwnsClient ==
  image = "exclusive" =>
    /\ client.lease = Nothing /\ ~client.socket /\ client.voice = "Idle"
    /\ ~net.connecting /\ heart.phase = "idle"

\* The answer to a heartbeat of an earlier session leaves this one alone.
StaleBeatInert ==
  [][heart.phase = "complete" /\ heart'.phase = "idle"
       /\ heart.session # client.lease
     => UNCHANGED <<client, open, net, toVoice>>]_vvars

\* A press on a Ready voice is answered: the turn begins, fails or is
\* cancelled, also when the command expired behind a slow request.
PressAnswered == task.begin ~> ~task.begin

\* The microphone is not left open: a recording that no session listens to any
\* more ends, whatever ended the session and whenever the recording started.
MicrophoneReleased ==
  capture # "idle" /\ client.voice # "Listening"
    ~> capture = "idle" \/ client.voice = "Listening"

\* A turn that keeps the device awake and its storage in use is a turn, or over.
TurnSettles == turn ~> ~turn \/ client.voice \in Live

\* A lost session is cleaned up after, unless the station is down: neither a
\* heartbeat nobody answers nor an image request keeps the voice away for good.
ReconnectResumes == net.cleanup /\ net.online ~> ~net.cleanup \/ ~net.online

-----------------------------------------------------------------------------
(* Properties the code does not have, checked by runs that expect so.     *)

\* A recording the user has finished is sent, or ends with its session: the
\* Voice lane does not call it a hardware failure by itself.
FinishedRecordingSent ==
  [][capture = "draining" /\ capture' = "draining" /\ toVoice' = toVoice
       => task'.state = task.state]_vvars

\* With a session that stays Ready the button gets to be Ready too.
ReadyButton ==
  client.voice = "Ready" ~> task.state = "Ready" \/ client.voice # "Ready"
=============================================================================
