------------------------------ MODULE MyAiPairing ------------------------------
(***************************************************************************)
(* How the device comes to hold a MyAI credential, keeps it and loses it:  *)
(* MyAiClient's activation and its copy of the credential, the Network     *)
(* tick of NativeVoiceService that drives the client, and the exclusive    *)
(* image request during which the Portal lane drives it instead.           *)
(*                                                                         *)
(* One lane at a time calls the client, so "at" is where that lane is.     *)
(* Every request to the Center is answered by one of a few outcomes, and a *)
(* change of the credential runs through the steps of CredentialJournal    *)
(* with the lane waiting.  A deadline is abstracted to "the step may run   *)
(* or not"; that it passes in the end is the fairness of that step.        *)
(***************************************************************************)
EXTENDS CredentialJournal

VARIABLES
  activation,  \* activationState_, and its mirror in the service
  creds,       \* credentials_ of the client
  healthy,     \* credentialHealthy_
  ready,       \* client_initialized_
  verified,    \* authorization_verified_
  wants,       \* pairing_start_requested_, rebind_requested_
  lease,       \* voiceLease_.valid()
  image,       \* "idle", "pending" (PendingHandoff) or "exclusive"
  at,          \* where the lane that calls the client is
  resume,      \* where it goes when the change under way is settled
  sent         \* the last request of this tick

clientVars == <<activation, creds, healthy, ready, verified>>
serviceVars == <<wants, lease, image>>
laneVars == <<at, resume, sent>>
vars == <<journalVars, clientVars, serviceVars, laneVars>>

Activations == {"Unconfigured", "Pairing", "Bound", "PaymentRequired",
                "RecoveryRequired", "Offline", "Error"}
Places == {"rest", "requests", "rebinding", "start", "poll", "check", "handoff",
           "voice", "select", "portal", "portal_select", "portal_work",
           "portal_release", "portal_end"}

\* What the client makes of a credential it has just loaded.
ActivationOf(c) ==
  CASE c = "bound" -> "Bound" [] c = "inactive" -> "PaymentRequired"
    [] c = "pending" -> "Pairing" [] OTHER -> "Unconfigured"

\* Mutant: a device that an outage took offline waits for a reboot.
MayCheckOnline(a) == a \in {"Bound", "PaymentRequired"}

\* MyAiAuthorizationRetryPolicy::mayCheck().
MayCheck(a) == a \in {"Bound", "Offline", "PaymentRequired"}

Init ==
  /\ JournalInit
  /\ activation = "Unconfigured" /\ creds = NoCredential
  /\ healthy = FALSE /\ ready = FALSE /\ verified = FALSE
  /\ wants = {} /\ lease = FALSE /\ image = "idle"
  /\ at = "rest" /\ resume = "rest" /\ sent = "none"

\* Mutant: a new activation leaves the verification of the last one.
SetActivationOnly(a) == activation' = a /\ UNCHANGED verified

\* setActivation() and onActivationState().
SetActivation(a) == activation' = a /\ verified' = (verified /\ a = "Bound")

StorageFailure == healthy' = FALSE /\ SetActivation("Error") /\ UNCHANGED creds

\* A change is asked of the store; the lane waits and then goes to "back".
Store(change, back) ==
  /\ Begin(change)
  /\ resume' = back /\ at' = "storing"
  /\ UNCHANGED clientVars

\* What perform() and classifyHttp() do with an answer that is no success,
\* whatever was asked; "rejected" covers every answer that changes nothing,
\* but the tick's own check was not passed.
Refused(r, next) ==
  /\ \/ r = "outage" /\ SetActivation("Offline")
     \/ r = "payment" /\ SetActivation("PaymentRequired")
     \/ r = "unsafe" /\ SetActivation("Error")
     \/ /\ r = "rejected" /\ UNCHANGED activation
        /\ verified' = (verified /\ at # "check")
  /\ at' = next
  /\ UNCHANGED <<journalVars, creds, healthy, ready, resume>>

Refusals == {"outage", "payment", "unsafe", "rejected"}

\* verifyRecoveryReadable(): the record is read again and must be the one held.
Recovery(next) ==
  /\ \/ Loaded # Corrupt /\ Durable = creds
        /\ SetActivation("RecoveryRequired")
        /\ UNCHANGED <<creds, healthy, faults>>
     \/ Fault /\ StorageFailure
  /\ at' = next
  /\ UNCHANGED <<keys, stage, writing, answer, ready, resume>>

\* clearPendingFailClosed(), clearRuntimeCredentialFailClosed(): an unhealthy
\* client clears nothing.
Clear(change, back) ==
  IF healthy THEN Store(change, back)
  ELSE /\ StorageFailure /\ at' = back
       /\ UNCHANGED <<journalVars, ready, resume>>

-----------------------------------------------------------------------------
\* The commands of the Network lane, handled between two ticks.
Request(what) ==
  /\ at \in {"rest", "portal"} /\ stage = "idle"
  /\ wants' = wants \cup {what}
  /\ UNCHANGED <<journalVars, clientVars, lease, image, laneVars>>

RequestImage ==
  /\ at = "rest" /\ image = "idle"
  /\ image' = "pending"
  /\ UNCHANGED <<journalVars, clientVars, wants, lease, laneVars>>

\* MyAiClient::initialize() in the tick; a failure is tried again by the next.
Initialize ==
  /\ at = "rest" /\ image # "exclusive" /\ ~ready
  /\ sent' = "none"
  /\ UNCHANGED serviceVars
  /\ \/ /\ Loaded # Corrupt
        /\ creds' = Loaded.credential /\ healthy' = TRUE
        /\ IF Loaded.credential = NoCredential
             THEN /\ Begin("initialize")
                  /\ at' = "storing" /\ resume' = "requests"
                  /\ UNCHANGED <<activation, ready, verified>>
             ELSE /\ ready' = TRUE
                  /\ SetActivation(ActivationOf(Loaded.credential))
                  /\ at' = "requests"
                  /\ UNCHANGED <<journalVars, resume>>
     \/ /\ IF Loaded = Corrupt THEN UNCHANGED faults ELSE Fault
        /\ StorageFailure
        /\ UNCHANGED <<keys, stage, writing, answer, ready, at, resume>>

Tick ==
  /\ at = "rest" /\ image # "exclusive" /\ ready
  /\ at' = "requests" /\ sent' = "none"
  /\ UNCHANGED <<journalVars, clientVars, serviceVars, resume>>

\* Mutant: a failed change leaves the client in use.
SettleHealthy ==
  /\ at = "storing" /\ stage = "idle"
  /\ IF answer = "ok"
       THEN creds' = Loaded.credential /\ SetActivation(ActivationOf(Loaded.credential))
       ELSE UNCHANGED <<creds, activation, verified>>
  /\ ready' = TRUE /\ at' = resume
  /\ UNCHANGED <<journalVars, healthy, serviceVars, resume, sent>>

\* The store has answered: its new record is loaded, or the client is
\* unhealthy until a reboot.
Settle ==
  /\ at = "storing" /\ stage = "idle"
  /\ \/ /\ answer = "ok"
        /\ creds' = Loaded.credential
        /\ SetActivation(ActivationOf(Loaded.credential))
        /\ ready' = TRUE /\ at' = resume
        /\ UNCHANGED <<healthy, faults>>
     \/ /\ IF answer = "failed" THEN UNCHANGED faults ELSE Fault
        /\ StorageFailure
        /\ at' = IF ready THEN resume ELSE "rest"
        /\ UNCHANGED ready
  /\ UNCHANGED <<keys, stage, writing, answer, serviceVars, resume, sent>>

-----------------------------------------------------------------------------
\* A request that the device token authenticates: session select, heartbeat,
\* disconnect.  401 takes the credential away.
Center(r, next) ==
  /\ sent' = "center"
  /\ \/ r = "denied" /\ Clear("clear_runtime", next)
     \/ r \in Refusals /\ Refused(r, next)
     \/ r = "ok" /\ at' = next /\ UNCHANGED <<journalVars, clientVars, resume>>

CenterAnswers == Refusals \cup {"ok", "denied"}

\* disconnectVoice(): whatever the Center answers, the lease is gone.
Disconnect(next) ==
  /\ lease' = FALSE
  /\ IF lease THEN \E r \in CenterAnswers : Center(r, next)
     ELSE at' = next /\ UNCHANGED <<journalVars, clientVars, resume, sent>>

\* A tick without Wi-Fi.
TickOffline ==
  /\ at = "rest" /\ image # "exclusive" /\ ready /\ lease
  /\ Disconnect("rest")
  /\ UNCHANGED <<wants, image>>

\* serviceRequestedPairingActions(): a rebind waits for an image request.
Rebind ==
  /\ at = "requests" /\ "rebind" \in wants /\ image = "idle"
  /\ Disconnect("rebinding")
  /\ UNCHANGED <<wants, image>>

\* resetCredentialForRebind(); the store's success comes back to "requests"
\* with a pairing start asked for.
ResetCredential ==
  /\ at = "rebinding"
  /\ wants' = IF healthy THEN {"start"} ELSE wants \ {"rebind"}
  /\ Clear("clear_runtime", IF healthy THEN "requests" ELSE "start")
  /\ UNCHANGED <<lease, image, sent>>

NoStart ==
  /\ at = "requests" /\ ~("rebind" \in wants /\ image = "idle")
  /\ "start" \notin wants \/ "rebind" \in wants \/ activation # "Unconfigured"
  /\ wants' = IF "rebind" \in wants THEN wants ELSE wants \ {"start"}
  /\ at' = "start"
  /\ UNCHANGED <<journalVars, clientVars, lease, image, resume, sent>>

\* startPairingNow(), for the request or, at its deadline, without one.
StartPairing(r) ==
  /\ \/ at = "requests" /\ "start" \in wants /\ "rebind" \notin wants
     \/ at = "start"
  /\ activation = "Unconfigured"
  /\ wants' = IF at = "requests" THEN wants \ {"start"} ELSE wants
  /\ UNCHANGED <<lease, image>>
  /\ IF healthy /\ ~HasToken(creds)
       THEN /\ sent' = "start"
            /\ \/ r = "ok" /\ Store("save_pending", "poll")
               \/ r \in Refusals /\ Refused(r, "poll")
       ELSE at' = "poll" /\ UNCHANGED <<journalVars, clientVars, resume, sent>>

NoStartDue ==
  /\ at = "start"
  /\ at' = "poll"
  /\ UNCHANGED <<journalVars, clientVars, serviceVars, resume, sent>>

\* MyAiClient::pollPairing().  A claim that waits for payment or for its owner
\* leaves the pairing as it is.
PollPairing(r) ==
  /\ at = "poll" /\ activation = "Pairing"
  /\ UNCHANGED serviceVars
  /\ IF healthy /\ creds = "pending"
       THEN /\ sent' = "poll"
            /\ \/ r = "bound" /\ Store("promote_bound", "check")
               \/ r = "bound_inactive" /\ Store("promote_inactive", "check")
               \/ r \in {"denied", "expired"} /\ Clear("clear_pending", "check")
               \/ r = "recovery" /\ Recovery("check")
               \/ /\ r = "waiting" /\ at' = "check"
                  /\ UNCHANGED <<journalVars, clientVars, resume>>
               \/ r \in Refusals /\ Refused(r, "check")
       ELSE at' = "check" /\ UNCHANGED <<journalVars, clientVars, resume, sent>>

PollAnswers == Refusals \cup {"bound", "bound_inactive", "denied", "expired",
                              "recovery", "waiting"}

NoPoll ==
  /\ at = "poll"
  /\ at' = "check"
  /\ UNCHANGED <<journalVars, clientVars, serviceVars, resume, sent>>

\* MyAiClient::checkAuthorization() of a client that holds a token; "next" is
\* where its caller goes when the device is authorized, "failed" otherwise.
Check(r, next, failed) ==
  /\ sent' = "check"
  /\ \/ /\ r = "authorized" /\ activation' = "Bound" /\ at' = next
        /\ UNCHANGED <<journalVars, creds, healthy, ready, resume>>
     \/ /\ r = "denied" /\ Clear("clear_runtime", failed)
     \/ /\ r = "recovery" /\ Recovery(failed)
     \/ /\ r \in Refusals /\ Refused(r, failed)

CheckAnswers == Refusals \cup {"authorized", "denied", "recovery"}

MayAsk == healthy /\ HasToken(creds)

\* The due check of the tick decides whether the device is verified.
CheckAuthorization(r) ==
  /\ at = "check" /\ MayCheck(activation)
  /\ UNCHANGED serviceVars
  /\ IF MayAsk
       THEN /\ Check(r, "handoff", "rest")
            /\ r = "authorized" => verified' = TRUE
       ELSE /\ verified' = FALSE /\ at' = "rest"
            /\ UNCHANGED <<journalVars, activation, creds, healthy, ready, resume, sent>>

NoCheck ==
  /\ at = "check"
  /\ at' = IF verified THEN "handoff" ELSE "rest"
  /\ UNCHANGED <<journalVars, clientVars, serviceVars, resume, sent>>

-----------------------------------------------------------------------------
\* handoffAigcIfReady(): from here the Portal lane calls the client.
Handoff ==
  /\ at = "handoff" /\ image = "pending" /\ activation = "Bound" /\ verified
  /\ image' = "exclusive"
  /\ Disconnect("portal")
  /\ UNCHANGED wants

NoHandoff ==
  /\ at = "handoff"
  /\ at' = "voice"
  /\ UNCHANGED <<journalVars, clientVars, serviceVars, resume, sent>>

\* openGatewaySession(): a check of its own, then the session.
OpenSession(from, to, failed) ==
  /\ at = from
  /\ IF MayAsk
       THEN \E r \in CheckAnswers :
              Check(r, to, failed) /\ (r = "authorized" => UNCHANGED verified)
       ELSE at' = failed /\ UNCHANGED <<journalVars, clientVars, resume, sent>>

ConnectVoice ==
  /\ ~lease
  /\ OpenSession("voice", "select", "rest")
  /\ UNCHANGED serviceVars

SelectVoice(r) ==
  /\ at = "select"
  /\ lease' = (r = "ok")
  /\ Center(r, "rest")
  /\ UNCHANGED <<wants, image>>

\* The end of a tick that does not connect; a broken session is closed here.
EndTick ==
  /\ at = "voice"
  /\ \/ at' = "rest" /\ UNCHANGED <<journalVars, clientVars, lease, resume, sent>>
     \/ lease /\ Disconnect("rest")
  /\ UNCHANGED <<wants, image>>

PortalSession ==
  /\ OpenSession("portal", "portal_select", "portal_end")
  /\ UNCHANGED serviceVars

PortalSelect(r) ==
  /\ at = "portal_select"
  /\ Center(r, IF r = "ok" THEN "portal_work" ELSE "portal_end")
  /\ UNCHANGED serviceVars

\* The requests to the gateway, and disconnectImage().
PortalWork ==
  /\ at = "portal_work"
  /\ \/ at' = "portal_release" /\ UNCHANGED <<journalVars, clientVars, resume>>
     \/ \E r \in Refusals : Refused(r, "portal_release")
  /\ UNCHANGED <<serviceVars, sent>>

PortalRelease(r) ==
  /\ at = "portal_release"
  /\ Center(r, "portal_end")
  /\ UNCHANGED serviceVars

\* finishAigc().
FinishImage ==
  /\ at = "portal_end"
  /\ image' = "idle" /\ at' = "rest"
  /\ UNCHANGED <<journalVars, clientVars, wants, lease, resume, sent>>

\* A power cut or a restart: only the keys remain.
Reboot ==
  /\ JournalPowerCut
  /\ activation' = "Unconfigured" /\ creds' = NoCredential
  /\ healthy' = FALSE /\ ready' = FALSE /\ verified' = FALSE
  /\ wants' = {} /\ lease' = FALSE /\ image' = "idle"
  /\ at' = "rest" /\ resume' = "rest" /\ sent' = "none"

StoreNext == at = "storing" /\ StoreStep /\ UNCHANGED <<clientVars, serviceVars, laneVars>>

StartDue == \E r \in Refusals \cup {"ok"} : StartPairing(r)
PollDue == \E r \in PollAnswers : PollPairing(r)
CheckDue == \E r \in CheckAnswers : CheckAuthorization(r)

LaneStep ==
  \/ Initialize \/ Tick \/ Settle \/ StoreNext
  \/ Rebind \/ ResetCredential \/ NoStart \/ StartDue \/ NoStartDue
  \/ PollDue \/ NoPoll \/ CheckDue \/ NoCheck \/ Handoff \/ NoHandoff
  \/ ConnectVoice \/ (\E r \in CenterAnswers : SelectVoice(r)) \/ EndTick
  \/ PortalSession \/ (\E r \in CenterAnswers : PortalSelect(r))
  \/ PortalWork \/ (\E r \in CenterAnswers : PortalRelease(r)) \/ FinishImage

Next ==
  \/ LaneStep \/ TickOffline
  \/ \E what \in {"start", "rebind"} : Request(what)
  \/ RequestImage \/ Reboot

Spec == Init /\ [][Next]_vars

\* The lanes are scheduled, and a deadline that recurs is met in the end.
Fairness ==
  /\ WF_vars(LaneStep)
  /\ SF_vars(at = "start" /\ StartDue) /\ SF_vars(PollDue) /\ SF_vars(CheckDue)

FairSpec == Spec /\ Fairness

-----------------------------------------------------------------------------
(***************************************************************************)
(* Properties.                                                             *)
(***************************************************************************)

TypeOK ==
  /\ JournalTypeOK
  /\ activation \in Activations /\ creds \in Credentials \cup {NoCredential}
  /\ healthy \in BOOLEAN /\ ready \in BOOLEAN /\ verified \in BOOLEAN
  /\ wants \subseteq {"start", "rebind"} /\ lease \in BOOLEAN
  /\ image \in {"idle", "pending", "exclusive"}
  /\ at \in Places \cup {"storing"} /\ resume \in Places
  /\ sent \in {"none", "start", "poll", "check", "center"}

\* While no change is under way, a client that believes its store healthy
\* holds the credential a boot would find, whatever failed or was answered on
\* the way: a change that failed half way, and may have happened, is what
\* credentialHealthy_ guards against (loadCredentials(), storageFailure()).  And
\* the state the customer sees agrees with it: Bound and verified mean that a
\* token is held, Pairing that a code can be shown, Unconfigured that nothing is,
\* so a new pairing takes nothing away.
ActivationCoherent ==
  ready /\ healthy /\ at # "storing" =>
    /\ creds = Durable
    /\ activation = "Bound" => HasToken(creds)
    /\ activation = "Pairing" => creds = "pending"
    /\ activation = "Unconfigured" => creds = "unbound"
    /\ verified => activation = "Bound"

\* No pairing request goes out while the durable record holds a device token:
\* the Center would rotate the token of a bound device ("so it cannot rotate a
\* Center credential again", pollPairing()).
NoTokenRotation ==
  [][sent' \in {"start", "poll"} /\ sent' # sent => ~HasToken(Durable)]_vars

\* The journal keeps the promise of a store of one document.
DurableSpec == Promise!Spec

\* In every state but recovery, security and storage errors the device keeps
\* asking: an unconfigured one for a pairing, a paired one for its status, one
\* that holds a token for its authorization, also through outages.
DeviceKeepsAsking ==
  /\ ready /\ activation = "Unconfigured"
       ~> sent = "start" \/ activation # "Unconfigured" \/ ~ready
  /\ ready /\ healthy /\ activation = "Pairing"
       ~> sent = "poll" \/ activation # "Pairing" \/ ~ready
  /\ ready /\ healthy /\ HasToken(creds)
       /\ activation \in {"Bound", "PaymentRequired", "Offline"}
       ~> sent = "check" \/ ~ready
          \/ activation \notin {"Bound", "PaymentRequired", "Offline"}

\* "Automatic retry remains responsible for transient failures"
\* (serviceRequestedPairingActions()): a device without a token that an outage
\* has taken offline asks again.
OfflinePairingRetried ==
  ready /\ healthy /\ activation = "Offline" /\ ~HasToken(creds)
    ~> sent \in {"start", "poll"} \/ activation # "Offline" \/ ~ready

\* "A failed head phase leaves generation 3 authoritative. The orphan slot is
\* ignored and a retry can safely replace it" (the test of the journal): what
\* a change that did not finish has left can be loaded.
OrphanIgnored == stage = "idle" => Loaded # Corrupt
=============================================================================
