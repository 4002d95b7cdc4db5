-------------------------------- MODULE TaskSync --------------------------------
(***************************************************************************)
(* The Portal lane's stages around the album: the onboarding pages, the    *)
(* browser's commands and uploads (NativePortalOwner), and the Inkloop     *)
(* service, which fetches the plan, keeps it in the task file, removes     *)
(* the images it no longer names, downloads the frame of the first due     *)
(* task and has it drawn.  Each stage first asks whether the other owners  *)
(* are busy (SlowIoArbitration).                                           *)
(*                                                                         *)
(* The plan the server holds goes through Plans.  Every task is shown      *)
(* once; clock times are left out, so a retry or a poll that is due is one *)
(* the lane may take.  An upload is one chunk; AIGC, which has the same    *)
(* gates, is left out.  The task file and the index are committed in one   *)
(* step, as TransactionFiles shows.                                        *)
(***************************************************************************)
EXTENDS AlbumDisplay, FiniteSets

CONSTANTS
  Plans,           \* the plans the server holds one after the other
  UploadedImage,   \* the asset an upload makes
  Requests,        \* request ids
  CommandsPerTick  \* browser commands drained in one tick

ASSUME RequestIds == 0 \notin Requests
ASSUME PlansOfTasks ==
  /\ Len(Plans) \in Nat
  /\ \A r \in 1..Len(Plans) : \A i, j \in DOMAIN Plans[r] :
       Plans[r][i].id = Plans[r][j].id => i = j

VARIABLES
  server,     \* the plan the server holds, and whether it knows the device's user
  disk,       \* task file, applied revision, whether a device id is stored
  sync,       \* registration_required_, tasks_synchronized_
  mailbox,    \* display_mailbox_
  lane,       \* where the Portal lane is
  online,     \* wifi_.online()
  onboarding, \* a page is wanted, and the one shown last is known to stand
  commands,   \* the browser's commands not yet drained
  upload      \* accepted_upload_request_, active_upload_, its events, the browser

vars == <<display, left, server, disk, sync, mailbox, lane, online, onboarding,
          commands, upload>>

Plan(r) == IF r = 0 THEN <<>> ELSE Plans[r]
AssetOf(task) == [task |-> task.id, frame |-> task.frame]
Local == UploadedImage.task
EmptyAlbum == [assets |-> <<>>, current |-> None]

NoMail == [at |-> "idle", task |-> None, request |-> 0]
NoUpload == [accepted |-> FALSE, active |-> FALSE, events |-> <<>>, browser |-> "none"]
At(place) == [at |-> place, served |-> 0, panel |-> FALSE, fetched |-> 0, task |-> None]
Goes(place) == lane' = [lane EXCEPT !.at = place]

\* A device in use, or a new one, which counts as one of the troubles.
Init ==
  /\ \/ /\ DisplayInit(InitialAlbum) /\ left = MaxTroubles
        /\ disk = [tasks |-> <<>>, applied |-> 0, registered |-> TRUE]
     \/ /\ DisplayInit(EmptyAlbum) /\ left = MaxTroubles - 1
        /\ disk = [tasks |-> <<>>, applied |-> 0, registered |-> FALSE]
  /\ server = [revision |-> 0, paired |-> disk.registered]
  /\ sync = [required |-> ~disk.registered, synchronized |-> disk.registered]
  /\ mailbox = NoMail /\ lane = At("pages") /\ online = TRUE
  /\ onboarding = [wanted |-> FALSE, stands |-> FALSE]
  /\ commands = <<>> /\ upload = NoUpload

-----------------------------------------------------------------------------
\* SlowIoArbitration.
InkloopBusy == mailbox.at # "idle"
MutationBusy ==
  upload.accepted \/ upload.active \/ upload.events # <<>> \/ commands # <<>>
PortalMayDrain == ~DisplayBusy /\ ~InkloopBusy
InkloopMayRun == ~DisplayBusy /\ ~MutationBusy

-----------------------------------------------------------------------------
\* Mutant: the album is asked for once, when the page that stood is not wanted
\* any more.
ServicePagesOnce ==
  /\ lane.at = "pages" /\ Goes("drain")
  /\ IF hold THEN UNCHANGED <<page, onboarding>>
     ELSE IF ~onboarding.wanted
     THEN /\ page' = IF onboarding.stands THEN RestoreRequested ELSE page
          /\ onboarding' = [onboarding EXCEPT !.stands = FALSE]
     ELSE IF onboarding.stands THEN UNCHANGED <<page, onboarding>>
     ELSE /\ page' = PageRequested
          /\ onboarding' = [onboarding EXCEPT !.stands = Unchanged]
  /\ UNCHANGED <<album, panel, knownEmpty, nav, hold, staging, queue, draw, results, shown,
                 left, server, disk, sync, mailbox, online, commands, upload>>

\* serviceStableDisplayPages(): not while the user's choice is held.
ServicePages ==
  /\ lane.at = "pages" /\ Goes("drain")
  /\ IF hold THEN UNCHANGED <<page, onboarding>>
     ELSE IF ~onboarding.wanted
     THEN /\ page' = RestoreRequested
          /\ onboarding' = [onboarding EXCEPT !.stands = FALSE]
     ELSE IF onboarding.stands THEN UNCHANGED <<page, onboarding>>
     ELSE /\ page' = PageRequested
          /\ onboarding' = [onboarding EXCEPT !.stands = Unchanged]
  /\ UNCHANGED <<album, panel, knownEmpty, nav, hold, staging, queue, draw, results, shown,
                 left, server, disk, sync, mailbox, online, commands, upload>>

portalOnly == <<server, disk, sync, mailbox, online, onboarding>>

Drain ==
  /\ lane.at = "drain"
  /\ Goes(IF online /\ PortalMayDrain THEN "portal" ELSE "inkloop")
  /\ UNCHANGED <<display, left, portalOnly, commands, upload>>

\* The assets of the set, in their order.
Keep(assets, kept) ==
  LET at == {i \in DOMAIN assets : assets[i] \in kept}
  IN  [k \in 1..Cardinality(at) |->
         assets[CHOOSE i \in at : Cardinality({j \in at : j <= i}) = k]]
KeepsCurrent(a) == IF CurrentOrdinal(a) = None THEN [a EXCEPT !.current = None] ELSE a

\* requestDisplay() names the image by its place.
DisplayAlbumItem(asset) ==
  /\ queue' = Append(queue, [source |-> "user", request |-> 0,
                             ordinal |-> OrdinalIn(album, asset)])
  /\ UNCHANGED <<album, knownEmpty, nav, draw>>

DeleteAlbumItem(asset) ==
  /\ album' = KeepsCurrent([album EXCEPT !.assets = Keep(@, Assets \ {asset})])
  /\ Reload(album')
  /\ UNCHANGED <<queue, draw>>

CommandsLeft == commands # <<>> /\ lane.served < CommandsPerTick

ServiceCommand ==
  /\ lane.at = "portal" /\ CommandsLeft
  /\ LET c == Head(commands)
     IN  IF c.asset \notin Assets \/ (c.kind = "delete" /\ staging)
         THEN UNCHANGED <<album, knownEmpty, nav, queue, draw>>
         ELSE IF c.kind = "display" THEN DisplayAlbumItem(c.asset)
         ELSE DeleteAlbumItem(c.asset)
  /\ commands' = Tail(commands)
  /\ lane' = [lane EXCEPT !.served = @ + 1]
  /\ UNCHANGED <<panel, page, hold, staging, results, shown, left, portalOnly, upload>>

-----------------------------------------------------------------------------
\* serviceUpload(): the events the browser's request has put into the queue.
Serves(kind) ==
  lane.at = "portal" /\ ~CommandsLeft /\ upload.events # <<>> /\ Head(upload.events) = kind
Served(u) == upload' = [u EXCEPT !.events = Tail(upload.events)]
Ended == [upload EXCEPT !.accepted = FALSE, !.active = FALSE]

UploadBegin ==
  /\ Serves("begin")
  /\ \/ /\ ~staging /\ staging' = TRUE
        /\ Served([upload EXCEPT !.active = TRUE]) /\ Calm
     \/ /\ staging \/ Trouble
        /\ UNCHANGED staging /\ Served([upload EXCEPT !.accepted = FALSE])
        /\ (staging => Calm)
  /\ UNCHANGED <<album, knownEmpty, nav, panel, page, hold, queue, draw, results, shown,
                 portalOnly, lane, commands>>

\* A chunk that cannot be stored ends the upload.
UploadChunk ==
  /\ Serves("chunk")
  /\ \/ upload.active /\ Served(upload) /\ UNCHANGED staging /\ Calm
     \/ upload.active /\ Served(Ended) /\ staging' = FALSE /\ Trouble
     \/ ~upload.active /\ Served(upload) /\ UNCHANGED staging /\ Calm
  /\ UNCHANGED <<album, knownEmpty, nav, panel, page, hold, queue, draw, results, shown,
                 portalOnly, lane, commands>>

\* finishActiveUpload() commits the image, if it is one the album takes.
UploadFinish ==
  /\ Serves("finish")
  /\ staging' = (staging /\ ~upload.active)
  /\ \/ /\ upload.active
        /\ album' = [album EXCEPT !.assets = IF UploadedImage \in Assets THEN @
                                             ELSE Append(@, UploadedImage)]
        /\ Reload(album') /\ Served(Ended) /\ Calm
     \/ /\ upload.active /\ Served(Ended) /\ Trouble
        /\ UNCHANGED <<album, knownEmpty, nav>>
     \/ /\ ~upload.active /\ Served(upload) /\ Calm
        /\ UNCHANGED <<album, knownEmpty, nav>>
  /\ UNCHANGED <<panel, page, hold, queue, draw, results, shown, portalOnly, lane, commands>>

UploadAbort ==
  /\ Serves("abort")
  /\ staging' = (staging /\ ~upload.active)
  /\ Served(Ended) /\ Calm
  /\ UNCHANGED <<album, knownEmpty, nav, panel, page, hold, queue, draw, results, shown,
                 portalOnly, lane, commands>>

\* The twelve events of a tick are more than one upload has here.
DrainDone ==
  /\ lane.at = "portal" /\ ~CommandsLeft /\ upload.events = <<>>
  /\ Goes("inkloop")
  /\ UNCHANGED <<display, left, portalOnly, commands, upload>>

-----------------------------------------------------------------------------
\* portalTick(): a finished task is recorded, and the rest waits for the other
\* owners.
Ran(tasks, id, revision) ==
  [i \in DOMAIN tasks |->
     IF tasks[i].id = id /\ tasks[i].revision = revision
     THEN [tasks[i] EXCEPT !.ran = TRUE] ELSE tasks[i]]

Unused(request) ==
  /\ draw.request # request
  /\ \A i \in DOMAIN queue : queue[i].request # request
  /\ \A i \in DOMAIN results : results[i].request # request

\* expireDisplayResult(): the result was lost, or the glass is slow.
Expires == lane.at = "inkloop" /\ mailbox.at = "waiting" /\ mailbox' = NoMail

ResultLost ==
  /\ Expires /\ Unused(mailbox.request) /\ Calm
  /\ UNCHANGED <<display, disk, server, sync, lane, online, onboarding, commands, upload>>

ResultLate ==
  /\ Expires /\ Trouble
  /\ UNCHANGED <<display, disk, server, sync, lane, online, onboarding, commands, upload>>

InkloopBegins ==
  /\ lane.at = "inkloop"
  /\ \/ /\ mailbox.at # "ready" /\ UNCHANGED <<mailbox, disk>> /\ Calm
     \/ /\ mailbox.at = "ready"
        /\ \/ /\ disk' = [disk EXCEPT !.tasks = Ran(@, mailbox.task.id, mailbox.task.revision)]
              /\ mailbox' = NoMail /\ Calm
           \/ UNCHANGED <<mailbox, disk>> /\ Trouble
  /\ lane' = IF InkloopMayRun /\ mailbox'.at = "idle"
             THEN [lane EXCEPT !.at = "sync", !.panel = ~hold]
             ELSE At("pages")
  /\ UNCHANGED <<display, server, sync, online, onboarding, commands, upload>>

inkloopOnly == <<server, online, onboarding, commands, upload>>
drawing == <<panel, page, hold, queue, draw, results>>

NoSync ==
  /\ lane.at = "sync" /\ Goes("due")
  /\ UNCHANGED <<display, left, disk, sync, mailbox, inkloopOnly>>

\* registerDevice(): the server learns the code, and may know its user by now;
\* a trouble is also an onboarding that has no code of six digits yet.
Register ==
  /\ lane.at = "sync" /\ online /\ sync.required /\ Goes("due")
  /\ \/ /\ disk' = [disk EXCEPT !.registered = TRUE]
        /\ sync' = [required |-> ~server.paired, synchronized |-> FALSE] /\ Calm
     \/ UNCHANGED <<disk, sync>> /\ Trouble
  /\ UNCHANGED <<display, mailbox, inkloopOnly>>

\* PosixTaskStore::replace(): a task that has not changed stays done.
Replacement(plan) ==
  [i \in DOMAIN plan |->
     [id |-> plan[i].id, revision |-> plan[i].revision, frame |-> plan[i].frame,
      ran |-> \E j \in DOMAIN disk.tasks :
                /\ disk.tasks[j].id = plan[i].id
                /\ disk.tasks[j].revision = plan[i].revision
                /\ disk.tasks[j].ran]]

\* Mutant: the album is reconciled only with a new plan.
ReconcilesOnlyNew ==
  /\ lane.at = "sync" /\ online /\ ~sync.required
  /\ \/ Goes("due") /\ UNCHANGED <<disk, sync>> /\ Trouble
     \/ /\ ~server.paired /\ Goes("due") /\ Calm
        /\ sync' = [required |-> TRUE, synchronized |-> FALSE] /\ UNCHANGED disk
     \/ /\ server.paired /\ server.revision = disk.applied
        /\ Goes("due") /\ sync' = [sync EXCEPT !.synchronized = TRUE] /\ UNCHANGED disk /\ Calm
     \/ /\ server.paired /\ server.revision # disk.applied
        /\ \/ /\ disk' = [disk EXCEPT !.tasks = Replacement(Plan(server.revision))]
              /\ lane' = [lane EXCEPT !.at = "revision", !.fetched = server.revision]
              /\ UNCHANGED sync /\ Calm
           \/ /\ sync' = [sync EXCEPT !.synchronized = FALSE]
              /\ Goes("due") /\ UNCHANGED disk /\ Trouble
  /\ UNCHANGED <<display, mailbox, inkloopOnly>>

\* syncTasks(): no answer; the user is gone; nothing new; or a new plan, which
\* goes into the task file before its revision is stored.
SyncTasks ==
  /\ lane.at = "sync" /\ online /\ ~sync.required
  /\ \/ Goes("due") /\ UNCHANGED <<disk, sync>> /\ Trouble
     \/ /\ ~server.paired /\ Goes("due") /\ Calm
        /\ sync' = [required |-> TRUE, synchronized |-> FALSE] /\ UNCHANGED disk
     \/ /\ server.paired /\ server.revision = disk.applied
        /\ Goes("prune") /\ UNCHANGED <<disk, sync>> /\ Calm
     \/ /\ server.paired /\ server.revision # disk.applied
        /\ \/ /\ disk' = [disk EXCEPT !.tasks = Replacement(Plan(server.revision))]
              /\ lane' = [lane EXCEPT !.at = "revision", !.fetched = server.revision]
              /\ UNCHANGED sync /\ Calm
           \/ /\ sync' = [sync EXCEPT !.synchronized = FALSE]
              /\ Goes("due") /\ UNCHANGED disk /\ Trouble
  /\ UNCHANGED <<display, mailbox, inkloopOnly>>

SaveRevision ==
  /\ lane.at = "revision"
  /\ \/ disk' = [disk EXCEPT !.applied = lane.fetched] /\ Goes("prune") /\ UNCHANGED sync /\ Calm
     \/ UNCHANGED disk /\ Goes("due") /\ sync' = [sync EXCEPT !.synchronized = FALSE] /\ Trouble
  /\ UNCHANGED <<display, mailbox, inkloopOnly>>

\* reconcileTaskAssets(): the plan's images and the device's own stay.
Retained(asset) ==
  \/ asset.task = Local
  \/ \E i \in DOMAIN disk.tasks : AssetOf(disk.tasks[i]) = asset

Reconcile ==
  /\ lane.at = "prune" /\ Goes("due")
  /\ \/ /\ ~staging
        /\ album' = KeepsCurrent([album EXCEPT !.assets = Keep(@, {a \in Assets : Retained(a)})])
        /\ Reload(album')
        /\ sync' = [sync EXCEPT !.synchronized = CanReload]
        /\ Calm
     \/ /\ UNCHANGED <<album, knownEmpty, nav>>
        /\ sync' = [sync EXCEPT !.synchronized = FALSE]
        /\ \/ staging /\ Calm
           \/ Trouble
  /\ UNCHANGED <<drawing, shown, staging, disk, mailbox, inkloopOnly>>

-----------------------------------------------------------------------------
\* runDueTask(): the first task that is due.
Due == {i \in DOMAIN disk.tasks : ~disk.tasks[i].ran}
FirstDue == {disk.tasks[i] : i \in {i \in Due : \A j \in Due : i <= j}}

MayRunTask == lane.panel /\ ~sync.required /\ sync.synchronized

NoTask ==
  /\ lane.at = "due" /\ lane' = At("pages")
  /\ UNCHANGED <<display, left, disk, sync, mailbox, inkloopOnly>>

\* queueDisplay(): the Display lane may refuse the command.
QueueDisplay(task, ordinal) ==
  \/ LET id == CHOOSE r \in Requests : Unused(r)
     IN  /\ id \in Requests /\ Unused(id)
         /\ mailbox' = [at |-> "waiting", task |-> task, request |-> id]
         /\ queue' = Append(queue, [source |-> "task", request |-> id, ordinal |-> ordinal])
         /\ shown' = {} /\ Calm
  \/ UNCHANGED <<mailbox, queue, shown>> /\ Trouble

RunDueTask ==
  /\ lane.at = "due" /\ MayRunTask
  /\ \E task \in FirstDue :
       AssetOf(task) \in Assets /\ QueueDisplay(task, OrdinalIn(album, AssetOf(task)))
  /\ lane' = At("pages")
  /\ UNCHANGED <<album, panel, page, knownEmpty, nav, hold, staging, draw, results,
                 disk, sync, inkloopOnly>>

BeginDownload ==
  /\ lane.at = "due" /\ MayRunTask
  /\ online /\ ~staging /\ staging' = TRUE
  /\ \E task \in FirstDue :
       /\ AssetOf(task) \notin Assets
       /\ lane' = [lane EXCEPT !.at = "frame", !.task = task]
  /\ UNCHANGED <<album, knownEmpty, nav, drawing, shown, left, disk, sync, mailbox, inkloopOnly>>

\* The frame is committed and its place is the last one; or it is not.
EndDownload ==
  /\ lane.at = "frame" /\ staging' = FALSE
  /\ \/ /\ album' = [album EXCEPT !.assets = Append(@, AssetOf(lane.task))]
        /\ Reload(album')
        /\ IF CanReload THEN QueueDisplay(lane.task, Len(album'.assets))
           ELSE UNCHANGED <<mailbox, queue, shown>> /\ Calm
     \/ UNCHANGED <<album, knownEmpty, nav, mailbox, queue, shown>> /\ Trouble
  /\ lane' = At("pages")
  /\ UNCHANGED <<panel, page, hold, draw, results, disk, sync, inkloopOnly>>

-----------------------------------------------------------------------------
\* Mutant: a result is taken for the request the mailbox holds.
TakesAnyResult ==
  /\ results # <<>> /\ results' = Tail(results)
  /\ mailbox' = IF mailbox.at # "waiting" THEN mailbox
                ELSE IF Head(results).ok THEN [mailbox EXCEPT !.at = "ready"] ELSE NoMail
  /\ Calm
  /\ UNCHANGED <<album, panel, page, knownEmpty, nav, hold, staging, queue, draw, shown,
                 disk, sync, lane, inkloopOnly>>

\* The Control lane.
HandleControlResult ==
  /\ results # <<>> /\ results' = Tail(results)
  /\ LET r == Head(results)
     IN  mailbox' = IF mailbox.at # "waiting" \/ mailbox.request # r.request THEN mailbox
                    ELSE IF r.ok THEN [mailbox EXCEPT !.at = "ready"] ELSE NoMail
  /\ Calm
  /\ UNCHANGED <<album, panel, page, knownEmpty, nav, hold, staging, queue, draw, shown,
                 disk, sync, lane, inkloopOnly>>

\* The Control lane's queue is full.
ResultRefused ==
  /\ results # <<>> /\ results' = Tail(results) /\ Trouble
  /\ UNCHANGED <<album, panel, page, knownEmpty, nav, hold, staging, queue, draw, shown,
                 disk, sync, mailbox, lane, inkloopOnly>>

-----------------------------------------------------------------------------
\* The browser: tryBegin(), tryWrite(), tryFinish(), tryAbort(), and commands.
Sends(event, next) ==
  upload' = [upload EXCEPT !.events = Append(@, event), !.browser = next]

browsing == <<display, server, disk, sync, mailbox, lane, online, onboarding>>

BrowserBegins ==
  /\ online /\ ~upload.accepted /\ upload.browser = "none" /\ Trouble
  /\ upload' = [upload EXCEPT !.accepted = TRUE, !.events = Append(@, "begin"), !.browser = "write"]
  /\ UNCHANGED <<browsing, commands>>

BrowserWrites ==
  /\ upload.accepted /\ upload.browser = "write"
  /\ Sends("chunk", "finish") /\ Calm /\ UNCHANGED <<browsing, commands>>

BrowserFinishes ==
  /\ upload.accepted /\ upload.browser = "finish"
  /\ Sends("finish", "none") /\ Calm /\ UNCHANGED <<browsing, commands>>

\* The connection breaks, or the server's patience ends.
BrowserAborts ==
  /\ upload.browser \in {"write", "finish"}
  /\ Sends("abort", "none") /\ Calm /\ UNCHANGED <<browsing, commands>>

BrowserCommands ==
  /\ online /\ Trouble
  /\ \E kind \in {"display", "delete"}, asset \in Assets :
       commands' = Append(commands, [kind |-> kind, asset |-> asset])
  /\ UNCHANGED <<browsing, upload>>

-----------------------------------------------------------------------------
\* The server, the network, the wish for a page, and the power.
environment == <<display, disk, sync, mailbox, lane, commands, upload>>

NewPlan ==
  /\ server.revision < Len(Plans)
  /\ server' = [server EXCEPT !.revision = @ + 1]
  /\ Calm /\ UNCHANGED <<environment, online, onboarding>>

Pair ==
  /\ ~server.paired /\ disk.registered /\ server' = [server EXCEPT !.paired = TRUE]
  /\ Calm /\ UNCHANGED <<environment, online, onboarding>>

Unpair ==
  /\ server.paired /\ server' = [server EXCEPT !.paired = FALSE]
  /\ Trouble /\ UNCHANGED <<environment, online, onboarding>>

Network ==
  /\ online' = ~online
  /\ IF online THEN Trouble ELSE Calm
  /\ UNCHANGED <<environment, server, onboarding>>

PageWish ==
  /\ onboarding' = [onboarding EXCEPT !.wanted = ~@]
  /\ IF onboarding.wanted THEN Calm ELSE Trouble
  /\ UNCHANGED <<environment, server, online>>

PowerCut ==
  /\ Trouble /\ DisplayCut
  /\ sync' = [required |-> ~disk.registered, synchronized |-> disk.registered]
  /\ mailbox' = NoMail /\ lane' = At("pages")
  /\ onboarding' = [onboarding EXCEPT !.stands = FALSE]
  /\ commands' = <<>> /\ upload' = NoUpload
  /\ UNCHANGED <<server, disk, online>>

-----------------------------------------------------------------------------
InkloopLane ==
  \/ ResultLost \/ ResultLate \/ InkloopBegins \/ NoSync \/ Register \/ SyncTasks \/ SaveRevision \/ Reconcile
  \/ NoTask \/ RunDueTask \/ BeginDownload \/ EndDownload

PortalLane ==
  \/ ServicePages \/ Drain \/ ServiceCommand
  \/ UploadBegin \/ UploadChunk \/ UploadFinish \/ UploadAbort \/ DrainDone
  \/ InkloopLane

untouched == <<server, disk, sync, mailbox, lane, online, onboarding, commands, upload>>

Browser == BrowserWrites \/ BrowserFinishes \/ BrowserAborts

Next ==
  \/ PortalLane
  \/ DisplayLane /\ UNCHANGED untouched
  \/ SelectRelative /\ UNCHANGED untouched
  \/ HoldExpires /\ UNCHANGED untouched
  \/ HandleControlResult \/ ResultRefused
  \/ BrowserBegins \/ Browser \/ BrowserCommands
  \/ NewPlan \/ Pair \/ Unpair \/ Network \/ PageWish \/ PowerCut

Spec == Init /\ [][Next]_vars

(* The lanes go on; a poll or a retry whose time comes again and again is   *)
(* made in the end; the HTTP server's task brings an upload to its end.     *)
FairSpec ==
  /\ Spec
  /\ WF_vars(PortalLane)
  /\ WF_vars(DisplayLane /\ UNCHANGED untouched)
  /\ WF_vars(HandleControlResult)
  /\ WF_vars(HoldExpires /\ UNCHANGED untouched)
  /\ WF_vars(Browser)
  /\ SF_vars(ResultLost)
  /\ SF_vars(Register \/ SyncTasks)
  /\ SF_vars(RunDueTask \/ BeginDownload)

-----------------------------------------------------------------------------
(* A task is recorded as done only when, since its frame was queued, the    *)
(* Display lane has put that frame on the glass, or has found it to be the  *)
(* current one: a result of an earlier request, or an image that has moved  *)
(* to another place in the album, does not count                            *)
(* (native_inkloop_service.cpp:395-453).                                    *)
MarkedWasShown ==
  [][\A i \in DOMAIN disk.tasks :
       /\ ~disk.tasks[i].ran
       /\ i \in DOMAIN disk'.tasks /\ disk'.tasks[i] = [disk.tasks[i] EXCEPT !.ran = TRUE]
       => AssetOf(disk.tasks[i]) \in shown]_vars

\* The server and the network have settled, and no upload stays half done.
Settled == []<>~upload.active /\ <>[](online /\ server.paired)

PlanApplied ==
  LET plan == Plan(server.revision)
  IN  /\ disk.applied = server.revision
      /\ Len(disk.tasks) = Len(plan)
      /\ \A i \in DOMAIN plan :
           /\ disk.tasks[i].id = plan[i].id /\ disk.tasks[i].revision = plan[i].revision
           /\ disk.tasks[i].frame = plan[i].frame
      /\ \A asset \in Assets : Retained(asset)

(* The device ends up with the server's plan and with no image of an        *)
(* earlier one, wherever the power was cut between the task file, its       *)
(* revision and the album (inkloop_cloud_client.cpp:442-475,                *)
(* native_inkloop_service.cpp:201-238).                                     *)
PlanConverges == Settled => <>[]PlanApplied

(* Every task of the plan is shown and recorded as done in the end, though  *)
(* results are lost or late, the glass fails, the user draws something      *)
(* else, or the image was removed (native_inkloop_service.cpp:322-466).     *)
EveryTaskShown == Settled => <>[](PlanApplied /\ Due = {})

(* An onboarding page that is not wanted any more gives way to the album,   *)
(* if there is an image to show (product_runtime.cpp:731-738,               *)
(* native_display_service.cpp:487-516, 635-690).                            *)
PageGivesWay ==
  Settled /\ <>[]~onboarding.wanted => []<>(~page.visible \/ Assets = {})

(* slow_io_arbitration.hpp:5-10 says of Portal that it drains the work it   *)
(* has accepted: an upload it has accepted ends.  It does not when the      *)
(* upload's first event is drained a tick before its last one.              *)
AcceptedUploadEnds == <>[]online => (upload.accepted ~> ~upload.accepted)
=============================================================================
