---------------------------- MODULE TaskSync_proofs ----------------------------
(***************************************************************************)
(* That a task is recorded as done only when its frame was shown, for      *)
(* every sequence of plans, any number of request ids and any number of    *)
(* faults.  The argument follows one request: while its result is awaited  *)
(* the Portal lane does not get to the stages that change the album or the *)
(* task file, so that the place the command names stays the frame's, and   *)
(* no other command or result bears its id.                                *)
(***************************************************************************)
EXTENDS TaskSync, TLAPS, FiniteSetTheorems

IsSequence(s) == Len(s) \in Nat /\ s = [i \in 1..Len(s) |-> s[i]]

Awaited == AssetOf(mailbox.task)
Awaits(request) == mailbox.at = "waiting" /\ mailbox.request = request
HasAwaited(assets, ordinal) == ordinal \in DOMAIN assets /\ assets[ordinal] = Awaited

\* The records keep their fields.
Shapes ==
  /\ mailbox = [at |-> mailbox.at, task |-> mailbox.task, request |-> mailbox.request]
  /\ mailbox.at \in {"idle", "waiting", "ready"}
  /\ mailbox.at = "waiting" => mailbox.request \in Requests
  /\ lane = [at |-> lane.at, served |-> lane.served, panel |-> lane.panel,
             fetched |-> lane.fetched, task |-> lane.task]
  /\ draw = [at |-> draw.at, source |-> draw.source, ordinal |-> draw.ordinal,
             request |-> draw.request, index |-> draw.index]
  /\ album = [assets |-> album.assets, current |-> album.current]
  /\ disk = [tasks |-> disk.tasks, applied |-> disk.applied, registered |-> disk.registered]
  /\ server = [revision |-> server.revision, paired |-> server.paired]
  /\ server.revision \in 0..Len(Plans)
  /\ \A i \in DOMAIN disk.tasks :
       disk.tasks[i] = [id |-> disk.tasks[i].id, revision |-> disk.tasks[i].revision,
                        frame |-> disk.tasks[i].frame, ran |-> disk.tasks[i].ran]
  /\ IsSequence(album.assets) /\ IsSequence(queue) /\ IsSequence(results)

\* While a request is under way the Portal lane only passes by.
LanePasses == mailbox.at # "idle" => lane.at \in {"pages", "drain", "inkloop"}

TasksDistinct ==
  \A i, j \in DOMAIN disk.tasks : disk.tasks[i].id = disk.tasks[j].id => i = j

\* The task file still holds the frame that is to be shown.
FrameOf(task) ==
  \A i \in DOMAIN disk.tasks :
    disk.tasks[i].id = task.id /\ disk.tasks[i].revision = task.revision
      => disk.tasks[i].frame = task.frame
FramesKept ==
  /\ mailbox.at # "idle" => FrameOf(mailbox.task)
  /\ lane.at = "frame" => FrameOf(lane.task)

CommandsMean ==
  \A i \in DOMAIN queue :
    /\ queue[i].source = "task" \/ queue[i].request = 0
    /\ Awaits(queue[i].request) => HasAwaited(album.assets, queue[i].ordinal)

DrawMeans ==
  /\ draw.source = "task" \/ draw.request = 0
  /\ Awaits(draw.request) =>
       /\ draw.at = "read" => HasAwaited(album.assets, draw.ordinal)
       /\ draw.at \in {"write", "mark"} => draw.index.assets[draw.ordinal] = Awaited

ResultsMean ==
  \A i \in DOMAIN results :
    Awaits(results[i].request) /\ results[i].ok => Awaited \in shown

ReadyWasShown == mailbox.at = "ready" => Awaited \in shown

TaskInv ==
  /\ Shapes /\ LanePasses /\ TasksDistinct /\ FramesKept
  /\ CommandsMean /\ DrawMeans /\ ResultsMean /\ ReadyWasShown

-----------------------------------------------------------------------------
(* Sequences whose elements are not told apart by type. *)

\* A function on 1..n is a sequence.
LEMMA FunctionIsSequence ==
  ASSUME NEW n \in Nat, NEW f, f = [i \in 1..n |-> f[i]]
  PROVE  IsSequence(f) /\ Len(f) = n /\ DOMAIN f = 1..n
<1> DEFINE S == {f[i] : i \in 1..n}
<1>1. f \in [1..n -> S]
  OBVIOUS
<1>2. f \in Seq(S) /\ Len(f) = n
  BY <1>1
<1> QED
  BY <1>1, <1>2 DEF IsSequence

\* So is a sequence of typed elements.
LEMMA MemberIsSequence ==
  ASSUME NEW S, NEW s \in Seq(S)
  PROVE  IsSequence(s)
<1>1. Len(s) \in Nat /\ s \in [1..Len(s) -> S]
  OBVIOUS
<1> QED
  BY <1>1 DEF IsSequence

LEMMA EmptySequence == IsSequence(<<>>) /\ DOMAIN <<>> = {}
<1>1. <<>> \in Seq({})
  OBVIOUS
<1>2. DOMAIN <<>> = {}
  OBVIOUS
<1> QED
  BY <1>1, <1>2, MemberIsSequence

\* What Append() and Tail() do to one.
LEMMA AppendSequence ==
  ASSUME NEW s, IsSequence(s), NEW x
  PROVE  /\ IsSequence(Append(s, x))
         /\ DOMAIN Append(s, x) = 1..(Len(s) + 1)
         /\ Len(Append(s, x)) = Len(s) + 1
         /\ \A i \in DOMAIN Append(s, x) :
              \/ i \in DOMAIN s /\ Append(s, x)[i] = s[i]
              \/ i = Len(s) + 1 /\ Append(s, x)[i] = x
<1> DEFINE S == {s[i] : i \in 1..Len(s)} \cup {x}
<1>1. s \in Seq(S) /\ x \in S
  BY DEF IsSequence
<1> HIDE DEF S
<1>2. Append(s, x) \in Seq(S) /\ Len(Append(s, x)) = Len(s) + 1
  BY <1>1
<1>3. \A i \in 1..(Len(s) + 1) : Append(s, x)[i] = IF i = Len(s) + 1 THEN x ELSE s[i]
  BY <1>1
<1>4. DOMAIN s = 1..Len(s) /\ Len(s) \in Nat
  BY <1>1
<1>5. DOMAIN Append(s, x) = 1..(Len(s) + 1)
  BY <1>2
<1>6. IsSequence(Append(s, x))
  BY <1>2, MemberIsSequence
<1> QED
  BY <1>2, <1>3, <1>4, <1>5, <1>6

LEMMA TailSequence ==
  ASSUME NEW s, IsSequence(s), s # <<>>
  PROVE  /\ IsSequence(Tail(s))
         /\ 1 \in DOMAIN s /\ Head(s) = s[1]
         /\ \A i \in DOMAIN Tail(s) : i + 1 \in DOMAIN s /\ Tail(s)[i] = s[i + 1]
<1> DEFINE S == {s[i] : i \in 1..Len(s)}
<1>1. s \in Seq(S)
  BY DEF IsSequence
<1> HIDE DEF S
<1>2. Tail(s) \in Seq(S) /\ Len(Tail(s)) = Len(s) - 1 /\ Len(s) \in Nat /\ Len(s) # 0
  BY <1>1
<1>3. DOMAIN s = 1..Len(s) /\ DOMAIN Tail(s) = 1..(Len(s) - 1) /\ Head(s) = s[1]
  BY <1>1, <1>2
<1>4. \A i \in 1..(Len(s) - 1) : Tail(s)[i] = s[i + 1]
  BY <1>1, <1>2
<1>5. IsSequence(Tail(s))
  BY <1>2, MemberIsSequence
<1> QED
  BY <1>2, <1>3, <1>4, <1>5

\* Removing assets leaves a sequence.
LEMMA KeepSequence ==
  ASSUME NEW s, IsSequence(s), NEW kept
  PROVE  IsSequence(Keep(s, kept))
<1> DEFINE at == {i \in DOMAIN s : s[i] \in kept}
<1>1. DOMAIN s = 1..Len(s) /\ Len(s) \in Nat
  BY DEF IsSequence
<1>2. IsFiniteSet(1..Len(s))
  BY <1>1, FS_Interval
<1>3. IsFiniteSet(at)
  BY <1>1, <1>2, FS_Subset
<1>4. Cardinality(at) \in Nat
  BY <1>3, FS_CardinalityType
<1> QED
  BY <1>4, FunctionIsSequence DEF Keep

-----------------------------------------------------------------------------
(* Steps grouped by what they touch. *)

meaning == <<album, queue, draw, results, shown, disk, mailbox>>
LaneShape ==
  lane = [at |-> lane.at, served |-> lane.served, panel |-> lane.panel,
          fetched |-> lane.fetched, task |-> lane.task]
ServerShape ==
  /\ server = [revision |-> server.revision, paired |-> server.paired]
  /\ server.revision \in 0..Len(Plans)

\* Nothing an awaited request depends on changes.
LEMMA MeaningKept ==
  ASSUME TaskInv, UNCHANGED meaning, ServerShape', LaneShape', LanePasses',
         lane'.at = "frame" => FrameOf(lane'.task)
  PROVE  TaskInv'
<1>1. Shapes'
  BY DEF TaskInv, Shapes, meaning, ServerShape, LaneShape
<1>2. TasksDistinct'
  BY DEF TaskInv, TasksDistinct, meaning
<1>3. FramesKept'
  BY DEF TaskInv, FramesKept, FrameOf, meaning
<1>4. CommandsMean' /\ DrawMeans' /\ ResultsMean' /\ ReadyWasShown'
  BY DEF TaskInv, CommandsMean, DrawMeans, ResultsMean, ReadyWasShown, meaning,
         Awaits, HasAwaited, Awaited, AssetOf
<1> QED
  BY <1>1, <1>2, <1>3, <1>4 DEF TaskInv

\* No request is awaited after the step.
RequestsMarked ==
  /\ \A i \in DOMAIN queue : queue[i].source = "task" \/ queue[i].request = 0
  /\ draw.source = "task" \/ draw.request = 0

LEMMA NothingAwaited ==
  ASSUME Shapes', mailbox'.at = "idle", TasksDistinct', RequestsMarked',
         lane'.at = "frame" => FrameOf(lane.task)'
  PROVE  TaskInv'
BY DEF TaskInv, Shapes, LanePasses, FramesKept, CommandsMean, DrawMeans, ResultsMean,
       ReadyWasShown, RequestsMarked, Awaits

\* What the invariant says of requests, awaited or not.
LEMMA Marked ==
  ASSUME TaskInv
  PROVE  RequestsMarked
BY DEF TaskInv, RequestsMarked, CommandsMean, DrawMeans

LEMMA InitTaskInv ==
  ASSUME Init
  PROVE  TaskInv
<1>1. IsSequence(<<>>) /\ DOMAIN <<>> = {}
  BY EmptySequence
<1>3. IsSequence(album.assets) /\ album = [assets |-> album.assets, current |-> album.current]
  BY <1>1, AlbumOfAssets DEF Init, DisplayInit, EmptyAlbum, IsSequence
<1>4. mailbox.at = "idle" /\ lane.at = "pages" /\ disk.tasks = <<>> /\ queue = <<>>
      /\ draw = NoDraw /\ results = <<>>
  BY DEF Init, DisplayInit, NoMail, At
<1>5. Shapes
  BY <1>1, <1>3, <1>4, PlansOfTasks DEF Shapes, Init, DisplayInit, NoMail, At, NoDraw
<1> QED
  BY <1>1, <1>4, <1>5
     DEF TaskInv, LanePasses, TasksDistinct, FramesKept, CommandsMean, DrawMeans,
         ResultsMean, ReadyWasShown, Awaits, NoDraw

\* Steps that touch neither the lane nor the meaning of a request.
LEMMA Elsewhere ==
  ASSUME TaskInv, UNCHANGED <<meaning, server, lane>>
  PROVE  TaskInv'
<1>1. ServerShape' /\ LaneShape'
  BY DEF TaskInv, Shapes, ServerShape, LaneShape
<1>2. LanePasses' /\ (lane'.at = "frame" => FrameOf(lane'.task))
  BY DEF TaskInv, LanePasses, FramesKept, meaning
<1> QED
  BY <1>1, <1>2, MeaningKept

LEMMA ElsewhereSteps ==
  ASSUME TaskInv,
         \/ UploadBegin \/ UploadChunk \/ UploadAbort
         \/ BrowserBegins \/ Browser \/ BrowserCommands
         \/ Network \/ PageWish
         \/ (SelectRelative \/ HoldExpires) /\ UNCHANGED untouched
         \/ UNCHANGED vars
  PROVE  TaskInv'
<1>1. CASE UploadBegin \/ UploadChunk \/ UploadAbort
  BY <1>1, Elsewhere DEF UploadBegin, UploadChunk, UploadAbort, portalOnly, meaning
<1>2. CASE BrowserBegins \/ Browser \/ BrowserCommands \/ Network \/ PageWish
  BY <1>2, Elsewhere
     DEF BrowserBegins, Browser, BrowserWrites, BrowserFinishes, BrowserAborts,
         BrowserCommands, Network, PageWish, browsing, environment, display, meaning
<1>3. CASE ((SelectRelative \/ HoldExpires) /\ UNCHANGED untouched) \/ UNCHANGED vars
  BY <1>3, Elsewhere
     DEF SelectRelative, HoldExpires, untouched, vars, display, meaning
<1> QED
  BY <1>1, <1>2, <1>3

-----------------------------------------------------------------------------
(* The Portal lane. *)

\* The lane moves on.
LEMMA LaneSteps ==
  ASSUME TaskInv, ServicePages \/ Drain \/ DrainDone \/ NoSync \/ NoTask \/ BeginDownload
  PROVE  TaskInv'
<1>1. UNCHANGED <<meaning, server>>
  BY DEF ServicePages, Drain, DrainDone, NoSync, NoTask, BeginDownload, display, meaning,
         portalOnly, inkloopOnly, drawing
<1>2. ServerShape' /\ LaneShape'
  BY <1>1 DEF TaskInv, Shapes, ServerShape, LaneShape, ServicePages, Drain, DrainDone, NoSync,
              NoTask, BeginDownload, Goes, At
<1>3. LanePasses'
  BY <1>1 DEF TaskInv, Shapes, LanePasses, meaning, ServicePages, Drain, DrainDone, NoSync,
              NoTask, BeginDownload, Goes, At, PortalMayDrain, InkloopBusy
<1>4. ASSUME lane'.at = "frame" PROVE FrameOf(lane'.task)
  <2>1. BeginDownload
    BY <1>4 DEF TaskInv, Shapes, ServicePages, Drain, DrainDone, NoSync, NoTask, Goes, At
  <2>2. PICK task \in FirstDue : lane' = [lane EXCEPT !.at = "frame", !.task = task]
    BY <2>1 DEF BeginDownload
  <2>3. lane'.task = task
    BY <2>2 DEF TaskInv, Shapes
  <2>4. \E i \in DOMAIN disk.tasks : task = disk.tasks[i]
    BY <2>2 DEF FirstDue, Due
  <2> QED
    BY <2>3, <2>4 DEF TaskInv, TasksDistinct, FrameOf
<1> QED
  BY <1>1, <1>2, <1>3, <1>4, MeaningKept

\* The result is not awaited any more.
LEMMA ExpirySteps ==
  ASSUME TaskInv, ResultLost \/ ResultLate
  PROVE  TaskInv'
<1>1. mailbox' = NoMail /\ UNCHANGED <<album, queue, draw, results, shown, disk, server, lane>>
  BY DEF ResultLost, ResultLate, Expires, display
<1>2. Shapes'
  BY <1>1 DEF TaskInv, Shapes, NoMail
<1>3. TasksDistinct' /\ RequestsMarked'
  BY <1>1, Marked DEF TaskInv, TasksDistinct, RequestsMarked
<1>4. lane'.at = "frame" => FrameOf(lane.task)'
  BY <1>1 DEF TaskInv, FramesKept, FrameOf
<1> QED
  BY <1>1, <1>2, <1>3, <1>4, NothingAwaited DEF NoMail

\* Recording a task as done.
LEMMA BeginsStep ==
  ASSUME TaskInv, InkloopBegins
  PROVE  TaskInv'
<1>1. UNCHANGED <<album, queue, draw, results, shown, server>> /\ lane.at = "inkloop"
  BY DEF InkloopBegins, display
<1>2. LaneShape' /\ ServerShape' /\ lane'.at \in {"sync", "pages"}
  BY <1>1 DEF TaskInv, Shapes, LaneShape, ServerShape, InkloopBegins, At
<1>3. CASE UNCHANGED <<mailbox, disk>>
  <2>1. LanePasses'
    BY <1>3 DEF TaskInv, Shapes, LanePasses, InkloopBegins, At
  <2> QED
    BY <1>1, <1>2, <1>3, <2>1, MeaningKept DEF meaning
<1>4. CASE /\ mailbox' = NoMail
           /\ disk' = [disk EXCEPT !.tasks = Ran(@, mailbox.task.id, mailbox.task.revision)]
  <2>1. disk'.tasks = Ran(disk.tasks, mailbox.task.id, mailbox.task.revision)
    BY <1>4 DEF TaskInv, Shapes
  <2>2. /\ DOMAIN disk'.tasks = DOMAIN disk.tasks
        /\ \A i \in DOMAIN disk.tasks :
             disk'.tasks[i] \in {disk.tasks[i], [disk.tasks[i] EXCEPT !.ran = TRUE]}
    BY <2>1 DEF Ran
  <2>3. \A i \in DOMAIN disk.tasks :
          /\ disk'.tasks[i].id = disk.tasks[i].id
          /\ disk'.tasks[i] = [id |-> disk'.tasks[i].id, revision |-> disk'.tasks[i].revision,
                               frame |-> disk'.tasks[i].frame, ran |-> disk'.tasks[i].ran]
    BY <2>2 DEF TaskInv, Shapes
  <2>4. Shapes'
    BY <1>1, <1>2, <1>4, <2>2, <2>3
       DEF TaskInv, Shapes, NoMail, LaneShape, ServerShape
  <2>5. TasksDistinct'
    BY <2>2, <2>3 DEF TaskInv, TasksDistinct
  <2>6. RequestsMarked'
    BY <1>1, Marked DEF RequestsMarked
  <2> QED
    BY <1>2, <1>4, <2>4, <2>5, <2>6, NothingAwaited DEF NoMail
<1> QED
  BY <1>3, <1>4 DEF InkloopBegins

\* A new plan, its revision, and a registration.
LEMMA ReplacementTasks ==
  ASSUME TaskInv, NEW tasks, tasks = Replacement(Plan(server.revision))
  PROVE  /\ \A i \in DOMAIN tasks :
              tasks[i] = [id |-> tasks[i].id, revision |-> tasks[i].revision,
                          frame |-> tasks[i].frame, ran |-> tasks[i].ran]
         /\ \A i, j \in DOMAIN tasks : tasks[i].id = tasks[j].id => i = j
<1> DEFINE plan == Plan(server.revision)
<1>1. \A i, j \in DOMAIN plan : plan[i].id = plan[j].id => i = j
  <2>1. CASE server.revision = 0
    BY <2>1 DEF Plan
  <2>2. CASE server.revision # 0
    BY <2>2, PlansOfTasks DEF Plan, TaskInv, Shapes
  <2> QED
    BY <2>1, <2>2
<1> HIDE DEF plan
<1>2. DOMAIN tasks = DOMAIN plan /\ \A i \in DOMAIN plan : tasks[i].id = plan[i].id
  BY DEF Replacement, plan
<1>3. \A i \in DOMAIN tasks :
        tasks[i] = [id |-> tasks[i].id, revision |-> tasks[i].revision,
                    frame |-> tasks[i].frame, ran |-> tasks[i].ran]
  BY DEF Replacement, plan
<1> QED
  BY <1>1, <1>2, <1>3

LEMMA SyncSteps ==
  ASSUME TaskInv, Register \/ SyncTasks \/ SaveRevision
  PROVE  TaskInv'
<1>1. /\ lane.at \in {"sync", "revision"} /\ mailbox.at = "idle"
      /\ UNCHANGED <<album, queue, draw, results, shown, server, mailbox>>
  BY DEF TaskInv, LanePasses, Register, SyncTasks, SaveRevision, display, inkloopOnly
<1>2. LaneShape' /\ lane'.at \in {"due", "prune", "revision"}
  BY DEF TaskInv, Shapes, LaneShape, Register, SyncTasks, SaveRevision, Goes
<1>3. /\ disk' = [tasks |-> disk'.tasks, applied |-> disk'.applied,
                  registered |-> disk'.registered]
      /\ disk'.tasks = disk.tasks \/ disk'.tasks = Replacement(Plan(server.revision))
  BY DEF TaskInv, Shapes, Register, SyncTasks, SaveRevision
<1>4. /\ \A i \in DOMAIN disk'.tasks :
           disk'.tasks[i] = [id |-> disk'.tasks[i].id, revision |-> disk'.tasks[i].revision,
                             frame |-> disk'.tasks[i].frame, ran |-> disk'.tasks[i].ran]
      /\ TasksDistinct'
  BY <1>3, ReplacementTasks DEF TaskInv, Shapes, TasksDistinct
<1>5. Shapes'
  BY <1>1, <1>2, <1>3, <1>4 DEF TaskInv, Shapes, LaneShape
<1>6. RequestsMarked'
  BY <1>1, Marked DEF RequestsMarked
<1> QED
  BY <1>1, <1>2, <1>4, <1>5, <1>6, NothingAwaited

\* The album loses images, by a command or with the plan that named them, or
\* gains the uploaded one.
LEMMA KeepsCurrentShape ==
  ASSUME TaskInv, NEW kept,
         album' = KeepsCurrent([album EXCEPT !.assets = Keep(@, kept)])
  PROVE  /\ album' = [assets |-> album'.assets, current |-> album'.current]
         /\ IsSequence(album'.assets)
<1>1. /\ album = [assets |-> album.assets, current |-> album.current]
      /\ IsSequence(Keep(album.assets, kept))
  BY KeepSequence DEF TaskInv, Shapes
<1> DEFINE a == [album EXCEPT !.assets = Keep(@, kept)]
<1>2. a = [assets |-> Keep(album.assets, kept), current |-> album.current]
  BY <1>1
<1> HIDE DEF a
<1>3. album' = a \/ album' = [a EXCEPT !.current = None]
  BY DEF KeepsCurrent, a
<1> QED
  BY <1>1, <1>2, <1>3

AlbumShape ==
  /\ album = [assets |-> album.assets, current |-> album.current]
  /\ IsSequence(album.assets)

\* The album changes while no request is under way.
LEMMA AlbumChanges ==
  ASSUME TaskInv, mailbox.at = "idle", AlbumShape', LaneShape', lane'.at # "frame",
         IsSequence(queue)',
         \A i \in DOMAIN queue' : queue'[i].source = "task" \/ queue'[i].request = 0,
         UNCHANGED <<draw, results, shown, disk, mailbox, server>>
  PROVE  TaskInv'
<1>1. Shapes'
  BY DEF TaskInv, Shapes, AlbumShape, LaneShape
<1>2. TasksDistinct' /\ RequestsMarked'
  BY Marked DEF TaskInv, TasksDistinct, RequestsMarked
<1> QED
  BY <1>1, <1>2, NothingAwaited

LEMMA ReconcileStep ==
  ASSUME TaskInv, Reconcile
  PROVE  TaskInv'
<1>1. /\ lane.at = "prune" /\ mailbox.at = "idle"
      /\ UNCHANGED <<queue, draw, results, shown, disk, mailbox, server>>
  BY DEF TaskInv, LanePasses, Reconcile, drawing, inkloopOnly
<1>2. LaneShape' /\ lane'.at = "due"
  BY DEF TaskInv, Shapes, LaneShape, Reconcile, Goes
<1>3. AlbumShape'
  <2>1. CASE album' = album
    BY <2>1 DEF AlbumShape, TaskInv, Shapes
  <2>2. CASE album' # album
    BY <2>2, KeepsCurrentShape DEF AlbumShape, Reconcile
  <2> QED
    BY <2>1, <2>2
<1> QED
  BY <1>1, <1>2, <1>3, AlbumChanges, Marked DEF RequestsMarked, TaskInv, Shapes

LEMMA CommandStep ==
  ASSUME TaskInv, ServiceCommand
  PROVE  TaskInv'
<1>1. /\ lane.at = "portal" /\ mailbox.at = "idle"
      /\ UNCHANGED <<draw, results, shown, disk, mailbox, server>>
  BY DEF TaskInv, LanePasses, ServiceCommand, portalOnly, DisplayAlbumItem, DeleteAlbumItem
<1>2. LaneShape' /\ lane'.at = "portal"
  BY <1>1 DEF TaskInv, Shapes, LaneShape, ServiceCommand
<1>3. \/ UNCHANGED <<album, queue>>
      \/ DisplayAlbumItem(Head(commands).asset)
      \/ DeleteAlbumItem(Head(commands).asset)
  BY DEF ServiceCommand
<1>4. AlbumShape'
  <2>1. CASE album' = album
    BY <2>1 DEF AlbumShape, TaskInv, Shapes
  <2>2. CASE album' # album
    BY <1>3, <2>2, KeepsCurrentShape DEF AlbumShape, DisplayAlbumItem, DeleteAlbumItem
  <2> QED
    BY <2>1, <2>2
<1>5. /\ IsSequence(queue)'
      /\ \A i \in DOMAIN queue' : queue'[i].source = "task" \/ queue'[i].request = 0
  <2>1. CASE queue' = queue
    BY <2>1, Marked DEF RequestsMarked, TaskInv, Shapes
  <2>2. CASE queue' # queue
    <3>1. PICK command : queue' = Append(queue, command) /\ command.request = 0
      BY <1>3, <2>2 DEF DisplayAlbumItem, DeleteAlbumItem
    <3> QED
      BY <3>1, Marked, AppendSequence DEF RequestsMarked, TaskInv, Shapes
  <2> QED
    BY <2>1, <2>2
<1> QED
  BY <1>1, <1>2, <1>4, <1>5, AlbumChanges

LEMMA FinishStep ==
  ASSUME TaskInv, UploadFinish
  PROVE  TaskInv'
<1>1. /\ lane.at = "portal" /\ mailbox.at = "idle"
      /\ UNCHANGED <<queue, draw, results, shown, disk, mailbox, server, lane>>
  BY DEF TaskInv, LanePasses, UploadFinish, Serves, portalOnly
<1>2. \/ album' = album
      \/ album' = [album EXCEPT !.assets = Append(@, UploadedImage)]
  BY DEF UploadFinish, TaskInv, Shapes
<1>3. AlbumShape'
  <2>1. CASE album' = album
    BY <2>1 DEF AlbumShape, TaskInv, Shapes
  <2>2. CASE album' = [album EXCEPT !.assets = Append(@, UploadedImage)]
    <3>1. album' = [assets |-> Append(album.assets, UploadedImage), current |-> album.current]
      BY <2>2 DEF TaskInv, Shapes
    <3>2. IsSequence(Append(album.assets, UploadedImage))
      BY AppendSequence DEF TaskInv, Shapes
    <3> QED
      BY <3>1, <3>2 DEF AlbumShape
  <2> QED
    BY <1>2, <2>1, <2>2
<1>4. LaneShape' /\ lane'.at # "frame"
  BY <1>1 DEF TaskInv, Shapes, LaneShape
<1> QED
  BY <1>1, <1>3, <1>4, AlbumChanges, Marked DEF RequestsMarked, TaskInv, Shapes

\* A frame is queued under an id nothing else bears.
LEMMA Queued ==
  ASSUME TaskInv, mailbox.at = "idle", AlbumShape', NEW task, FrameOf(task), NEW ordinal,
         ordinal \in DOMAIN album'.assets, album'.assets[ordinal] = AssetOf(task),
         QueueDisplay(task, ordinal),
         lane' = At("pages"), UNCHANGED <<draw, results, disk, server>>
  PROVE  TaskInv'
<1>1. LaneShape' /\ lane'.at = "pages"
  BY DEF LaneShape, At
<1>2. CASE UNCHANGED <<mailbox, queue, shown>>
  BY <1>1, <1>2, AlbumChanges, Marked DEF RequestsMarked, TaskInv, Shapes
<1>3. ASSUME NEW id \in Requests, Unused(id),
             mailbox' = [at |-> "waiting", task |-> task, request |-> id],
             queue' = Append(queue, [source |-> "task", request |-> id, ordinal |-> ordinal])
      PROVE  TaskInv'
  <2>1. IsSequence(queue')
    BY <1>3, AppendSequence DEF TaskInv, Shapes
  <2>2. Shapes'
    BY <1>1, <1>3, <2>1 DEF TaskInv, Shapes, AlbumShape, LaneShape
  <2>3. LanePasses' /\ TasksDistinct' /\ FramesKept' /\ ReadyWasShown'
    BY <1>1, <1>3 DEF TaskInv, LanePasses, TasksDistinct, FramesKept, FrameOf, ReadyWasShown
  <2>4. mailbox'.request = id /\ Awaited' = AssetOf(task) /\ id # 0
    BY <1>3, RequestIds DEF Awaited, AssetOf
  <2>5. CommandsMean'
    <3> SUFFICES ASSUME NEW i \in DOMAIN queue'
                 PROVE  /\ queue'[i].source = "task" \/ queue'[i].request = 0
                        /\ queue'[i].request = id => /\ queue'[i].ordinal \in DOMAIN album'.assets
                                                    /\ album'.assets[queue'[i].ordinal] = AssetOf(task)
      BY <2>4 DEF CommandsMean, Awaits, HasAwaited
    <3>1. CASE i \in DOMAIN queue /\ queue'[i] = queue[i]
      BY <1>3, <3>1, Marked DEF RequestsMarked, Unused
    <3>2. CASE queue'[i] = [source |-> "task", request |-> id, ordinal |-> ordinal]
      BY <3>2
    <3> QED
      BY <1>3, <3>1, <3>2, AppendSequence DEF TaskInv, Shapes
  <2>6. DrawMeans' /\ ResultsMean'
    BY <1>3, <2>4, Marked DEF RequestsMarked, DrawMeans, ResultsMean, Awaits, Unused
  <2> QED
    BY <2>2, <2>3, <2>5, <2>6 DEF TaskInv
<1> QED
  BY <1>2, <1>3 DEF QueueDisplay

LEMMA RunStep ==
  ASSUME TaskInv, RunDueTask
  PROVE  TaskInv'
<1>1. /\ lane.at = "due" /\ mailbox.at = "idle"
      /\ UNCHANGED <<album, draw, results, disk, server>> /\ lane' = At("pages")
  BY DEF TaskInv, LanePasses, RunDueTask, inkloopOnly
<1>2. PICK task \in FirstDue :
        AssetOf(task) \in Assets /\ QueueDisplay(task, OrdinalIn(album, AssetOf(task)))
  BY DEF RunDueTask
<1>3. FrameOf(task)
  <2>1. \E i \in DOMAIN disk.tasks : task = disk.tasks[i]
    BY <1>2 DEF FirstDue, Due
  <2> QED
    BY <2>1 DEF TaskInv, TasksDistinct, FrameOf
<1>5. /\ OrdinalIn(album, AssetOf(task)) \in DOMAIN album.assets
      /\ album.assets[OrdinalIn(album, AssetOf(task))] = AssetOf(task)
  BY <1>2 DEF OrdinalIn, Assets
<1>6. AlbumShape'
  BY <1>1 DEF AlbumShape, TaskInv, Shapes
<1> QED
  BY <1>1, <1>2, <1>3, <1>5, <1>6, Queued

LEMMA DownloadStep ==
  ASSUME TaskInv, EndDownload
  PROVE  TaskInv'
<1>1. /\ lane.at = "frame" /\ mailbox.at = "idle"
      /\ UNCHANGED <<draw, results, disk, server>> /\ lane' = At("pages")
  BY DEF TaskInv, LanePasses, EndDownload, inkloopOnly
<1>2. LaneShape' /\ lane'.at = "pages"
  BY <1>1 DEF LaneShape, At
<1>3. CASE UNCHANGED <<album, mailbox, queue, shown>>
  BY <1>1, <1>2, <1>3, AlbumChanges, Marked DEF RequestsMarked, TaskInv, Shapes, AlbumShape
<1>4. CASE album' = [album EXCEPT !.assets = Append(@, AssetOf(lane.task))]
  <2>1. album' = [assets |-> Append(album.assets, AssetOf(lane.task)), current |-> album.current]
    BY <1>4 DEF TaskInv, Shapes
  <2>2. /\ IsSequence(album'.assets) /\ Len(album'.assets) = Len(album.assets) + 1
        /\ DOMAIN album'.assets = 1..(Len(album.assets) + 1)
        /\ Len(album.assets) \in Nat
    BY <2>1, AppendSequence DEF TaskInv, Shapes, IsSequence
  <2>3. album'.assets[Len(album'.assets)] = AssetOf(lane.task)
    <3>1. ~(Len(album.assets) + 1 \in DOMAIN album.assets)
      BY <2>2 DEF TaskInv, Shapes, IsSequence
    <3> QED
      BY <2>1, <2>2, <3>1, AppendSequence DEF TaskInv, Shapes
  <2>4. AlbumShape'
    BY <2>1, <2>2 DEF AlbumShape
  <2>5. CASE QueueDisplay(lane.task, Len(album'.assets))
    <3>1. FrameOf(lane.task)
      BY <1>1 DEF TaskInv, FramesKept
    <3>2. Len(album'.assets) \in DOMAIN album'.assets
      BY <2>2
    <3> QED
      BY <1>1, <2>3, <2>4, <2>5, <3>1, <3>2, Queued
  <2>6. CASE UNCHANGED <<mailbox, queue, shown>>
    BY <1>1, <1>2, <2>4, <2>6, AlbumChanges, Marked DEF RequestsMarked, TaskInv, Shapes
  <2> QED
    BY <1>4, <2>5, <2>6 DEF EndDownload
<1> QED
  BY <1>3, <1>4 DEF EndDownload

-----------------------------------------------------------------------------
(* The Control lane, the server and the power. *)

LEMMA ResultSteps ==
  ASSUME TaskInv, HandleControlResult \/ ResultRefused
  PROVE  TaskInv'
<1>1. /\ results # <<>> /\ results' = Tail(results)
      /\ UNCHANGED <<album, queue, draw, shown, disk, server, lane>>
  BY DEF HandleControlResult, ResultRefused, inkloopOnly
<1>2. /\ IsSequence(results') /\ 1 \in DOMAIN results /\ Head(results) = results[1]
      /\ \A i \in DOMAIN results' : i + 1 \in DOMAIN results /\ results'[i] = results[i + 1]
  BY <1>1, TailSequence DEF TaskInv, Shapes
<1>3. CASE mailbox' = mailbox
  <2>1. Shapes' /\ LanePasses' /\ TasksDistinct' /\ FramesKept'
    BY <1>1, <1>2, <1>3 DEF TaskInv, Shapes, LanePasses, TasksDistinct, FramesKept, FrameOf
  <2>2. CommandsMean' /\ DrawMeans' /\ ReadyWasShown'
    BY <1>1, <1>3 DEF TaskInv, CommandsMean, DrawMeans, ReadyWasShown, Awaits, HasAwaited,
                      Awaited, AssetOf
  <2>3. ResultsMean'
    BY <1>1, <1>2, <1>3 DEF TaskInv, ResultsMean, Awaits, Awaited, AssetOf
  <2> QED
    BY <2>1, <2>2, <2>3 DEF TaskInv
<1>4. CASE mailbox' = NoMail
  <2>1. Shapes'
    BY <1>1, <1>2, <1>4 DEF TaskInv, Shapes, NoMail
  <2>2. TasksDistinct' /\ RequestsMarked' /\ (lane'.at = "frame" => FrameOf(lane.task)')
    BY <1>1, Marked DEF TaskInv, TasksDistinct, RequestsMarked, FramesKept, FrameOf
  <2> QED
    BY <1>4, <2>1, <2>2, NothingAwaited DEF NoMail
<1>5. CASE /\ mailbox' = [mailbox EXCEPT !.at = "ready"]
           /\ Awaits(Head(results).request) /\ Head(results).ok
  <2>1. Awaited \in shown
    BY <1>2, <1>5 DEF TaskInv, ResultsMean
  <2>2. mailbox'.at = "ready" /\ mailbox'.task = mailbox.task
    BY <1>5 DEF TaskInv, Shapes
  <2>3. Shapes'
    BY <1>1, <1>2, <1>5 DEF TaskInv, Shapes, Awaits
  <2>4. LanePasses' /\ TasksDistinct' /\ FramesKept'
    BY <1>1, <1>5, <2>2 DEF TaskInv, LanePasses, TasksDistinct, FramesKept, FrameOf, Awaits
  <2>5. CommandsMean' /\ DrawMeans' /\ ResultsMean'
    BY <1>1, <2>2, Marked
       DEF RequestsMarked, CommandsMean, DrawMeans, ResultsMean, Awaits
  <2>6. ReadyWasShown'
    BY <1>1, <2>1, <2>2 DEF ReadyWasShown, Awaited, AssetOf
  <2> QED
    BY <2>3, <2>4, <2>5, <2>6 DEF TaskInv
<1> QED
  BY <1>3, <1>4, <1>5 DEF HandleControlResult, ResultRefused, Awaits

LEMMA ServerSteps ==
  ASSUME TaskInv, NewPlan \/ Pair \/ Unpair
  PROVE  TaskInv'
<1>1. UNCHANGED <<meaning, lane>>
  BY DEF NewPlan, Pair, Unpair, environment, display, meaning
<1>2. ServerShape'
  BY PlansOfTasks DEF TaskInv, Shapes, ServerShape, NewPlan, Pair, Unpair
<1>3. LaneShape' /\ LanePasses' /\ (lane'.at = "frame" => FrameOf(lane'.task))
  BY <1>1 DEF TaskInv, Shapes, LaneShape, LanePasses, FramesKept, meaning
<1> QED
  BY <1>1, <1>2, <1>3, MeaningKept

LEMMA CutStep ==
  ASSUME TaskInv, PowerCut
  PROVE  TaskInv'
<1>1. /\ UNCHANGED <<album, disk, server>> /\ queue' = <<>> /\ results' = <<>>
      /\ draw' = NoDraw /\ mailbox' = NoMail /\ lane' = At("pages")
  BY DEF PowerCut, DisplayCut
<1>2. IsSequence(<<>>) /\ DOMAIN <<>> = {}
  BY EmptySequence
<1>3. Shapes'
  BY <1>1, <1>2 DEF TaskInv, Shapes, NoDraw, NoMail, At
<1>4. TasksDistinct' /\ RequestsMarked'
  BY <1>1, <1>2 DEF TaskInv, TasksDistinct, RequestsMarked, NoDraw
<1> QED
  BY <1>1, <1>3, <1>4, NothingAwaited DEF NoMail, At

-----------------------------------------------------------------------------
(* The Display lane. *)

\* It changes neither the task file nor the mailbox, and only the album's
\* current image.
LEMMA DisplayKeeps ==
  ASSUME TaskInv, UNCHANGED untouched, AlbumShape', album'.assets = album.assets,
         IsSequence(queue)', IsSequence(results)', shown \subseteq shown',
         draw' = [at |-> draw'.at, source |-> draw'.source, ordinal |-> draw'.ordinal,
                  request |-> draw'.request, index |-> draw'.index],
         CommandsMean', DrawMeans', ResultsMean'
  PROVE  TaskInv'
<1>1. Shapes'
  BY DEF TaskInv, Shapes, AlbumShape, untouched
<1>2. LanePasses' /\ TasksDistinct' /\ FramesKept'
  BY DEF TaskInv, LanePasses, TasksDistinct, FramesKept, FrameOf, untouched
<1>3. ReadyWasShown'
  BY DEF TaskInv, ReadyWasShown, Awaited, AssetOf, untouched
<1> QED
  BY <1>1, <1>2, <1>3 DEF TaskInv

LEMMA CommandsStay ==
  ASSUME TaskInv, UNCHANGED <<mailbox, queue>>, album'.assets = album.assets
  PROVE  CommandsMean'
BY DEF TaskInv, CommandsMean, Awaits, HasAwaited, Awaited, AssetOf

\* A drawing ends: its result tells whether the frame was shown.
LEMMA DrawingEnds ==
  ASSUME TaskInv, UNCHANGED untouched, UNCHANGED queue, AlbumShape',
         album'.assets = album.assets,
         NEW p, NEW asset, NEW ok \in BOOLEAN, Ends(p, asset, ok),
         ok /\ Awaits(draw.request) => asset = Awaited
  PROVE  TaskInv'
<1>1. draw' = NoDraw /\ DrawMeans'
  BY RequestIds DEF Ends, NoDraw, DrawMeans, Awaits, TaskInv, Shapes, untouched
<1>2. shown \subseteq shown'
  BY DEF Ends
<1>3. IsSequence(queue)' /\ CommandsMean'
  BY CommandsStay DEF TaskInv, Shapes, untouched
<1>4. CASE draw.source = "task"
  <2>1. /\ results' = Append(results, [request |-> draw.request, ok |-> ok])
        /\ ok => asset \in shown'
    BY <1>4 DEF Ends, Answered
  <2>2. /\ IsSequence(results')
        /\ \A i \in DOMAIN results' :
             \/ i \in DOMAIN results /\ results'[i] = results[i]
             \/ results'[i] = [request |-> draw.request, ok |-> ok]
    BY <2>1, AppendSequence DEF TaskInv, Shapes
  <2>3. ResultsMean'
    BY <1>2, <2>1, <2>2 DEF TaskInv, ResultsMean, Awaits, Awaited, AssetOf, untouched
  <2> QED
    BY <1>1, <1>2, <1>3, <2>2, <2>3, DisplayKeeps DEF NoDraw
<1>5. CASE draw.source # "task"
  <2>1. results' = results
    BY <1>5 DEF Ends
  <2>2. IsSequence(results)' /\ ResultsMean'
    BY <1>2, <2>1 DEF TaskInv, Shapes, ResultsMean, Awaits, Awaited, AssetOf, untouched
  <2> QED
    BY <1>1, <1>2, <1>3, <2>2, DisplayKeeps DEF NoDraw
<1> QED
  BY <1>4, <1>5

\* Pages, restores and a settled choice carry no request.
LEMMA PageSteps ==
  ASSUME TaskInv, UNCHANGED untouched,
         ServicePage \/ DrawPage \/ ServiceRestore \/ ServiceNavigation
  PROVE  TaskInv'
<1>1. UNCHANGED <<album, queue, results, shown>>
  BY DEF ServicePage, DrawPage, ServiceRestore, ServiceNavigation
<1>2. /\ draw' = [at |-> draw'.at, source |-> draw'.source, ordinal |-> draw'.ordinal,
                  request |-> draw'.request, index |-> draw'.index]
      /\ draw' = draw \/ draw'.request = 0
  <2> DEFINE Plain(at, source, ordinal) ==
               [at |-> at, source |-> source, ordinal |-> ordinal, request |-> 0, index |-> None]
  <2>1. CASE draw' = draw
    BY <2>1 DEF TaskInv, Shapes
  <2>2. CASE draw' = Plain("page", "none", None) \/ draw' = Plain("idle", "none", None)
    BY <2>2
  <2>3. CASE draw' = Plain("read", "restore", None) \/ draw' = Plain("read", "button", nav.selected)
    BY <2>3
  <2>4. CASE ServicePage \/ DrawPage
    BY <2>2, <2>4 DEF ServicePage, DrawPage, NoDraw
  <2>5. CASE ServiceRestore \/ ServiceNavigation
    BY <2>1, <2>3, <2>5 DEF ServiceRestore, ServiceNavigation, Starts, NoDraw
  <2> QED
    BY <2>4, <2>5
<1>3. DrawMeans'
  BY <1>1, <1>2, RequestIds DEF TaskInv, Shapes, DrawMeans, Awaits, HasAwaited, Awaited, AssetOf,
                               untouched
<1>4. CommandsMean' /\ ResultsMean'
  BY <1>1, CommandsStay DEF TaskInv, ResultsMean, Awaits, Awaited, AssetOf, untouched
<1> QED
  BY <1>1, <1>2, <1>3, <1>4, DisplayKeeps DEF TaskInv, Shapes, AlbumShape

LEMMA HandleStep ==
  ASSUME TaskInv, UNCHANGED untouched, Handle
  PROVE  TaskInv'
<1> DEFINE c == Head(queue)
<1>1. /\ queue # <<>> /\ queue' = Tail(queue) /\ UNCHANGED <<album, shown>>
  BY DEF Handle
<1>2. /\ IsSequence(queue') /\ 1 \in DOMAIN queue /\ c = queue[1]
      /\ \A i \in DOMAIN queue' : i + 1 \in DOMAIN queue /\ queue'[i] = queue[i + 1]
  BY <1>1, TailSequence DEF TaskInv, Shapes
<1>3. CommandsMean'
  BY <1>1, <1>2 DEF TaskInv, CommandsMean, Awaits, HasAwaited, Awaited, AssetOf, untouched
<1>4. /\ c.source = "task" \/ c.request = 0
      /\ Awaits(c.request) => HasAwaited(album.assets, c.ordinal)
  BY <1>2 DEF TaskInv, CommandsMean
<1> HIDE DEF c
<1>5. CASE Answered(c.request, FALSE) /\ UNCHANGED draw
  <2>1. /\ IsSequence(results')
        /\ \A i \in DOMAIN results' :
             \/ i \in DOMAIN results /\ results'[i] = results[i]
             \/ results'[i] = [request |-> c.request, ok |-> FALSE]
    BY <1>5, AppendSequence DEF Answered, TaskInv, Shapes
  <2>2. ResultsMean' /\ DrawMeans'
    BY <1>1, <1>5, <2>1
       DEF TaskInv, ResultsMean, DrawMeans, Awaits, HasAwaited, Awaited, AssetOf, untouched
  <2> QED
    BY <1>1, <1>2, <1>3, <1>5, <2>1, <2>2, DisplayKeeps DEF TaskInv, Shapes, AlbumShape
<1>6. CASE Starts(c.source, c.ordinal, c.request) /\ UNCHANGED results
  <2>1. draw' = [at |-> "read", source |-> c.source, ordinal |-> c.ordinal,
                 request |-> c.request, index |-> None]
    BY <1>6 DEF Starts, NoDraw
  <2>2. DrawMeans'
    BY <1>1, <1>4, <2>1 DEF DrawMeans, Awaits, HasAwaited, Awaited, AssetOf, untouched
  <2>3. ResultsMean'
    BY <1>1, <1>6 DEF TaskInv, ResultsMean, Awaits, Awaited, AssetOf, untouched
  <2> QED
    BY <1>1, <1>2, <1>3, <1>6, <2>1, <2>2, <2>3, DisplayKeeps DEF TaskInv, Shapes, AlbumShape
<1> QED
  BY <1>5, <1>6 DEF Handle, c

LEMMA FailingSteps ==
  ASSUME TaskInv, UNCHANGED untouched, ReadFails \/ WriteFails \/ MarkFails
  PROVE  TaskInv'
<1>1. UNCHANGED <<album, queue>> /\ \E p : Ends(p, None, FALSE)
  BY DEF ReadFails, WriteFails, MarkFails
<1>2. AlbumShape'
  BY <1>1 DEF TaskInv, Shapes, AlbumShape
<1> QED
  BY <1>1, <1>2, DrawingEnds

LEMMA ReadStep ==
  ASSUME TaskInv, UNCHANGED untouched, ReadCatalog
  PROVE  TaskInv'
<1> DEFINE ordinal == Wanted(album)
           asset == album.assets[ordinal]
<1>1. draw.at = "read" /\ UNCHANGED <<album, queue>> /\ AlbumShape'
  BY DEF ReadCatalog, TaskInv, Shapes, AlbumShape
<1>2. Awaits(draw.request) =>
        draw.source = "task" /\ ordinal = draw.ordinal /\ asset = Awaited
  BY <1>1, RequestIds DEF TaskInv, Shapes, DrawMeans, Awaits, HasAwaited, Wanted
<1>3. CASE Count = 0
  <2>1. draw.source = "restore" /\ \E p : Ends(p, None, TRUE)
    BY <1>3 DEF ReadCatalog
  <2> QED
    BY <1>1, <1>2, <2>1, DrawingEnds
<1>4. CASE Count # 0 /\ ~page.visible /\ album.current = asset
  <2>1. \E p : Ends(p, asset, TRUE)
    BY <1>4 DEF ReadCatalog
  <2> QED
    BY <1>1, <1>2, <2>1, DrawingEnds
<1>5. CASE Count # 0 /\ ~(~page.visible /\ album.current = asset)
  <2>1. /\ draw' = [draw EXCEPT !.at = "write", !.ordinal = ordinal, !.index = album]
        /\ UNCHANGED <<results, shown>>
    BY <1>5 DEF ReadCatalog
  <2>2. draw' = [at |-> "write", source |-> draw.source, ordinal |-> ordinal,
                 request |-> draw.request, index |-> album]
    BY <2>1 DEF TaskInv, Shapes
  <2>3. DrawMeans'
    BY <1>2, <2>2, Marked DEF RequestsMarked, DrawMeans, Awaits, Awaited, AssetOf, untouched
  <2>4. CommandsMean' /\ ResultsMean'
    BY <1>1, <2>1, CommandsStay
       DEF TaskInv, ResultsMean, Awaits, Awaited, AssetOf, untouched
  <2> QED
    BY <1>1, <2>1, <2>2, <2>3, <2>4, DisplayKeeps DEF TaskInv, Shapes
<1> QED
  BY <1>3, <1>4, <1>5

LEMMA WriteStep ==
  ASSUME TaskInv, UNCHANGED untouched, WritePanel
  PROVE  TaskInv'
<1>1. /\ UNCHANGED <<album, queue, results, shown>> /\ draw.at = "write"
      /\ draw' = [at |-> "mark", source |-> draw.source, ordinal |-> draw.ordinal,
                  request |-> draw.request, index |-> draw.index]
  BY DEF WritePanel, TaskInv, Shapes
<1>2. DrawMeans'
  BY <1>1 DEF TaskInv, DrawMeans, Awaits, Awaited, AssetOf, untouched
<1>3. CommandsMean' /\ ResultsMean'
  BY <1>1, CommandsStay DEF TaskInv, ResultsMean, Awaits, Awaited, AssetOf, untouched
<1> QED
  BY <1>1, <1>2, <1>3, DisplayKeeps DEF TaskInv, Shapes, AlbumShape

LEMMA MarkStep ==
  ASSUME TaskInv, UNCHANGED untouched, MarkCurrent
  PROVE  TaskInv'
<1>1. /\ album' = [assets |-> album.assets, current |-> Target] /\ UNCHANGED queue
      /\ draw.at = "mark" /\ Ends(page, Target, TRUE)
  BY DEF MarkCurrent, TaskInv, Shapes
<1>2. AlbumShape' /\ album'.assets = album.assets
  BY <1>1 DEF TaskInv, Shapes, AlbumShape
<1>3. Awaits(draw.request) => Target = Awaited
  BY <1>1 DEF TaskInv, DrawMeans, Target
<1> QED
  BY <1>1, <1>2, <1>3, DrawingEnds

-----------------------------------------------------------------------------
LEMMA NextTaskInv ==
  ASSUME TaskInv, [Next]_vars
  PROVE  TaskInv'
<1>1. CASE PortalLane
  BY <1>1, ElsewhereSteps, LaneSteps, ExpirySteps, BeginsStep, SyncSteps, ReconcileStep,
     CommandStep, FinishStep, RunStep, DownloadStep DEF PortalLane, InkloopLane
<1>2. CASE DisplayLane /\ UNCHANGED untouched
  BY <1>2, PageSteps, HandleStep, FailingSteps, ReadStep, WriteStep, MarkStep DEF DisplayLane
<1> QED
  BY <1>1, <1>2, ElsewhereSteps, ResultSteps, ServerSteps, CutStep DEF Next

\* The place a scheduled command names stays its frame's, no other command or
\* result bears its id, and a request that is ready has had its frame shown.
THEOREM RequestsMean == Spec => []TaskInv
<1>1. Init => TaskInv
  BY InitTaskInv
<1>2. TaskInv /\ [Next]_vars => TaskInv'
  BY NextTaskInv
<1> QED
  BY <1>1, <1>2, PTL DEF Spec

\* One step: a task that becomes done is the one the mailbox holds.
LEMMA MarksTheShown ==
  ASSUME TaskInv, [Next]_vars, NEW i \in DOMAIN disk.tasks, ~disk.tasks[i].ran,
         i \in DOMAIN disk'.tasks, disk'.tasks[i] = [disk.tasks[i] EXCEPT !.ran = TRUE]
  PROVE  AssetOf(disk.tasks[i]) \in shown
<1>1. disk'.tasks[i].ran /\ disk'.tasks[i].id = disk.tasks[i].id
      /\ disk'.tasks[i].revision = disk.tasks[i].revision
  BY DEF TaskInv, Shapes
<1>2. disk'.tasks # disk.tasks
  BY <1>1
<1>3. CASE InkloopBegins
  <2>1. mailbox.at = "ready" /\ disk'.tasks = Ran(disk.tasks, mailbox.task.id, mailbox.task.revision)
    BY <1>2, <1>3 DEF InkloopBegins, TaskInv, Shapes
  <2>2. disk.tasks[i].id = mailbox.task.id /\ disk.tasks[i].revision = mailbox.task.revision
    BY <1>1, <2>1 DEF Ran
  <2>3. disk.tasks[i].frame = mailbox.task.frame
    BY <2>1, <2>2 DEF TaskInv, FramesKept, FrameOf
  <2> QED
    BY <2>1, <2>2, <2>3 DEF TaskInv, ReadyWasShown, Awaited, AssetOf
<1>4. CASE SyncTasks
  <2>1. disk'.tasks = Replacement(Plan(server.revision))
    BY <1>2, <1>4 DEF SyncTasks, TaskInv, Shapes
  <2>2. PICK j \in DOMAIN disk.tasks :
          /\ disk.tasks[j].id = disk'.tasks[i].id /\ disk.tasks[j].ran
    BY <1>1, <2>1 DEF Replacement
  <2>3. j = i
    BY <1>1, <2>2 DEF TaskInv, TasksDistinct
  <2> QED
    BY <2>2, <2>3
<1>5. CASE ~InkloopBegins /\ ~SyncTasks
  <2>1. disk'.tasks = disk.tasks
    <3>1. CASE PortalLane
      BY <1>5, <3>1
         DEF PortalLane, InkloopLane, ServicePages, Drain, ServiceCommand, UploadBegin,
             UploadChunk, UploadFinish, UploadAbort, DrainDone, ResultLost, ResultLate, NoSync,
             Register, SaveRevision, Reconcile, NoTask, RunDueTask, BeginDownload, EndDownload,
             portalOnly, TaskInv, Shapes
    <3>2. CASE ~PortalLane
      BY <1>5, <3>2
         DEF Next, vars, untouched, HandleControlResult, ResultRefused, BrowserBegins, Browser,
             BrowserWrites, BrowserFinishes, BrowserAborts, BrowserCommands, NewPlan, Pair,
             Unpair, Network, PageWish, PowerCut, browsing, environment
    <3> QED
      BY <3>1, <3>2
  <2> QED
    BY <1>2, <2>1
<1> QED
  BY <1>3, <1>4, <1>5

(* A task is recorded as done only when its frame has been put on the glass, *)
(* or found current, since it was queued (native_inkloop_service.cpp:395-453).*)
THEOREM DoneWasShown == Spec => MarkedWasShown
<1>1. TaskInv /\ [Next]_vars =>
        [\A i \in DOMAIN disk.tasks :
           /\ ~disk.tasks[i].ran
           /\ i \in DOMAIN disk'.tasks /\ disk'.tasks[i] = [disk.tasks[i] EXCEPT !.ran = TRUE]
           => AssetOf(disk.tasks[i]) \in shown]_vars
  BY MarksTheShown
<1> QED
  BY <1>1, RequestsMean, PTL DEF Spec, MarkedWasShown
=============================================================================
