----------------------------- MODULE AlbumDisplay -----------------------------
(***************************************************************************)
(* NativeDisplayService: the one owner of the e-paper.  Its lane takes     *)
(* commands that name an image by its place in the album, and on its tick  *)
(* draws onboarding pages, puts the album back after one, and carries out  *)
(* a button's choice once it has settled.  The album is the index          *)
(* AlbumStore commits; here only its order and its current image matter.   *)
(*                                                                         *)
(* Drawing reads the album, decodes and writes the glass, and records the  *)
(* image as current: three steps, and the other lanes run between them.    *)
(* Reading the catalogue is one step.  Render strategies, the settle time  *)
(* of a button and the two kinds of page are left out: a settled choice is *)
(* one the lane may take, and there is one page.  An image a local voice   *)
(* tool chooses is outside the module.                                     *)
(***************************************************************************)
EXTENDS Naturals, Sequences

CONSTANTS
  None, Page,       \* nothing, and an onboarding page on the glass
  InitialAlbum,     \* the images on the card of a device that has been in use
  MaxTroubles       \* bound on faults, power cuts and the user's actions

ASSUME AlbumOfAssets ==
  /\ InitialAlbum = [assets |-> InitialAlbum.assets, current |-> InitialAlbum.current]
  /\ Len(InitialAlbum.assets) \in Nat
  /\ InitialAlbum.assets =
       [i \in 1..Len(InitialAlbum.assets) |-> InitialAlbum.assets[i]]

VARIABLES
  album,      \* the committed index: its assets in order, and the current one
  panel,      \* what is on the glass, powered or not
  page,       \* the onboarding_* flags and album_restore_pending_
  knownEmpty, \* catalog_known_empty_
  nav,        \* AlbumNavigationCore
  hold,       \* manual_panel_guard_ is active
  staging,    \* album_store_->active(): a frame is being received
  queue,      \* the Display lane's commands
  draw,       \* where the Display lane is
  results,    \* the Display results the Control lane has not taken
  shown,      \* history: assets drawn, or found current, since a task was queued
  left        \* troubles left

display == <<album, panel, page, knownEmpty, nav, hold, staging, queue, draw, results, shown>>

Trouble == left > 0 /\ left' = left - 1
Calm == UNCHANGED left

NoPage == [pending |-> FALSE, rendering |-> FALSE, visible |-> FALSE,
           replacing |-> FALSE, restore |-> FALSE]
NoDraw == [at |-> "idle", source |-> "none", ordinal |-> None, request |-> 0, index |-> None]

Assets == {album.assets[i] : i \in DOMAIN album.assets}
Count == Len(album.assets)
OrdinalIn(index, asset) ==
  IF \E i \in DOMAIN index.assets : index.assets[i] = asset
  THEN CHOOSE i \in DOMAIN index.assets : index.assets[i] = asset
  ELSE None
CurrentOrdinal(index) == OrdinalIn(index, index.current)

-----------------------------------------------------------------------------
\* AlbumNavigationCore.  Ordinals count from 1; None is kNoOrdinal.
Invalidated == [ready |-> FALSE, count |-> 0, current |-> None, selected |-> None,
                pending |-> FALSE, refreshing |-> FALSE]

Finished(count, current) ==
  [ready |-> TRUE, count |-> count, current |-> current, selected |-> current,
   pending |-> FALSE, refreshing |-> FALSE]

\* A choice that is still waiting survives if the album is long enough.
Synchronized(n, count, current) ==
  IF n.pending /\ n.selected <= count
  THEN [n EXCEPT !.ready = TRUE, !.count = count, !.current = current]
  ELSE Finished(count, current)

BeginImmediate(n, ordinal) ==
  [n EXCEPT !.pending = FALSE, !.selected = ordinal, !.refreshing = ordinal # n.current]

Wrapped(i, direction, count) == ((i - 1 + count + direction) % count) + 1

Stepped(n, direction) ==
  LET from == IF n.pending THEN n.selected ELSE n.current
  IN  [n EXCEPT !.pending = TRUE,
                !.selected = IF from = None THEN IF direction = 1 THEN 1 ELSE n.count
                             ELSE Wrapped(from, direction, n.count)]

-----------------------------------------------------------------------------
Rendering == draw.at \in {"read", "write", "mark"}   \* album_rendering_

DisplayBusy ==
  \/ nav.pending \/ nav.refreshing
  \/ page.pending \/ page.rendering \/ page.replacing \/ page.restore
  \/ Rendering \/ staging

\* reloadCatalog(), once the caller has committed the album a.
CanReload == ~Rendering /\ ~nav.refreshing
Reload(a) ==
  IF CanReload
  THEN /\ nav' = Synchronized(nav, Len(a.assets), CurrentOrdinal(a))
       /\ knownEmpty' = (a.assets = <<>>)
  ELSE UNCHANGED <<nav, knownEmpty>>

DisplayInit(a) ==
  /\ album = a /\ panel = a.current
  /\ page = NoPage /\ knownEmpty = (a.assets = <<>>)
  /\ nav = Finished(Len(a.assets), CurrentOrdinal(a))
  /\ hold = FALSE /\ staging = FALSE
  /\ queue = <<>> /\ draw = NoDraw /\ results = <<>> /\ shown = {}

\* The power is cut: the glass and the album stay as they are.
DisplayCut ==
  /\ page' = NoPage /\ knownEmpty' = (album.assets = <<>>)
  /\ nav' = Finished(Count, CurrentOrdinal(album))
  /\ hold' = FALSE /\ staging' = FALSE
  /\ queue' = <<>> /\ draw' = NoDraw /\ results' = <<>> /\ shown' = {}
  /\ UNCHANGED <<album, panel>>

-----------------------------------------------------------------------------
\* The Portal lane asks for the page, or for the album to come back.
Unchanged == ~page.pending /\ ~page.rendering /\ ~page.replacing /\ ~Rendering /\ page.visible
PageRequested ==
  LET asked == [page EXCEPT !.restore = FALSE]
  IN  IF page.pending \/ page.rendering \/ page.replacing \/ Rendering \/ page.visible
      THEN asked
      ELSE [asked EXCEPT !.pending = TRUE]

RestoreRequested ==
  LET dropped == [page EXCEPT !.pending = @ /\ page.rendering]
  IN  IF page.restore \/ (~page.rendering /\ (~page.visible \/ knownEmpty)) THEN dropped
      ELSE [dropped EXCEPT !.restore = TRUE]

-----------------------------------------------------------------------------
\* The Display lane's tick: a page that is waiting goes first.
ServicePage ==
  /\ draw.at = "idle" /\ page.pending
  /\ page' = [page EXCEPT !.pending = FALSE, !.rendering = TRUE]
  /\ draw' = [NoDraw EXCEPT !.at = "page"]
  /\ Calm
  /\ UNCHANGED <<album, panel, knownEmpty, nav, hold, staging, queue, results, shown>>

DrawPage ==
  /\ draw.at = "page" /\ draw' = NoDraw
  /\ \/ /\ panel' = Page
        /\ page' = [page EXCEPT !.rendering = FALSE, !.visible = TRUE] /\ Calm
     \/ /\ panel' \in {panel, Page}
        /\ page' = [page EXCEPT !.rendering = FALSE] /\ Trouble
  /\ UNCHANGED <<album, knownEmpty, nav, hold, staging, queue, results, shown>>

RestoreMoot == ~page.visible \/ knownEmpty
RestoreGoes == page.restore /\ ~RestoreMoot /\ ~nav.pending /\ ~nav.refreshing

Starts(source, ordinal, request) ==
  draw' = [NoDraw EXCEPT !.at = "read", !.source = source, !.ordinal = ordinal,
                         !.request = request]

ServiceRestore ==
  /\ draw.at = "idle" /\ ~page.pending /\ RestoreGoes /\ ~staging
  /\ page' = [page EXCEPT !.replacing = TRUE]
  /\ Starts("restore", None, 0) /\ Calm
  /\ UNCHANGED <<album, panel, knownEmpty, nav, hold, staging, queue, results, shown>>

\* The rest of the tick: a restore with nothing to do is dropped, and a choice
\* that has settled is drawn unless it is the current image.
ServiceNavigation ==
  /\ draw.at = "idle" /\ ~page.pending /\ ~RestoreGoes
  /\ page' = [page EXCEPT !.restore = @ /\ ~RestoreMoot]
  /\ \/ /\ page.restore /\ RestoreMoot
        /\ UNCHANGED <<nav, draw>>
     \/ /\ nav.ready /\ nav.pending /\ ~nav.refreshing /\ ~staging
        /\ nav' = [nav EXCEPT !.pending = FALSE, !.refreshing = nav.selected # nav.current]
        /\ IF nav.selected = nav.current THEN UNCHANGED draw
           ELSE Starts("button", nav.selected, 0)
  /\ Calm
  /\ UNCHANGED <<album, panel, knownEmpty, hold, staging, queue, results, shown>>

Answered(request, ok) == results' = Append(results, [request |-> request, ok |-> ok])

\* handle(): a scheduled image gives way to one the user has just chosen.
Handle ==
  /\ draw.at = "idle" /\ queue # <<>>
  /\ queue' = Tail(queue)
  /\ LET c == Head(queue)
     IN  IF c.source = "task" /\ hold
         THEN Answered(c.request, FALSE) /\ UNCHANGED draw
         ELSE Starts(c.source, c.ordinal, c.request) /\ UNCHANGED results
  /\ Calm
  /\ UNCHANGED <<album, panel, page, knownEmpty, nav, hold, staging, shown>>

-----------------------------------------------------------------------------
\* renderOrdinal() ends.  Only a scheduled image's result has a taker.
Ends(p, asset, ok) ==
  /\ draw' = NoDraw
  /\ page' = IF draw.source = "restore"
             THEN [p EXCEPT !.replacing = @ /\ ok, !.restore = @ /\ ~ok /\ p.visible]
             ELSE p
  /\ shown' = IF ok /\ draw.source = "task" THEN shown \cup {asset} ELSE shown
  /\ IF draw.source = "task" THEN Answered(draw.request, ok) ELSE UNCHANGED results

Wanted(index) ==
  IF draw.source # "restore" THEN draw.ordinal
  ELSE IF CurrentOrdinal(index) = None THEN 1 ELSE CurrentOrdinal(index)

\* A store that is busy with a frame, no such image, or an index that cannot be
\* read.
ReadFails ==
  /\ draw.at = "read"
  /\ \/ staging /\ Calm
     \/ draw.source # "restore" /\ draw.ordinal > Count /\ Calm
     \/ Trouble
  /\ nav' = Invalidated
  /\ Ends(page, None, FALSE)
  /\ UNCHANGED <<album, panel, knownEmpty, hold, staging, queue>>

\* Nothing to put back; an image that is current already; one to be drawn.
ReadCatalog ==
  /\ draw.at = "read" /\ ~staging
  /\ LET ordinal == Wanted(album)
         asset == album.assets[ordinal]
         covered == [page EXCEPT !.replacing = @ \/ page.visible]
     IN  IF Count = 0
         THEN /\ draw.source = "restore" /\ nav' = Finished(0, None)
              /\ Ends([page EXCEPT !.replacing = FALSE], None, TRUE)
         ELSE /\ ordinal \in 1..Count
              /\ IF ~page.visible /\ album.current = asset
                 THEN nav' = Finished(Count, ordinal) /\ Ends(covered, asset, TRUE)
                 ELSE /\ nav' = IF nav.refreshing THEN nav
                                ELSE BeginImmediate(Synchronized(nav, Count,
                                                      CurrentOrdinal(album)), ordinal)
                      /\ page' = covered
                      /\ draw' = [draw EXCEPT !.at = "write", !.ordinal = ordinal,
                                             !.index = album]
                      /\ UNCHANGED <<results, shown>>
  /\ knownEmpty' = (Count = 0)
  /\ Calm /\ UNCHANGED <<album, panel, hold, staging, queue>>

Target == draw.index.assets[draw.ordinal]
Unfinished == Finished(Len(draw.index.assets), CurrentOrdinal(draw.index))

\* Mutant: onboarding_replacement_pending_ stays when nothing could be drawn.
WriteFailsLeavesFlag ==
  /\ draw.at = "write"
  /\ \/ Target \notin Assets /\ UNCHANGED panel /\ Calm
     \/ panel' \in {panel, Target} /\ Trouble
  /\ nav' = Unfinished
  /\ Ends(page, None, FALSE)
  /\ UNCHANGED <<album, knownEmpty, hold, staging, queue>>

\* The file has been pruned, or cannot be decoded; or the glass fails.
WriteFails ==
  /\ draw.at = "write"
  /\ \/ Target \notin Assets /\ UNCHANGED panel /\ Calm
     \/ panel' \in {panel, Target} /\ Trouble
  /\ nav' = Unfinished
  /\ Ends([page EXCEPT !.replacing = FALSE], None, FALSE)
  /\ UNCHANGED <<album, knownEmpty, hold, staging, queue>>

WritePanel ==
  /\ draw.at = "write" /\ Target \in Assets
  /\ panel' = Target
  /\ page' = [page EXCEPT !.visible = FALSE, !.replacing = FALSE]
  /\ draw' = [draw EXCEPT !.at = "mark"]
  /\ Calm /\ UNCHANGED <<album, knownEmpty, nav, hold, staging, queue, results, shown>>

\* markCurrent() refuses while a frame is being received.
MarkFails ==
  /\ draw.at = "mark"
  /\ \/ (staging \/ Target \notin Assets) /\ Calm
     \/ Trouble
  /\ nav' = Unfinished
  /\ Ends(page, None, FALSE)
  /\ UNCHANGED <<album, panel, knownEmpty, hold, staging, queue>>

MarkCurrent ==
  /\ draw.at = "mark" /\ ~staging /\ Target \in Assets
  /\ album' = [album EXCEPT !.current = Target]
  /\ hold' = (hold \/ draw.source \in {"user", "button"})
  /\ nav' = Finished(Len(draw.index.assets), draw.ordinal)
  /\ Ends(page, Target, TRUE)
  /\ Calm /\ UNCHANGED <<panel, knownEmpty, staging, queue>>

DisplayLane ==
  \/ ServicePage \/ DrawPage \/ ServiceRestore \/ ServiceNavigation \/ Handle
  \/ ReadFails \/ ReadCatalog \/ WriteFails \/ WritePanel
  \/ MarkFails \/ MarkCurrent

-----------------------------------------------------------------------------
\* A button, on the Control lane.
SelectRelative ==
  /\ nav.ready /\ ~nav.refreshing /\ nav.count > 0
  /\ \E direction \in {1, 0 - 1} : nav' = Stepped(nav, direction)
  /\ Trouble
  /\ UNCHANGED <<album, panel, page, knownEmpty, hold, staging, queue, draw, results, shown>>

HoldExpires ==
  /\ hold /\ hold' = FALSE
  /\ Calm
  /\ UNCHANGED <<album, panel, page, knownEmpty, nav, staging, queue, draw, results, shown>>
=============================================================================
