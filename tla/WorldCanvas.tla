----------------------------- MODULE WorldCanvas -----------------------------
(***************************************************************************)
(* The canvas of the digital-world page: the PixiJS application that       *)
(* useWorldApp.ts mounts asynchronously, what WorldApp.ts draws of the data *)
(* the page hands it, and the local walk of the primary being that          *)
(* useBeingMovement.ts starts and RouteAnimator plays on the same sprites.  *)
(*                                                                         *)
(* The nodes of a world stand in a row: a layout is how many there are, and *)
(* a being's place is a node's number.  Coordinates, colours and particles  *)
(* are left out.  ShortestPath.tla has the route search itself.             *)
(***************************************************************************)
EXTENDS Integers, FiniteSetsExt

CONSTANTS
  Layouts,      \* numbers of nodes a world can have
  Being,        \* digital beings
  Primary,      \* the first of the list
  MaxNews       \* times the page's data changes

CanvasStatus == {"idle", "working"}

\* What the page can hand the canvas: nodes, and for every being of the list
\* its node and its status.  The daemon keeps a being on a node that exists.
BeingLists(n) ==
  UNION {[B -> [at : 1..n, status : CanvasStatus]] :
           B \in {C \in SUBSET Being : Primary \in C}}
WorldData == UNION {{[nodes |-> n, beings |-> f] : f \in BeingLists(n)} : n \in Layouts}

NoData  == [nodes |-> 0, beings |-> <<>>]
\* The walk of the primary being; "sprite" is the entity it was started on.
NoWalk  == [on |-> FALSE, sprite |-> "none", at |-> 0, to |-> 0]

VARIABLES
  stage,        \* "none", "initing" or "mounted"
  lateInit,     \* applications whose page left before their init resolved
  pending,      \* pendingDataRef
  news,         \* the latest data of the page; NoData until it has loaded
  newsCount,
  shown,        \* _nodes, _beingDataList and _beingData
  sprite,       \* the entities on the stage: where each stands and its status
  walk,         \* the RouteAnimator registered last
  touched       \* the reader has walked the being since the data was drawn

canvasVars == <<stage, lateInit, pending, news, newsCount, shown, sprite,
                walk, touched>>

CanvasInit ==
  /\ stage = "none" /\ lateInit = 0
  /\ pending = NoData /\ news = NoData /\ newsCount = 0
  /\ shown = NoData /\ sprite = <<>>
  /\ walk = NoWalk /\ touched = FALSE

isAnimating == walk.on

-----------------------------------------------------------------------------
(* WorldApp.setData *)

\* drawWorld makes a new entity for every being of the list.
Drawn(d) == d.beings

\* clearStage destroys every entity: a walk keeps the one it was started on.
Orphaned(w) == IF w.sprite = "live" THEN [w EXCEPT !.sprite = "dead"] ELSE w

\* Another set of nodes or beings is drawn afresh; otherwise the places are
\* moved - unless a walk is running - and every status is set.
SetData(d) ==
  /\ shown' = d
  /\ IF d.nodes # shown.nodes \/ DOMAIN d.beings # DOMAIN shown.beings
       THEN /\ sprite' = Drawn(d)
            /\ walk' = Orphaned(walk)
            /\ touched' = FALSE
       ELSE /\ sprite' = [b \in DOMAIN sprite |->
                            [at |-> IF isAnimating THEN sprite[b].at
                                                   ELSE d.beings[b].at,
                             status |-> d.beings[b].status]]
            /\ UNCHANGED walk
            /\ touched' = (touched /\ isAnimating)

-----------------------------------------------------------------------------
(* useWorldApp *)

\* The effect creates the application and starts its init; the page has no
\* data yet.  (One init of a page that left may still be running.)
MountCanvas ==
  /\ stage = "none" /\ lateInit = 0
  /\ stage' = "initing"
  /\ UNCHANGED <<lateInit, pending, news, newsCount, shown, sprite, walk, touched>>

InitDone_DropsPending ==
  /\ stage = "initing"
  /\ stage' = "mounted" /\ pending' = NoData /\ touched' = FALSE
  /\ UNCHANGED <<lateInit, news, newsCount, shown, sprite, walk>>

\* The init resolves: the mock layout the application was constructed with is
\* drawn (an empty one here), then what has queued meanwhile replaces it.
InitDone ==
  /\ stage = "initing"
  /\ stage' = "mounted"
  /\ pending' = NoData
  /\ shown' = pending /\ sprite' = Drawn(pending)
  /\ touched' = FALSE
  /\ UNCHANGED <<lateInit, news, newsCount, walk>>

\* The page leaves, its data with it: the walk is stopped before the
\* application is torn down.
UnmountCanvas ==
  /\ stage # "none"
  /\ stage' = "none"
  /\ lateInit' = IF stage = "initing" THEN lateInit + 1 ELSE lateInit
  /\ pending' = NoData /\ news' = NoData
  /\ shown' = NoData /\ sprite' = <<>>
  /\ walk' = NoWalk /\ touched' = FALSE
  /\ UNCHANGED newsCount

\* An init that resolves after destroy() gives its application up.
LateInit ==
  /\ lateInit > 0
  /\ lateInit' = lateInit - 1
  /\ UNCHANGED <<stage, pending, news, newsCount, shown, sprite, walk, touched>>

\* The page's data has changed: queued while the init runs, drawn after it.
PageData ==
  /\ stage # "none" /\ newsCount < MaxNews
  /\ \E d \in WorldData :
       /\ d # news
       /\ news' = d /\ newsCount' = newsCount + 1
       /\ \/ /\ stage = "initing" /\ pending' = d
             /\ UNCHANGED <<shown, sprite, walk, touched>>
          \/ /\ stage = "mounted" /\ SetData(d)
             /\ UNCHANGED pending
  /\ UNCHANGED <<stage, lateInit>>

-----------------------------------------------------------------------------
(* useBeingMovement and RouteAnimator *)

\* updateBeingPosition: the entry of the primary being takes the node, its
\* entity only if the node is there.
PrimaryAt(n, status) ==
  /\ shown' = [shown EXCEPT !.beings[Primary].at = n]
  /\ sprite' = [sprite EXCEPT ![Primary] =
                  [at |-> IF n <= shown.nodes THEN n ELSE @.at, status |-> status]]

\* triggerMoveTo.  The walk before it is stopped, which leaves its entity idle.
\* A route of one node is complete at once; without a route, because either
\* end is gone from the layout, nothing else happens.
TriggerMoveTo(n) ==
  LET from    == shown.beings[Primary].at
      walking == walk.on /\ walk.sprite = "live"
  IN
  /\ stage = "mounted" /\ Primary \in DOMAIN sprite
  /\ \/ /\ n = from
        /\ walk' = NoWalk
        /\ PrimaryAt(n, "idle")
        /\ touched' = TRUE
     \/ /\ n # from /\ n <= shown.nodes /\ from <= shown.nodes
        /\ walk' = [on |-> TRUE, sprite |-> "live", at |-> from, to |-> n]
        /\ sprite' = [sprite EXCEPT ![Primary].status = "moving"]
        /\ touched' = TRUE
        /\ UNCHANGED shown
     \/ /\ n # from /\ (n > shown.nodes \/ from > shown.nodes)
        /\ walk' = NoWalk
        /\ sprite' = IF walking THEN [sprite EXCEPT ![Primary].status = "idle"]
                                ELSE sprite
        /\ touched' = (touched \/ walk.on)
        /\ UNCHANGED shown
  /\ UNCHANGED <<stage, lateInit, pending, news, newsCount>>

\* A tick that reaches the next node of the route moves whatever entity is
\* the primary one by then; the last one stops the walk and completes it.  A
\* tick on an entity that was destroyed fails inside PixiJS: a walk that lost
\* its entity may go on here, and it may not.
WalkTick ==
  /\ walk.on
  /\ LET next == IF walk.to > walk.at THEN walk.at + 1 ELSE walk.at - 1
         done == next = walk.to
     IN  /\ PrimaryAt(next, IF done THEN "idle" ELSE sprite[Primary].status)
         /\ walk' = IF done THEN NoWalk ELSE [walk EXCEPT !.at = next]
  /\ touched' = TRUE
  /\ UNCHANGED <<stage, lateInit, pending, news, newsCount>>

CanvasNext ==
  \/ MountCanvas \/ InitDone \/ UnmountCanvas \/ LateInit \/ PageData
  \/ \E n \in 1..Max(Layouts) : TriggerMoveTo(n)
  \/ WalkTick

CanvasSpec == CanvasInit /\ [][CanvasNext]_canvasVars

-----------------------------------------------------------------------------
(* Properties. *)

CanvasTypeOK ==
  /\ stage \in {"none", "initing", "mounted"} /\ lateInit \in 0..1
  /\ pending \in WorldData \cup {NoData} /\ news \in WorldData \cup {NoData}
  /\ walk.on \in BOOLEAN /\ touched \in BOOLEAN

\* CanvasFollowsData: a mounted canvas that the reader has not walked the being
\* on since shows the page's latest data, whenever it came - before the init,
\* while it ran, with another set of nodes or in the middle of a walk - and no
\* walk outlives the canvas (setData, pendingDataRef, destroy).
CanvasFollowsData ==
  /\ stage = "mounted" /\ news # NoData /\ ~touched /\ ~isAnimating =>
       shown = news /\ sprite = news.beings
  /\ isAnimating => stage = "mounted"

\* The inductive invariant behind it: the stage has an entity for each being
\* of the list that was drawn, nothing is walked on a canvas that is not there,
\* and what the page hands over while the init runs is queued.
CanvasInv ==
  /\ CanvasTypeOK /\ CanvasFollowsData
  /\ DOMAIN walk = DOMAIN NoWalk
  /\ DOMAIN shown = DOMAIN NoData /\ DOMAIN sprite = DOMAIN shown.beings
  /\ stage # "mounted" => ~isAnimating /\ pending = news
  /\ stage = "initing" => lateInit = 0

-----------------------------------------------------------------------------
(* "keep a handle to the in-progress movement so polling updates don't      *)
(* interrupt the animation": an update with another node or being destroys  *)
(* the entity under the walk.  No run checks it.                            *)
WalkKeepsItsSprite == isAnimating => walk.sprite = "live"
=============================================================================
