---------------------------- MODULE MCWebClient ----------------------------
(* Instances of the parts of the web client: the chat page together with the *)
(* daemon's half of one conversation, its ways between conversations, its    *)
(* composer, the digital-world page's way to its data, its canvas, and the   *)
(* route search.  They share no state: a behaviour explores one of them, and *)
(* the others stay in one initial state of theirs.                           *)
EXTENDS ChatSession, ChatNavigation, ChatComposer, WorldSync, WorldCanvas, ShortestPath

Messages == 1 .. 2
OneRun   == 1 .. 1
EdgeDistances == {-1, 0, 1, 3}

VARIABLE part    \* the part this behaviour explores

Parts == {"chat", "navigate", "compose", "sync", "canvas", "route"}

\* The variables of every part but p.
Untouched(p) ==
  /\ p = "chat"   \/ UNCHANGED vars
  /\ p = "navigate" \/ UNCHANGED navVars
  /\ p = "compose" \/ UNCHANGED composerVars
  /\ p = "sync"   \/ UNCHANGED syncVars
  /\ p = "canvas" \/ UNCHANGED canvasVars
  /\ p = "route"  \/ UNCHANGED routeVars

NoRoads == [p \in Node \X Node |-> NoEdge]

ClientInit ==
  /\ part \in Parts
  /\ part # "sync"  => hidden = FALSE
  /\ part # "route" => road = NoRoads /\ from = 1 /\ to = 2
  /\ Init /\ NavigationInit /\ ComposerInit /\ SyncInit /\ CanvasInit /\ RouteInit
  /\ part # "navigate" => daemon.rows = {} /\ slow = CHOOSE s \in Slow : TRUE

ClientNext ==
  /\ UNCHANGED part /\ Untouched(part)
  /\ \/ part = "chat"   /\ Next
     \/ part = "navigate" /\ NavigationNext
     \/ part = "compose" /\ ComposerNext
     \/ part = "sync"   /\ SyncNext
     \/ part = "canvas" /\ CanvasNext
     \/ part = "route"  /\ RouteNext

ClientSpec ==
  ClientInit
    /\ [][ClientNext]_<<part, vars, navVars, composerVars, syncVars, canvasVars, routeVars>>
=============================================================================
