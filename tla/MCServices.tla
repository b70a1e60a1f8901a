----------------------------- MODULE MCServices -----------------------------
(* Instances of the services of the daemon, and of the launcher beside it.  *)
(* They share no state: a behaviour explores one of them, and the others    *)
(* stay in one initial state of theirs.                                     *)
EXTENDS RunStateStore, WorldTasks, TextualCalls, ModelRouter, DaemonLifecycle,
        DaemonWorkers, TraceWriter, ConversationStore, ToolCatalog, SequencesExt

CONSTANT MaxPieces      \* pieces a text is made of

\* Markers, the start of one, and another character, one after the other.
Pieces     == {BEGIN, END, <<"x">>, <<"<", "F">>}
PieceTexts == {FlattenSeq(p) : p \in UNION {[1..n -> Pieces] : n \in 1..MaxPieces}}

TwoTasks == {"t1", "t2"}

VARIABLE part    \* the service this behaviour explores

Parts == {"store", "tasks", "markers", "router", "daemon", "scan", "watch", "trace",
          "chats", "catalog"}

\* The variables of every service but p.
Untouched(p) ==
  /\ p = "store"   \/ UNCHANGED runRowVars
  /\ p = "tasks"   \/ UNCHANGED taskVars
  /\ p = "markers" \/ UNCHANGED markerVars
  /\ p = "router"  \/ UNCHANGED routerVars
  /\ p = "daemon"  \/ UNCHANGED daemonVars
  /\ p \in {"scan", "watch"} \/ UNCHANGED workerVars
  /\ p = "trace"   \/ UNCHANGED traceVars
  /\ p = "chats"   \/ UNCHANGED storeVars
  /\ p = "catalog" \/ UNCHANGED catalogVars

ServicesInit ==
  /\ part \in Parts
  /\ part # "markers" => text = BEGIN
  /\ part # "router" => seedReady = TRUE /\ fallback = FALSE
  /\ RunInit /\ TasksInit /\ MarkersInit /\ RouterInit /\ DaemonInit /\ WorkersInit
  /\ TraceInit /\ StoreInit /\ CatalogInit
  /\ IF part = "chats" THEN \A c \in Chat : chat[c] = "plain" <=> c = CHOOSE d \in Chat : TRUE
     ELSE \A c \in Chat : chat[c] = "plain"

ServicesNext ==
  /\ UNCHANGED part /\ Untouched(part)
  /\ \/ part = "store"   /\ RunNext
     \/ part = "tasks"   /\ TasksNext
     \/ part = "markers" /\ MarkersNext
     \/ part = "router"  /\ RouterNext
     \/ part = "daemon"  /\ DaemonNext
     \/ part = "scan"    /\ ScanNext
     \/ part = "watch"   /\ WatchNext
     \/ part = "trace"   /\ TraceNext
     \/ part = "chats"   /\ StoreNext
     \/ part = "catalog" /\ CatalogNext

\* The rows of a trace are promised nothing once a write of it was lost.
NothingLost == losses = 0

ServicesSpec ==
  ServicesInit /\ [][ServicesNext]_<<part, runRowVars, taskVars, markerVars, routerVars,
                                     daemonVars, workerVars, traceVars, storeVars,
                                     catalogVars>>
=============================================================================
