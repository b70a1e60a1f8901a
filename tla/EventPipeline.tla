--------------------------- MODULE EventPipeline ---------------------------
(***************************************************************************)
(* The way of a run's events from the code that emits them to the clients: *)
(* the raw bus, the serialized persistence queue with its durable outbox,  *)
(* retries and flushes, the events table, the live bus, and the clients    *)
(* that subscribe, lose their connection and come back.                    *)
(*                                                                         *)
(* The events of one conversation are numbered as they are emitted.  The   *)
(* queue's tasks run one after the other, each database call being a step; *)
(* a failed call may have committed.  An event's row is its number in      *)
(* seqOf; skipped sequence numbers are left out, since only the order of   *)
(* the numbers is ever used.  Deltas are never written and events without  *)
(* a run are dropped by the queue: both are left out.                      *)
(***************************************************************************)
EXTENDS Naturals, Sequences, FiniteSets, SequencesExt

CONSTANTS
  Client,
  Emits,         \* the kinds of events the code emits in this instance
  MaxAttempts,   \* MAX_PERSIST_ATTEMPTS
  MaxEvent,      \* bound: events emitted
  MaxFault,      \* bound: database calls that fail
  MaxCrash       \* bound: daemon crashes

(* "start" events (message.started, part.started) go to the live bus at    *)
(* once and are persisted afterwards; "queued" ones are broadcast after    *)
(* they were persisted; "direct" ones are written by a handler's own       *)
(* transaction and published when it has committed.                        *)
Kinds == {"start", "queued", "direct"}

ASSUME PipelineAssumption ==
  /\ Emits \subseteq Kinds
  /\ MaxAttempts \in Nat \ {0}
  /\ MaxEvent \in Nat /\ MaxFault \in Nat /\ MaxCrash \in Nat

Event == 1 .. MaxEvent
Flush == 0      \* the queue task that flushes the outbox

VARIABLES
  kind,        \* kind[e]: the kind of the e-th emitted event
  tx,          \* tx[e]: a direct event's transaction
  outbox,      \* agent_event_outbox: rows are listed in the order of emission
  seqOf,       \* seqOf[e]: events.sequence, 0 without a row
  lastSeq,     \* the BIGSERIAL behind it
  queue,       \* persistenceQueue: the tasks that wait
  worker,      \* the task that runs
  failed,      \* failedEvents
  live,        \* live[e]: publications of e on the live bus since the start
  conn,        \* conn[c]: "off", "asking" (subscribed, replay not read), "on"
  from,        \* from[c]: lastSeenSequence of the subscription in flight
  seen,        \* seen[c]: the highest sequence the client has received
  got,         \* got[c]: the events it has received
  behind,      \* events that lost their place in the queue: every attempt failed,
               \* or the flush that should have taken them failed
  lost,        \* events a crash took before they were in the database
  faults, crashes

emission == <<kind, tx>>
store    == <<outbox, seqOf, lastSeq>>
memory   == <<queue, worker, failed>>
clients  == <<conn, from, seen, got>>
ghosts   == <<behind, lost>>
vars == <<emission, store, memory, live, clients, ghosts, faults, crashes>>

Emitted == 1 .. Len(kind)

Worker == [task : {"none", "persist", "flush"}, step : {"enqueue", "append", "delete", "list"},
           todo : Seq(Event), attempt : 1 .. MaxAttempts]

Idle == [task |-> "none", step |-> "list", todo |-> <<>>, attempt |-> 1]

TypeOK ==
  /\ kind \in Seq(Emits) /\ Len(kind) <= MaxEvent
  /\ tx \in [Event -> {"none", "open", "committed", "closed"}]
  /\ outbox \subseteq Event
  /\ seqOf \in [Event -> Nat] /\ lastSeq \in Nat
  /\ queue \in Seq(Event \cup {Flush})
  /\ worker \in Worker
  /\ failed \in Seq(Event)
  /\ live \in [Event -> Nat]
  /\ conn \in [Client -> {"off", "asking", "on"}]
  /\ from \in [Client -> Nat] /\ seen \in [Client -> Nat]
  /\ got \in [Client -> SUBSET Event]
  /\ behind \subseteq Event /\ lost \subseteq Event
  /\ faults \in 0 .. MaxFault /\ crashes \in 0 .. MaxCrash

Init ==
  /\ kind = <<>> /\ tx = [e \in Event |-> "none"]
  /\ outbox = {} /\ seqOf = [e \in Event |-> 0] /\ lastSeq = 0
  /\ queue = <<Flush>> /\ worker = Idle /\ failed = <<>>
  /\ live = [e \in Event |-> 0]
  /\ conn = [c \in Client |-> "off"]
  /\ from = [c \in Client |-> 0] /\ seen = from
  /\ got = [c \in Client |-> {}]
  /\ behind = {} /\ lost = {}
  /\ faults = 0 /\ crashes = 0
-----------------------------------------------------------------------------
(* A row is visible once the transaction that wrote it has committed.      *)
Visible(e) == seqOf[e] # 0 /\ tx[e] # "open"

Listening == {c \in Client : conn[c] # "off"}

(* An event reaches the clients that are subscribed now.  The client keeps *)
(* the highest sequence it was sent; a start event carries none.           *)
Publish(e, s) ==
  /\ live' = [live EXCEPT ![e] = @ + 1]
  /\ seen' = [c \in Client |-> IF c \in Listening /\ s > seen[c] THEN s ELSE seen[c]]
  /\ got' = [c \in Client |-> IF c \in Listening THEN got[c] \cup {e} ELSE got[c]]
  /\ UNCHANGED <<conn, from>>

Silent == UNCHANGED <<live, clients>>

(* The subscriber of the raw bus.                                          *)
Emit(k) ==
  LET e == Len(kind) + 1 IN
  /\ e \in Event /\ k \in Emits
  /\ kind' = Append(kind, k)
  /\ CASE k = "direct" -> /\ tx' = [tx EXCEPT ![e] = "open"]
                          /\ seqOf' = [seqOf EXCEPT ![e] = lastSeq + 1]
                          /\ lastSeq' = lastSeq + 1
                          /\ Silent /\ UNCHANGED queue
       [] k = "start"  -> /\ queue' = Append(queue, e) /\ Publish(e, 0)
                          /\ UNCHANGED <<tx, seqOf, lastSeq>>
       [] OTHER        -> /\ queue' = Append(queue, e) /\ Silent
                          /\ UNCHANGED <<tx, seqOf, lastSeq>>
  /\ UNCHANGED <<outbox, worker, failed, ghosts, faults, crashes>>

DirectCommit(e) ==
  /\ tx[e] = "open"
  /\ tx' = [tx EXCEPT ![e] = "committed"]
  /\ UNCHANGED <<kind, store, memory, live, clients, ghosts, faults, crashes>>

(* The raw bus forwards an event that has a sequence without queueing it.  *)
DirectPublish(e) ==
  /\ tx[e] = "committed"
  /\ tx' = [tx EXCEPT ![e] = "closed"]
  /\ Publish(e, seqOf[e])
  /\ UNCHANGED <<kind, store, memory, ghosts, faults, crashes>>
-----------------------------------------------------------------------------
AtStep(s) == worker.task # "none" /\ worker.step = s
ToStep(s) == worker' = [worker EXCEPT !.step = s]
Current == Head(worker.todo)

Take_AnyTask ==
  \E i \in DOMAIN queue :
    /\ worker.task = "none"
    /\ queue' = RemoveAt(queue, i)
    /\ worker' = IF queue[i] = Flush THEN [Idle EXCEPT !.task = "flush"]
                 ELSE [Idle EXCEPT !.task = "persist", !.step = "enqueue", !.todo = <<queue[i]>>]
    /\ UNCHANGED <<emission, store, failed, live, clients, ghosts, faults, crashes>>

(* A task starts only when the one before it has ended.                    *)
Take ==
  /\ worker.task = "none" /\ queue # <<>>
  /\ queue' = Tail(queue)
  /\ worker' = IF Head(queue) = Flush THEN [Idle EXCEPT !.task = "flush"]
               ELSE [Idle EXCEPT !.task = "persist", !.step = "enqueue", !.todo = <<Head(queue)>>]
  /\ UNCHANGED <<emission, store, failed, live, clients, ghosts, faults, crashes>>

CallFailed_Drop ==
  /\ faults < MaxFault /\ faults' = faults + 1
  /\ IF worker.task = "persist" /\ worker.attempt < MaxAttempts
     THEN /\ worker' = [worker EXCEPT !.step = "enqueue", !.attempt = @ + 1]
          /\ UNCHANGED <<failed, behind>>
     ELSE /\ worker' = Idle
          /\ behind' = behind \cup ToSet(worker.todo)
          /\ UNCHANGED failed

(* A database call that failed: persistWithRetry starts over until its     *)
(* attempts are used up; a flush gives back what it has not done.          *)
CallFailed ==
  /\ faults < MaxFault /\ faults' = faults + 1
  /\ IF worker.task = "persist" /\ worker.attempt < MaxAttempts
     THEN /\ worker' = [worker EXCEPT !.step = "enqueue", !.attempt = @ + 1]
          /\ UNCHANGED <<failed, behind>>
     ELSE /\ failed' = failed \o worker.todo
          /\ worker' = Idle
          /\ behind' = behind \cup ToSet(worker.todo)

Enqueue ==
  /\ AtStep("enqueue")
  /\ \/ /\ outbox' = outbox \cup {Current}
        /\ ToStep("append") /\ UNCHANGED <<failed, behind, faults>>
     \/ /\ CallFailed
        /\ outbox' \in {outbox, outbox \cup {Current}}
  /\ UNCHANGED <<emission, seqOf, lastSeq, queue, live, clients, lost, crashes>>

(* INSERT ... ON CONFLICT keeps the row that is there.                     *)
Insert(e) ==
  IF seqOf[e] # 0 THEN UNCHANGED <<seqOf, lastSeq>>
  ELSE seqOf' = [seqOf EXCEPT ![e] = lastSeq + 1] /\ lastSeq' = lastSeq + 1

AppendRow ==
  /\ AtStep("append")
  /\ \/ Insert(Current) /\ ToStep("delete") /\ UNCHANGED <<failed, behind, faults>>
     \/ CallFailed /\ (Insert(Current) \/ UNCHANGED <<seqOf, lastSeq>>)
  /\ UNCHANGED <<emission, outbox, queue, live, clients, lost, crashes>>

(* The row of the outbox is deleted, and the persisted event published: by *)
(* a persist task unless it was published when it was emitted, by a flush  *)
(* always.                                                                 *)
Forwards == worker.task = "flush" \/ kind[Current] = "queued"

NextOfTask == IF Len(worker.todo) = 1 THEN Idle
              ELSE [worker EXCEPT !.step = "append", !.todo = Tail(@)]

DeleteAndForward ==
  /\ AtStep("delete")
  /\ \/ /\ outbox' = outbox \ {Current}
        /\ worker' = NextOfTask
        /\ IF Forwards THEN Publish(Current, seqOf[Current]) ELSE Silent
        /\ UNCHANGED <<failed, behind, faults>>
     \/ /\ CallFailed
        /\ outbox' \in {outbox, outbox \ {Current}}
        /\ Silent
  /\ UNCHANGED <<emission, seqOf, lastSeq, queue, lost, crashes>>

(* The one sequence that lists a set of numbers in their order.            *)
InOrder(S) ==
  {s \in [1 .. Cardinality(S) -> S] :
     ToSet(s) = S /\ \A i, j \in DOMAIN s : i < j => s[i] < s[j]}

Unlisted_All(rows) == DOMAIN failed

(* flushFailedEvents: the rows of the outbox and then the events that     *)
(* failed, each event once.  A listing that fails counts as empty.  (A     *)
(* listing stops at 200 rows; the outbox never holds as many here.)        *)
Unlisted(rows) == {i \in DOMAIN failed : failed[i] \notin ToSet(rows)}

ListOutbox ==
  /\ AtStep("list")
  /\ \E rows \in InOrder(outbox) \cup {<<>>} : \E rest \in InOrder(Unlisted(rows)) :
       LET batch == rows \o [i \in DOMAIN rest |-> failed[rest[i]]] IN
       /\ IF ToSet(rows) = outbox THEN UNCHANGED <<faults, behind>>
          ELSE faults < MaxFault /\ faults' = faults + 1 /\ behind' = behind \cup outbox
       /\ failed' = <<>>
       /\ worker' = IF batch = <<>> THEN Idle
                    ELSE [worker EXCEPT !.step = "append", !.todo = batch]
  /\ UNCHANGED <<emission, store, queue, live, clients, lost, crashes>>

FlushTimer_IfFailed ==
  /\ failed # <<>> /\ ~Contains(queue, Flush) /\ worker.task # "flush"
  /\ queue' = Append(queue, Flush)
  /\ UNCHANGED <<emission, store, worker, failed, live, clients, ghosts, faults, crashes>>

(* setInterval; a flush that still waits makes another one pointless.      *)
FlushTimer ==
  /\ ~Contains(queue, Flush) /\ worker.task # "flush"
  /\ queue' = Append(queue, Flush)
  /\ UNCHANGED <<emission, store, worker, failed, live, clients, ghosts, faults, crashes>>

(* The process dies with its memory and its connections; the next one      *)
(* begins with a flush.                                                    *)
Crash ==
  /\ crashes < MaxCrash /\ crashes' = crashes + 1
  /\ queue' = <<Flush>> /\ worker' = Idle /\ failed' = <<>>
  /\ tx' = [e \in Event |-> IF tx[e] = "none" THEN "none" ELSE "closed"]
  /\ seqOf' = [e \in Event |-> IF tx[e] = "open" THEN 0 ELSE seqOf[e]]
  /\ live' = [e \in Event |-> 0]
  /\ conn' = [c \in Client |-> "off"]
  /\ lost' = lost \cup {e \in Emitted : e \notin outbox /\ ~Visible(e)}
  /\ from' = [c \in Client |-> 0]
  /\ UNCHANGED <<kind, outbox, lastSeq, seen, got, behind, faults>>
-----------------------------------------------------------------------------
(* conversation.subscribe: first the subscription, then the replay is read *)
(* and sent.  A client that has seen nothing does not ask for a replay.    *)
Subscribe(c) ==
  /\ conn[c] = "off"
  /\ from' = [from EXCEPT ![c] = seen[c]]
  /\ conn' = [conn EXCEPT ![c] = IF seen[c] > 0 THEN "asking" ELSE "on"]
  /\ UNCHANGED <<emission, store, memory, live, seen, got, ghosts, faults, crashes>>

Missed_Latest(c) == {e \in Event : Visible(e) /\ seqOf[e] > seen[c]}

Missed(c) == {e \in Event : Visible(e) /\ seqOf[e] > from[c]}

Replay(c) ==
  /\ conn[c] = "asking"
  /\ conn' = [conn EXCEPT ![c] = "on"]
  /\ got' = [got EXCEPT ![c] = @ \cup Missed(c)]
  /\ seen' = [seen EXCEPT ![c] = CHOOSE s \in {@} \cup {seqOf[e] : e \in Missed(c)} :
                                    s >= @ /\ \A e \in Missed(c) : s >= seqOf[e]]
  /\ UNCHANGED <<emission, store, memory, live, from, ghosts, faults, crashes>>

(* What was sent and not received counts as never sent.                    *)
Disconnect(c) ==
  /\ conn[c] # "off"
  /\ conn' = [conn EXCEPT ![c] = "off"] /\ from' = [from EXCEPT ![c] = 0]
  /\ UNCHANGED <<emission, store, memory, live, seen, got, ghosts, faults, crashes>>
-----------------------------------------------------------------------------
Work == Take \/ Enqueue \/ AppendRow \/ DeleteAndForward \/ ListOutbox

Next ==
  \/ \E k \in Emits : Emit(k)
  \/ \E e \in Event : DirectCommit(e) \/ DirectPublish(e)
  \/ Work \/ FlushTimer \/ Crash
  \/ \E c \in Client : Subscribe(c) \/ Replay(c) \/ Disconnect(c)

Spec == Init /\ [][Next]_vars

(* The queue runs whenever it has a task, since each call returns or fails *)
(* and each retry waits for a bounded time; the interval timer fires.      *)
FairSpec == Spec /\ WF_vars(Work) /\ WF_vars(FlushTimer)
-----------------------------------------------------------------------------
(* Where an event that was handed to the queue can be found.               *)
Held(e) == \/ Contains(queue, e) \/ Contains(worker.todo, e) \/ Contains(failed, e)
           \/ e \in outbox \/ Visible(e)

(* No event is forgotten: it waits, is being written, failed, or is in the *)
(* database, and only a crash before the outbox had it can take it.        *)
NoEventForgotten ==
  \A e \in Emitted : kind[e] # "direct" /\ e \notin lost => Held(e)

(* Events keep the order in which they were emitted, unless every attempt  *)
(* to write the earlier one has failed: no retry and no restart lets an    *)
(* event overtake one in front of it.                                      *)
SequenceFollowsEmission ==
  \A e, f \in Emitted :
    /\ e < f /\ kind[e] # "direct" /\ kind[f] # "direct"
    /\ e \notin behind \cup lost /\ seqOf[f] # 0
    => seqOf[e] # 0 /\ seqOf[e] < seqOf[f]

(* No retry, restart or failed flush drops an event or lets it overtake.    *)
EventsKept == NoEventForgotten /\ SequenceFollowsEmission

(* What clients are told after persistence is in the database already, and *)
(* they are told once, whatever was retried, flushed or failed.            *)
DurableBeforeBroadcast ==
  \A e \in Emitted : kind[e] # "start" /\ live[e] > 0 => Visible(e) /\ live[e] = 1

(* Whatever was emitted is written in the end, unless a crash took it: a   *)
(* database that fails for a while delays it.                              *)
EventuallyWritten ==
  []<>(\A e \in Emitted : kind[e] # "direct" => Visible(e) \/ e \in lost)
-----------------------------------------------------------------------------
(* A client that came back has every event that was published with a       *)
(* sequence above the one it asked from, whatever was published while its  *)
(* subscription and its replay were being handled.                         *)
ReplayCoversGap ==
  \A c \in Client : conn[c] = "on" /\ from[c] > 0 =>
    \A e \in Emitted :
      kind[e] # "start" /\ live[e] > 0 /\ seqOf[e] > from[c] => e \in got[c]
-----------------------------------------------------------------------------
(* The inductive invariant behind these three.  What the worker has in     *)
(* hand,                                                                   *)
WorkerInv ==
  /\ worker.task = "none" => worker.todo = <<>>
  /\ worker.task = "persist" => Len(worker.todo) = 1 /\ worker.step # "list"
  /\ worker.task = "flush" /\ worker.step = "list" => worker.todo = <<>>
  /\ worker.task = "flush" /\ worker.step # "list" =>
       worker.step # "enqueue" /\ worker.todo # <<>>
  /\ AtStep("delete") => seqOf[Current] # 0

(* where an event may be found at one time,                                *)
Handed(e) == e \in Emitted /\ kind[e] # "direct"
Pending(e) == \/ Contains(queue, e) \/ Contains(worker.todo, e) \/ Contains(failed, e)
              \/ e \in outbox
Distinct(s) == \A i, j \in 1 .. Len(s) : s[i] = s[j] => i = j

PlaceInv ==
  /\ Distinct(worker.todo) /\ Distinct(failed)
  /\ \A e \in Event :
       /\ Pending(e) => Handed(e)
       /\ Contains(queue, e) =>
            ~Contains(worker.todo, e) /\ ~Contains(failed, e) /\ e \notin outbox
       /\ Contains(worker.todo, e) => ~Contains(failed, e)

(* what its row, its transaction and its publications have to do with      *)
(* each other,                                                             *)
RowInv ==
  \A e \in Event :
    /\ e \notin Emitted => live[e] = 0 /\ tx[e] = "none" /\ seqOf[e] = 0
    /\ tx[e] # "none" <=> e \in Emitted /\ kind[e] = "direct"
    /\ tx[e] \in {"open", "committed"} => seqOf[e] # 0 /\ live[e] = 0
    /\ seqOf[e] <= lastSeq
    /\ e \in Emitted /\ kind[e] # "start" /\ live[e] > 0 =>
         live[e] = 1 /\ Visible(e) /\ ~Pending(e)

(* and in which order the events that can still be written in their order  *)
(* are waiting: in the queue, in the worker's hand, or in the outbox of a  *)
(* daemon that starts and flushes it first.                                *)
Due(e) == Handed(e) /\ seqOf[e] = 0 /\ e \notin behind \cup lost

Restarting ==
  \/ worker.task = "none" /\ queue # <<>> /\ Head(queue) = Flush
  \/ worker.task = "flush" /\ worker.step = "list"

OrderInv ==
  /\ \A i, j \in 1 .. Len(queue) :
       i < j /\ queue[i] # Flush /\ queue[j] # Flush => queue[i] < queue[j]
  /\ \A e, f \in Event :
       Handed(e) /\ Contains(queue, f) /\ ~Contains(queue, e) => e < f
  /\ \A e \in Event : Due(e) =>
       \A i, j \in 1 .. Len(worker.todo) : i < j /\ worker.todo[j] = e => worker.todo[i] < e
  /\ \A e \in Event : Contains(failed, e) => e \in behind
  /\ \A e \in Event : Due(e) =>
       Contains(queue, e) \/ Contains(worker.todo, e) \/ (e \in outbox /\ Restarting)

PipelineInv ==
  TypeOK /\ WorkerInv /\ PlaceInv /\ RowInv /\ OrderInv /\ EventsKept /\ ReplayCoversGap
=============================================================================
