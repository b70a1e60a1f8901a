------------------------------ MODULE ChatSession -----------------------------
(***************************************************************************)
(* A conversation between one browser page and the daemon: the user sends, *)
(* stops and answers; each run streams assistant messages; their events    *)
(* take two ways to the page (message.started, part.started and the deltas *)
(* at once, everything else after it was written, in the queue's order);   *)
(* the page loses its socket, comes back and asks for what it missed, or   *)
(* is reloaded.                                                            *)
(*                                                                         *)
(* The sending connection gets an event once from its own request's hooks  *)
(* and once from its subscription, so a broadcast is applied once or       *)
(* twice.  The network keeps the order within a connection, so a broadcast *)
(* is applied when it is made; only a replay, which is read first and sent *)
(* later, is a step of its own, and a lost connection may cut it short.    *)
(***************************************************************************)
EXTENDS ChatClient, FiniteSets, FiniteSetsExt

CONSTANTS
  Waits,        \* what a run may wait for: "approval", "user"
  Tools,        \* whether runs call tools
  MaxParts,     \* bound: parts of all messages, before the closing parts
  MaxDelta,     \* bound: deltas of a text part
  MaxLag,       \* bound: events queued when a run takes a step
  Faults,       \* the faults that may happen: "drop" (the socket is lost),
                \* "save" (saving a message fails), "late" (every attempt to
                \* write an event fails), "reload" (the page is loaded again)
  MaxFault      \* bound: faults

ASSUME ChatAssumption ==
  /\ IsFiniteSet(Run) /\ Run = 1 .. Cardinality(Run)
  /\ IsFiniteSet(Msg) /\ Msg = 1 .. Cardinality(Msg)
  /\ Waits \subseteq {"approval", "user"}
  /\ Tools \in BOOLEAN
  /\ MaxParts \in Nat \ {0} /\ MaxDelta \in Nat \ {0}
  /\ {MaxLag, MaxFault} \subseteq Nat
  /\ Faults \subseteq {"drop", "save", "late", "reload"}

VARIABLES
  phase,     \* phase[r]: "none", "accepted", "streaming", "approval", "user",
             \* "closing" (the message is closed), "ended"
  outcome,   \* outcome[r]: how the run ends, once it is closing
  current,   \* current[r]: the message it streams, 0 before the first
  aborted,   \* aborted[r]: its signal
  owner,     \* owner[m]: the run of message m, 0 for an unused message
  parts,     \* parts[m]: the stream's parts
  rows,      \* the saved messages: a function from message ids to parts
  queue,     \* persistenceQueue
  log,       \* the events table; an event's sequence is its place
  late,      \* failedEvents: events that wait for the next flush
  client,    \* the page
  conn,      \* its socket: [st, from, replay]
  command,   \* a request on its way to the daemon
  fetched,   \* the answers to a reload's two requests, while they travel
  faults     \* how often each fault has happened

server == <<phase, outcome, current, aborted, owner, parts, rows>>
vars   == <<server, queue, log, late, client, conn, command, fetched, faults>>

NoCommand == [kind |-> "none", run |-> NoRun]
Offline   == [st |-> "off", from |-> 0, replay |-> <<>>]
NoAnswer  == [st |-> "none", answer |-> <<>>]
Asked     == [st |-> "asked", answer |-> <<>>]
Answered(a) == [st |-> "here", answer |-> a]
NothingFetched == [rows |-> NoAnswer, active |-> NoAnswer]

Init ==
  /\ phase = [r \in Run |-> "none"] /\ outcome = [r \in Run |-> "none"]
  /\ current = [r \in Run |-> 0] /\ aborted = [r \in Run |-> FALSE]
  /\ owner = [m \in Msg |-> NoRun] /\ parts = [m \in Msg |-> <<>>] /\ rows = <<>>
  /\ queue = <<>> /\ log = <<>> /\ late = <<>>
  /\ client = NewClient
  /\ conn = [Offline EXCEPT !.st = "on"]
  /\ command = NoCommand /\ fetched = NothingFetched
  /\ faults = [kind \in Faults |-> 0]

-----------------------------------------------------------------------------
(* The two ways of an event.                                               *)

ToLiveAtOnce == {"message.started", "part.started", "part.delta"}

IsConnected == conn.st # "off"

FaultsSoFar == MapThenSumSet(LAMBDA k : faults[k], Faults)

Fault(kind) ==
  /\ kind \in Faults /\ FaultsSoFar < MaxFault
  /\ faults' = [faults EXCEPT ![kind] = @ + 1]

(* The page applies events es, each with its sequence (0 for an event that *)
(* is not written yet), one after the other.                               *)
Apply(c, es) ==
  LET taken[i \in 0 .. Len(es)] ==
        IF i = 0 THEN c ELSE Receive(taken[i - 1], es[i][1], es[i][2])
  IN  taken[Len(es)]

(* A broadcast reaches a connected page, once or through both ways.        *)
Broadcast(es) ==
  IF ~IsConnected \/ es = <<>> THEN UNCHANGED client
  ELSE \/ client' = Apply(client, es)
       \/ client' = Apply(client, [i \in 1 .. 2 * Len(es) |-> es[(i + 1) \div 2]])

(* What the code emits in one go: the early kinds are broadcast, deltas    *)
(* are not written, the rest is queued.                                    *)
Emit(es) ==
  /\ queue' = queue \o Only(es, {e \in Range(es) : e.type # "part.delta"})
  /\ LET early == Only(es, {e \in Range(es) : e.type \in ToLiveAtOnce})
     IN  Broadcast([i \in DOMAIN early |-> <<early[i], 0>>])

(* An event with the run and the message it is about. *)
Event(r, m, e) ==
  [f \in DOMAIN e \cup {"run", "msg"} |->
     IF f = "run" THEN r ELSE IF f = "msg" THEN m ELSE e[f]]
RunEvent(r, type) == Event(r, 0, [type |-> type])

(* The queue's next task writes its event and broadcasts it if it was not  *)
(* broadcast early.                                                        *)
Persist ==
  /\ queue # <<>>
  /\ LET e == Head(queue)
     IN  /\ log' = Append(log, e)
         /\ queue' = Tail(queue)
         /\ IF e.type \in ToLiveAtOnce THEN UNCHANGED client
            ELSE Broadcast(<<<<e, Len(log) + 1>>>>)
  /\ UNCHANGED <<late, conn, command, fetched, faults>> /\ UNCHANGED server

(* Every attempt failed: the event waits for a flush, the queue goes on.   *)
PersistFails ==
  /\ queue # <<>> /\ Fault("late")
  /\ late' = Append(late, Head(queue)) /\ queue' = Tail(queue)
  /\ UNCHANGED <<log, client, conn, command, fetched>>
  /\ UNCHANGED server

(* The flush broadcasts what it writes, whatever its kind.                 *)
Flush ==
  /\ late # <<>>
  /\ log' = log \o late /\ late' = <<>>
  /\ Broadcast([i \in DOMAIN late |-> <<late[i], Len(log) + i>>])
  /\ UNCHANGED <<queue, conn, command, fetched, faults>> /\ UNCHANGED server

-----------------------------------------------------------------------------
(* The daemon: requests, and the stream of each run.                       *)

(* There is room for another part. *)
Room == MapThenSumSet(LAMBDA m : Len(parts[m]), Msg) < MaxParts

FreeMsg == {m \in Msg : owner[m] = NoRun}

(* The rows once message m is saved with parts ps.                         *)
Saved(m, ps) == [k \in DOMAIN rows \cup {m} |-> IF k = m THEN ps ELSE rows[k]]

(* The changes made to message m of run r, and their events.               *)
Stream(r, m, changes) ==
  /\ parts' = [parts EXCEPT ![m] = Last(changes).parts]
  /\ Emit([i \in DOMAIN changes |-> Event(r, m, changes[i].event)])

(* A text that is started, filled and completed in one go.                 *)
Say(ps, role) ==
  LET a == StartPart(ps, "text", role)
      b == AppendText(a.parts, Len(a.parts))
      d == CompleteTextPart(b.parts, Len(a.parts))
  IN  <<a, b, d>>

OpenText(ps) == {i \in DOMAIN ps : ps[i].kind = "text" /\ IsOpen(ps[i])}
OpenTool(ps) == {i \in DOMAIN ps : ps[i].kind = "tool_use" /\ IsOpen(ps[i])}

(* chat.send: the run's row and its event are written together.            *)
AcceptSend ==
  /\ IsConnected /\ command.kind = "send"
  /\ command' = NoCommand
  /\ \E r \in Run :
       /\ phase[r] = "none" /\ \A q \in Run : q < r => phase[q] # "none"
       /\ phase' = [phase EXCEPT ![r] = "accepted"]
       /\ log' = Append(log, RunEvent(r, "run.created"))
       /\ Broadcast(<<<<RunEvent(r, "run.created"), Len(log) + 1>>>>)
  /\ UNCHANGED <<outcome, current, aborted, owner, parts, rows, queue, late, conn,
                 fetched, faults>>

(* The engine's start: the message, its first status part and run.started. *)
StartRun(r) ==
  /\ phase[r] = "accepted"
  /\ \E m \in FreeMsg :
       LET first == StartPart(<<>>, "status", "none")
       IN  /\ \A n \in FreeMsg : m <= n
           /\ owner' = [owner EXCEPT ![m] = r]
           /\ current' = [current EXCEPT ![r] = m]
           /\ parts' = [parts EXCEPT ![m] = first.parts]
           /\ Emit(<<Event(r, m, [type |-> "message.started"]),
                     Event(r, m, first.event), RunEvent(r, "run.started")>>)
  /\ phase' = [phase EXCEPT ![r] = "streaming"]
  /\ UNCHANGED <<outcome, aborted, rows, log, late, conn, command, fetched, faults>>

(* One change of the message a run streams.  A first part of kind status   *)
(* is the engine's own: nothing else happens until the context is ready.   *)
StreamStep(r) ==
  LET m  == current[r]
      ps == parts[m]
      preparing == ps # <<>> /\ ps[1].kind = "status" /\ IsOpen(ps[1])
  IN  /\ phase[r] = "streaming" /\ ~aborted[r]
      /\ \/ /\ preparing
            /\ Stream(r, m, <<UpdateStatus(ps, 1, "completed")>>)
         \/ /\ ~preparing /\ Room /\ OpenText(ps) = {} /\ OpenTool(ps) = {}
            /\ LET started == StartPart(ps, "text", "progress")
               IN  Stream(r, m, <<started, AppendText(started.parts, Len(started.parts))>>)
         \/ \E i \in OpenText(ps) :
              \/ /\ Len(ps[i].text) < MaxDelta
                 /\ Stream(r, m, <<AppendText(ps, i)>>)
              \/ Stream(r, m, <<CompleteTextPart(ps, i)>>)
         \/ /\ Tools /\ ~preparing /\ Room
            /\ OpenText(ps) = {} /\ OpenTool(ps) = {}
            /\ LET use == StartPart(ps, "tool_use", "none")
               IN  Stream(r, m, <<use, UpdateStatus(use.parts, Len(use.parts), "running")>>)
         \/ \E i \in OpenTool(ps), st \in {"completed", "failed"} :
              LET done == UpdateStatus(ps, i, st)
              IN  Stream(r, m, <<done, StartPart(done.parts, "tool_result", "none")>>)
      /\ UNCHANGED <<phase, outcome, current, aborted, owner, rows, log, late, conn,
                     command, fetched, faults>>

(* A run that must wait first says so in its message and saves the parts.  *)
Suspend(r, kind, changes) ==
  LET m == current[r]
  IN  /\ phase[r] = "streaming" /\ ~aborted[r] /\ kind \in Waits
      /\ parts[m] # <<>> => ~(parts[m][1].kind = "status" /\ IsOpen(parts[m][1]))
      /\ OpenText(parts[m]) = {} /\ OpenTool(parts[m]) = {} /\ Room
      /\ Stream(r, m, changes)
      /\ rows' = Saved(m, Last(changes).parts)
      /\ phase' = [phase EXCEPT ![r] = IF kind = "user" THEN "asks_user" ELSE "asks_approval"]
      /\ UNCHANGED <<outcome, current, aborted, owner, log, late, conn, command,
                     fetched, faults>>

SuspendForApproval(r) ==
  LET said   == Say(parts[current[r]], "progress")
      status == StartPart(Last(said).parts, "status", "none")
  IN  Suspend(r, "approval", said \o <<status, StartPart(status.parts, "tool_use", "none")>>)

SuspendForUser(r) ==
  LET said == Say(parts[current[r]], "user_prompt")
  IN  Suspend(r, "user", said \o <<StartPart(Last(said).parts, "status", "none")>>)

(* Once everything queued so far is flushed, the run waits.  The request   *)
(* for an approval is written together with the run's status, the question *)
(* to the user is emitted like any other event.                            *)
AskApproval(r) ==
  /\ phase[r] = "asks_approval" /\ queue = <<>>
  /\ phase' = [phase EXCEPT ![r] = "approval"]
  /\ log' = Append(log, RunEvent(r, "approval.required"))
  /\ Broadcast(<<<<RunEvent(r, "approval.required"), Len(log) + 1>>>>)
  /\ UNCHANGED <<outcome, current, aborted, owner, parts, rows, queue, late, conn,
                 command, fetched, faults>>

AskUser(r) ==
  /\ phase[r] = "asks_user" /\ queue = <<>>
  /\ phase' = [phase EXCEPT ![r] = "user"]
  /\ Emit(<<RunEvent(r, "clarification.requested")>>)
  /\ UNCHANGED <<outcome, current, aborted, owner, parts, rows, log, late, conn,
                 command, fetched, faults>>

(* completeWaitingStatuses: the open status of a suspended message is done.*)
WaitingDone(ps) ==
  {i \in DOMAIN ps : ps[i].kind = "status" /\ IsOpen(ps[i])}

(* The approved run hydrates its message, which starts once more.          *)
Approve(r) ==
  LET m    == current[r]
      i    == CHOOSE j \in WaitingDone(parts[m]) : TRUE
      done == UpdateStatus(parts[m], i, "completed")
  IN  /\ phase[r] = "approval"
      /\ phase' = [phase EXCEPT ![r] = "streaming"]
      /\ parts' = [parts EXCEPT ![m] = done.parts]
      /\ Emit(<<Event(r, m, [type |-> "message.started"]), Event(r, m, done.event),
                RunEvent(r, "run.started")>>)
      /\ UNCHANGED <<outcome, current, aborted, owner, rows, log, late, conn, command,
                     fetched, faults>>

(* run.resume: the waiting message is saved with its status done, and the  *)
(* run goes on in a new one.  Any other run refuses.                       *)
AcceptResume ==
  LET r == command.run
      m == current[r]
      i == CHOOSE j \in WaitingDone(parts[m]) : TRUE
      done == UpdateStatus(parts[m], i, "completed")
  IN  /\ IsConnected /\ command.kind = "resume"
      /\ command' = NoCommand
      /\ IF phase[r] = "user"
         THEN \E n \in FreeMsg :
                /\ \A k \in FreeMsg : n <= k
                /\ phase' = [phase EXCEPT ![r] = "streaming"]
                /\ owner' = [owner EXCEPT ![n] = r]
                /\ current' = [current EXCEPT ![r] = n]
                /\ parts' = [parts EXCEPT ![m] = done.parts]
                /\ rows' = Saved(m, done.parts)
                /\ Emit(<<Event(r, m, done.event), Event(r, n, [type |-> "message.started"]),
                          RunEvent(r, "run.started")>>)
         ELSE /\ client' = Closed(client)
              /\ UNCHANGED <<phase, owner, current, parts, rows, queue>>
      /\ UNCHANGED <<outcome, aborted, log, late, conn, fetched, faults>>

(* chat.stop: only a run that executes has a signal to abort.              *)
AcceptStop ==
  /\ IsConnected /\ command.kind = "stop"
  /\ command' = NoCommand
  /\ aborted' = [aborted EXCEPT ![command.run] =
       @ \/ phase[command.run] \in {"accepted", "streaming", "failing"}]
  /\ UNCHANGED <<phase, outcome, current, owner, parts, rows, queue, log, late, client,
                 conn, fetched, faults>>

(* Mutant: the message is announced although its save failed. *)
Complete_Announces(r, ps, es, how) ==
  LET m     == current[r]
      final == CompleteOpenParts(ps, how)
  IN  /\ parts' = [parts EXCEPT ![m] = final]
      /\ Emit(es \o <<Event(r, m, Completed(final))>>)
      /\ phase' = [phase EXCEPT ![r] = "closing"]
      /\ \/ rows' = Saved(m, final) /\ UNCHANGED faults
         \/ Fault("save") /\ UNCHANGED rows

(* complete(): the open parts are closed and the row saved before the      *)
(* message is announced complete.  A failed save, which may have           *)
(* committed, puts the parts back and announces nothing.  es are the       *)
(* events of the parts added last.                                         *)
Complete(r, ps, es, how) ==
  LET m     == current[r]
      final == CompleteOpenParts(ps, how)
  IN  \/ /\ parts' = [parts EXCEPT ![m] = final] /\ rows' = Saved(m, final)
         /\ Emit(es \o <<Event(r, m, Completed(final))>>)
         /\ phase' = [phase EXCEPT ![r] = "closing"]
         /\ UNCHANGED faults
      \/ /\ Fault("save")
         /\ parts' = [parts EXCEPT ![m] = ps]
         /\ rows' \in {rows, Saved(m, final)}
         /\ Emit(es)
         /\ phase' = [phase EXCEPT ![r] = IF how = "completed" THEN "failing" ELSE "closing"]

Close(r, changes, how) ==
  LET m == current[r]
  IN  /\ Complete(r, Last(changes).parts,
                  [i \in DOMAIN changes |-> Event(r, m, changes[i].event)], how)
      /\ outcome' = [outcome EXCEPT ![r] = how]
      /\ UNCHANGED <<current, aborted, owner, log, late, conn, command, fetched>>

(* The last turn called no tool: its text becomes the final one, or a      *)
(* fallback is said.                                                       *)
Answer(r) ==
  LET ps == parts[current[r]]
  IN  /\ phase[r] = "streaming" /\ ~aborted[r]
      /\ OpenText(ps) = {} /\ OpenTool(ps) = {}
      /\ Close(r, IF ps # <<>> /\ Last(ps).kind = "text"
                  THEN <<UpdateTextPartRole(ps, Len(ps), "final")>>
                  ELSE Say(ps, "final"), "completed")

(* Anything thrown: an error part, and the message is closed as failed.    *)
FailRun(r) ==
  /\ phase[r] = "failing" \/ (phase[r] = "streaming" /\ ~aborted[r])
  /\ Close(r, <<StartPart(parts[current[r]], "error", "none")>>, "failed")

(* An aborted run says that it was stopped.                                *)
CancelRun(r) ==
  /\ phase[r] = "streaming" /\ aborted[r]
  /\ Close(r, Say(parts[current[r]], "final"), "cancelled")

EndRun(r) ==
  /\ phase[r] = "closing"
  /\ phase' = [phase EXCEPT ![r] = "ended"]
  /\ Emit(<<Event(r, 0, [type |-> "run.ended", outcome |-> outcome[r]])>>)
  /\ UNCHANGED <<outcome, current, aborted, owner, parts, rows, log, late, conn,
                 command, fetched, faults>>

-----------------------------------------------------------------------------
(* The page.                                                               *)

(* A run waiting for the user is resumed by the next message.  A command   *)
(* travels at once, or when the socket opens.                              *)
Send ==
  /\ ~client.pending /\ command = NoCommand
  /\ client.placeholders < Cardinality(Msg)
  /\ IF client.waiting = NoRun THEN \E r \in Run : phase[r] = "none" ELSE FreeMsg # {}
  /\ client' = Sent(client)
  /\ command' = IF client.waiting = NoRun THEN [kind |-> "send", run |-> NoRun]
                ELSE [kind |-> "resume", run |-> client.waiting]
  /\ UNCHANGED <<queue, log, late, conn, fetched, faults>> /\ UNCHANGED server

(* The stop button: without a bound run the socket is closed, and a request *)
(* on its way is lost with it.                                             *)
Stop ==
  /\ client.pending \/ client.active # NoRun
  /\ client' = Stopped(client)
  /\ IF IsConnected /\ client.active # NoRun
     THEN /\ command = NoCommand
          /\ command' = [kind |-> "stop", run |-> client.active] /\ UNCHANGED <<conn, faults>>
     ELSE /\ conn' = Offline /\ command' = NoCommand
          /\ IF IsConnected /\ command # NoCommand THEN Fault("drop") ELSE UNCHANGED faults
  /\ UNCHANGED <<queue, log, late, fetched>> /\ UNCHANGED server

TimerFires ==
  /\ client.timer
  /\ client' = [client EXCEPT !.pending = FALSE, !.timer = FALSE]
  /\ UNCHANGED <<queue, log, late, conn, command, fetched, faults>>
  /\ UNCHANGED server

(* The socket closes; a request on its way is lost with it.                *)
Drop ==
  /\ IsConnected /\ Fault("drop")
  /\ conn' = Offline /\ client' = Closed(client) /\ command' = NoCommand
  /\ UNCHANGED <<queue, log, late, fetched>>
  /\ UNCHANGED server

(* A new socket subscribes; what was missed is asked for only by a page    *)
(* that has seen a sequence.                                               *)
Connect ==
  /\ conn.st = "off"
  /\ conn' = [st |-> IF client.lastSeq > 0 THEN "asking" ELSE "on",
              from |-> client.lastSeq, replay |-> <<>>]
  /\ UNCHANGED <<queue, log, late, client, command, fetched, faults>> /\ UNCHANGED server

(* conversation.subscribe reads the events after the page's sequence ...   *)
ReadReplay ==
  /\ conn.st = "asking"
  /\ conn' = [conn EXCEPT !.st = "replaying",
                !.replay = [i \in 1 .. Len(log) - conn.from |->
                              <<log[conn.from + i], conn.from + i>>]]
  /\ UNCHANGED <<queue, log, late, client, command, fetched, faults>> /\ UNCHANGED server

(* ... and sends them when the answer of the database has come.            *)
SendReplay ==
  /\ conn.st = "replaying"
  /\ client' = Apply(client, conn.replay)
  /\ conn' = [conn EXCEPT !.st = "on", !.replay = <<>>]
  /\ UNCHANGED <<queue, log, late, command, fetched, faults>> /\ UNCHANGED server

(* The page is loaded again: nothing is left but the two requests.         *)
Reload ==
  /\ Fault("reload")
  /\ client' = NewClient
  /\ conn' = Offline /\ command' = NoCommand
  /\ fetched' = [rows |-> Asked, active |-> Asked]
  /\ UNCHANGED <<queue, log, late>> /\ UNCHANGED server

(* getActiveRun: the latest run that is not over, and what it waits for.   *)
ActiveRun ==
  LET live == {r \in Run : phase[r] \notin {"none", "ended"}}
  IN  IF live = {} THEN [run |-> NoRun, kind |-> "none"]
      ELSE [run |-> Max(live),
            kind |-> IF phase[Max(live)] \in {"approval", "user"} THEN phase[Max(live)]
                     ELSE "none"]

AnswerFetch ==
  /\ \/ fetched.rows = Asked /\ fetched' = [fetched EXCEPT !.rows = Answered(rows)]
     \/ fetched.active = Asked /\ fetched' = [fetched EXCEPT !.active = Answered(ActiveRun)]
  /\ UNCHANGED <<queue, log, late, client, conn, command, faults>> /\ UNCHANGED server

ApplyRows ==
  /\ fetched.rows.st = "here"
  /\ client' = MergeRows(client, fetched.rows.answer)
  /\ fetched' = [fetched EXCEPT !.rows = NoAnswer]
  /\ UNCHANGED <<queue, log, late, conn, command, faults>> /\ UNCHANGED server

ApplyActive ==
  /\ fetched.active.st = "here"
  /\ LET run == fetched.active.answer
     IN  client' = IF run.run = NoRun THEN client ELSE Restored(client, run.run, run.kind)
  /\ fetched' = [fetched EXCEPT !.active = NoAnswer]
  /\ UNCHANGED <<queue, log, late, conn, command, faults>> /\ UNCHANGED server

-----------------------------------------------------------------------------

RunStep(r) ==
  /\ Len(queue) <= MaxLag
  /\ \/ StartRun(r) \/ StreamStep(r) \/ SuspendForApproval(r) \/ SuspendForUser(r)
     \/ AskApproval(r) \/ AskUser(r) \/ Approve(r) \/ Answer(r) \/ FailRun(r)
     \/ CancelRun(r) \/ EndRun(r)

Daemon == Persist \/ PersistFails \/ Flush \/ AcceptSend \/ AcceptResume \/ AcceptStop
          \/ \E r \in Run : RunStep(r)

Page == \/ Send \/ Stop \/ TimerFires \/ Drop \/ Connect \/ ReadReplay \/ SendReplay
        \/ Reload \/ AnswerFetch \/ ApplyRows \/ ApplyActive

Next == Daemon \/ Page

Spec == Init /\ [][Next]_vars

-----------------------------------------------------------------------------

(* A part's text on the page never repeats a delta and never mixes their   *)
(* order, whatever was delivered twice, replayed, or sent late.            *)
TextNotRepeated ==
  \A m \in Msg : \A i \in DOMAIN client.msgs[m].parts :
    LET text == client.msgs[m].parts[i].text
    IN  \A j \in 1 .. Len(text) - 1 : text[j] < text[j + 1]

(* A message the page shows as completed was saved before, with the        *)
(* content the page shows, so a reload shows the same.                     *)
ClosedIsSaved ==
  \A m \in Msg :
    client.msgs[m].st = "completed"
      => m \in DOMAIN rows /\ client.msgs[m].content = MergeContent(rows[m])

(* What the page shows of an answer is what was said, and what is kept.     *)
TranscriptIsSound == TextNotRepeated /\ ClosedIsSaved

(* When every run is over and nothing is under way, the composer is not    *)
(* locked, unless the response timer is still to unlock it.                *)
AtRest ==
  /\ \A r \in Run : phase[r] \in {"none", "ended"}
  /\ queue = <<>> /\ late = <<>> /\ conn.st = "on" /\ command = NoCommand
  /\ fetched = NothingFetched

RestUnlocked == AtRest /\ client.pending => client.timer

(* A page that keeps its socket and is not reloaded is never locked at     *)
(* rest, whatever is stopped, refused or times out in between.             *)
SteadyPageUnlocked ==
  (\A k \in Faults \cap {"drop", "reload"} : faults[k] = 0) => RestUnlocked

(* "completed is final override, not incremental append" (chat-state.ts):  *)
(* a message the page has completed does not go back to streaming.         *)
CompletedStaysFinal ==
  [][\A m \in Msg : client.msgs[m].st = "completed"
                    => client'.msgs[m].st \in {"completed", "loaded", "absent"}]_vars
=============================================================================
