------------------------------ MODULE ChatClient -----------------------------
(***************************************************************************)
(* What the web client does with the events of the conversation it shows:  *)
(* the reducer of its assistant messages, the run it is bound to, the      *)
(* pending flag that locks the composer and the response timer.            *)
(*                                                                         *)
(* A client is a record: msgs[m] (a message's status, run, parts, content), *)
(* placeholders (local assistant messages not yet bound to a message),     *)
(* lastDelta[m][i] (lastDeltaIndexByPartId, 0 for none), active            *)
(* (activeRunIdRef), waiting (waitingUserRunIdRef), pending, timer, and    *)
(* lastSeq (lastSequenceRef).  A message loaded from the server's history  *)
(* has no status.  Labels, activities, artifacts and errors shown are left *)
(* out.                                                                    *)
(***************************************************************************)
EXTENDS AssistantMessageStream

CONSTANTS Msg, Run

NoRun == 0

Absent == [st |-> "absent", run |-> NoRun, parts |-> <<>>, content |-> <<>>]

LocalPending == [id |-> 0, kind |-> "status", st |-> "running", text |-> <<>>,
                 role |-> "none"]

NewClient ==
  [msgs |-> [m \in Msg |-> Absent], placeholders |-> 0,
   lastDelta |-> [m \in Msg |-> <<>>], active |-> NoRun, waiting |-> NoRun,
   pending |-> FALSE, timer |-> FALSE, lastSeq |-> 0]

IsKnown(c, m) == c.msgs[m].st # "absent"
HasPart(parts, id) == \E i \in DOMAIN parts : parts[i].id = id
HasOpenParts(parts) == \E i \in DOMAIN parts : IsOpen(parts[i])

(* The index of the last delta taken for a part, 0 if none.                *)
LastDelta(c, m, id) == IF id \in DOMAIN c.lastDelta[m] THEN c.lastDelta[m][id] ELSE 0

(* A patch replaces the fields it has. *)
Patched(part, patch) ==
  [f \in DOMAIN part |-> IF f \in DOMAIN patch THEN patch[f] ELSE part[f]]

PatchParts(parts, id, patch) ==
  [i \in DOMAIN parts |-> IF parts[i].id = id THEN Patched(parts[i], patch) ELSE parts[i]]

(* agent.message.started: a known message streams again; a new one takes   *)
(* the place of the last pending placeholder, or is appended.              *)
ReduceStarted(c, m, r) ==
  LET old == c.msgs[m]
  IN  [c EXCEPT
         !.msgs[m] = [old EXCEPT !.st = "streaming", !.run = r,
                        !.parts = IF old.parts = <<>> THEN <<LocalPending>> ELSE old.parts],
         !.placeholders = IF IsKnown(c, m) \/ @ = 0 THEN @ ELSE @ - 1]

(* agent.message.part.started: the part replaces the one with its id.      *)
ReducePartStarted(c, m, part) ==
  IF ~IsKnown(c, m) THEN c
  ELSE LET real == Only(c.msgs[m].parts, Range(c.msgs[m].parts) \ {LocalPending})
       IN  [c EXCEPT !.msgs[m].parts =
              IF HasPart(real, part.id) THEN PatchParts(real, part.id, part)
              ELSE Append(real, part)]

(* upsertTextPartDelta *)
UpsertTextPartDelta(c, m, id, delta) ==
  LET parts == c.msgs[m].parts
  IN  IF c.msgs[m].st = "completed" THEN c
      ELSE [c EXCEPT
              !.msgs[m].st = "streaming",
              !.msgs[m].parts =
                IF HasPart(parts, id)
                THEN [i \in DOMAIN parts |->
                        IF parts[i].id = id /\ parts[i].kind = "text"
                        THEN [parts[i] EXCEPT !.text = Append(@, delta)] ELSE parts[i]]
                ELSE Append(parts, [id |-> id, kind |-> "text", st |-> "streaming",
                                    text |-> <<delta>>, role |-> "none"])]

(* Mutant: a delta is taken as often as it comes. *)
ReduceDelta_NoIndex(c, m, id, index) == UpsertTextPartDelta(c, m, id, index)

(* agent.message.part.delta: an index not above the last one is skipped.   *)
ReduceDelta(c, m, id, index) ==
  IF index <= LastDelta(c, m, id) THEN c
  ELSE UpsertTextPartDelta(
         [c EXCEPT !.lastDelta[m] =
            [i \in DOMAIN @ \cup {id} |-> IF i = id THEN index ELSE @[i]]],
         m, id, index)

ReduceUpdated(c, m, id, patch) ==
  [c EXCEPT !.msgs[m].parts = PatchParts(@, id, patch)]

(* normalizeCompletedAssistantParts *)
NormalizeCompletedParts(parts) ==
  [i \in DOMAIN parts |->
     IF IsOpen(parts[i]) THEN [parts[i] EXCEPT !.st = "completed"] ELSE parts[i]]

(* agent.message.completed: skipped when the message is already complete   *)
(* with this content and nothing open, else the final state.               *)
ReduceCompleted(c, m, parts, content) ==
  LET old == c.msgs[m]
  IN  IF old.st = "completed" /\ old.content = content /\ ~HasOpenParts(old.parts)
      THEN c
      ELSE [c EXCEPT
              !.msgs[m] = [old EXCEPT !.st = "completed", !.content = content,
                                      !.parts = NormalizeCompletedParts(parts)],
              !.lastDelta[m] = IF IsKnown(c, m) THEN <<>> ELSE @]

(* assistantMessageReducer *)
Reduce(c, e) ==
  CASE e.type = "message.started"   -> ReduceStarted(c, e.msg, e.run)
    [] e.type = "part.started"      -> ReducePartStarted(c, e.msg, e.part)
    [] e.type = "part.delta"        -> ReduceDelta(c, e.msg, e.id, e.index)
    [] e.type = "part.updated"      -> ReduceUpdated(c, e.msg, e.id, e.patch)
    [] e.type = "message.completed" -> ReduceCompleted(c, e.msg, e.parts, e.content)
    [] OTHER                        -> c

(* Mutant: the end of a run leaves the composer as it is. *)
FinishActiveRun_Pending(c) == [c EXCEPT !.active = NoRun, !.waiting = NoRun, !.timer = FALSE]

FinishActiveRun(c) ==
  [c EXCEPT !.active = NoRun, !.waiting = NoRun, !.pending = FALSE, !.timer = FALSE]

MarkRunActive(c, r) == [c EXCEPT !.active = r, !.waiting = NoRun, !.timer = TRUE]

(* A run that asks: an approval keeps the composer locked, and binds a     *)
(* client that is bound to no run; a question unlocks it.                  *)
Awaits(c, e) ==
  CASE e.type = "approval.required" /\ c.active \in {NoRun, e.run} ->
         [c EXCEPT !.active = e.run, !.pending = TRUE, !.timer = FALSE]
    [] e.type = "clarification.requested" /\ c.active = e.run ->
         [c EXCEPT !.waiting = e.run, !.pending = FALSE, !.timer = FALSE]
    [] OTHER -> c

(* The events of the run itself.  Terminal ones count only for the run the *)
(* client is bound to; a cancelled run's streaming messages are stopped.   *)
Bind(c, e) ==
  CASE e.type = "run.created" -> [c EXCEPT !.active = e.run, !.waiting = NoRun]
    [] e.type \in {"run.started", "message.started"} -> MarkRunActive(c, e.run)
    [] e.type \in {"part.started", "part.delta"} -> [c EXCEPT !.timer = TRUE]
    [] e.type \in {"approval.required", "clarification.requested"} -> Awaits(c, e)
    [] e.type = "run.ended" /\ c.active = e.run ->
         [FinishActiveRun(c) EXCEPT !.msgs =
            [m \in Msg |-> IF /\ e.outcome = "cancelled" /\ @[m].st = "streaming"
                              /\ @[m].run \in {NoRun, e.run}
                           THEN [@[m] EXCEPT !.st = "stopped"] ELSE @[m]]]
    [] OTHER -> c

(* The socket's message handler: an event of another run than the one the  *)
(* client is bound to is dropped before its sequence is noted.             *)
IsForMe(c, e) == c.active \in {NoRun, e.run}

Receive(c, e, seq) ==
  IF ~IsForMe(c, e) THEN c
  ELSE LET noted == [c EXCEPT !.lastSeq = IF seq > @ THEN seq ELSE @]
       IN  Bind(Reduce(noted, e), e)

(* send *)
Sent(c) ==
  [c EXCEPT !.pending = TRUE, !.timer = TRUE, !.placeholders = @ + 1]

(* stop *)
Stopped(c) == [c EXCEPT !.active = NoRun, !.pending = FALSE, !.timer = FALSE]

(* The socket's close handler. *)
Closed(c) == [c EXCEPT !.pending = FALSE, !.timer = FALSE]

(* mergeMessagesById: the server's rows replace the messages they have.    *)
MergeRows(c, rows) ==
  [c EXCEPT !.msgs = [m \in Msg |->
     IF m \notin DOMAIN rows THEN @[m]
     ELSE [st |-> "loaded", run |-> NoRun, parts |-> rows[m], content |-> MergeContent(rows[m])]]]

(* The restore effect: no other run may be bound.  kind is the             *)
(* continuation the active-run endpoint reported.                          *)
Restored(c, r, continuation) ==
  IF c.active \notin {NoRun, r} THEN c
  ELSE [c EXCEPT !.active = r,
                 !.waiting = IF continuation = "user" THEN r ELSE NoRun,
                 !.pending = continuation # "user"]
=============================================================================
