------------------------------ MODULE ReactLoop ------------------------------
(***************************************************************************)
(* One run of the agent: the model is called with the transcript, its tool *)
(* calls are guarded and executed, their observations are appended, and a  *)
(* checkpoint is saved at every turn, so that an approval, an answer or a  *)
(* restart continues from it.  AgentRuntime has the commands around this   *)
(* loop; here the status of the run moves in one step.                     *)
(*                                                                         *)
(* A step ends at an await.  The transcript is kept as what the loop reads *)
(* of it: how often each action was asked for, and the calls that have no  *)
(* answer yet.  Call ids are fresh, as a provider's are meant to be.       *)
(***************************************************************************)
EXTENDS ToolSafety, FiniteSetsExt, Sequences

CONSTANTS
  Mode,             \* the permission modes to start in
  ParallelSkill,    \* skills of a category that runs in parallel
  Idempotent,       \* actions with more than one attempt
  MaxAttempts,      \* their attempts
  MaxRepeated,      \* maxRepeatedToolCalls
  MaxToolRounds, MaxModelCalls,
  MaxBatch,         \* bound: calls in one turn, at most a chunk
  MaxFault,         \* bound: failing database calls
  MaxCrash          \* bound: restarts of the daemon

ASSUME LoopAssumption ==
  /\ Mode \subseteq PermissionMode
  /\ {MaxAttempts, MaxRepeated, MaxToolRounds} \subseteq Nat \ {0}
  /\ MaxBatch \in Nat /\ MaxBatch >= 2
  /\ MaxModelCalls \in Nat /\ MaxModelCalls >= 2
  /\ {MaxFault, MaxCrash} \subseteq Nat

VARIABLES
  mode,             \* permissionMode of the run
  status,           \* the run's row
  signal,           \* the AbortSignal of the pass: "quiet", "aborted" or "deadline"
  pc,               \* where the pass is
  mem,              \* the transcript and the counters of the pass, see Memory
  ckpt,             \* the saved checkpoint
  seen,             \* seenSignatures
  turn,             \* the turn being handled, see Turn
  forced,           \* forceFinalization
  job,              \* job[i]: the execution of call i of the turn
  grants,           \* grantsByRun of the safety boundary
  openRows, steps,  \* calls with a tool_calls row in "running"; with a steps row
  made,             \* model calls begun, ever
  starts,           \* starts[a]: how often the action was started, ever
  approved, rejected, \* actions the user approved, rejected, ever
  faults, crashes

passVars == <<signal, pc, mem, seen, turn, forced>>
execVars == <<job, grants, openRows, steps, starts>>
userVars == <<mode, approved, rejected>>
vars == <<passVars, execVars, userVars, status, ckpt, made, faults, crashes>>

Call == Action \cup {NoAction}
Batch == UNION {[1 .. n -> Call] : n \in 0 .. MaxBatch}
Slot == 1 .. MaxBatch
Id == (0 .. MaxModelCalls + MaxCrash) \X Slot

Memory == [asked : [Action -> Nat], open : SUBSET Id, twice : BOOLEAN,
           iteration : Nat, modelCalls : Nat]
Turn == [kind : {"none", "text", "calls", "ask", "badAsk", "invalid"}, calls : Batch,
         approved : BOOLEAN]

Job == [pc : {"wait", "denied", "gate", "row", "gate2", "step", "running",
              "stepEnd", "rowEnd", "cancel", "fail", "done", "thrown"},
        attempt : 0 .. MaxAttempts]

NoTurn == [kind |-> "none", calls |-> <<>>, approved |-> FALSE]
NoJob == [pc |-> "done", attempt |-> 0]
NewMemory == [asked |-> [a \in Action |-> 0], open |-> {}, twice |-> FALSE,
              iteration |-> 0, modelCalls |-> 0]

TypeOK ==
  /\ mode \in Mode
  /\ status \in {"running", "waiting_approval", "waiting_user", "interrupted",
                 "completed", "cancelled", "failed"}
  /\ signal \in {"quiet", "aborted", "deadline"}
  /\ pc \in {"off", "save", "head", "model", "turn", "exec", "ask", "freeze", "request",
             "final", "complete"}
  /\ mem \in Memory
  /\ ckpt \in [saved : BOOLEAN, mem : Memory, pending : Batch]
  /\ seen \in [Action -> Nat] /\ turn \in Turn /\ forced \in BOOLEAN
  /\ job \in [Slot -> Job]
  /\ grants \subseteq Grant(Id) /\ openRows \subseteq Id /\ steps \subseteq Id
  /\ made \in 0 .. MaxModelCalls + MaxCrash
  /\ starts \in [Action -> Nat]
  /\ approved \subseteq Action /\ rejected \subseteq Action
  /\ faults \in 0 .. MaxFault /\ crashes \in 0 .. MaxCrash

Init ==
  /\ mode \in Mode
  /\ status = "running" /\ signal = "quiet" /\ pc = "save"
  /\ mem = NewMemory /\ ckpt = [saved |-> FALSE, mem |-> NewMemory, pending |-> <<>>]
  /\ seen = NewMemory.asked /\ turn = NoTurn /\ forced = FALSE
  /\ job = [i \in Slot |-> NoJob]
  /\ grants = {} /\ openRows = {} /\ steps = {}
  /\ made = 0 /\ starts = NewMemory.asked
  /\ approved = {} /\ rejected = {} /\ faults = 0 /\ crashes = 0
-----------------------------------------------------------------------------
Fault == faults < MaxFault /\ faults' = faults + 1
Healthy == UNCHANGED faults

Size == Len(turn.calls)
IdOf(i) == <<made, i>>
IdsOf(calls) == {<<made, i>> : i \in DOMAIN calls}
Times(calls, a) == Cardinality({i \in DOMAIN calls : calls[i] = a})

(* A message of the assistant with tool calls, and tool messages for them. *)
Asking(m, calls) ==
  [m EXCEPT !.asked = [a \in Action |-> @[a] + Times(calls, a)], !.open = @ \cup IdsOf(calls)]
Answering(m, ids) ==
  [m EXCEPT !.open = @ \ ids, !.twice = @ \/ ~(ids \subseteq m.open)]

(* injectObservations, with the round counted.                             *)
RoundDone(m, calls) == [Answering(m, IdsOf(calls)) EXCEPT !.iteration = @ + 1]

Save(m, pending) == ckpt' = [saved |-> TRUE, mem |-> m, pending |-> pending]

(* The pass ends with an error: handleLoopError marks the run.  Tools that *)
(* are still running go on.                                                *)
Throw ==
  /\ pc' = "off"
  /\ status' = IF status # "running" THEN status
               ELSE IF signal = "aborted" THEN "cancelled" ELSE "failed"
  /\ grants' = {}

Persist(m, pending, next) ==
  \/ Healthy /\ Save(m, pending) /\ pc' = next /\ UNCHANGED <<status, grants>>
  \/ Fault /\ Throw /\ UNCHANGED ckpt

SavePass ==
  /\ pc = "save"
  /\ Persist(mem, <<>>, "head")
  /\ UNCHANGED <<signal, mem, seen, turn, forced, job, openRows, steps, starts, userVars,
                 made, crashes>>

LoopHead_NoReserve ==
  /\ pc = "head"
  /\ pc' = "model" /\ made' = made + 1
  /\ forced' = (forced \/ mem.iteration >= MaxToolRounds \/ mem.modelCalls >= MaxModelCalls)
  /\ UNCHANGED <<signal, status, grants, mem, ckpt, seen, turn, job, openRows, steps, starts,
                 userVars, faults, crashes>>

LoopHead ==
  /\ pc = "head"
  /\ IF signal # "quiet"
     THEN Throw /\ UNCHANGED <<forced, made>>
     ELSE /\ pc' = "model" /\ made' = made + 1
          /\ forced' = \/ forced
                       \/ mem.iteration >= MaxToolRounds
                       \/ mem.modelCalls >= MaxModelCalls - 1
          /\ UNCHANGED <<status, grants>>
  /\ UNCHANGED <<signal, mem, ckpt, seen, turn, job, openRows, steps, starts, userVars,
                 faults, crashes>>

ModelThrows ==
  /\ pc = "model" /\ Throw
  /\ UNCHANGED <<signal, mem, ckpt, seen, turn, forced, job, openRows, steps, starts,
                 userVars, made, faults, crashes>>

(* A request for input stands alone in its turn, and says what it asks.    *)
InputRequests ==
  [kind : {"ask"}, calls : {<<NoAction>>}, approved : {FALSE}]
    \cup [kind : {"badAsk"}, calls : {<<NoAction>>} \cup {<<NoAction, a>> : a \in Action},
          approved : {FALSE}]

(* What one model turn may be: a request for input, a text, an answer that *)
(* breaks the protocol, or tool calls.                                     *)
Turns ==
  InputRequests
    \cup [kind : {"text"}, calls : {<<>>}, approved : {FALSE}]
    \cup [kind : {"invalid"}, calls : {<<>>} \cup {<<a>> : a \in Action}, approved : {FALSE}]
    \cup [kind : {"calls"}, calls : {b \in Batch : b # <<>>}, approved : {FALSE}]

ModelReturns(t) ==
  /\ pc = "model"
  /\ turn' = t
  /\ mem' = Asking([mem EXCEPT !.modelCalls = @ + 1], t.calls)
  /\ pc' = "turn"
  /\ UNCHANGED <<signal, ckpt, seen, forced, execVars, userVars, status, made, faults, crashes>>
-----------------------------------------------------------------------------
(* ToolCallGuard.check.  A repeated action, an unusable or a refused call  *)
(* spoils the batch: nothing of it runs, and what had been accepted is     *)
(* taken back from seenSignatures.                                         *)
Before(calls, i, a) == Cardinality({j \in 1 .. i - 1 : calls[j] = a})
Repeats(calls, i) == seen[calls[i]] + Before(calls, i, calls[i]) >= MaxRepeated
Accepted(calls) ==
  {i \in DOMAIN calls : calls[i] # NoAction /\ ~Repeats(calls, i) /\ ~Refused(calls[i])}
BatchValid(calls) == Accepted(calls) = DOMAIN calls
Risky(calls) == {i \in DOMAIN calls : calls[i] \in Action /\ NeedsApproval(mode, calls[i])}

SeenAfter(calls) ==
  [a \in Action |->
     seen[a] + IF BatchValid(calls) THEN Times(calls, a)
               ELSE IF Refused(a) THEN Min({Times(calls, a), Max({MaxRepeated - seen[a], 0})})
               ELSE 0]

(* The first checkpoint of a turn has been saved; what the turn asks for   *)
(* is handled up to the next await.                                        *)
Handle(t, kind) ==
  /\ t.kind = kind
  /\ Healthy /\ Save(mem, <<>>) /\ UNCHANGED <<job, status, grants>>

Queue(calls) == job' = [i \in Slot |-> [pc |-> IF i \in DOMAIN calls THEN "wait" ELSE "done",
                                        attempt |-> 0]]

TurnIsText == Handle(turn, "text") /\ pc' = "final" /\ UNCHANGED <<mem, seen>>

(* Broken output gets an observation; in the final turn it is an error.    *)
Broken(kind) ==
  /\ ~forced /\ Handle(turn, kind)
  /\ mem' = RoundDone(mem, turn.calls) /\ pc' = "save" /\ UNCHANGED seen

TurnIsInvalid == Broken("invalid")
TurnMisasks == Broken("badAsk")

TurnAsks == ~forced /\ Handle(turn, "ask") /\ pc' = "ask" /\ UNCHANGED <<mem, seen>>

FinalTurnFails ==
  /\ forced /\ turn.kind # "text"
  /\ Healthy /\ Save(mem, <<>>) /\ Throw /\ UNCHANGED <<mem, seen, job>>

GuardSpoils ==
  /\ ~forced /\ Handle(turn, "calls") /\ ~BatchValid(turn.calls)
  /\ seen' = SeenAfter(turn.calls)
  /\ mem' = RoundDone(mem, turn.calls) /\ pc' = "save"

GuardFreezes ==
  /\ ~forced /\ Handle(turn, "calls") /\ BatchValid(turn.calls) /\ Risky(turn.calls) # {}
  /\ seen' = SeenAfter(turn.calls)
  /\ pc' = "freeze" /\ UNCHANGED mem

GuardPasses ==
  /\ ~forced /\ turn.kind = "calls" /\ BatchValid(turn.calls) /\ Risky(turn.calls) = {}
  /\ Healthy /\ Save(mem, <<>>)
  /\ seen' = SeenAfter(turn.calls)
  /\ Queue(turn.calls)
  /\ pc' = "exec" /\ UNCHANGED <<mem, status, grants>>

SaveTurnFails == Fault /\ Throw /\ UNCHANGED <<ckpt, mem, seen, job>>

SaveTurn ==
  /\ pc = "turn"
  /\ \/ TurnIsText \/ TurnIsInvalid \/ TurnMisasks \/ TurnAsks \/ FinalTurnFails
     \/ GuardSpoils \/ GuardFreezes \/ GuardPasses \/ SaveTurnFails
  /\ UNCHANGED <<signal, turn, forced, openRows, steps, starts, userVars, made, crashes>>

(* waiting_user, waiting_approval and completed: the checkpoint is saved   *)
(* again, then the status is written.  A run that was cancelled meanwhile  *)
(* keeps its status.                                                       *)
WriteStatus(s) == status' = IF status = "running" THEN s ELSE status

AskUser ==
  /\ pc = "ask"
  /\ \/ Healthy /\ Save(mem, <<>>) /\ WriteStatus("waiting_user") /\ pc' = "off"
        /\ UNCHANGED grants
     \/ Fault /\ Throw /\ UNCHANGED ckpt
  /\ UNCHANGED <<signal, mem, seen, turn, forced, job, openRows, steps, starts, userVars,
                 made, crashes>>

Freeze ==
  /\ pc = "freeze"
  /\ Persist(mem, turn.calls, "request")
  /\ UNCHANGED <<signal, mem, seen, turn, forced, job, openRows, steps, starts, userVars,
                 made, crashes>>

RequestApproval ==
  /\ pc = "request"
  /\ \/ Healthy /\ WriteStatus("waiting_approval") /\ pc' = "off" /\ UNCHANGED grants
     \/ Fault /\ Throw
  /\ UNCHANGED <<signal, mem, ckpt, seen, turn, forced, job, openRows, steps, starts, userVars,
                 made, crashes>>

SaveFinal ==
  /\ pc = "final"
  /\ Persist(mem, <<>>, "complete")
  /\ UNCHANGED <<signal, mem, seen, turn, forced, job, openRows, steps, starts, userVars,
                 made, crashes>>

Complete ==
  /\ pc = "complete"
  /\ \/ Healthy /\ WriteStatus("completed") /\ pc' = "off" /\ grants' = {}
     \/ Fault /\ Throw
  /\ UNCHANGED <<signal, mem, ckpt, seen, turn, forced, job, openRows, steps, starts, userVars,
                 made, crashes>>
-----------------------------------------------------------------------------
(* ExecutionOrchestrator.execute: the calls are grouped by category; the   *)
(* groups run one after the other, and within a group the calls run        *)
(* together if the category is parallel, else in their order.              *)
Category(i) == IF SkillOf[turn.calls[i]] \in ParallelSkill
               THEN SkillOf[turn.calls[i]] ELSE "serial"
GroupOf(i) == Min({j \in 1 .. Size : Category(j) = Category(i)})
Precedes(j, i) ==
  \/ GroupOf(j) < GroupOf(i)
  \/ GroupOf(j) = GroupOf(i) /\ j < i /\ Category(i) = "serial"

JobAt(i, at) == job[i].pc = at
JobGoto(i, at) == job' = [job EXCEPT ![i].pc = at]
JobActive(i) == job[i].pc \notin {"wait", "done", "thrown"}
Turned(i) == pc = "exec" /\ JobAt(i, "wait") /\ \A j \in 1 .. Size : Precedes(j, i) => JobAt(j, "done")

jobFrame == <<passVars, userVars, status, ckpt, made, crashes>>

(* A call is passed over when the signal has fired; otherwise it goes      *)
(* through the safety boundary, without an await.                          *)
PassOver(i) ==
  /\ Turned(i) /\ signal # "quiet"
  /\ JobGoto(i, "done")
  /\ UNCHANGED <<jobFrame, grants, openRows, steps, starts, faults>>

Deny(i) ==
  /\ Turned(i) /\ signal = "quiet"
  /\ JobGoto(i, "denied")
  /\ UNCHANGED <<jobFrame, grants, openRows, steps, starts, faults>>

Permit(i) ==
  /\ Turned(i) /\ signal = "quiet"
  /\ InScope(mode, grants, turn.calls[i], IdOf(i), turn.approved)
  /\ grants' = GrantsAfter(mode, grants, turn.calls[i], IdOf(i), turn.approved)
  /\ JobGoto(i, "gate")
  /\ UNCHANGED <<jobFrame, openRows, steps, starts, faults>>

(* The row of a denied call is written as failed.                          *)
DenyRow(i) ==
  /\ JobAt(i, "denied")
  /\ \/ Healthy /\ JobGoto(i, "done")
     \/ Fault /\ JobGoto(i, "thrown")
  /\ UNCHANGED <<jobFrame, grants, openRows, steps, starts>>

(* isRunExecutable: the signal, and the status in the database.            *)
Executable == signal = "quiet" /\ status = "running"

Gate(i) ==
  /\ JobAt(i, "gate")
  /\ \/ Healthy /\ JobGoto(i, IF Executable THEN "row" ELSE "done")
     \/ Fault /\ JobGoto(i, "thrown")
  /\ UNCHANGED <<jobFrame, grants, openRows, steps, starts>>

(* toolCalls.create: from here on every path must close the row.           *)
OpenRow(i) ==
  /\ JobAt(i, "row")
  /\ \/ Healthy /\ JobGoto(i, "gate2") /\ openRows' = openRows \cup {IdOf(i)}
     \/ Fault /\ JobGoto(i, "thrown") /\ UNCHANGED openRows
  /\ UNCHANGED <<jobFrame, grants, steps, starts>>

(* An error inside the attempt: another attempt if the action allows it    *)
(* and the signal is quiet, else the row is closed as failed.              *)
Attempts(i) == IF turn.calls[i] \in Idempotent THEN MaxAttempts ELSE 1
AttemptFails(i) ==
  \/ /\ job[i].attempt + 1 < Attempts(i) /\ signal = "quiet"
     /\ job' = [job EXCEPT ![i] = [pc |-> "gate2", attempt |-> @.attempt + 1]]
  \/ JobGoto(i, "fail")

Gate2(i) ==
  /\ JobAt(i, "gate2")
  /\ \/ Healthy /\ JobGoto(i, IF Executable THEN "step" ELSE "cancel")
     \/ Fault /\ AttemptFails(i)
  /\ UNCHANGED <<jobFrame, grants, openRows, steps, starts>>

Cancelled(i) ==
  /\ JobAt(i, "cancel")
  /\ \/ Healthy /\ JobGoto(i, "done") /\ openRows' = openRows \ {IdOf(i)}
     \/ Fault /\ AttemptFails(i) /\ UNCHANGED openRows
  /\ UNCHANGED <<jobFrame, grants, steps, starts>>

Start_Upsert(i) ==
  /\ JobAt(i, "step")
  /\ \/ Healthy /\ JobGoto(i, "running") /\ steps' = steps \cup {IdOf(i)}
        /\ starts' = [starts EXCEPT ![turn.calls[i]] = @ + 1]
     \/ Fault /\ AttemptFails(i) /\ UNCHANGED <<steps, starts>>
  /\ UNCHANGED <<jobFrame, grants, openRows>>

(* SkillToolExecutor: the steps row has the id of the call for its key, so *)
(* that an attempt after one that started fails here.                      *)
Start(i) ==
  /\ JobAt(i, "step")
  /\ \/ /\ IdOf(i) \notin steps /\ Healthy /\ JobGoto(i, "running")
        /\ steps' = steps \cup {IdOf(i)}
        /\ starts' = [starts EXCEPT ![turn.calls[i]] = @ + 1]
     \/ IdOf(i) \in steps /\ Healthy /\ AttemptFails(i) /\ UNCHANGED <<steps, starts>>
     \/ Fault /\ AttemptFails(i) /\ UNCHANGED <<steps, starts>>
  /\ UNCHANGED <<jobFrame, grants, openRows>>

(* The skill returns, fails, or is interrupted.                            *)
ToolEnds(i) ==
  /\ JobAt(i, "running") /\ JobGoto(i, "stepEnd")
  /\ UNCHANGED <<jobFrame, grants, openRows, steps, starts, faults>>

(* The steps row: a failing update turns the result into a failure; if     *)
(* that cannot be written either, the attempt fails.                       *)
EndStep(i) ==
  /\ JobAt(i, "stepEnd")
  /\ \/ Healthy /\ JobGoto(i, "rowEnd")
     \/ Fault /\ AttemptFails(i)
  /\ UNCHANGED <<jobFrame, grants, openRows, steps, starts>>

CloseRow(i) ==
  /\ JobAt(i, "rowEnd")
  /\ \/ Healthy /\ JobGoto(i, "done") /\ openRows' = openRows \ {IdOf(i)}
     \/ Fault /\ AttemptFails(i) /\ UNCHANGED openRows
  /\ UNCHANGED <<jobFrame, grants, steps, starts>>

FailRow(i) ==
  /\ JobAt(i, "fail")
  /\ \/ Healthy /\ JobGoto(i, "done") /\ openRows' = openRows \ {IdOf(i)}
     \/ Fault /\ JobGoto(i, "thrown") /\ UNCHANGED openRows
  /\ UNCHANGED <<jobFrame, grants, steps, starts>>

(* Every call has its result, or a note that there is none.                *)
Settle ==
  /\ pc = "exec" /\ \A i \in 1 .. Size : JobAt(i, "done")
  /\ mem' = RoundDone(mem, turn.calls)
  /\ pc' = "save"
  /\ UNCHANGED <<signal, seen, turn, forced, execVars, userVars, status, ckpt, made, faults, crashes>>

(* Promise.all rejects, or the serial loop throws; a call that is on its   *)
(* way is left to itself.                                                  *)
ExecutionThrows ==
  /\ pc = "exec" /\ \E i \in 1 .. Size : JobAt(i, "thrown")
  /\ Throw
  /\ UNCHANGED <<signal, mem, ckpt, seen, turn, forced, job, openRows, steps, starts,
                 userVars, made, faults, crashes>>
-----------------------------------------------------------------------------
(* What a pass rebuilds from the transcript: the signatures that were      *)
(* asked for, executed or not, and an answer for each call that has none.  *)
collectSeenSignatures(m) == m.asked
closeUnresolvedToolCalls(m) == [m EXCEPT !.open = {}]

(* The checkpoint is stored as a whole: what reads back is what was saved. *)
HasCheckpoint == ckpt.saved

(* A pass begins with the saved checkpoint and a fresh signal.             *)
Begin(m, t, next) ==
  /\ pc = "off" /\ HasCheckpoint
  /\ status' = "running" /\ signal' = "quiet" /\ forced' = FALSE
  /\ mem' = m /\ seen' = collectSeenSignatures(m) /\ turn' = t /\ pc' = next
  /\ UNCHANGED <<ckpt, grants, openRows, steps, made, starts, mode, faults, crashes>>

Approve ==
  /\ status = "waiting_approval"
  /\ Begin(ckpt.mem, [kind |-> "calls", calls |-> ckpt.pending, approved |-> TRUE], "exec")
  /\ Queue(ckpt.pending)
  /\ approved' = approved \cup {ckpt.pending[i] : i \in DOMAIN ckpt.pending}
  /\ UNCHANGED rejected

Reject_Forgets ==
  /\ status = "waiting_approval"
  /\ Begin([RoundDone(ckpt.mem, ckpt.pending) EXCEPT !.asked = NewMemory.asked], NoTurn, "save")
  /\ rejected' = rejected \cup {ckpt.pending[i] : i \in DOMAIN ckpt.pending}
  /\ UNCHANGED <<approved, job>>

Reject ==
  /\ status = "waiting_approval"
  /\ Begin(RoundDone(ckpt.mem, ckpt.pending), NoTurn, "save")
  /\ rejected' = rejected \cup {ckpt.pending[i] : i \in DOMAIN ckpt.pending}
  /\ UNCHANGED <<approved, job>>

(* The answer to a request for input; its call is the last one asked.      *)
Reply ==
  /\ status = "waiting_user"
  /\ Begin(Answering(ckpt.mem, {<<made, 1>>}), NoTurn, "save")
  /\ UNCHANGED <<approved, rejected, job>>

Resume_OpenCalls ==
  /\ status = "interrupted"
  /\ Begin(ckpt.mem, NoTurn, "save")
  /\ UNCHANGED <<approved, rejected, job>>

(* What has no answer is answered with a note that its outcome is unknown. *)
Resume ==
  /\ status = "interrupted"
  /\ Begin(closeUnresolvedToolCalls(ckpt.mem), NoTurn, "save")
  /\ UNCHANGED <<approved, rejected, job>>

(* chat.stop aborts; run.cancel also writes the status first.  The         *)
(* deadline of a pass fires the same signal.                               *)
Abort(why) ==
  /\ pc # "off" /\ signal = "quiet"
  /\ signal' = why
  /\ UNCHANGED <<pc, mem, seen, turn, forced, execVars, userVars, status, ckpt, made, faults, crashes>>

Cancel ==
  /\ status \in {"running", "waiting_approval", "waiting_user", "interrupted"}
  /\ status' = "cancelled"
  /\ signal' = IF pc = "off" THEN signal ELSE "aborted"
  /\ UNCHANGED <<pc, mem, seen, turn, forced, execVars, userVars, ckpt, made, faults, crashes>>

(* The daemon ends and starts again: what was running is interrupted.      *)
Crash ==
  /\ crashes < MaxCrash /\ crashes' = crashes + 1
  /\ pc' = "off" /\ signal' = "quiet" /\ mem' = NewMemory /\ seen' = NewMemory.asked
  /\ turn' = NoTurn /\ forced' = FALSE /\ job' = [i \in Slot |-> NoJob] /\ grants' = {}
  /\ status' = IF status = "running" THEN "interrupted" ELSE status
  /\ UNCHANGED <<ckpt, openRows, steps, made, starts, userVars, faults>>

JobStep(i) ==
  \/ PassOver(i) \/ Deny(i) \/ Permit(i) \/ DenyRow(i) \/ Gate(i) \/ OpenRow(i) \/ Gate2(i)
  \/ Cancelled(i) \/ Start(i) \/ ToolEnds(i) \/ EndStep(i) \/ CloseRow(i) \/ FailRow(i)

PassStep ==
  \/ SavePass \/ LoopHead \/ ModelThrows \/ (\E t \in Turns : ModelReturns(t)) \/ SaveTurn
  \/ AskUser \/ Freeze \/ RequestApproval \/ SaveFinal \/ Complete
  \/ Settle \/ ExecutionThrows

Next ==
  \/ PassStep
  \/ \E i \in Slot : JobStep(i)
  \/ Approve \/ Reject \/ Reply \/ Resume \/ Cancel
  \/ Abort("aborted") \/ Abort("deadline")
  \/ Crash

Spec == Init /\ [][Next]_vars

(* A model call and a skill end (both have a time limit), and the calls to *)
(* the database return.                                                    *)
Fairness == WF_vars(PassStep) /\ \A i \in Slot : WF_vars(JobStep(i))
FairSpec == Spec /\ Fairness
-----------------------------------------------------------------------------
(* The same action, a skill with the same arguments, is started no more    *)
(* often than allowed in the whole life of the run: not by a repeated      *)
(* request of the model, not by a retry, not by an approval, and not after *)
(* a restart in the middle of it.                                          *)
ActionOnce == \A a \in Action : starts[a] <= MaxRepeated

(* When the model is called every tool call of the transcript has exactly  *)
(* one answer, as the provider's protocol wants it, however the calls came *)
(* to their end: executed, spoilt, frozen, rejected, cut off by a restart. *)
CallsAnswered == ~mem.twice /\ (pc = "model" => mem.open = {})

(* The budget lasts for the run, not for one pass: approvals, answers and  *)
(* restarts do not refill it.  Only the call a crash cut off, which no     *)
(* checkpoint counts, is made again.                                       *)
BudgetKept ==
  /\ made <= MaxModelCalls + crashes
  /\ mem.iteration <= MaxToolRounds /\ ckpt.mem.iteration <= MaxToolRounds

(* Nothing the user has to approve is started without an approval of       *)
(* exactly it, nothing refused is started at all, and what the user has    *)
(* rejected does not run when the model asks again.                        *)
OnlySanctioned ==
  \A a \in Action : starts[a] > 0 =>
    /\ ~Refused(a)
    /\ NeedsApproval(mode, a) => a \in approved
    /\ a \notin rejected

(* A row of tool_calls that was opened is closed on every path, denied,    *)
(* cancelled, failed or left behind, unless the process or the database    *)
(* failed.                                                                 *)
RowsClosed ==
  openRows # {} /\ faults = 0 /\ crashes = 0 => \E i \in Slot : JobActive(i)

(* Every call comes to an end the model and the table both know of.        *)
CallsAccounted == CallsAnswered /\ RowsClosed

(* A pass does not go on for ever.                                         *)
PassEnds == status = "running" ~> status # "running"

(* The comment of ToolCallGuard: the permission policy is the single owner *)
(* of approval semantics; deciding again would contradict it.              *)
PolicyDecides ==
  \A i \in Slot :
    Turned(i) => InScope(mode, grants, turn.calls[i], IdOf(i), turn.approved)
-----------------------------------------------------------------------------
(* The inductive invariant.                                                *)
Resumable == {"waiting_approval", "waiting_user", "interrupted"}

Idle == \A i \in Slot : JobAt(i, "done")

(* A pass that runs has its run; a pass that waits or was cut off has left *)
(* no call on its way.                                                     *)
PassOwnsRun ==
  /\ pc # "off" => status \in {"running", "cancelled"}
  /\ pc = "off" => status # "running"
  /\ pc \notin {"off", "exec"} \/ status \in Resumable => Idle

(* The calls of an action that are on their way and have not started it.   *)
Left(a) == {i \in DOMAIN turn.calls :
              turn.calls[i] = a /\ ~JobAt(i, "done") /\ IdOf(i) \notin steps}
Begun(a) == starts[a] + Cardinality(Left(a))

(* A batch that was accepted and may be started as it is.                  *)
MayStart(calls, m) ==
  /\ \A i \in DOMAIN calls : calls[i] \in Action /\ ~Refused(calls[i])
                             /\ (MaxRepeated = 1 => calls[i] \notin rejected)
  /\ \A a \in Action : starts[a] + Times(calls, a) <= MaxRepeated
                       /\ starts[a] + Times(calls, a) <= m.asked[a]

(* What was started was asked for, in the transcript as in the checkpoint, *)
(* and seen by the guard; what was rejected was asked for, and not started.*)
StartsCounted ==
  \A a \in Action :
    /\ Begun(a) <= MaxRepeated /\ Begun(a) <= ckpt.mem.asked[a]
    /\ pc # "off" => Begun(a) <= seen[a] /\ seen[a] <= mem.asked[a]
    /\ pc = "turn" => seen[a] + Times(turn.calls, a) <= mem.asked[a]
    /\ MaxRepeated = 1 /\ a \in rejected =>
         Begun(a) = 0 /\ ckpt.mem.asked[a] > 0 /\ (pc # "off" => seen[a] > 0)

(* Calls on their way were accepted, and approved where they have to be;   *)
(* so were those that wait for a decision.                                 *)
CallsSanctioned ==
  /\ \A i \in Slot : ~JobAt(i, "done") =>
       /\ i \in DOMAIN turn.calls /\ turn.calls[i] \in Action /\ ~Refused(turn.calls[i])
       /\ NeedsApproval(mode, turn.calls[i]) => turn.calls[i] \in approved
  /\ pc = "freeze" => MayStart(turn.calls, mem)
  /\ pc = "request" \/ status = "waiting_approval" => MayStart(ckpt.pending, ckpt.mem)
  /\ \A a \in Action : starts[a] > 0 =>
       ~Refused(a) /\ (NeedsApproval(mode, a) => a \in approved)

(* The model calls made are those the transcript counts, but for the one   *)
(* under way and those of which a crash took the count; so with the        *)
(* checkpoint, which lags behind by the turn being handled.                *)
Lagging == pc \in {"model", "turn"} \/ (pc = "off" /\ status \notin Resumable)
CallsCounted ==
  /\ pc = "model" => made <= mem.modelCalls + 1 + crashes
  /\ pc \notin {"off", "model"} => made <= mem.modelCalls + crashes
  /\ Lagging => made <= ckpt.mem.modelCalls + 1 + crashes
  /\ ~Lagging => made <= ckpt.mem.modelCalls + crashes

(* Unless this is its last turn, a run has a model call and a round left.  *)
GoesOn ==
  \/ pc \in {"exec", "ask", "freeze", "request"}
  \/ pc \in {"model", "turn"} /\ ~forced
CallsLeft ==
  /\ made <= MaxModelCalls + crashes
  /\ GoesOn \/ pc \in {"save", "head"} \/ status \in Resumable
       => made + 1 <= MaxModelCalls + crashes
RoundsLeft ==
  /\ mem.iteration <= MaxToolRounds /\ ckpt.mem.iteration <= MaxToolRounds
  /\ GoesOn => mem.iteration < MaxToolRounds
  /\ pc = "request" \/ status = "waiting_approval" => ckpt.mem.iteration < MaxToolRounds
BudgetCounted == CallsCounted /\ CallsLeft /\ RoundsLeft

(* The calls without an answer are those of the turn being handled.        *)
CallsTracked ==
  /\ ~mem.twice /\ ~ckpt.mem.twice
  /\ pc \in {"save", "head", "model"} => mem.open = {}
  /\ pc \in {"turn", "exec", "ask", "freeze", "request"} => mem.open = IdsOf(turn.calls)
  /\ pc = "ask" => turn.calls = <<NoAction>>
  /\ pc = "turn" /\ turn.kind = "ask" => turn.calls = <<NoAction>>
  /\ pc = "request" \/ status = "waiting_approval" => ckpt.mem.open = IdsOf(ckpt.pending)
  /\ status = "waiting_user" => ckpt.mem.open = {<<made, 1>>}

(* A row of tool_calls that is open is that of a call on its way.          *)
HasRow(i) == job[i].pc \in {"gate2", "step", "running", "stepEnd", "rowEnd", "cancel", "fail"}
RowsTracked ==
  faults = 0 /\ crashes = 0 =>
    \A id \in openRows : \E i \in Slot : id = IdOf(i) /\ HasRow(i)

LoopInv ==
  /\ TypeOK /\ PassOwnsRun /\ StartsCounted /\ CallsSanctioned
  /\ BudgetCounted /\ CallsTracked /\ RowsTracked
=============================================================================
