---------------------------- MODULE AgentRuntime ----------------------------
(***************************************************************************)
(* The life of agent runs inside one daemon: AgentService's handlers       *)
(* (chat, stop, cancel, approve, reject, resume, retry), the loop engine   *)
(* they drive, the approval services, the abort registry, the expiry       *)
(* timer, and crash with recovery at the next start.                       *)
(*                                                                         *)
(* JavaScript runs one callback at a time, so a step of this module is one *)
(* database call and what the handler does with its result before the next *)
(* one; a transaction that reads before it writes is two steps.  A "flow"  *)
(* is one asynchronous invocation of a handler; flow[f] holds its program  *)
(* counter and the values it read before an await and uses after it.       *)
(***************************************************************************)
EXTENDS RunStatus, Naturals

CONSTANTS
  Run,         \* run ids, each used for at most one run
  Flow,        \* the handler invocations that may be in flight together
  Approval,    \* approval ids; also names the frozen tool batch it covers
  NoRun, NoFlow, NoApproval,
  MaxRounds,   \* tool rounds of one pass through the ReAct loop
  MaxFault,    \* bound: database or message-store calls that fail
  MaxCrash     \* bound: daemon crashes

ASSUME IdAssumption ==
  /\ NoRun \notin Run /\ NoFlow \notin Flow /\ NoApproval \notin Approval
  /\ {"none", "plain"} \cap Approval = {}
ASSUME BoundAssumption == MaxRounds \in Nat /\ MaxFault \in Nat /\ MaxCrash \in Nat

VARIABLES
  status,      \* status[r]: runs.status, or "absent" before the row exists
  ckpt,        \* ckpt[r]: context.taskState: "none", "plain", or the frozen batch
  apState,     \* apState[a]: "absent", "frozen" (batch in a checkpoint only), or the
               \* row's status; "due" is a pending row whose expiresAt has passed
  apRun,       \* apRun[a]: the run the batch belongs to
  flow,        \* flow[f]: the invocation's local state
  aborted,     \* the flows whose AbortSignal has fired
  registry,    \* registry[r]: the flow whose AbortController is registered
  resumes,     \* activeResumes
  toolRuns,    \* toolRuns[a]: times batch a was handed to the tools
  told,        \* told[r]: the run-ending events published for r
  phase,       \* "up", or the two steps of a start: "expiring", "recovering"
  todo,        \* runs the recovery scan has yet to visit
  faults, crashes

db    == <<status, ckpt, apState, apRun>>
mem   == <<flow, aborted, registry, resumes>>
seenV == <<toolRuns, told>>
daemon == <<phase, todo>>
vars  == <<db, mem, seenV, daemon, faults, crashes>>

Kind == {"none", "chat", "sync", "attempt", "approve", "rejCont", "rejEnd",
         "resume", "cancel"}

PC == {"idle", "newRun", "userMsg", "enter", "require", "acquire",
       "build", "tools", "persist", "top", "turn", "finish", "ask", "freeze",
       "reqRead", "reqCommit", "catch", "mark", "commit", "lastCatch", "unres",
       "cancelCheck", "settle", "exit", "linkRead", "linkWrite"}

(* Why a flow is writing a status: what it does afterwards depends on it.  *)
Why == {"none", "finish", "ask", "error", "acqError", "prep", "lastResort",
        "unresumable", "cancel", "rejCancel", "rejInterrupt"}

FlowState ==
  [pc : PC, kind : Kind, run : Run \cup {NoRun}, ap : Approval \cup {NoApproval},
   ck : Approval \cup {"none", "plain"}, seen : Status \cup {"absent"},
   goal : Status, why : Why, rounds : 0 .. MaxRounds]

Idle == [pc |-> "idle", kind |-> "none", run |-> NoRun, ap |-> NoApproval,
         ck |-> "none", seen |-> "absent", goal |-> "failed", why |-> "none",
         rounds |-> 0]

Ending == {"completed", "cancelled", "failed", "interrupted"}

TypeOK ==
  /\ status \in [Run -> Status \cup {"absent"}]
  /\ ckpt \in [Run -> Approval \cup {"none", "plain"}]
  /\ apState \in [Approval -> {"absent", "frozen", "pending", "due", "approved",
                               "rejected", "expired"}]
  /\ apRun \in [Approval -> Run \cup {NoRun}]
  /\ flow \in [Flow -> FlowState]
  /\ aborted \subseteq Flow
  /\ registry \in [Run -> Flow \cup {NoFlow}]
  /\ resumes \subseteq Run
  /\ toolRuns \in [Approval -> Nat]
  /\ told \in [Run -> SUBSET Ending]
  /\ phase \in {"up", "expiring", "recovering"}
  /\ todo \subseteq Run
  /\ faults \in 0 .. MaxFault
  /\ crashes \in 0 .. MaxCrash

Init ==
  /\ status = [r \in Run |-> "absent"]
  /\ ckpt = [r \in Run |-> "none"]
  /\ apState = [a \in Approval |-> "absent"]
  /\ apRun = [a \in Approval |-> NoRun]
  /\ flow = [f \in Flow |-> Idle]
  /\ aborted = {}
  /\ registry = [r \in Run |-> NoFlow]
  /\ resumes = {}
  /\ toolRuns = [a \in Approval |-> 0]
  /\ told = [r \in Run |-> {}]
  /\ phase = "up" /\ todo = {}
  /\ faults = 0 /\ crashes = 0
-----------------------------------------------------------------------------
At(f, pc) == flow[f].pc = pc
Goto(f, pc) == flow' = [flow EXCEPT ![f].pc = pc]
Done(f) == flow' = [flow EXCEPT ![f] = Idle]
Fault == faults < MaxFault /\ faults' = faults + 1

(* The AbortRegistry.  create() aborts whatever controller it finds, and   *)
(* remove() deletes whatever it finds: neither checks whose it is.         *)
AbortOf(r) == IF registry[r] = NoFlow THEN {} ELSE {registry[r]}
RegistryCreate(f, r) ==
  /\ aborted' = (aborted \cup AbortOf(r)) \ {f}
  /\ registry' = [registry EXCEPT ![r] = f]
RegistryAbort(r) ==
  /\ aborted' = aborted \cup AbortOf(r)
  /\ registry' = [registry EXCEPT ![r] = NoFlow]
RegistryRemove(r) == registry' = [registry EXCEPT ![r] = NoFlow]

(* markStatus, markFailed and markCancelled begin with a read.             *)
ToMark(rec, why, goal) == [rec EXCEPT !.pc = "mark", !.why = why, !.goal = goal]

(* An error that leaves the engine reaches the handler's own catch.        *)
Rethrown(rec) ==
  [rec EXCEPT !.pc = IF rec.kind \in {"approve", "resume"} THEN "unres" ELSE "lastCatch"]

(* handleChatCommand runs the pass itself, for POST /chat and for a retry; *)
(* startChatCommand leaves it to a microtask.                              *)
Sync == {"sync", "attempt"}

(* An error while a pass is finishing or suspending.  run() and            *)
(* resumeApprovedTool await that part inside their try; the other three    *)
(* continuations return its promise, so their catch does not see it.       *)
TailThrown(rec) ==
  IF rec.kind \in {"chat", "approve"} \cup Sync
  THEN [rec EXCEPT !.pc = "catch"] ELSE Rethrown(rec)

(* The engine returned: chat still settles its idempotency record.         *)
Returned(rec) == [rec EXCEPT !.pc = IF rec.kind = "chat" THEN "settle" ELSE "exit"]

Announce(r, e) == told' = [told EXCEPT ![r] = @ \cup {e}]
-----------------------------------------------------------------------------
(* startChatCommand, and handleChatCommand for a retry: the controller     *)
(* first, then the run row, then the user message, then the engine.        *)
NewRun(f, r, kind) ==
  /\ phase = "up" /\ At(f, "idle") /\ status[r] = "absent"
  /\ \A g \in Flow : flow[g].run # r
  /\ RegistryCreate(f, r)
  /\ flow' = [flow EXCEPT ![f] = [Idle EXCEPT !.pc = "newRun", !.kind = kind, !.run = r,
                                               !.seen = "created"]]
  /\ UNCHANGED <<db, resumes, seenV, daemon, faults, crashes>>

StartChat(f, r) == NewRun(f, r, "chat") \/ NewRun(f, r, "sync")

RetryRun(f, source, r) == status[source] \in Attemptable /\ NewRun(f, r, "attempt")

(* A failed call may have committed.  startChatCommand then takes its run   *)
(* for never created, handleChatCommand fails it.                          *)
CreateRun(f) ==
  LET r == flow[f].run IN
  /\ At(f, "newRun")
  /\ \/ /\ status' = [status EXCEPT ![r] = "created"]
        /\ Goto(f, "userMsg")
        /\ UNCHANGED <<registry, faults>>
     \/ /\ Fault /\ Done(f) /\ RegistryRemove(r)
        /\ \/ UNCHANGED status
           \/ flow[f].kind = "chat" /\ status' = [status EXCEPT ![r] = "created"]
     \/ /\ Fault /\ flow[f].kind \in Sync
        /\ status' = [status EXCEPT ![r] = "created"]
        /\ flow' = [flow EXCEPT ![f] = Rethrown(@)]
        /\ UNCHANGED registry
  /\ UNCHANGED <<ckpt, apState, apRun, aborted, resumes, seenV, daemon, crashes>>

SaveUserMessage(f) ==
  /\ At(f, "userMsg")
  /\ \/ Goto(f, "acquire") /\ UNCHANGED <<registry, faults>>
     \/ /\ Fault
        /\ IF flow[f].kind = "chat" THEN RegistryRemove(flow[f].run) ELSE UNCHANGED registry
        /\ flow' = [flow EXCEPT ![f] = IF flow[f].kind = "chat" THEN ToMark(@, "prep", "failed")
                                       ELSE Rethrown(@)]
  /\ UNCHANGED <<db, aborted, resumes, seenV, daemon, crashes>>
-----------------------------------------------------------------------------
(* acquireExecution: the conditional update that makes one flow the        *)
(* executor; a flow that loses it returns without touching the run.        *)
Acquire(f) ==
  LET r == flow[f].run IN
  /\ At(f, "acquire")
  /\ \/ /\ status[r] = flow[f].seen
        /\ status' = [status EXCEPT ![r] = "running"]
        /\ Goto(f, "build")
     \/ /\ status[r] # flow[f].seen
        /\ flow' = [flow EXCEPT ![f] = Returned(@)]
        /\ UNCHANGED status
  /\ UNCHANGED <<ckpt, apState, apRun, aborted, registry, resumes, seenV, daemon,
                 faults, crashes>>

(* A failed call may have committed: the run is read once more after the   *)
(* transaction.  run() acquires before its try, a continuation inside it.  *)
AcquireFault(f) ==
  LET r == flow[f].run IN
  /\ At(f, "acquire") /\ Fault
  /\ status' \in {status} \cup (IF status[r] = flow[f].seen
                               THEN {[status EXCEPT ![r] = "running"]} ELSE {})
  /\ flow' = [flow EXCEPT ![f] =
                IF flow[f].kind \in {"chat"} \cup Sync THEN Rethrown(@)
                ELSE ToMark(@, "acqError", IF f \in aborted THEN "cancelled" ELSE "failed")]
  /\ UNCHANGED <<ckpt, apState, apRun, aborted, registry, resumes, seenV, daemon, crashes>>

(* Slips of the code that the properties must notice, each beside the      *)
(* definition it would change; none is part of Next.                       *)
BuildContext_Swallow(f) ==
  /\ At(f, "build")
  /\ \/ Goto(f, IF flow[f].kind = "approve" THEN "tools" ELSE "persist")
     \/ Goto(f, "exit")
  /\ UNCHANGED <<db, aborted, registry, resumes, seenV, daemon, faults, crashes>>

(* contextBuilder.build: any failure is the engine's to handle.            *)
BuildContext(f) ==
  /\ At(f, "build")
  /\ \/ Goto(f, IF flow[f].kind = "approve" THEN "tools" ELSE "persist")
     \/ Goto(f, "catch")
  /\ UNCHANGED <<db, aborted, registry, resumes, seenV, daemon, faults, crashes>>

(* resumeAfterApprovedTools: the approved scopes must be the batch frozen  *)
(* in the checkpoint that was read before the acquisition; each tool then  *)
(* starts only while the run is still running and the signal is quiet.     *)
RunApprovedTools(f) ==
  LET r == flow[f].run  a == flow[f].ap IN
  /\ At(f, "tools")
  /\ \/ /\ flow[f].ck # a
        /\ Goto(f, "catch") /\ UNCHANGED toolRuns
     \/ /\ flow[f].ck = a
        /\ Goto(f, "persist")
        /\ toolRuns' = IF status[r] = "running" /\ f \notin aborted
                       THEN [toolRuns EXCEPT ![a] = @ + 1] ELSE toolRuns
  /\ UNCHANGED <<db, aborted, registry, resumes, told, daemon, faults, crashes>>

(* The runner saves a checkpoint with no pending calls before it loops.    *)
PersistCheckpoint(f) ==
  /\ At(f, "persist")
  /\ \/ /\ ckpt' = [ckpt EXCEPT ![flow[f].run] = "plain"]
        /\ Goto(f, "top") /\ UNCHANGED faults
     \/ Fault /\ Goto(f, "catch") /\ UNCHANGED ckpt
  /\ UNCHANGED <<status, apState, apRun, aborted, registry, resumes, seenV, daemon, crashes>>

(* Only the head of the loop looks at the signal; a turn in flight may     *)
(* still finish after an abort.                                            *)
LoopHead(f) ==
  /\ At(f, "top")
  /\ Goto(f, IF f \in aborted THEN "catch" ELSE "turn")
  /\ UNCHANGED <<db, aborted, registry, resumes, seenV, daemon, faults, crashes>>

(* One turn of the model that ends the pass or goes round again.  When the *)
(* rounds are spent the tools are disabled and the turn can only answer.   *)
TurnCheckpoint(f, pc) ==
  /\ At(f, "turn")
  /\ ckpt' = [ckpt EXCEPT ![flow[f].run] = "plain"]
  /\ flow' = [flow EXCEPT ![f].pc = pc,
                          ![f].rounds = IF pc = "top" THEN @ + 1 ELSE @]
  /\ UNCHANGED <<status, apState, apRun, aborted, registry, resumes, seenV, daemon,
                 faults, crashes>>

TurnContinues(f) == flow[f].rounds < MaxRounds /\ TurnCheckpoint(f, "top")
TurnAnswers(f) == TurnCheckpoint(f, "finish")
TurnAsksUser(f) == flow[f].rounds < MaxRounds /\ TurnCheckpoint(f, "ask")

(* The guard froze a batch: it goes into the checkpoint before anyone has  *)
(* been asked.                                                             *)
TurnNeedsApproval(f, a) ==
  LET r == flow[f].run IN
  /\ At(f, "turn") /\ flow[f].rounds < MaxRounds /\ apState[a] = "absent"
  /\ apState' = [apState EXCEPT ![a] = "frozen"]
  /\ apRun' = [apRun EXCEPT ![a] = r]
  /\ ckpt' = [ckpt EXCEPT ![r] = a]
  /\ flow' = [flow EXCEPT ![f].pc = "freeze", ![f].ap = a]
  /\ UNCHANGED <<status, aborted, registry, resumes, seenV, daemon, faults, crashes>>

(* A model error, the wall-clock deadline, an abort, or a failed save.     *)
TurnFails(f) ==
  /\ At(f, "turn")
  /\ Goto(f, "catch")
  /\ UNCHANGED <<db, aborted, registry, resumes, seenV, daemon, faults, crashes>>
-----------------------------------------------------------------------------
(* The end of a pass: close the message and write memories, then complete. *)
Finish(f) ==
  /\ At(f, "finish")
  /\ \/ flow' = [flow EXCEPT ![f] = ToMark(@, "finish", "completed")] /\ UNCHANGED faults
     \/ Fault /\ flow' = [flow EXCEPT ![f] = TailThrown(@)]
  /\ UNCHANGED <<db, aborted, registry, resumes, seenV, daemon, crashes>>

(* A question for the user: snapshot, checkpoint, flush, then suspend.     *)
AskUser(f) ==
  /\ At(f, "ask")
  /\ \/ /\ ckpt' = [ckpt EXCEPT ![flow[f].run] = "plain"]
        /\ flow' = [flow EXCEPT ![f] = ToMark(@, "ask", "waiting_user")]
        /\ UNCHANGED faults
     \/ Fault /\ flow' = [flow EXCEPT ![f] = TailThrown(@)] /\ UNCHANGED ckpt
  /\ UNCHANGED <<status, apState, apRun, aborted, registry, resumes, seenV, daemon, crashes>>

(* runReactApproval: the checkpoint with the frozen batch, then the flush. *)
FreezeBatch(f) ==
  /\ At(f, "freeze")
  /\ \/ /\ ckpt' = [ckpt EXCEPT ![flow[f].run] = flow[f].ap]
        /\ Goto(f, "reqRead") /\ UNCHANGED faults
     \/ Fault /\ flow' = [flow EXCEPT ![f] = TailThrown(@)] /\ UNCHANGED ckpt
  /\ UNCHANGED <<status, apState, apRun, aborted, registry, resumes, seenV, daemon, crashes>>

(* requestApproval's transaction: markStatus reads the run ...             *)
RequestRead(f) ==
  LET s == status[flow[f].run] IN
  /\ At(f, "reqRead")
  /\ flow' = IF s \in Terminal \cup {"waiting_approval"} \/ "waiting_approval" \in Legal(s)
             THEN [flow EXCEPT ![f].pc = "reqCommit", ![f].seen = s]
             ELSE [flow EXCEPT ![f] = TailThrown(@)]
  /\ UNCHANGED <<db, aborted, registry, resumes, seenV, daemon, faults, crashes>>

(* ... and the commit moves it and inserts the approval together, or rolls *)
(* both back.  A read that saw a terminal status writes no status, and the *)
(* approval is inserted all the same.                                      *)
RequestCommit(f) ==
  LET r == flow[f].run  s == flow[f].seen  a == flow[f].ap
      ignored == s \in Terminal \cup {"waiting_approval"} IN
  /\ At(f, "reqCommit")
  /\ \/ /\ ignored \/ status[r] = s
        /\ status' = IF ignored THEN status ELSE [status EXCEPT ![r] = "waiting_approval"]
        /\ apState' = [apState EXCEPT ![a] = "pending"]
        /\ flow' = [flow EXCEPT ![f] = Returned(@)]
        /\ UNCHANGED faults
     \/ /\ ~ignored /\ status[r] # s
        /\ flow' = [flow EXCEPT ![f] = TailThrown(@)]
        /\ UNCHANGED <<status, apState, faults>>
     \/ /\ Fault
        /\ flow' = [flow EXCEPT ![f] = TailThrown(@)]
        /\ UNCHANGED <<status, apState>>
  /\ UNCHANGED <<ckpt, apRun, aborted, registry, resumes, seenV, daemon, crashes>>

(* handleLoopError and handleFailure: an aborted pass ends cancelled, any  *)
(* other failed.                                                           *)
CatchError(f) ==
  /\ At(f, "catch")
  /\ flow' = [flow EXCEPT ![f] =
                ToMark(@, "error", IF f \in aborted THEN "cancelled" ELSE "failed")]
  /\ UNCHANGED <<db, aborted, registry, resumes, seenV, daemon, faults, crashes>>
-----------------------------------------------------------------------------
(* What a flow does once its status write returned.  Note that it returns  *)
(* in silence when the run was already terminal.                           *)
AfterMark(f) ==
  LET r == flow[f].run  why == flow[f].why  goal == flow[f].goal IN
  CASE why = "cancel" ->
         Goto(f, "cancelCheck") /\ UNCHANGED <<aborted, registry, told>>
    [] why = "rejCancel" ->
         Done(f) /\ RegistryAbort(r) /\ Announce(r, "cancelled")
    [] why = "rejInterrupt" ->
         Done(f) /\ Announce(r, "interrupted") /\ UNCHANGED <<aborted, registry>>
    [] why = "prep" \/ (why = "lastResort" /\ flow[f].kind \in Sync) ->
         Done(f) /\ UNCHANGED <<aborted, registry, told>>
    [] why = "lastResort" /\ flow[f].kind \notin Sync ->
         Goto(f, "exit") /\ UNCHANGED <<aborted, registry, told>>
    [] why = "ask" ->
         flow' = [flow EXCEPT ![f] = Returned(@)] /\ UNCHANGED <<aborted, registry, told>>
    [] why = "unresumable" ->
         Goto(f, "exit") /\ Announce(r, "failed") /\ UNCHANGED <<aborted, registry>>
    [] OTHER ->
         /\ flow' = [flow EXCEPT ![f] = Returned(@)]
         /\ Announce(r, goal)
         /\ UNCHANGED <<aborted, registry>>

(* What it does when the write threw: an illegal transition, a lost        *)
(* conditional update, or the database.                                    *)
MarkThrown(f) ==
  LET why == flow[f].why IN
  /\ flow' = [flow EXCEPT ![f] =
       CASE why \in {"finish", "ask"} -> TailThrown(@)
         [] why \in {"error", "acqError"} -> Rethrown(@)
         [] why \in {"cancel", "rejCancel", "rejInterrupt", "prep"} -> Idle
         [] why = "lastResort" /\ flow[f].kind \in Sync -> Idle
         [] OTHER -> [@ EXCEPT !.pc = "exit"]]
  /\ UNCHANGED <<aborted, registry, told>>

MarkRead(f) ==
  LET s == status[flow[f].run]  goal == flow[f].goal IN
  /\ At(f, "mark")
  /\ \/ s \in Terminal \cup {goal} /\ AfterMark(f)
     \/ /\ s \notin Terminal \cup {goal} /\ goal \in Legal(s)
        /\ flow' = [flow EXCEPT ![f].pc = "commit", ![f].seen = s]
        /\ UNCHANGED <<aborted, registry, told>>
     \/ s \notin Terminal \cup {goal} /\ goal \notin Legal(s) /\ MarkThrown(f)
  /\ UNCHANGED <<db, resumes, toolRuns, daemon, faults, crashes>>

MarkCommit_NoCas(f) ==
  /\ At(f, "commit")
  /\ status' = [status EXCEPT ![flow[f].run] = flow[f].goal]
  /\ AfterMark(f)
  /\ UNCHANGED <<ckpt, apState, apRun, resumes, toolRuns, daemon, faults, crashes>>

(* The transaction: the update holds only if the status is the one read.   *)
MarkCommit(f) ==
  LET r == flow[f].run IN
  /\ At(f, "commit")
  /\ \/ /\ status[r] = flow[f].seen
        /\ status' = [status EXCEPT ![r] = flow[f].goal]
        /\ AfterMark(f)
     \/ status[r] # flow[f].seen /\ MarkThrown(f) /\ UNCHANGED status
  /\ UNCHANGED <<ckpt, apState, apRun, resumes, toolRuns, daemon, faults, crashes>>

(* A failed call: before the commit, or in the read that follows it.       *)
MarkFault(f) ==
  LET r == flow[f].run IN
  /\ flow[f].pc \in {"mark", "commit"} /\ Fault
  /\ status' \in {status} \cup (IF At(f, "commit") /\ status[r] = flow[f].seen
                               THEN {[status EXCEPT ![r] = flow[f].goal]} ELSE {})
  /\ MarkThrown(f)
  /\ UNCHANGED <<ckpt, apState, apRun, resumes, toolRuns, daemon, crashes>>

(* The catch of last resort in the handlers that own a background pass;    *)
(* handleChatCommand drops its controller before it writes, and a failing  *)
(* failIdempotency ends it there.                                          *)
LastResort(f) ==
  /\ At(f, "lastCatch")
  /\ \/ /\ flow' = [flow EXCEPT ![f] = ToMark(@, "lastResort", "failed")]
        /\ UNCHANGED faults
     \/ flow[f].kind = "sync" /\ Fault /\ Done(f)
  /\ IF flow[f].kind \in Sync THEN RegistryRemove(flow[f].run) ELSE UNCHANGED registry
  /\ UNCHANGED <<db, aborted, resumes, seenV, daemon, crashes>>

(* failUnresumableContinuation: it fails the run only if the run is still  *)
(* suspended.                                                              *)
Unresumable(f) ==
  /\ At(f, "unres")
  /\ flow' = IF status[flow[f].run] \in {"waiting_approval", "waiting_user", "interrupted"}
             THEN [flow EXCEPT ![f] = ToMark(@, "unresumable", "failed")]
             ELSE [flow EXCEPT ![f].pc = "exit"]
  /\ UNCHANGED <<db, aborted, registry, resumes, seenV, daemon, faults, crashes>>

(* completeIdempotency runs inside the handler's try.                      *)
Settle(f) ==
  /\ At(f, "settle")
  /\ \/ /\ IF flow[f].kind = "chat" THEN Goto(f, "exit") ELSE Done(f)
        /\ UNCHANGED faults
     \/ Fault /\ Goto(f, "lastCatch")
  /\ UNCHANGED <<db, aborted, registry, resumes, seenV, daemon, crashes>>

(* The end of a handler: the controller goes, whoever's it is by now.      *)
Exit(f) ==
  LET kind == flow[f].kind  r == flow[f].run IN
  /\ At(f, "exit")
  /\ RegistryRemove(r)
  /\ resumes' = IF kind = "resume" THEN resumes \ {r} ELSE resumes
  /\ CASE kind = "sync" -> Goto(f, "settle")
       [] kind = "attempt" -> Goto(f, "linkRead")
       [] OTHER -> Done(f)
  /\ UNCHANGED <<db, aborted, seenV, daemon, faults, crashes>>

(* recordAttemptLink reads the new run's context and writes it back whole. *)
LinkRead(f) ==
  /\ At(f, "linkRead")
  /\ flow' = [flow EXCEPT ![f].pc = "linkWrite", ![f].ck = ckpt[flow[f].run]]
  /\ UNCHANGED <<db, aborted, registry, resumes, seenV, daemon, faults, crashes>>

LinkWrite(f) ==
  /\ At(f, "linkWrite")
  /\ ckpt' = [ckpt EXCEPT ![flow[f].run] = flow[f].ck]
  /\ Done(f)
  /\ UNCHANGED <<status, apState, apRun, aborted, registry, resumes, seenV, daemon,
                 faults, crashes>>
-----------------------------------------------------------------------------
Decide_Twice(f, a, verdict, rec) ==
  /\ phase = "up" /\ At(f, "idle") /\ apState[a] \in {"pending", "approved"}
  /\ apState' = [apState EXCEPT ![a] = verdict]
  /\ flow' = [flow EXCEPT ![f] = [rec EXCEPT !.run = apRun[a], !.ap = a]]
  /\ UNCHANGED <<status, ckpt, apRun, aborted, registry, resumes, seenV, daemon,
                 faults, crashes>>

(* decide(): one transaction turns a pending, unexpired row; the handler   *)
(* continues with what the row said.                                       *)
Decide(f, a, verdict, rec) ==
  /\ phase = "up" /\ At(f, "idle") /\ apState[a] = "pending"
  /\ apState' = [apState EXCEPT ![a] = verdict]
  /\ flow' = [flow EXCEPT ![f] = [rec EXCEPT !.run = apRun[a], !.ap = a]]
  /\ UNCHANGED <<status, ckpt, apRun, aborted, registry, resumes, seenV, daemon,
                 faults, crashes>>

Approve(f, a) ==
  Decide(f, a, "approved", [Idle EXCEPT !.pc = "enter", !.kind = "approve",
                                        !.seen = "waiting_approval"])

(* The three rejection strategies: cancel, interrupt, and go on without    *)
(* the tool.                                                               *)
Reject(f, a) ==
  \/ Decide(f, a, "rejected",
            ToMark([Idle EXCEPT !.kind = "rejEnd"], "rejCancel", "cancelled"))
  \/ Decide(f, a, "rejected",
            ToMark([Idle EXCEPT !.kind = "rejEnd"], "rejInterrupt", "interrupted"))
  \/ Decide(f, a, "rejected", [Idle EXCEPT !.pc = "enter", !.kind = "rejCont",
                                           !.seen = "waiting_approval"])

(* The reads and the message update between the decision and the           *)
(* continuation; an error there leaves the handler before any catch.       *)
Enter(f) ==
  LET r == flow[f].run IN
  /\ At(f, "enter")
  /\ \/ RegistryCreate(f, r) /\ Goto(f, "require") /\ UNCHANGED faults
     \/ Fault /\ Done(f) /\ UNCHANGED <<aborted, registry>>
  /\ UNCHANGED <<db, resumes, seenV, daemon, crashes>>

(* resumeRun: in place for a run that waits for its user or was            *)
(* interrupted with a checkpoint; activeResumes admits one at a time.      *)
ResumeRun(f, r) ==
  LET s == status[r] IN
  /\ phase = "up" /\ At(f, "idle") /\ r \notin resumes
  /\ s = "waiting_user" \/ (s = "interrupted" /\ ckpt[r] # "none")
  /\ resumes' = resumes \cup {r}
  /\ RegistryCreate(f, r)
  /\ \E pc \in {"require"} \cup (IF s = "waiting_user" THEN {"unres"} ELSE {}) :
       flow' = [flow EXCEPT ![f] = [Idle EXCEPT !.pc = pc, !.kind = "resume", !.run = r,
                                                !.seen = s]]
  /\ UNCHANGED <<db, seenV, daemon, faults, crashes>>

(* requireRun and requireReactCheckpoint, outside the continuation's try.  *)
Require(f) ==
  LET r == flow[f].run IN
  /\ At(f, "require")
  /\ \/ /\ flow' = IF status[r] = flow[f].seen /\ ckpt[r] # "none"
                   THEN [flow EXCEPT ![f].pc = "acquire", ![f].ck = ckpt[r]]
                   ELSE [flow EXCEPT ![f] = Rethrown(@)]
        /\ UNCHANGED faults
     \/ Fault /\ flow' = [flow EXCEPT ![f] = Rethrown(@)]
  /\ UNCHANGED <<db, aborted, registry, resumes, seenV, daemon, crashes>>

(* cancelRun aborts first and writes second, then checks what it wrote.    *)
CancelRun(f, r) ==
  /\ phase = "up" /\ At(f, "idle") /\ status[r] \notin Terminal \cup {"absent"}
  /\ RegistryAbort(r)
  /\ flow' = [flow EXCEPT ![f] = ToMark([Idle EXCEPT !.kind = "cancel", !.run = r],
                                        "cancel", "cancelled")]
  /\ UNCHANGED <<db, resumes, seenV, daemon, faults, crashes>>

CancelCheck(f) ==
  LET r == flow[f].run IN
  /\ At(f, "cancelCheck")
  /\ Done(f)
  /\ IF status[r] = "cancelled" THEN RegistryRemove(r) /\ Announce(r, "cancelled")
     ELSE UNCHANGED <<registry, told>>
  /\ UNCHANGED <<db, aborted, resumes, toolRuns, daemon, faults, crashes>>

(* chat.stop, or the client of POST /chat going away.                      *)
StopChat(r) ==
  /\ phase = "up" /\ registry[r] # NoFlow
  /\ RegistryAbort(r)
  /\ UNCHANGED <<db, flow, resumes, seenV, daemon, faults, crashes>>
-----------------------------------------------------------------------------
(* Time passes an approval's expiresAt: it can no longer be decided.       *)
Overdue(a) ==
  /\ apState[a] = "pending"
  /\ apState' = [apState EXCEPT ![a] = "due"]
  /\ UNCHANGED <<status, ckpt, apRun, mem, seenV, daemon, faults, crashes>>

Expire_RowOnly(a) ==
  /\ phase \in {"up", "expiring"} /\ apState[a] = "due"
  /\ apState' = [apState EXCEPT ![a] = "expired"]
  /\ UNCHANGED <<status, told, ckpt, apRun, mem, toolRuns, daemon, faults, crashes>>

(* expireOne, from the timer or from the start of the daemon: the row and  *)
(* the run it still blocks, in one transaction.                            *)
Expire(a) ==
  LET r == apRun[a]  blocks == status[r] = "waiting_approval" IN
  /\ phase \in {"up", "expiring"} /\ apState[a] = "due"
  /\ apState' = [apState EXCEPT ![a] = "expired"]
  /\ IF blocks
     THEN status' = [status EXCEPT ![r] = "cancelled"] /\ Announce(r, "cancelled")
     ELSE UNCHANGED <<status, told>>
  /\ UNCHANGED <<ckpt, apRun, mem, toolRuns, daemon, faults, crashes>>

(* The process dies; memory is gone, the database is as committed.  A      *)
(* crash during a start begins the start again.                            *)
Crash ==
  /\ crashes < MaxCrash /\ crashes' = crashes + 1
  /\ flow' = [f \in Flow |-> Idle]
  /\ aborted' = {} /\ registry' = [r \in Run |-> NoFlow] /\ resumes' = {}
  /\ phase' = "expiring" /\ todo' = {r \in Run : status[r] # "absent"}
  /\ UNCHANGED <<db, seenV, faults>>

ExpireScanDone ==
  /\ phase = "expiring" /\ \A a \in Approval : apState[a] # "due"
  /\ phase' = "recovering"
  /\ UNCHANGED <<db, mem, seenV, todo, faults, crashes>>

(* recoverAgentRuntimeRuns, one run at a time: what cannot be continued is *)
(* failed, what was running is interrupted.                                *)
Recover(r) ==
  LET s == status[r]
      asked == \E a \in Approval : apRun[a] = r /\ apState[a] \in {"pending", "due"}
      to(next) == status' = [status EXCEPT ![r] = next] /\ Announce(r, next) IN
  /\ phase # "expiring" /\ r \in todo
  /\ todo' = todo \ {r}
  /\ \/ s = "created" /\ to("failed") /\ UNCHANGED faults
     \/ s = "running" /\ to("interrupted") /\ UNCHANGED faults
     \/ s = "running" /\ Fault /\ to("failed")
     \/ s = "waiting_approval" /\ ~asked /\ to("failed") /\ UNCHANGED faults
     \/ s = "waiting_user" /\ ckpt[r] = "none" /\ to("failed") /\ UNCHANGED faults
     \/ /\ \/ s = "waiting_approval" /\ asked
           \/ s = "waiting_user" /\ ckpt[r] # "none"
           \/ s \in Terminal \cup {"interrupted"}
        /\ UNCHANGED <<status, told, faults>>
  /\ UNCHANGED <<ckpt, apState, apRun, mem, toolRuns, phase, crashes>>

RecoveryDone_Early ==
  /\ phase = "recovering"
  /\ phase' = "up"
  /\ UNCHANGED <<db, mem, seenV, todo, faults, crashes>>

(* The server listens only after the scan.                                 *)
RecoveryDone ==
  /\ phase = "recovering" /\ todo = {}
  /\ phase' = "up"
  /\ UNCHANGED <<db, mem, seenV, todo, faults, crashes>>
-----------------------------------------------------------------------------
(* What a flow does by itself once it has been started.                    *)
Advance(f) ==
  \/ CreateRun(f) \/ SaveUserMessage(f) \/ Enter(f) \/ Require(f)
  \/ Acquire(f) \/ AcquireFault(f) \/ BuildContext(f) \/ RunApprovedTools(f)
  \/ PersistCheckpoint(f) \/ LoopHead(f)
  \/ TurnContinues(f) \/ TurnAnswers(f) \/ TurnAsksUser(f)
  \/ (\E a \in Approval : TurnNeedsApproval(f, a)) \/ TurnFails(f)
  \/ Finish(f) \/ AskUser(f) \/ FreezeBatch(f) \/ RequestRead(f) \/ RequestCommit(f)
  \/ CatchError(f) \/ MarkRead(f) \/ MarkCommit(f) \/ MarkFault(f)
  \/ LastResort(f) \/ Unresumable(f) \/ CancelCheck(f)
  \/ Settle(f) \/ Exit(f) \/ LinkRead(f) \/ LinkWrite(f)

Command(f) ==
  \/ \E r \in Run : StartChat(f, r) \/ ResumeRun(f, r) \/ CancelRun(f, r)
  \/ \E r, source \in Run : RetryRun(f, source, r)
  \/ \E a \in Approval : Approve(f, a) \/ Reject(f, a)

Daemon ==
  \/ \E a \in Approval : Overdue(a) \/ Expire(a)
  \/ \E r \in Run : StopChat(r) \/ Recover(r)
  \/ Crash \/ ExpireScanDone \/ RecoveryDone

Next == (\E f \in Flow : Command(f) \/ Advance(f)) \/ Daemon

Spec == Init /\ [][Next]_vars

(* A handler that was started keeps running (every await it makes ends: a  *)
(* model turn by its deadline, a database call by its result or an error), *)
(* an approval's time passes, and the timer and the start-up scan run.     *)
Fairness ==
  /\ \A f \in Flow : WF_vars(Advance(f))
  /\ \A a \in Approval : WF_vars(Overdue(a)) /\ WF_vars(Expire(a))
  /\ \A r \in Run : WF_vars(Recover(r))
  /\ WF_vars(ExpireScanDone) /\ WF_vars(RecoveryDone)

FairSpec == Spec /\ Fairness
-----------------------------------------------------------------------------
(* A flow that acts as the executor of its run: from the acquisition until *)
(* its pass completed, suspended or threw.                                 *)
Executes(rec) ==
  \/ rec.pc \in {"build", "tools", "persist", "top", "turn", "finish", "ask",
                 "freeze", "reqRead", "reqCommit"}
  \/ rec.pc \in {"mark", "commit"} /\ rec.why \in {"finish", "ask"}

Executing(f) == Executes(flow[f])

(* A flow whose pass threw and that has yet to say so in the run's status. *)
Failing(f) ==
  \/ flow[f].pc \in {"catch", "lastCatch", "unres"}
  \/ /\ flow[f].pc \in {"mark", "commit"}
     /\ flow[f].why \in {"error", "acqError", "lastResort", "unresumable"}

(* A flow that carries a human decision to a run that still waits for it.  *)
Decides(rec) ==
  \/ rec.pc \in {"enter", "require", "acquire"} /\ rec.kind \in {"approve", "rejCont"}
  \/ rec.pc \in {"mark", "commit"} /\ rec.why \in {"rejCancel", "rejInterrupt"}

Deciding(f) == Decides(flow[f])

Open(a) == apState[a] \in {"pending", "due"}

(* At most one flow executes a run: a second tool loop over the same       *)
(* transcript is what acquireExecution and the start-up order must exclude.*)
SingleExecutor ==
  \A f, g \in Flow :
    Executing(f) /\ Executing(g) /\ flow[f].run = flow[g].run => f = g

(* An executor's run is running, or was ended under it: no one suspends a  *)
(* run whose loop is still going, which would let it be continued twice.   *)
ExecutorOwnsRun ==
  \A f \in Flow : Executing(f) => status[flow[f].run] \in {"running"} \cup Terminal

(* A run that can still go on is blocked by at most one decision, counting *)
(* the approvals still open and the decisions on their way to it, and only *)
(* while it is waiting_approval.                                           *)
OpenOf(r) == {a \in Approval : Open(a) /\ apRun[a] = r}
DecidersOf(r) == {f \in Flow : Deciding(f) /\ flow[f].run = r}

OneOpenDecision ==
  \A r \in Run : status[r] \notin Terminal =>
    /\ \A a, b \in OpenOf(r) : a = b
    /\ \A f, g \in DecidersOf(r) : f = g
    /\ OpenOf(r) = {} \/ DecidersOf(r) = {}
    /\ OpenOf(r) \cup DecidersOf(r) # {} => status[r] = "waiting_approval"

(* A run belongs to one loop or waits for one decision, and never both.    *)
RunHasOneOwner == SingleExecutor /\ ExecutorOwnsRun /\ OneOpenDecision

(* While the daemon serves and nothing has failed, every run that is not   *)
(* settled has someone to move it: a running run its executor, a created   *)
(* run its chat, a run that waits for approval an open approval or a       *)
(* decision in flight.                                                     *)
NoRunStranded ==
  phase = "up" /\ faults = 0 =>
    \A r \in Run :
      CASE status[r] = "running" -> \E f \in Flow : (Executing(f) \/ Failing(f)) /\ flow[f].run = r
        [] status[r] = "created" -> \E f \in Flow : flow[f].run = r
        [] status[r] = "waiting_approval" -> OpenOf(r) \cup DecidersOf(r) # {}
        [] OTHER -> TRUE

(* A frozen batch reaches the tools at most once, and only approved,       *)
(* whatever was retried, resumed, crashed or raced.                        *)
ToolsOnlyOnce ==
  \A a \in Approval : toolRuns[a] <= 1 /\ (toolRuns[a] = 1 => apState[a] = "approved")

(* Registering a controller aborts only what a finished pass left behind,  *)
(* never the loop of a run that is still going.                            *)
AbortOnlyLeftovers ==
  [][\A f \in Flow :
       f \in aborted' \ aborted /\ Executing(f) /\ status[flow[f].run] = "running"
         => registry'[flow[f].run] = NoFlow]_vars

(* The status column implements the lifecycle the rest of the system sees. *)
Lifecycle == INSTANCE RunLifecycle
ImplementsLifecycle == Lifecycle!Spec

(* Every run that starts ends, is interrupted, or is left to its user: no  *)
(* interleaving and no crash leaves one running or waiting for approval    *)
(* for ever.                                                               *)
RunSettles ==
  \A r \in Run :
    status[r] \in {"created", "running", "waiting_approval"} ~>
      status[r] \in {"waiting_user", "interrupted"} \cup Terminal
-----------------------------------------------------------------------------
(* Documented promises that the code does not keep; each is refuted.       *)

(* chat.stop reaches the loop: an executing flow is registered or has been *)
(* told to stop.                                                           *)
StopReachesExecutor ==
  \A f \in Flow : Executing(f) /\ status[flow[f].run] = "running" =>
    f \in aborted \/ registry[flow[f].run] = f

(* A pass that stops by an error ends its run: whatever throws, the        *)
(* handler that notices will write failed or cancelled.                    *)
ThrowEndsTheRun ==
  [][\A f \in Flow :
       Executing(f) /\ ~Executing(f)' /\ phase' = "up"
         /\ status[flow[f].run] = "running" /\ status'[flow[f].run] = "running"
       => flow'[f].pc \in {"catch", "lastCatch"}]_vars

(* The published end of a run is the end it has.                           *)
CompletedIsCompleted ==
  \A r \in Run : "completed" \in told[r] => status[r] = "completed"
-----------------------------------------------------------------------------
(* The inductive invariant behind SingleExecutor, ExecutorOwnsRun and      *)
(* OneOpenDecision, part by part.  What a flow may write and what it       *)
(* expects to find, by the place it has reached:                           *)
Expected(rec) ==
  CASE rec.kind \in {"approve", "rejCont"} -> {"waiting_approval"}
    [] rec.kind = "resume" -> {"waiting_user", "interrupted"}
    [] OTHER -> {"created"}

GoalsOf(why) ==
  CASE why = "finish" -> {"completed"}
    [] why = "ask" -> {"waiting_user"}
    [] why = "rejInterrupt" -> {"interrupted"}
    [] OTHER -> {"cancelled", "failed"}

RecInv(rec) ==
  /\ rec.pc # "idle" => rec.run \in Run
  /\ rec.pc \notin {"idle", "newRun"} => status[rec.run] # "absent"
  /\ rec.pc = "newRun" => status[rec.run] = "absent"
  /\ rec.pc \in {"newRun", "userMsg"} => rec.kind \in {"chat"} \cup Sync
  /\ rec.pc \in {"newRun", "userMsg", "enter", "require", "acquire"} =>
       rec.seen \in Expected(rec)
  /\ rec.pc \in {"freeze", "reqRead", "reqCommit"} =>
       rec.ap \in Approval /\ apRun[rec.ap] = rec.run /\ apState[rec.ap] # "absent"
  /\ rec.pc = "reqCommit" => \/ rec.seen = "running"
                             \/ rec.seen \in Terminal /\ status[rec.run] \in Terminal
  /\ rec.pc \in {"mark", "commit"} => rec.goal \in GoalsOf(rec.why)
  /\ rec.pc = "commit" => rec.goal \in Legal(rec.seen)

(* Until its row exists a run belongs to the flow that will create it.     *)
FlowInv(f) ==
  /\ RecInv(flow[f])
  /\ At(f, "newRun") => \A g \in Flow : flow[g].run = flow[f].run => g = f

ApprovalInv(a) ==
  apState[a] # "absent" => apRun[a] \in Run /\ status[apRun[a]] # "absent"

StartInv ==
  /\ phase = "up" => todo = {}
  /\ phase # "up" => \A f \in Flow : At(f, "idle")

IInv ==
  /\ TypeOK
  /\ \A f \in Flow : FlowInv(f)
  /\ \A a \in Approval : ApprovalInv(a)
  /\ StartInv
  /\ ExecutorOwnsRun
  /\ SingleExecutor
  /\ OneOpenDecision
-----------------------------------------------------------------------------
(* The inductive invariant behind ToolsOnlyOnce: a batch on its way into a *)
(* request is still frozen, a batch on its way to the tools is approved    *)
(* and has not run, and one flow at a time has it.                         *)
Requests(rec, a) == rec.pc \in {"freeze", "reqRead", "reqCommit"} /\ rec.ap = a
Carries(rec, a) ==
  /\ rec.kind = "approve" /\ rec.ap = a
  /\ rec.pc \in {"enter", "require", "acquire", "build", "tools"}

BatchInv ==
  /\ \A f \in Flow : At(f, "tools") => flow[f].kind = "approve"
  /\ \A f \in Flow, a \in Approval :
       /\ Requests(flow[f], a) => apState[a] = "frozen"
       /\ Carries(flow[f], a) => apState[a] = "approved" /\ toolRuns[a] = 0
  /\ \A f, g \in Flow, a \in Approval :
       \/ Requests(flow[f], a) /\ Requests(flow[g], a)
       \/ Carries(flow[f], a) /\ Carries(flow[g], a)
       => f = g
  /\ ToolsOnlyOnce

(* Behind AbortOnlyLeftovers: whoever is registered for a run works for it *)
(* and has yet to drop its controller.                                     *)
Holds(rec) ==
  /\ rec.pc \notin {"idle", "enter", "cancelCheck", "linkRead", "linkWrite"}
  /\ rec.pc = "settle" => rec.kind = "chat"
  /\ rec.pc \in {"mark", "commit"} =>
       /\ rec.why \notin {"prep", "cancel", "rejCancel", "rejInterrupt"}
       /\ rec.why = "lastResort" => rec.kind \notin Sync

RegistryInv ==
  \A r \in Run : registry[r] # NoFlow =>
    flow[registry[r]].run = r /\ Holds(flow[registry[r]])

(* Behind NoRunStranded: who made a run, and what is bound to happen to it *)
(* as long as no call has failed.                                          *)
Creates(rec) == rec.kind \in {"chat"} \cup Sync

MakerInv ==
  /\ \A f \in Flow :
       /\ At(f, "enter") => flow[f].kind \in {"approve", "rejCont"}
       /\ At(f, "require") => flow[f].kind \in {"approve", "rejCont", "resume"}
       /\ At(f, "acquire") => Creates(flow[f]) \/ flow[f].kind \in {"approve", "rejCont", "resume"}
       /\ flow[f].pc \in {"linkRead", "linkWrite"} => flow[f].kind = "attempt"
  /\ \A f, g \in Flow :
       Creates(flow[f]) /\ Creates(flow[g]) /\ flow[f].run = flow[g].run => f = g

Owns(rec) ==
  Executes(rec) \/ rec.pc = "catch" \/ (rec.pc \in {"mark", "commit"} /\ rec.why = "error")

(* A flow whose run, unless it has ended, has a checkpoint.                *)
Saves(rec) ==
  \/ Executes(rec) /\ rec.pc \notin {"build", "tools", "persist"}
  \/ rec.kind = "attempt" /\ rec.pc \in {"exit", "linkRead"}

Early(rec) == Creates(rec) /\ rec.pc \in {"userMsg", "acquire"}

Passes(rec, s, c) ==
  /\ Owns(rec) => s \in {"running"} \cup Terminal
  /\ Early(rec) => s \in {"created"} \cup Terminal
  /\ rec.pc = "commit" /\ rec.why \in {"finish", "ask", "error"} => rec.seen = "running"
  /\ rec.pc = "commit" /\ Decides(rec) => rec.seen = "waiting_approval"
  /\ Saves(rec) => s \in Terminal \/ c # "none"
  /\ rec.pc = "linkWrite" => s \in Terminal \/ rec.ck # "none"
  /\ rec.kind = "attempt" =>
       /\ rec.pc # "unres"
       /\ rec.pc \in {"mark", "commit"} => rec.why \in {"finish", "ask", "error", "lastResort"}

HasMover(r) ==
  /\ status[r] = "running" => \E f \in Flow : Owns(flow[f]) /\ flow[f].run = r
  /\ status[r] = "created" => \E f \in Flow : Early(flow[f]) /\ flow[f].run = r
  /\ status[r] = "waiting_approval" => OpenOf(r) \cup DecidersOf(r) # {}

MoverInv ==
  faults = 0 =>
    /\ \A f \in Flow : Passes(flow[f], status[flow[f].run], ckpt[flow[f].run])
    /\ \A f, g \in Flow :
         Owns(flow[f]) /\ Owns(flow[g]) /\ flow[f].run = flow[g].run => f = g
    /\ \A r \in Run : status[r] \in {"waiting_approval", "waiting_user"} => ckpt[r] # "none"
    /\ \A r \in Run \ todo : HasMover(r)
=============================================================================
