---------------------------- MODULE RunStateStore ----------------------------
(***************************************************************************)
(* One run in the database: the status column, the checkpoint and the      *)
(* status history inside runs.context, and the run_status_history table,   *)
(* under concurrent calls of RepositoryRunStateManager and of              *)
(* recordAttemptLink, the one writer that does not go through it.          *)
(*                                                                         *)
(* A call of the manager reads the row in one statement and writes in a    *)
(* transaction afterwards: two steps, with the row it read in between.  A  *)
(* transaction that fails may have committed.  Reasons, actors, times and  *)
(* the errors a caller gets are left out.                                  *)
(***************************************************************************)
EXTENDS RunStatus, Naturals, Sequences

CONSTANTS
  Caller,        \* the calls of the manager that may be in flight together
  Linker,        \* the calls of recordAttemptLink
  MaxHistory,    \* MAX_STATUS_HISTORY
  MaxChange,     \* bound: status changes
  MaxSave,       \* bound: checkpoints saved
  MaxFailure     \* bound: transactions that fail

ASSUME StoreAssumption ==
  /\ Caller \cap Linker = {}
  /\ MaxHistory \in Nat \ {0}
  /\ MaxChange \in Nat /\ MaxSave \in Nat /\ MaxFailure \in Nat

VARIABLES
  status,        \* runs.status, "absent" without a row
  context,       \* runs.context: the status history, and the checkpoint's number
  table,         \* run_status_history, in the order of commits
  call,          \* call[c]: what a call in flight has read and wants to write
  saves,         \* checkpoints saved so far
  linked,        \* an attempt link has been written
  failures

theRun  == <<status, context, table>>
runRowVars == <<theRun, call, saves, linked, failures>>

AnyStatus == Status \cup {"absent"}
Entry == [from : AnyStatus, to : Status]
Context == [history : Seq(Entry), task : Nat]
NoCall == [goal |-> "absent", seen |-> "absent", base |-> [history |-> <<>>, task |-> 0]]
CallState == [goal : AnyStatus, seen : AnyStatus, base : Context]

RunTypeOK ==
  /\ status \in AnyStatus
  /\ context \in Context /\ Len(context.history) <= MaxHistory
  /\ table \in Seq(Entry) /\ Len(table) <= MaxChange + 1
  /\ call \in [Caller \cup Linker -> CallState]
  /\ saves \in 0 .. MaxSave /\ linked \in BOOLEAN /\ failures \in 0 .. MaxFailure

RunInit ==
  /\ status = "absent" /\ context = NoCall.base /\ table = <<>>
  /\ call = [c \in Caller \cup Linker |-> NoCall]
  /\ saves = 0 /\ linked = FALSE /\ failures = 0
-----------------------------------------------------------------------------
Change(s, t) == [from |-> s, to |-> t]
Idle(c) == call[c] = NoCall
Return(c) == call' = [call EXCEPT ![c] = NoCall]
TransactionFails == failures < MaxFailure /\ failures' = failures + 1

(* truncateStatusHistory keeps the most recent entries.                    *)
Truncate(h) ==
  IF Len(h) <= MaxHistory THEN h ELSE SubSeq(h, Len(h) - MaxHistory + 1, Len(h))

(* createRun, in the transaction of the run initializer.                   *)
Create ==
  /\ status = "absent" /\ status' = "created"
  /\ context' = [context EXCEPT !.history = <<Change("absent", "created")>>]
  /\ table' = <<Change("absent", "created")>>
  /\ UNCHANGED <<call, saves, linked, failures>>

(* The changes a call may go on with: markStatus and markFailed return or  *)
(* throw for any other, and acquireExecution asks for "running" only from  *)
(* the one status its caller expects.                                      *)
Allowed(s) == Legal(s)

Read(c, g) ==
  /\ Idle(c) /\ status # "absent" /\ Len(table) <= MaxChange
  /\ g \in Allowed(status)
  /\ call' = [call EXCEPT ![c] = [goal |-> g, seen |-> status, base |-> context]]
  /\ UNCHANGED <<theRun, saves, linked, failures>>

Updatable_Always(c) == status # "absent"

(* updateStatusIfCurrent and updateStatusIfInSet compare the status only.  *)
Updatable(c) == status = call[c].seen

NewHistory(c) == Truncate(Append(call[c].base.history, Change(call[c].seen, call[c].goal)))

(* patchContext replaces the history and leaves the checkpoint alone.      *)
PatchedContext(c) == [context EXCEPT !.history = NewHistory(c)]

(* The three writes of a status change.                                    *)
WriteAll(c) ==
  /\ status' = call[c].goal
  /\ context' = PatchedContext(c)
  /\ table' = Append(table, Change(call[c].seen, call[c].goal))

Commit(c) ==
  /\ ~Idle(c) /\ Len(table) <= MaxChange
  /\ Return(c)
  /\ \/ Updatable(c) /\ WriteAll(c) /\ UNCHANGED failures
     \/ ~Updatable(c) /\ UNCHANGED <<theRun, failures>>
     \/ TransactionFails /\ (UNCHANGED theRun \/ (Updatable(c) /\ WriteAll(c)))
  /\ UNCHANGED <<saves, linked>>

(* saveTaskState: a patch of its own.                                      *)
SaveTaskState ==
  /\ status # "absent" /\ saves < MaxSave
  /\ saves' = saves + 1
  /\ context' = [context EXCEPT !.task = saves']
  /\ UNCHANGED <<status, table, call, linked, failures>>
-----------------------------------------------------------------------------
(* recordAttemptLink reads the row and writes the whole of its context.    *)
ReadLink(l) ==
  /\ Idle(l) /\ status # "absent"
  /\ call' = [call EXCEPT ![l] = [goal |-> status, seen |-> status, base |-> context]]
  /\ UNCHANGED <<theRun, saves, linked, failures>>

WriteLink(l) ==
  /\ ~Idle(l)
  /\ Return(l)
  /\ context' = call[l].base
  /\ linked' = TRUE
  /\ UNCHANGED <<status, table, saves, failures>>
-----------------------------------------------------------------------------
RunNext ==
  \/ Create \/ SaveTaskState
  \/ \E c \in Caller : Commit(c) \/ \E g \in Status : Read(c, g)
  \/ \E l \in Linker : ReadLink(l) \/ WriteLink(l)

RunSpec == RunInit /\ [][RunNext]_runRowVars
-----------------------------------------------------------------------------
(* A history is a chain of legal changes that ends in status s.            *)
Chain(h, s) ==
  /\ \A i \in 1 .. Len(h) : h[i].from # "absent" => h[i].to \in Legal(h[i].from)
  /\ \A i \in 2 .. Len(h) : h[i].from = h[i - 1].to
  /\ h # <<>> => h[Len(h)].to = s

(* The table explains the status: it begins with the creation, every row   *)
(* is a legal change from where the row before it ended, and the last one  *)
(* leads to the status, whatever raced or failed.                          *)
TableExplainsStatus ==
  /\ Chain(table, status)
  /\ status # "absent" => table # <<>> /\ table[1] = Change("absent", "created")

(* So does the history in the context until an attempt link is written,    *)
(* although it is written from a stale read and cut at its limit: the      *)
(* state a handler is given never has a history that ends anywhere but in  *)
(* the status.                                                             *)
ContextExplainsStatus ==
  ~linked => /\ Chain(context.history, status)
             /\ status # "absent" => context.history # <<>>

(* Until then the checkpoint is the last one that was saved: no status     *)
(* change puts an older one back.                                          *)
CheckpointKept == ~linked => context.task = saves

(* What the database says of a run agrees with its status, in the three    *)
(* places it says it.                                                      *)
RowExplainsStatus == TableExplainsStatus /\ ContextExplainsStatus /\ CheckpointKept

(* One run's column implements the lifecycle the rest of the system sees.  *)
Column == [r \in {"run"} |-> status]
Lifecycle == INSTANCE RunLifecycle WITH Run <- {"run"}, status <- Column
ImplementsLifecycle == Lifecycle!Spec
-----------------------------------------------------------------------------
(* A promise of a comment that the code does not keep: the context belongs *)
(* to the status beside it, also while a new attempt is linked to the run  *)
(* it repeats.                                                             *)
LinkKeepsContext == status # "absent" => context.history[Len(context.history)].to = status
=============================================================================
