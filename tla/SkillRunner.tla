---------------------------- MODULE SkillRunner ----------------------------
(***************************************************************************)
(* SkillRunner: every execution of a skill waits for one of a few slots,   *)
(* checks its run and its skill, forks a worker process, serves the host   *)
(* calls the worker makes, and settles once, with the worker's answer, its *)
(* exit, the timeout or an interruption, whichever is seen first.          *)
(*                                                                         *)
(* Promise callbacks run before the next event, so what one event triggers *)
(* (a settlement, the release of the slot, the waiter that takes it) is    *)
(* one step.  Messages, exits and timers are events of their own.          *)
(***************************************************************************)
EXTENDS SkillRegistry, Sequences

CONSTANTS
  Exec,             \* the executions; those of one run, which can be interrupted together
  Deaf,             \* those whose skill blocks its process and traps SIGTERM
  MaxSlots,         \* bound: the largest option maxConcurrency
  MaxHostCalls      \* bound: host calls one worker has under way together

ASSUME RunnerAssumption ==
  Deaf \subseteq Exec /\ MaxSlots \in Nat \ {0} /\ MaxHostCalls \in Nat

VARIABLES
  job,          \* job[e]: the execution, see Job
  worker,       \* worker[e]: its process: "none", "up", "told" (to exit) or "gone"
  maxConcurrency,\* the option the runner was made with
  active,       \* activeExecutions
  waiters,      \* the executions waiting for a slot
  registered,   \* activeByRun of the run
  interrupted   \* the run's status is "interrupted"

runnerVars == <<maxConcurrency, job, worker, active, waiters, registered, interrupted>>
allVars == <<regVars, runnerVars>>

(* reason: why terminate() was called.  host: calls received before the    *)
(* outcome and not finished; late: calls received after it.                *)
(* stop: the AbortSignal of the caller has fired.                          *)
Job == [pc : {"idle", "queued", "check", "lookup", "audit", "running", "settling", "done"},
        skill : SUBSET Skill, reason : {"none", "timeout", "interrupt"},
        stop : BOOLEAN, host : 0 .. MaxHostCalls, late : 0 .. MaxHostCalls]

NewJob == [pc |-> "idle", skill |-> {}, reason |-> "none", stop |-> FALSE,
           host |-> 0, late |-> 0]

TypeOK ==
  /\ RegTypeOK
  /\ job \in [Exec -> Job]
  /\ worker \in [Exec -> {"none", "up", "told", "gone"}]
  /\ maxConcurrency \in 1 .. MaxSlots
  /\ active \in 0 .. maxConcurrency
  /\ waiters \in Seq(Exec)
  /\ registered \subseteq Exec
  /\ interrupted \in BOOLEAN

Init ==
  /\ RegInit
  /\ maxConcurrency \in 1 .. MaxSlots
  /\ job = [e \in Exec |-> NewJob]
  /\ worker = [e \in Exec |-> "none"]
  /\ active = 0 /\ waiters = <<>> /\ registered = {}
  /\ interrupted = FALSE
-----------------------------------------------------------------------------
At(e, pc) == job[e].pc = pc
Goto(e, pc) == job' = [job EXCEPT ![e].pc = pc]

(* releaseSlot: the first waiter, if any, takes the slot.                  *)
NextIn(js) == IF waiters = <<>> THEN js ELSE [js EXCEPT ![Head(waiters)].pc = "check"]
Ended(e) == [job EXCEPT ![e] = [NewJob EXCEPT !.pc = "done", !.late = job[e].late]]

ReleaseSlot_Strict ==
  /\ active' = active - 1
  /\ waiters' = waiters

ReleaseSlot ==
  /\ active' = IF waiters = <<>> THEN active - 1 ELSE active
  /\ waiters' = IF waiters = <<>> THEN waiters ELSE Tail(waiters)

(* execute() returns or throws: its finally releases the slot.             *)
Return(e) == job' = NextIn(Ended(e)) /\ ReleaseSlot

(* execute and acquireSlot.                                                *)
Execute(e, s) ==
  /\ At(e, "idle")
  /\ IF active >= maxConcurrency
     THEN /\ job' = [job EXCEPT ![e].pc = "queued", ![e].skill = {s}]
          /\ waiters' = Append(waiters, e)
          /\ UNCHANGED active
     ELSE /\ job' = [job EXCEPT ![e].pc = "check", ![e].skill = {s}]
          /\ active' = active + 1
          /\ UNCHANGED waiters
  /\ UNCHANGED <<regVars, maxConcurrency, worker, registered, interrupted>>

(* The run's row: an interrupted run starts nothing; the call may fail.    *)
CheckRun(e) ==
  /\ At(e, "check")
  /\ \/ ~interrupted /\ Goto(e, "lookup") /\ UNCHANGED <<active, waiters>>
     \/ Return(e)
  /\ UNCHANGED <<regVars, maxConcurrency, worker, registered, interrupted>>

(* registry.get; then the manifest, the shell permission and the integrity *)
(* of the package, any of which may refuse.                                *)
LookupSkill(e) ==
  /\ At(e, "lookup")
  /\ \/ /\ \A s \in job[e].skill : Lookup(s) = "on"
        /\ Goto(e, "audit") /\ UNCHANGED <<active, waiters>>
     \/ Return(e)
  /\ UNCHANGED <<regVars, maxConcurrency, worker, registered, interrupted>>

(* The audit entry, which may fail; then fork, register, arm the timeout,  *)
(* send the message "execute".                                             *)
Fork(e) ==
  /\ At(e, "audit")
  /\ \/ /\ Goto(e, "running")
        /\ worker' = [worker EXCEPT ![e] = "up"]
        /\ registered' = registered \cup {e}
        /\ UNCHANGED <<active, waiters>>
     \/ Return(e) /\ UNCHANGED <<worker, registered>>
  /\ UNCHANGED <<regVars, maxConcurrency, interrupted>>
-----------------------------------------------------------------------------
Alive(e) == worker[e] \in {"up", "told"}

(* A signal to exit: SIGTERM, or the end of the channel.  A deaf worker    *)
(* goes on; the others end, some time later.                               *)
Tell(e) == IF worker[e] = "up" /\ e \notin Deaf THEN [worker EXCEPT ![e] = "told"] ELSE worker

(* A host_call or host_notify message, and the end of its handling.  A     *)
(* worker goes on after its answer until it is told to exit.               *)
HostCall(e) ==
  /\ Alive(e) /\ e \notin Deaf /\ job[e].host + job[e].late < MaxHostCalls
  /\ \/ At(e, "running") /\ job' = [job EXCEPT ![e].host = @ + 1]
     \/ At(e, "settling") /\ job' = [job EXCEPT ![e].late = @ + 1]
  /\ UNCHANGED <<regVars, maxConcurrency, worker, active, waiters, registered, interrupted>>

HostDone(e) ==
  /\ job[e].host > 0 /\ job' = [job EXCEPT ![e].host = @ - 1]
  /\ UNCHANGED <<regVars, maxConcurrency, worker, active, waiters, registered, interrupted>>

LateDone(e) ==
  /\ job[e].late > 0 /\ job' = [job EXCEPT ![e].late = @ - 1]
  /\ UNCHANGED <<regVars, maxConcurrency, worker, active, waiters, registered, interrupted>>

(* settle(): the first outcome counts, then the host calls received before *)
(* it are waited for.  An answer that was on its way still counts after    *)
(* terminate(); the exit of the process is the last resort.                *)
Answer(e) ==
  /\ At(e, "running") /\ Alive(e) /\ e \notin Deaf
  /\ Goto(e, "settling")
  /\ UNCHANGED <<regVars, maxConcurrency, worker, active, waiters, registered, interrupted>>

WorkerExits(e) ==
  /\ Alive(e)
  /\ worker' = [worker EXCEPT ![e] = "gone"]
  /\ IF At(e, "running") THEN Goto(e, "settling") ELSE UNCHANGED job
  /\ UNCHANGED <<regVars, maxConcurrency, active, waiters, registered, interrupted>>

Cleanup_Run(e) ==
  /\ At(e, "settling") /\ job[e].host = 0
  /\ registered' = {}
  /\ worker' = Tell(e)
  /\ Return(e)
  /\ UNCHANGED <<regVars, maxConcurrency, interrupted>>

Cleanup_NoKill(e) ==
  /\ At(e, "settling") /\ job[e].host = 0
  /\ registered' = registered \ {e}
  /\ UNCHANGED worker
  /\ Return(e)
  /\ UNCHANGED <<regVars, maxConcurrency, interrupted>>

(* The rest of settle(): timers and listeners are removed, the channel is  *)
(* closed, the process told to exit, and the call returns.                 *)
Cleanup(e) ==
  /\ At(e, "settling") /\ job[e].host = 0
  /\ registered' = registered \ {e}
  /\ worker' = Tell(e)
  /\ Return(e)
  /\ UNCHANGED <<regVars, maxConcurrency, interrupted>>

(* terminate(): nothing once the call is settled or being terminated.      *)
Terminable(e) == At(e, "running") /\ job[e].reason = "none"

Timeout(e) ==
  /\ Terminable(e)
  /\ job' = [job EXCEPT ![e].reason = "timeout"]
  /\ worker' = Tell(e)
  /\ UNCHANGED <<regVars, maxConcurrency, active, waiters, registered, interrupted>>

(* SIGKILL, when the grace period ends before the process does.            *)
ForceKill(e) ==
  /\ At(e, "running") /\ job[e].reason # "none" /\ worker[e] = "up"
  /\ worker' = [worker EXCEPT ![e] = "told"]
  /\ UNCHANGED <<regVars, maxConcurrency, job, active, waiters, registered, interrupted>>

InterruptRun ==
  /\ job' = [e \in Exec |-> IF e \in registered /\ Terminable(e)
                            THEN [job[e] EXCEPT !.reason = "interrupt"] ELSE job[e]]
  /\ worker' = [e \in Exec |-> IF e \in registered /\ Terminable(e) THEN Tell(e)[e] ELSE worker[e]]
  /\ UNCHANGED <<regVars, maxConcurrency, active, waiters, registered, interrupted>>

MarkInterrupted ==
  /\ ~interrupted /\ interrupted' = TRUE
  /\ UNCHANGED <<regVars, maxConcurrency, job, worker, active, waiters, registered>>

(* The user stops the run: the signal every tool call was given fires.     *)
(* The wiring of runSkill does not hand it on, and nobody listens.         *)
StopCaller(e) ==
  /\ At(e, "running") /\ ~job[e].stop
  /\ job' = [job EXCEPT ![e].stop = TRUE]
  /\ UNCHANGED <<regVars, maxConcurrency, worker, active, waiters, registered, interrupted>>
-----------------------------------------------------------------------------
Progress(e) == CheckRun(e) \/ LookupSkill(e) \/ Fork(e) \/ Cleanup(e)

Next ==
  \/ \E e \in Exec :
       \/ \E s \in Skill : Execute(e, s)
       \/ Progress(e) \/ HostCall(e) \/ HostDone(e) \/ LateDone(e) \/ Answer(e) \/ WorkerExits(e)
       \/ Timeout(e) \/ ForceKill(e) \/ StopCaller(e)
  \/ InterruptRun \/ MarkInterrupted
  \/ RegNext /\ UNCHANGED runnerVars

Spec == Init /\ [][Next]_allVars

(* Database calls and host calls end (each has a time limit), timers fire, *)
(* and a process that was told to exit exits.  A skill owes nothing.       *)
Fairness ==
  \A e \in Exec :
    /\ WF_allVars(Progress(e)) /\ WF_allVars(HostDone(e))
    /\ WF_allVars(Timeout(e)) /\ WF_allVars(ForceKill(e))
    /\ WF_allVars(worker[e] = "told" /\ WorkerExits(e))

FairSpec == Spec /\ Fairness
-----------------------------------------------------------------------------
InSlot(e) == job[e].pc \in {"check", "lookup", "audit", "running", "settling"}

(* The counter of slots is exact on every path in and out of an execution: *)
(* no more executions than slots, none lost to an error, and nobody waits  *)
(* while one is free.                                                      *)
SlotsExact ==
  /\ active = Cardinality({e \in Exec : InSlot(e)})
  /\ active <= maxConcurrency
  /\ waiters # <<>> => active = maxConcurrency

(* interruptRun finds every worker that still works on an unsettled call:  *)
(* the clean-up of one execution must not hide the others of its run.      *)
WorkersAreInterruptible ==
  \A e \in Exec : At(e, "running") => e \in registered

(* The bookkeeping of the runner, of slots and of workers, is exact on      *)
(* every path in and out of an execution.                                   *)
PoolIsExact == SlotsExact /\ WorkersAreInterruptible

(* Whatever the skill does, block, crash, ignore signals or answer late,   *)
(* a call returns, a waiter gets its turn, and no worker outlives its      *)
(* call for ever.                                                          *)
CallsEnd ==
  \A e \in Exec : ~At(e, "idle") ~> (At(e, "done") /\ ~Alive(e))

(* The comment of SkillToolExecutor: the abort signal is forwarded, so     *)
(* that the execution of a skill can be cancelled.                         *)
StopReachesWorker ==
  \A e \in Exec : job[e].stop /\ At(e, "running") => job[e].reason # "none"
-----------------------------------------------------------------------------
(* The inductive invariant: besides the exact counter, whoever waits is     *)
(* queued, and waits once.                                                 *)
Users == {e \in Exec : InSlot(e)}
WaitersQueued ==
  /\ \A i \in 1 .. Len(waiters) : At(waiters[i], "queued")
  /\ \A i, j \in 1 .. Len(waiters) : waiters[i] = waiters[j] => i = j
RunnerInv ==
  /\ TypeOK /\ FoundInStep /\ IsFiniteSet(Users)
  /\ SlotsExact /\ WaitersQueued /\ WorkersAreInterruptible
=============================================================================
