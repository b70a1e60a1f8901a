------------------------------ MODULE WorldTasks -----------------------------
(***************************************************************************)
(* The tasks of one digital being: each is expanded into a list of         *)
(* actions that one driver carries out in turn.  The executor started by   *)
(* the request drives a task until an action starts an agent run; the      *)
(* handler of that run's terminal event drives it on.  Every write is a    *)
(* step of its own; reads are made with the write that follows them.       *)
(*                                                                         *)
(* Positions, routes, texts, artifacts and logs are left out.  A failed    *)
(* write is a write that did not happen.  A run that is interrupted or     *)
(* waits for the user publishes nothing: it stays "live" here.             *)
(***************************************************************************)
EXTENDS Naturals, Sequences, FiniteSets, SequencesExt

CONSTANTS
  Task,       \* the tasks that may be created
  Types,      \* the types requests may ask for
  Ties,       \* the k such that actions k and k + 1 of a task are created in
              \* the same millisecond
  FastRuns,   \* whether a run may end before its driver has left the task
  MaxUpset    \* bound: failed writes, crashes and the user's own requests

ASSUME ConstantsOK ==
  "none" \notin Types /\ Ties \subseteq Nat /\ FastRuns \in BOOLEAN /\ MaxUpset \in Nat

VARIABLES
  task,       \* task[t]: [type, st], st "none" before it is created
  acts,       \* acts[t]: its actions' rows, [kind, st, run]; run tells whether
              \* the row has its run's id
  being,      \* the being's row: [st, task, act]
  runs,       \* runs[t][i]: "none", "live", or how the run of action i ended
  heard,      \* heard[t]: the actions whose run's event has been delivered
  driver,     \* driver[<<t, i>>]: [at, left]: where it is, and the actions
              \* still to do; i = 0 for the executor, else the handler of run i
  request,    \* a status change between its check and its write
  failedWrites, crashes, requests

worldRows == <<task, acts, being>>
bounds    == <<failedWrites, crashes, requests>>
taskVars  == <<worldRows, runs, heard, driver, request, bounds>>

(* TASK_ACTION_MAP: any other type has no actions. *)
TaskActions ==
  [make_video             |-> <<"wake", "move_to", "work_on", "artifact_created",
                                "move_to", "move_to", "sleep">>,
   publish_to_tiktok      |-> <<"wake", "move_to", "move_to", "work_on", "move_to", "sleep">>,
   make_and_publish_video |-> <<"wake", "move_to", "work_on", "artifact_created", "move_to",
                                "move_to", "work_on", "move_to", "sleep">>,
   return_home            |-> <<"move_to">>,
   sleep                  |-> <<"sleep">>]

ActionsOf(type) == IF type \in DOMAIN TaskActions THEN TaskActions[type] ELSE <<>>

MaxActions == 9
Driver == Task \X (0 .. MaxActions)
NotDriving == [at |-> "idle", left |-> <<>>]

(* The status an action leaves the being with; "none" leaves it as it is.  *)
StatusAfter(kind) ==
  CASE kind = "wake" -> "idle" [] kind = "move_to" -> "moving"
    [] kind = "sleep" -> "sleeping" [] OTHER -> "none"

WithStatus(b, st) == IF st = "none" THEN b ELSE [b EXCEPT !.st = st]
Cleared(b) == [b EXCEPT !.task = "none", !.act = 0]

TasksInit ==
  /\ task = [t \in Task |-> [type |-> "none", st |-> "none"]]
  /\ acts = [t \in Task |-> <<>>]
  /\ being = [st |-> "idle", task |-> "none", act |-> 0]
  /\ runs = [t \in Task |-> [i \in 1 .. MaxActions |-> "none"]]
  /\ heard = [t \in Task |-> {}]
  /\ driver = [d \in Driver |-> NotDriving]
  /\ request = "none"
  /\ failedWrites = 0 /\ crashes = 0 /\ requests = 0

-----------------------------------------------------------------------------

At(d, place) == driver[d].at = place
Goto(d, place) == driver' = [driver EXCEPT ![d].at = place]
Leave(d) == driver' = [driver EXCEPT ![d] = NotDriving]
Current(d) == Head(driver[d].left)
IsExecutor(d) == d[2] = 0

SetAct(t, i, st) == acts' = [acts EXCEPT ![t][i].st = st]

(* listByTaskId orders the rows by the time they were created, and rows of *)
(* the same time in any order: two neighbours in each other's place here.  *)
Listings(t) ==
  LET n == Len(acts[t])
      InPlace == [i \in 1 .. n |-> i]
  IN  {InPlace} \cup {[InPlace EXCEPT ![k] = k + 1, ![k + 1] = k] : k \in Ties \cap 1 .. n - 1}

(* createTask answers with the row; the executor goes on by itself.        *)
CreateTask(t) ==
  /\ task[t].st = "none"
  /\ \E type \in Types : task' = [task EXCEPT ![t] = [type |-> type, st |-> "queued"]]
  /\ Goto(<<t, 0>>, "claim")
  /\ UNCHANGED <<acts, being, runs, heard, request, bounds>>

(* executeTask: a type without actions is left as it is; a queued task is  *)
(* claimed by one conditional update.                                      *)
Claim(t) ==
  LET d == <<t, 0>>
  IN  /\ At(d, "claim")
      /\ IF ActionsOf(task[t].type) # <<>> /\ task[t].st = "queued"
         THEN task' = [task EXCEPT ![t].st = "running"] /\ Goto(d, "take")
         ELSE Leave(d) /\ UNCHANGED task
      /\ UNCHANGED <<acts, being, runs, heard, request, bounds>>

TakeBeing(t) ==
  /\ At(<<t, 0>>, "take")
  /\ being' = [being EXCEPT !.task = t]
  /\ Goto(<<t, 0>>, "create")
  /\ UNCHANGED <<task, acts, runs, heard, request, bounds>>

(* The actions are created one by one and then listed.                     *)
CreateAction(t) ==
  LET d == <<t, 0>>
      kinds == ActionsOf(task[t].type)
      row   == [kind |-> kinds[Len(acts[t]) + 1], st |-> "pending", run |-> FALSE]
  IN  /\ At(d, "create") /\ Len(acts[t]) < Len(kinds)
      /\ acts' = [acts EXCEPT ![t] = Append(@, row)]
      /\ UNCHANGED <<task, being, runs, heard, driver, request, bounds>>

ListActions(t) ==
  LET d == <<t, 0>>
  IN  /\ At(d, "create") /\ Len(acts[t]) = Len(ActionsOf(task[t].type))
      /\ \E order \in Listings(t) :
           driver' = [driver EXCEPT ![d] = [at |-> "point", left |-> order]]
      /\ UNCHANGED <<worldRows, runs, heard, request, bounds>>

(* The loop: the being points at the next action, or at nothing any more.  *)
PointAt(d) ==
  /\ At(d, "point")
  /\ IF driver[d].left = <<>> THEN being' = Cleared(being) /\ Goto(d, "complete")
     ELSE being' = [being EXCEPT !.act = Current(d)] /\ Goto(d, "start")
  /\ UNCHANGED <<task, acts, runs, heard, request, bounds>>

(* executeAction *)
StartAction(d) ==
  /\ At(d, "start")
  /\ SetAct(d[1], Current(d), "running")
  /\ Goto(d, "act")
  /\ UNCHANGED <<task, being, runs, heard, request, bounds>>

ActOnBeing(d) ==
  /\ At(d, "act") /\ acts[d[1]][Current(d)].kind # "work_on"
  /\ being' = WithStatus(being, StatusAfter(acts[d[1]][Current(d)].kind))
  /\ Goto(d, "finish")
  /\ UNCHANGED <<task, acts, runs, heard, request, bounds>>

(* work_on starts an agent run, stores its id, and waits: the driver is    *)
(* done with the task.                                                     *)
StartRun(d) ==
  /\ At(d, "act") /\ acts[d[1]][Current(d)].kind = "work_on"
  /\ runs' = [runs EXCEPT ![d[1]][Current(d)] = "live"]
  /\ Goto(d, "store")
  /\ UNCHANGED <<worldRows, heard, request, bounds>>

StoreRun(d) ==
  /\ At(d, "store")
  /\ acts' = [acts EXCEPT ![d[1]][Current(d)].run = TRUE]
  /\ Goto(d, "work")
  /\ UNCHANGED <<task, being, runs, heard, request, bounds>>

Work(d) ==
  /\ At(d, "work")
  /\ being' = [being EXCEPT !.st = "working"]
  /\ Leave(d)
  /\ UNCHANGED <<task, acts, runs, heard, request, bounds>>

FinishAction(d) ==
  /\ At(d, "finish")
  /\ SetAct(d[1], Current(d), "completed")
  /\ driver' = [driver EXCEPT ![d] = [at |-> "point", left |-> Tail(@.left)]]
  /\ UNCHANGED <<task, being, runs, heard, request, bounds>>

CompleteTask(d) ==
  /\ At(d, "complete")
  /\ task' = [task EXCEPT ![d[1]].st = "completed"]
  /\ Leave(d)
  /\ UNCHANGED <<acts, being, runs, heard, request, bounds>>

(* A run ends.  Unless FastRuns, only once the driver that started it has  *)
(* left the task.                                                          *)
RunEnds(t, i, how) ==
  /\ runs[t][i] = "live"
  /\ FastRuns \/ \A k \in 0 .. MaxActions : driver[<<t, k>>].left # <<>> => Current(<<t, k>>) # i
  /\ runs' = [runs EXCEPT ![t][i] = how]
  /\ UNCHANGED <<worldRows, heard, driver, request, bounds>>

(* Mutant: nobody is heard that a run was cancelled. *)
Deliver_NotCancelled(t, i) ==
  /\ runs[t][i] \in {"completed", "failed", "cancelled"} /\ i \notin heard[t]
  /\ heard' = [heard EXCEPT ![t] = @ \cup {i}]
  /\ IF acts[t][i].run /\ acts[t][i].st = "running" /\ runs[t][i] # "cancelled"
     THEN driver' = [driver EXCEPT ![<<t, i>>] =
            [at |-> IF runs[t][i] = "completed" THEN "settle" ELSE "fail", left |-> <<i>>]]
     ELSE UNCHANGED driver
  /\ UNCHANGED <<worldRows, runs, request, bounds>>

(* onAgentRunCompleted: the running action with the run's id, if any.      *)
Deliver(t, i) ==
  /\ runs[t][i] \in {"completed", "failed", "cancelled"} /\ i \notin heard[t]
  /\ heard' = [heard EXCEPT ![t] = @ \cup {i}]
  /\ IF acts[t][i].run /\ acts[t][i].st = "running"
     THEN driver' = [driver EXCEPT ![<<t, i>>] =
            [at |-> IF runs[t][i] = "completed" THEN "settle" ELSE "fail", left |-> <<i>>]]
     ELSE UNCHANGED driver
  /\ UNCHANGED <<worldRows, runs, request, bounds>>

(* Mutant: the action after the one that waited is passed over. *)
Settle_OffByOne(d) ==
  /\ At(d, "settle")
  /\ SetAct(d[1], d[2], "completed")
  /\ \E order \in Listings(d[1]) :
       driver' = [driver EXCEPT ![d] =
         [at |-> "point",
          left |-> SubSeq(order, 2 + CHOOSE k \in DOMAIN order : order[k] = d[2],
                          Len(order))]]
  /\ UNCHANGED <<task, being, runs, heard, request, bounds>>

(* The action of a completed run is done; the task's actions are listed    *)
(* again and the ones after it are carried out.                            *)
Settle(d) ==
  /\ At(d, "settle")
  /\ SetAct(d[1], d[2], "completed")
  /\ \E order \in Listings(d[1]) :
       driver' = [driver EXCEPT ![d] =
         [at |-> "point",
          left |-> SubSeq(order, 1 + CHOOSE k \in DOMAIN order : order[k] = d[2],
                          Len(order))]]
  /\ UNCHANGED <<task, being, runs, heard, request, bounds>>

(* An action that failed, or whose run did: the action, the being and the  *)
(* task are written in turn.  A run's failure leaves the being idle.       *)
OwnRun(d) == ~IsExecutor(d) /\ Current(d) = d[2]

FailAction(d) ==
  /\ At(d, "fail")
  /\ SetAct(d[1], Current(d), "failed")
  /\ Goto(d, IF OwnRun(d) THEN "fail_idle" ELSE "fail_being")
  /\ UNCHANGED <<task, being, runs, heard, request, bounds>>

FailBeing(d) ==
  /\ \/ At(d, "fail_being") /\ being' = Cleared(being)
     \/ At(d, "fail_idle") /\ being' = [Cleared(being) EXCEPT !.st = "idle"]
  /\ Goto(d, "fail_task")
  /\ UNCHANGED <<task, acts, runs, heard, request, bounds>>

(* The last write of a failure, and the executor's for what it throws.     *)
Failed(d, place) ==
  /\ At(d, place)
  /\ task' = [task EXCEPT ![d[1]].st = "failed"]
  /\ Leave(d)
  /\ UNCHANGED <<acts, being, runs, heard, request, bounds>>

FailTask(d) == Failed(d, "fail_task")
MarkTaskFailed(d) == Failed(d, "mark")

-----------------------------------------------------------------------------
(* Faults, and the user's own requests.                                    *)

Upsets == failedWrites + crashes + requests

Loop == {"point", "start", "act", "store", "work", "finish"}

(* A write fails.  In the loop the action is failed, and a failure to note *)
(* that is swallowed; anything else ends the driver, which for the         *)
(* executor marks the task failed.                                         *)
WriteFails(d) ==
  /\ Upsets < MaxUpset /\ failedWrites' = failedWrites + 1
  /\ ~At(d, "idle")
  /\ LET place == driver[d].at
     IN  IF place \in Loop /\ driver[d].left # <<>> THEN Goto(d, "fail")
         ELSE IF place = "fail" /\ ~OwnRun(d) THEN Goto(d, "fail_being")
         ELSE IF place # "mark" /\ IsExecutor(d) THEN Goto(d, "mark")
         ELSE Leave(d)
  /\ UNCHANGED <<worldRows, runs, heard, request, crashes, requests>>

(* Nothing of a driver survives the daemon, and nothing takes a running    *)
(* task up again.                                                          *)
Crash ==
  /\ Upsets < MaxUpset /\ crashes' = crashes + 1
  /\ driver' = [d \in Driver |-> NotDriving] /\ request' = "none"
  /\ UNCHANGED <<worldRows, runs, heard, failedWrites, requests>>

(* sleepBeing and wakeBeing check the status, and then write.              *)
AskStatus ==
  /\ request = "none" /\ Upsets < MaxUpset /\ requests' = requests + 1
  /\ \/ being.st \in {"idle", "working", "moving"} /\ request' = "sleeping"
     \/ being.st = "sleeping" /\ request' = "idle"
  /\ UNCHANGED <<worldRows, runs, heard, driver, failedWrites, crashes>>

WriteStatus ==
  /\ request # "none" /\ request' = "none"
  /\ being' = [being EXCEPT !.st = request]
  /\ UNCHANGED <<task, acts, runs, heard, driver, bounds>>

-----------------------------------------------------------------------------

Drive(d) ==
  \/ PointAt(d) \/ StartAction(d) \/ ActOnBeing(d) \/ StartRun(d) \/ StoreRun(d)
  \/ Work(d) \/ FinishAction(d) \/ CompleteTask(d) \/ Settle(d) \/ FailAction(d)
  \/ FailBeing(d) \/ FailTask(d) \/ MarkTaskFailed(d)

Execute(t) == CreateTask(t) \/ Claim(t) \/ TakeBeing(t) \/ CreateAction(t) \/ ListActions(t)

Runs(t, i) ==
  Deliver(t, i) \/ \E how \in {"completed", "failed", "cancelled"} : RunEnds(t, i, how)

TasksNext ==
  \/ \E t \in Task : Execute(t) \/ \E i \in 1 .. MaxActions : Runs(t, i)
  \/ \E d \in Driver : ~At(d, "idle") /\ (Drive(d) \/ WriteFails(d))
  \/ Crash \/ AskStatus \/ WriteStatus

TasksSpec == TasksInit /\ [][TasksNext]_taskVars

-----------------------------------------------------------------------------

Kinds  == {"wake", "move_to", "work_on", "artifact_created", "sleep"}
Row    == [kind : Kinds, st : {"pending", "running", "completed", "failed"}, run : BOOLEAN]
Over   == {"completed", "failed", "cancelled"}
Places == Loop \cup {"idle", "claim", "take", "create", "complete", "settle", "fail",
                     "fail_being", "fail_idle", "fail_task", "mark"}

TasksTypeOK ==
  /\ task \in [Task -> [type : Types \cup {"none"},
                       st : {"none", "queued", "running", "completed", "failed"}]]
  /\ acts \in [Task -> Seq(Row)]
  /\ \A t \in Task : Len(acts[t]) <= Len(ActionsOf(task[t].type))
  /\ being \in [st : {"idle", "moving", "working", "sleeping"}, task : Task \cup {"none"},
               act : 0 .. MaxActions]
  /\ runs \in [Task -> [1 .. MaxActions -> {"none", "live"} \cup Over]]
  /\ heard \in [Task -> SUBSET (1 .. MaxActions)]
  /\ \A t \in Task : heard[t] \subseteq {i \in 1 .. MaxActions : runs[t][i] \in Over}
  /\ driver \in [Driver -> [at : Places, left : Seq(1 .. MaxActions)]]
  /\ request \in {"none", "idle", "sleeping"}
  /\ failedWrites \in Nat /\ crashes \in Nat /\ requests \in Nat

(* A task has one driver at a time: the executor hands over to the handler *)
(* of the run it waits for, and a handler to the next.                     *)
OneDriver ==
  \A t \in Task : Cardinality({i \in 0 .. MaxActions : ~At(<<t, i>>, "idle")}) <= 1

(* A task never passes an action that is not done: what has started has    *)
(* only completed actions before it, and a completed task ("All actions    *)
(* completed", task-executor.ts) has no other actions at all.              *)
InOrderIn(t) ==
  \A i \in DOMAIN acts[t] :
    /\ acts[t][i].st # "pending" => \A j \in 1 .. i - 1 : acts[t][j].st = "completed"
    /\ task[t].st = "completed" => acts[t][i].st = "completed"

InOrder == \A t \in Task : InOrderIn(t)

(* The actions of a task are taken one after the other, by one driver.     *)
TakenInTurn == OneDriver /\ InOrder

(* What is over stays over: an ended task keeps its status, and none of    *)
(* its actions changes.                                                    *)
EndedStays ==
  [][\A t \in Task : task[t].st \in {"completed", "failed"}
       => task'[t] = task[t] /\ acts'[t] = acts[t]]_taskVars

(* When nothing drives a task, no run is live and every event has been     *)
(* delivered, every task of a known type is over and the being points at   *)
(* none, unless a write failed or the daemon was lost.                     *)
AtRest ==
  /\ \A d \in Driver : At(d, "idle")
  /\ \A t \in Task : \A i \in 1 .. MaxActions : runs[t][i] # "none" => i \in heard[t]

RestSettled ==
  AtRest /\ failedWrites = 0 /\ crashes = 0
    => /\ \A t \in Task : task[t].type \in DOMAIN TaskActions
                            => task[t].st \in {"completed", "failed"}
       /\ being.task = "none" /\ being.act = 0

-----------------------------------------------------------------------------
(* The inductive invariant behind both, while no two actions are created   *)
(* in the same millisecond and no run outruns its driver.  A driver's list *)
(* is what is left of the task; before its first action all are completed  *)
(* and after it none was touched; the action of a run that is over and not *)
(* yet heard of belongs to nobody.                                         *)

Rest(t, c) == [k \in 1 .. Len(acts[t]) + 1 - c |-> c + k - 1]

Untried(t, i) == acts[t][i].st = "pending" /\ ~acts[t][i].run /\ runs[t][i] = "none"

Reached(t, c) ==
  /\ \A k \in DOMAIN acts[t] : k < c => acts[t][k].st = "completed"
  /\ \A k \in DOMAIN acts[t] : k > c => Untried(t, k)

Doing(t, c, stored, run) ==
  acts[t][c].st = "running" /\ acts[t][c].run = stored /\ runs[t][c] = run

AllListed(t) == Len(acts[t]) = Len(ActionsOf(task[t].type))

InLoop(t, i, c) ==
  LET at == driver[<<t, i>>].at IN
  /\ AllListed(t) /\ driver[<<t, i>>].left = Rest(t, c) /\ Reached(t, c) /\ i < c
  /\ at = "complete" => c > Len(acts[t])
  /\ at \notin {"point", "complete"} => c <= Len(acts[t])
  /\ at \in {"point", "start"} /\ c <= Len(acts[t]) => Untried(t, c)
  /\ at \in {"act", "finish"} => Doing(t, c, FALSE, "none")
  /\ at = "store" => Doing(t, c, FALSE, "live")
  /\ at = "work"  => Doing(t, c, TRUE, "live")

Failing(t, i) ==
  LET c == Current(<<t, i>>) IN
  /\ driver[<<t, i>>].left # <<>> /\ c <= Len(acts[t]) /\ Reached(t, c)
  /\ At(<<t, i>>, "fail") => acts[t][c].st \in IF i = c THEN {"running"} ELSE {"pending", "running"}

DriverInv(t, i) ==
  LET at == driver[<<t, i>>].at  left == driver[<<t, i>>].left IN
  /\ at \in {"idle", "claim", "take", "create"} => left = <<>>
  /\ at \in {"claim", "take"} => i = 0 /\ acts[t] = <<>>
  /\ at = "claim" => task[t].st = "queued"
  /\ at \in {"take", "create"} => i = 0 /\ task[t].st = "running"
  /\ at = "create" => \A k \in DOMAIN acts[t] : Untried(t, k)
  /\ at \in Loop \cup {"complete"} => \E c \in 1 .. Len(acts[t]) + 1 : InLoop(t, i, c)
  /\ at = "settle" => /\ AllListed(t) /\ i \in heard[t] /\ i \in DOMAIN acts[t]
                      /\ left = <<i>> /\ Reached(t, i) /\ acts[t][i].st = "running"
  /\ at \in {"fail", "fail_being", "fail_idle", "fail_task"} => Failing(t, i)
  /\ at = "mark" => /\ i = 0
                    /\ left = <<>> => \A k \in DOMAIN acts[t] : acts[t][k].st # "running"
                    /\ left # <<>> => Reached(t, Current(<<t, i>>))

Driven(t) == \E i \in 0 .. MaxActions : ~At(<<t, i>>, "idle")

SoleDriver(t) ==
  \A i, j \in 0 .. MaxActions : At(<<t, i>>, "idle") \/ At(<<t, j>>, "idle") \/ i = j

(* The run of the action is to be heard of, and will find its action.      *)
Awaited(t, i) == acts[t][i].run /\ acts[t][i].st = "running" /\ i \notin heard[t]

ActsInv(t) ==
  /\ task[t].type = "none" <=> task[t].st = "none"
  /\ task[t].st = "none" => ~Driven(t)
  /\ \A i \in 1 .. MaxActions : runs[t][i] # "none" => i \in DOMAIN acts[t]
  /\ \A i \in DOMAIN acts[t] :
       /\ acts[t][i].st = "pending" => Untried(t, i)
       /\ acts[t][i].run => runs[t][i] # "none" /\ AllListed(t)
       /\ Awaited(t, i) /\ runs[t][i] # "live" => ~Driven(t)

TaskInv(t) ==
  SoleDriver(t) /\ InOrderIn(t) /\ ActsInv(t) /\ \A i \in 0 .. MaxActions : DriverInv(t, i)

TasksInv == TasksTypeOK /\ \A t \in Task : TaskInv(t)

(* While nothing was lost, a task that is not over is driven or awaits a   *)
(* run, and so does one for whose sake the being points at something.      *)
Clears == Loop \cup {"create", "settle", "fail", "fail_being", "fail_idle"}

Awaiting(t) == \E i \in DOMAIN acts[t] : Awaited(t, i)

GoesOn(t) ==
  task[t].type \in DOMAIN TaskActions =>
    task[t].st \in {"completed", "failed"} \/ Driven(t) \/ Awaiting(t)

Clearing(t) == Awaiting(t) \/ \E i \in 0 .. MaxActions : driver[<<t, i>>].at \in Clears

SettlesInv ==
  failedWrites = 0 /\ crashes = 0 =>
    /\ \A t \in Task : GoesOn(t)
    /\ being.task # "none" \/ being.act # 0 => \E t \in Task : Clearing(t)
=============================================================================
