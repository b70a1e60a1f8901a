------------------------------ MODULE WebProofs ------------------------------
(***************************************************************************)
(* Theorems about what the user sees.  The digital world: in the daemon,   *)
(* the tasks of a being are carried out in turn, and left in order at rest *)
(* (WorldTasks); in the web client, the page keeps up with the world       *)
(* (WorldSync), the drawing with the data it was handed last               *)
(* (WorldCanvas), and the route of a walk is the shortest (ShortestPath).  *)
(* The chat page: it is of one conversation, wherever the user goes while  *)
(* answers and events are on their way (ChatNavigation), and a message     *)
(* goes out whole, whenever its attachments are there (ChatComposer).      *)
(***************************************************************************)
EXTENDS WorldTasks, WorldSync, WorldCanvas, ShortestPath, ChatNavigation, ChatComposer,
        NaturalsInduction, WellFoundedInduction, SequenceTheorems, FiniteSetTheorems, TLAPS

-----------------------------------------------------------------------------
(* The tasks: their rows, the drivers that carry them out, and the runs of *)
(* the agent that some of their actions wait for.  TasksInv is inductive   *)
(* while listByTaskId has no two rows of one time to order, and no run     *)
(* ends before the driver that started it has left the task.               *)

(* Where a driver is, and what it has left to do.                           *)
DriverRow == [at : Places, left : Seq(1 .. MaxActions)]

(* The actions of a type are of known kinds, and no more than MaxActions.   *)
LEMMA ActionsAreKnown ==
  ASSUME NEW type
  PROVE  /\ ActionsOf(type) \in Seq(Kinds) /\ Len(ActionsOf(type)) \in 0 .. MaxActions
         /\ ActionsOf("none") = <<>>
         /\ type \in DOMAIN TaskActions => ActionsOf(type) # <<>>
<1>1. <<"wake", "move_to", "work_on", "artifact_created", "move_to", "move_to", "sleep">> \in Seq(Kinds)
  BY DEF Kinds
<1>2. <<"wake", "move_to", "move_to", "work_on", "move_to", "sleep">> \in Seq(Kinds)
  BY DEF Kinds
<1>3. <<"wake", "move_to", "work_on", "artifact_created", "move_to",
        "move_to", "work_on", "move_to", "sleep">> \in Seq(Kinds)
  BY DEF Kinds
<1>4. <<"move_to">> \in Seq(Kinds) /\ <<"sleep">> \in Seq(Kinds) /\ <<>> \in Seq(Kinds)
  BY DEF Kinds
<1>5. DOMAIN TaskActions = {"make_video", "publish_to_tiktok", "make_and_publish_video", "return_home", "sleep"}
  BY DEF TaskActions
<1>6. ActionsOf("none") = <<>>
  BY <1>5 DEF ActionsOf
<1>7. ASSUME type \notin DOMAIN TaskActions
      PROVE  ActionsOf(type) \in Seq(Kinds) /\ Len(ActionsOf(type)) \in 0 .. MaxActions
  BY <1>7, <1>4 DEF ActionsOf, MaxActions
<1>8. ASSUME type \in DOMAIN TaskActions
      PROVE  /\ ActionsOf(type) \in Seq(Kinds) /\ Len(ActionsOf(type)) \in 0 .. MaxActions
             /\ ActionsOf(type) # <<>>
  <2>1. CASE type = "make_video"
    BY <2>1, <1>1 DEF ActionsOf, TaskActions, MaxActions
  <2>2. CASE type = "publish_to_tiktok"
    BY <2>2, <1>2 DEF ActionsOf, TaskActions, MaxActions
  <2>3. CASE type = "make_and_publish_video"
    BY <2>3, <1>3 DEF ActionsOf, TaskActions, MaxActions
  <2>4. CASE type = "return_home"
    BY <2>4, <1>4 DEF ActionsOf, TaskActions, MaxActions
  <2>5. CASE type = "sleep"
    BY <2>5, <1>4 DEF ActionsOf, TaskActions, MaxActions
  <2> QED
    BY <1>8, <1>5, <2>1, <2>2, <2>3, <2>4, <2>5
<1> QED
  BY <1>6, <1>7, <1>8

(* The numbers from c to n, one after the other.                            *)
LEMMA CountFrom ==
  ASSUME NEW n \in Nat, NEW c \in 1 .. n + 1
  PROVE  LET s == [k \in 1 .. n + 1 - c |-> c + k - 1] IN
         /\ s \in Seq(1 .. n) /\ Len(s) = n + 1 - c
         /\ s = <<>> <=> c = n + 1
         /\ c <= n => Head(s) = c /\ Tail(s) = [k \in 1 .. n + 1 - (c + 1) |-> (c + 1) + k - 1]
<1> DEFINE s == [k \in 1 .. n + 1 - c |-> c + k - 1]
           r == [k \in 1 .. n + 1 - (c + 1) |-> (c + 1) + k - 1]
<1>1. s \in Seq(1 .. n) /\ Len(s) = n + 1 - c
  OBVIOUS
<1>2. s = <<>> <=> c = n + 1
  BY <1>1, EmptySeq
<1>3. ASSUME c <= n PROVE Head(s) = c /\ Tail(s) = r
  <2>1. s # <<>> /\ s[1] = c
    BY <1>2, <1>3
  <2>2. Head(s) = c
    BY <2>1, <1>1
  <2>3. r \in Seq(1 .. n) /\ Len(r) = n - c
    BY <1>3
  <2>4. Tail(s) \in Seq(1 .. n) /\ Len(Tail(s)) = n - c /\ \A i \in 1 .. n - c : Tail(s)[i] = s[i + 1]
    <3>1. s # <<>>
      BY <2>1
    <3> HIDE DEF s
    <3>2. /\ Tail(s) \in Seq(1 .. n) /\ Len(Tail(s)) = Len(s) - 1
          /\ \A i \in 1 .. Len(Tail(s)) : Tail(s)[i] = s[i + 1]
      BY <1>1, <3>1, HeadTailProperties
    <3> QED
      BY <1>1, <3>2
  <2>5. \A i \in 1 .. n - c : s[i + 1] = r[i]
    BY <1>3
  <2> HIDE DEF s, r
  <2> QED
    BY <2>2, <2>3, <2>4, <2>5, SeqEqual
<1> QED
  BY <1>1, <1>2, <1>3

(* The rows of a task. *)
LEMMA RowsOf ==
  ASSUME TasksTypeOK, NEW t \in Task
  PROVE  /\ acts[t] \in Seq(Row) /\ Len(acts[t]) \in 0 .. MaxActions /\ DOMAIN acts[t] = 1 .. Len(acts[t])
         /\ DOMAIN acts[t] \subseteq 1 .. MaxActions /\ \A k \in DOMAIN acts[t] : acts[t][k] \in Row
<1> DEFINE m == Len(ActionsOf(task[t].type))
<1>1. acts[t] \in Seq(Row)
  BY DEF TasksTypeOK
<1>2. Len(acts[t]) <= m
  BY DEF TasksTypeOK
<1>3. m \in 0 .. 9
  BY ActionsAreKnown DEF MaxActions
<1>4. Len(acts[t]) \in Nat /\ DOMAIN acts[t] = 1 .. Len(acts[t]) /\ \A k \in 1 .. Len(acts[t]) : acts[t][k] \in Row
  BY <1>1, LenProperties, ElementOfSeq
<1>5. Len(acts[t]) \in 0 .. MaxActions
  <2>1. Len(acts[t]) \in Nat
    BY <1>4
  <2>2. Len(acts[t]) <= 9
    <3> HIDE DEF m
    <3> QED
      BY <1>2, <1>3, <2>1
  <2>3. \A n : n \in Nat /\ n <= 9 => n \in 0 .. MaxActions
    BY DEF MaxActions
  <2> QED
    BY <2>1, <2>2, <2>3, Zenon
<1>6. DOMAIN acts[t] \subseteq 1 .. MaxActions
  BY <1>4, <1>5 DEF MaxActions
<1> QED
  BY <1>1, <1>4, <1>5, <1>6

(* What is left from an action on.                                          *)
LEMMA RestIs ==
  ASSUME TasksTypeOK, NEW t \in Task, NEW c \in 1 .. Len(acts[t]) + 1
  PROVE  /\ Rest(t, c) \in Seq(1 .. MaxActions)
         /\ Rest(t, c) = <<>> <=> c = Len(acts[t]) + 1
         /\ c <= Len(acts[t]) => Head(Rest(t, c)) = c /\ Tail(Rest(t, c)) = Rest(t, c + 1)
<1>1. Len(acts[t]) \in Nat /\ Len(acts[t]) <= MaxActions
  BY RowsOf DEF MaxActions
<1>2. 1 .. Len(acts[t]) \subseteq 1 .. MaxActions
  BY <1>1 DEF MaxActions
<1>3. Rest(t, c) \in Seq(1 .. Len(acts[t]))
  BY <1>1, CountFrom DEF Rest
<1>4. Rest(t, c) \in Seq(1 .. MaxActions)
  BY <1>2, <1>3, SeqMonotonic
<1> QED
  BY <1>1, <1>4, CountFrom DEF Rest

(* A task none of whose state has changed. *)
LEMMA OtherTaskKeeps ==
  ASSUME NEW u \in Task, TaskInv(u),
         acts'[u] = acts[u], task'[u] = task[u], runs'[u] = runs[u], heard'[u] = heard[u],
         \A i \in 0 .. MaxActions : driver'[<<u, i>>] = driver[<<u, i>>]
  PROVE  TaskInv(u)'
<1>1. SoleDriver(u)'
  BY DEF TaskInv, SoleDriver, At
<1>2. InOrderIn(u)'
  BY DEF TaskInv, InOrderIn
<1>3. Driven(u)' <=> Driven(u)
  BY DEF Driven, At
<1>4. ActsInv(u)'
  BY <1>3 DEF TaskInv, ActsInv, Untried, AllListed, Awaited
<1>5. ASSUME NEW i \in 0 .. MaxActions PROVE DriverInv(u, i)'
  <2>1. /\ \A c : Rest(u, c)' = Rest(u, c) /\ Reached(u, c)' = Reached(u, c)
        /\ \A k : Untried(u, k)' = Untried(u, k)
        /\ AllListed(u)' = AllListed(u)
    BY DEF Rest, Reached, Untried, AllListed
  <2>2. \A c : InLoop(u, i, c)' = InLoop(u, i, c)
    BY <2>1 DEF InLoop, Doing
  <2>3. Failing(u, i)' = Failing(u, i)
    BY <2>1 DEF Failing, Current, At
  <2> QED
    BY <2>1, <2>2, <2>3 DEF TaskInv, DriverInv, Current
<1> QED
  BY <1>1, <1>2, <1>4, <1>5 DEF TaskInv

(* The one driver of a task moves: the others of the task rest, and nothing *)
(* else is moved.                                                           *)
MovedTo(t, i, at, left) ==
  /\ driver' \in [Driver -> DriverRow]
  /\ driver'[<<t, i>>].at = at /\ driver'[<<t, i>>].left = left
  /\ \A u \in Task : \A j \in 0 .. MaxActions :
       <<u, j>> # <<t, i>> => driver'[<<u, j>>] = driver[<<u, j>>]
  /\ SoleDriver(t)' /\ (Driven(t)' <=> at # "idle")
  /\ \A j \in 0 .. MaxActions : j # i => DriverInv(t, j)'

LEMMA DriverMoves ==
  ASSUME TasksTypeOK, NEW t \in Task, TaskInv(t), NEW i \in 0 .. MaxActions, NEW row \in DriverRow,
         \A j \in 0 .. MaxActions : j # i => At(<<t, j>>, "idle"),
         driver' = [driver EXCEPT ![<<t, i>>] = row]
  PROVE  MovedTo(t, i, row.at, row.left)
<1>1. /\ driver \in [Driver -> DriverRow]
      /\ \A u \in Task : \A j \in 0 .. MaxActions : <<u, j>> \in Driver
  BY DEF TasksTypeOK, DriverRow, Driver
<1>2. driver' \in [Driver -> DriverRow] /\ driver'[<<t, i>>] = row
  BY <1>1
<1>3. \A u \in Task : \A j \in 0 .. MaxActions :
        <<u, j>> # <<t, i>> => driver'[<<u, j>>] = driver[<<u, j>>]
  BY <1>1
<1>4. \A j \in 0 .. MaxActions : j # i => driver'[<<t, j>>].at = "idle" /\ driver'[<<t, j>>].left = <<>>
  BY <1>3 DEF At, TaskInv, DriverInv
<1>5. SoleDriver(t)' /\ (Driven(t)' <=> row.at # "idle")
  BY <1>2, <1>4 DEF SoleDriver, Driven, At
<1>6. \A j \in 0 .. MaxActions : j # i => DriverInv(t, j)'
  BY <1>4 DEF DriverInv, At, Loop
<1> QED
  BY <1>2, <1>3, <1>5, <1>6 DEF MovedTo

(* The status of one row is written. *)
LEMMA RowIsWritten ==
  ASSUME TasksTypeOK, NEW t \in Task, NEW i \in DOMAIN acts[t],
         NEW row \in Row, acts' = [acts EXCEPT ![t][i] = row]
  PROVE  /\ acts' \in [Task -> Seq(Row)] /\ \A u \in Task : Len(acts'[u]) = Len(acts[u])
         /\ \A u \in Task : u # t => acts'[u] = acts[u]
         /\ DOMAIN acts'[t] = DOMAIN acts[t] /\ acts'[t][i] = row
         /\ \A k \in DOMAIN acts[t] : k # i => acts'[t][k] = acts[t][k]
<1>1. acts \in [Task -> Seq(Row)] /\ acts[t] \in Seq(Row) /\ i \in 1 .. Len(acts[t])
      /\ DOMAIN acts[t] = 1 .. Len(acts[t])
  BY RowsOf DEF TasksTypeOK
<1>2. /\ [acts[t] EXCEPT ![i] = row] \in Seq(Row)
      /\ Len([acts[t] EXCEPT ![i] = row]) = Len(acts[t])
      /\ \A j \in 1 .. Len(acts[t]) : [acts[t] EXCEPT ![i] = row][j] = IF j = i THEN row ELSE acts[t][j]
  BY <1>1, ExceptSeq
<1>3. acts'[t] = [acts[t] EXCEPT ![i] = row] /\ \A u \in Task : u # t => acts'[u] = acts[u]
  BY <1>1
<1>4. acts' \in [Task -> Seq(Row)]
  BY <1>1, <1>2, <1>3
<1>5. DOMAIN acts'[t] = DOMAIN acts[t]
  BY <1>2, <1>3, <1>1
<1> QED
  BY <1>1, <1>2, <1>3, <1>4, <1>5

(* A step of one task by its one driver. *)
LEMMA StepKeeps ==
  ASSUME TasksInv, NEW t \in Task, NEW i \in 0 .. MaxActions, NEW at, NEW left, MovedTo(t, i, at, left),
         \A u \in Task : u # t => /\ task'[u] = task[u] /\ acts'[u] = acts[u]
                                  /\ runs'[u] = runs[u] /\ heard'[u] = heard[u],
         TasksTypeOK', InOrderIn(t)', ActsInv(t)', DriverInv(t, i)'
  PROVE  TasksInv'
<1>1. TasksTypeOK /\ \A u \in Task : TaskInv(u)
  BY DEF TasksInv
<1>2. TaskInv(t)'
  BY DEF TaskInv, MovedTo
<1>3. ASSUME NEW u \in Task, u # t PROVE TaskInv(u)'
  <2>1. \A j \in 0 .. MaxActions : driver'[<<u, j>>] = driver[<<u, j>>]
    BY <1>3 DEF MovedTo
  <2> QED
    BY <2>1, <1>1, <1>3, OtherTaskKeeps
<1> QED
  BY <1>2, <1>3 DEF TasksInv

(* What is known of a task that is driven. *)
LEMMA DrivenTask ==
  ASSUME TasksInv, NEW t \in Task, NEW i \in 0 .. MaxActions, ~At(<<t, i>>, "idle")
  PROVE  /\ TasksTypeOK /\ TaskInv(t) /\ DriverInv(t, i) /\ InOrderIn(t) /\ ActsInv(t)
         /\ driver[<<t, i>>] \in DriverRow
         /\ \A j \in 0 .. MaxActions : j # i => At(<<t, j>>, "idle")
         /\ Driven(t) /\ task[t].st # "none"
         /\ \A k \in DOMAIN acts[t] : Awaited(t, k) => runs[t][k] = "live"
<1>1. TasksTypeOK /\ TaskInv(t)
  BY DEF TasksInv
<1>2. DriverInv(t, i) /\ InOrderIn(t) /\ ActsInv(t) /\ SoleDriver(t)
  BY <1>1 DEF TaskInv
<1>3. driver[<<t, i>>] \in DriverRow
  BY <1>1 DEF TasksTypeOK, DriverRow, Driver
<1>4. \A j \in 0 .. MaxActions : j # i => At(<<t, j>>, "idle")
  BY <1>2 DEF SoleDriver
<1>5. Driven(t)
  BY DEF Driven
<1>6. task[t].st # "none" /\ \A k \in DOMAIN acts[t] : Awaited(t, k) => runs[t][k] = "live"
  BY <1>2, <1>5 DEF ActsInv
<1> QED
  BY <1>1, <1>2, <1>3, <1>4, <1>5, <1>6

(* A driver in the loop stands at an action, with what is left of the task. *)
LEMMA DriverInLoop ==
  ASSUME TasksInv, NEW t \in Task, NEW i \in 0 .. MaxActions,
         driver[<<t, i>>].at \in Loop \cup {"complete"}
  PROVE  \E c \in 1 .. Len(acts[t]) + 1 :
           /\ InLoop(t, i, c) /\ driver[<<t, i>>].left = Rest(t, c)
           /\ Rest(t, c) = <<>> <=> c = Len(acts[t]) + 1
           /\ c <= Len(acts[t]) => /\ Current(<<t, i>>) = c /\ c \in DOMAIN acts[t]
                                  /\ Tail(driver[<<t, i>>].left) = Rest(t, c + 1)
<1>1. TasksTypeOK /\ ~At(<<t, i>>, "idle")
  BY DEF TasksInv, At, Loop
<1>2. DriverInv(t, i)
  BY <1>1, DrivenTask
<1>3. PICK c \in 1 .. Len(acts[t]) + 1 : InLoop(t, i, c)
  BY <1>2 DEF DriverInv
<1>4. driver[<<t, i>>].left = Rest(t, c)
  BY <1>3 DEF InLoop
<1>5. /\ Rest(t, c) = <<>> <=> c = Len(acts[t]) + 1
      /\ c <= Len(acts[t]) => Head(Rest(t, c)) = c /\ Tail(Rest(t, c)) = Rest(t, c + 1)
  BY <1>1, RestIs
<1>6. c <= Len(acts[t]) => c \in DOMAIN acts[t]
  BY <1>1, RowsOf
<1> QED
  BY <1>3, <1>4, <1>5, <1>6 DEF Current

(* Where a driver of the loop goes next. *)
LEMMA LoopGoesOn ==
  ASSUME NEW t, NEW i, NEW c \in 1 .. Len(acts'[t]) + 1, InLoop(t, i, c)',
         driver'[<<t, i>>].at \in Loop \cup {"complete"}
  PROVE  DriverInv(t, i)'
<1>1. \E x \in 1 .. Len(acts'[t]) + 1 : InLoop(t, i, x)'
  OBVIOUS
<1> QED
  BY <1>1 DEF DriverInv, Loop

(* A driver goes to another place, or leaves. *)
LEMMA DriverGoes ==
  ASSUME TasksInv, NEW t \in Task, NEW i \in 0 .. MaxActions, ~At(<<t, i>>, "idle")
  PROVE  /\ \A place \in Places : Goto(<<t, i>>, place) => MovedTo(t, i, place, driver[<<t, i>>].left)
         /\ Leave(<<t, i>>) => MovedTo(t, i, "idle", <<>>)
         /\ \A place \in Places : \A left \in Seq(1 .. MaxActions) :
              driver' = [driver EXCEPT ![<<t, i>>] = [at |-> place, left |-> left]]
                => MovedTo(t, i, place, left)
<1>1. /\ TasksTypeOK /\ TaskInv(t) /\ driver[<<t, i>>] \in DriverRow
      /\ \A j \in 0 .. MaxActions : j # i => At(<<t, j>>, "idle")
  BY DrivenTask
<1>2. ASSUME NEW place \in Places, NEW left \in Seq(1 .. MaxActions),
             driver' = [driver EXCEPT ![<<t, i>>] = [at |-> place, left |-> left]]
      PROVE  MovedTo(t, i, place, left)
  <2> DEFINE row == [at |-> place, left |-> left]
  <2>1. row \in DriverRow /\ row.at = place /\ row.left = left
    BY DEF DriverRow
  <2>2. driver' = [driver EXCEPT ![<<t, i>>] = row]
    BY <1>2
  <2> HIDE DEF row
  <2>3. MovedTo(t, i, row.at, row.left)
    BY <1>1, <2>1, <2>2, DriverMoves
  <2> QED
    BY <2>1, <2>3
<1>3. ASSUME NEW place \in Places, Goto(<<t, i>>, place)
      PROVE  MovedTo(t, i, place, driver[<<t, i>>].left)
  <2>1. driver[<<t, i>>] = [at |-> driver[<<t, i>>].at, left |-> driver[<<t, i>>].left]
        /\ driver[<<t, i>>].left \in Seq(1 .. MaxActions)
    BY <1>1 DEF DriverRow
  <2>2. driver' = [driver EXCEPT ![<<t, i>>] = [at |-> place, left |-> driver[<<t, i>>].left]]
    <3>1. [driver[<<t, i>>] EXCEPT !.at = place] = [at |-> place, left |-> driver[<<t, i>>].left]
      BY <2>1
    <3>2. driver' = [driver EXCEPT ![<<t, i>>] = [driver[<<t, i>>] EXCEPT !.at = place]]
      BY <1>3 DEF Goto
    <3> QED
      BY <3>1, <3>2
  <2> QED
    BY <1>2, <2>1, <2>2
<1>4. ASSUME Leave(<<t, i>>) PROVE MovedTo(t, i, "idle", <<>>)
  <2>1. "idle" \in Places /\ <<>> \in Seq(1 .. MaxActions)
    BY DEF Places
  <2> QED
    BY <1>2, <1>4, <2>1 DEF Leave, NotDriving
<1> QED
  BY <1>2, <1>3, <1>4

(* The status of an action is written. *)
LEMMA StatusIsWritten ==
  ASSUME TasksTypeOK, NEW t \in Task, NEW c \in DOMAIN acts[t],
         NEW st \in {"pending", "running", "completed", "failed"}, SetAct(t, c, st)
  PROVE  /\ acts' \in [Task -> Seq(Row)] /\ \A u \in Task : Len(acts'[u]) = Len(acts[u])
         /\ \A u \in Task : u # t => acts'[u] = acts[u]
         /\ DOMAIN acts'[t] = DOMAIN acts[t]
         /\ acts'[t][c].st = st /\ acts'[t][c].run = acts[t][c].run /\ acts'[t][c].kind = acts[t][c].kind
         /\ \A k \in DOMAIN acts[t] : k # c => acts'[t][k] = acts[t][k]
<1> DEFINE row == [acts[t][c] EXCEPT !.st = st]
<1>1. acts[t][c] \in Row /\ acts \in [Task -> Seq(Row)]
  BY RowsOf DEF TasksTypeOK
<1>2. row \in Row /\ row.st = st /\ row.run = acts[t][c].run /\ row.kind = acts[t][c].kind
  BY <1>1 DEF Row
<1>3. acts' = [acts EXCEPT ![t][c] = row]
  BY DEF SetAct
<1> HIDE DEF row
<1> QED
  BY <1>2, <1>3, RowIsWritten

(* The rows of the being and of a task.                                     *)
BeingRow == [st : {"idle", "moving", "working", "sleeping"}, task : Task \cup {"none"}, act : 0 .. MaxActions]
TaskRow  == [type : Types \cup {"none"}, st : {"none", "queued", "running", "completed", "failed"}]

(* A step that adds no action and starts or ends no run keeps the types. *)
LEMMA TypesKeep ==
  ASSUME TasksTypeOK, driver' \in [Driver -> DriverRow],
         acts' \in [Task -> Seq(Row)], \A u \in Task : Len(acts'[u]) = Len(acts[u]),
         task' \in [Task -> TaskRow], \A u \in Task : task'[u].type = task[u].type,
         being' \in BeingRow, UNCHANGED <<runs, heard, request, bounds>>
  PROVE  TasksTypeOK'
<1>1. \A u \in Task : Len(acts'[u]) <= Len(ActionsOf(task'[u].type))
  BY DEF TasksTypeOK
<1>2. /\ task' \in [Task -> [type : Types \cup {"none"},
                            st : {"none", "queued", "running", "completed", "failed"}]]
      /\ being' \in [st : {"idle", "moving", "working", "sleeping"}, task : Task \cup {"none"},
                    act : 0 .. MaxActions]
      /\ driver' \in [Driver -> [at : Places, left : Seq(1 .. MaxActions)]]
  BY DEF TaskRow, BeingRow, DriverRow
<1>3. /\ runs' \in [Task -> [1 .. MaxActions -> {"none", "live"} \cup Over]]
      /\ heard' \in [Task -> SUBSET (1 .. MaxActions)]
      /\ \A t \in Task : heard'[t] \subseteq {i \in 1 .. MaxActions : runs'[t][i] \in Over}
      /\ request' \in {"none", "idle", "sleeping"}
      /\ failedWrites' \in Nat /\ crashes' \in Nat /\ requests' \in Nat
  BY DEF TasksTypeOK, bounds
<1> QED
  BY <1>1, <1>2, <1>3 DEF TasksTypeOK

(* The same, for a step that counts an upset. *)
LEMMA UpsetKeepsTypes ==
  ASSUME TasksTypeOK, driver' \in [Driver -> DriverRow], UNCHANGED <<worldRows, runs, heard>>,
         request' \in {"none", "idle", "sleeping"},
         failedWrites' \in Nat, crashes' \in Nat, requests' \in Nat
  PROVE  TasksTypeOK'
<1>1. driver' \in [Driver -> [at : Places, left : Seq(1 .. MaxActions)]]
  BY DEF DriverRow
<1> QED
  BY <1>1 DEF TasksTypeOK, worldRows

(* The rows the types speak of. *)
LEMMA RowTypes ==
  ASSUME TasksTypeOK
  PROVE  /\ being \in BeingRow /\ task \in [Task -> TaskRow] /\ acts \in [Task -> Seq(Row)]
         /\ driver \in [Driver -> DriverRow]
BY DEF TasksTypeOK, BeingRow, TaskRow, DriverRow
(* A step that touches one action of a task, and its run, and no other.     *)
Touches(t, c) ==
  /\ Len(acts'[t]) = Len(acts[t]) /\ DOMAIN acts'[t] = DOMAIN acts[t]
  /\ \A k \in DOMAIN acts[t] : k # c => acts'[t][k] = acts[t][k]
  /\ \A k \in 1 .. MaxActions : k # c => runs'[t][k] = runs[t][k]
  /\ heard'[t] = heard[t] /\ task'[t].type = task[t].type

(* What lies before the action and after it is as it was. *)
LEMMA AroundAction ==
  ASSUME TasksTypeOK, NEW t \in Task, NEW c \in Nat, Reached(t, c), Touches(t, c)
  PROVE  /\ Reached(t, c)' /\ AllListed(t)' = AllListed(t) /\ \A x : Rest(t, x)' = Rest(t, x)
         /\ c \in DOMAIN acts[t] /\ acts'[t][c].st = "completed" => Reached(t, c + 1)'
<1>1. DOMAIN acts[t] = 1 .. Len(acts[t]) /\ Len(acts[t]) \in Nat /\ DOMAIN acts[t] \subseteq 1 .. MaxActions
  BY RowsOf DEF MaxActions
<1>2. /\ \A k \in DOMAIN acts'[t] : k < c => acts'[t][k].st = "completed"
      /\ \A k \in DOMAIN acts'[t] : k > c => Untried(t, k)'
  BY <1>1 DEF Touches, Reached, Untried
<1>3. Reached(t, c)'
  BY <1>2 DEF Reached
<1>4. ASSUME c \in DOMAIN acts[t], acts'[t][c].st = "completed" PROVE Reached(t, c + 1)'
  <2>1. \A k \in DOMAIN acts'[t] : k < c + 1 => k < c \/ k = c
    BY <1>1 DEF Touches
  <2>2. \A k \in DOMAIN acts'[t] : k > c + 1 => k > c
    BY <1>1 DEF Touches
  <2> QED
    BY <1>2, <1>4, <2>1, <2>2 DEF Reached
<1>5. AllListed(t)' = AllListed(t) /\ \A x : Rest(t, x)' = Rest(t, x)
  BY DEF Touches, AllListed, Rest
<1> QED
  BY <1>3, <1>4, <1>5

(* So the task goes on in order, and its runs are where they were. *)
LEMMA ActionMoves ==
  ASSUME TasksTypeOK, NEW t \in Task, ActsInv(t), Driven(t),
         NEW c \in DOMAIN acts[t], Reached(t, c), Touches(t, c),
         task'[t].st \notin {"none", "completed"}, acts'[t][c].st # "pending",
         acts'[t][c].run => runs'[t][c] # "none" /\ AllListed(t),
         Awaited(t, c)' => runs'[t][c] = "live"
  PROVE  InOrderIn(t)' /\ ActsInv(t)'
<1>1. DOMAIN acts[t] = 1 .. Len(acts[t]) /\ Len(acts[t]) \in Nat /\ DOMAIN acts[t] \subseteq 1 .. MaxActions
  BY RowsOf DEF MaxActions
<1>2. /\ \A k \in DOMAIN acts'[t] : k < c => acts'[t][k].st = "completed"
      /\ \A k \in DOMAIN acts'[t] : k > c => acts'[t][k].st = "pending"
  BY <1>1 DEF Touches, Reached, Untried
<1>3. InOrderIn(t)'
  <2>1. ASSUME NEW k \in DOMAIN acts'[t], acts'[t][k].st # "pending", NEW j \in 1 .. k - 1
        PROVE  acts'[t][j].st = "completed"
    <3>1. k \in 1 .. Len(acts[t]) /\ k <= c
      BY <1>1, <1>2, <2>1 DEF Touches
    <3>2. j \in DOMAIN acts'[t] /\ j < c
      BY <1>1, <3>1 DEF Touches
    <3> QED
      BY <1>2, <3>2
  <2> QED
    BY <2>1 DEF InOrderIn
<1>4. task[t].type # "none" /\ task[t].st # "none"
  BY DEF ActsInv
<1>5. \A k \in 1 .. MaxActions : runs'[t][k] # "none" => k \in DOMAIN acts'[t]
  BY DEF ActsInv, Touches
<1>6. ASSUME NEW k \in DOMAIN acts'[t]
      PROVE  /\ acts'[t][k].st = "pending" => Untried(t, k)'
             /\ acts'[t][k].run => runs'[t][k] # "none" /\ AllListed(t)'
             /\ Awaited(t, k)' /\ runs'[t][k] # "live" => ~Driven(t)'
  <2>1. k \in DOMAIN acts[t] /\ k \in 1 .. MaxActions
    BY <1>1 DEF Touches
  <2>2. AllListed(t)' = AllListed(t)
    BY DEF Touches, AllListed
  <2>3. CASE k = c
    BY <2>2, <2>3
  <2>4. CASE k # c
    <3>1. /\ acts'[t][k] = acts[t][k] /\ runs'[t][k] = runs[t][k] /\ heard'[t] = heard[t]
      BY <2>1, <2>4 DEF Touches
    <3>2. /\ acts[t][k].st = "pending" => Untried(t, k)
          /\ acts[t][k].run => runs[t][k] # "none" /\ AllListed(t)
          /\ Awaited(t, k) => runs[t][k] = "live"
      BY <2>1 DEF ActsInv
    <3> QED
      BY <3>1, <3>2, <2>2 DEF Untried, Awaited
  <2> QED
    BY <2>3, <2>4
<1>7. ActsInv(t)'
  <2>1. task'[t].type # "none" /\ task'[t].st # "none"
    BY <1>4 DEF Touches
  <2> QED
    BY <2>1, <1>5, <1>6 DEF ActsInv
<1> QED
  BY <1>3, <1>7
-----------------------------------------------------------------------------
(* The loop. *)

(* The being points at the next action, or the list is at its end. *)
LEMMA PointAtKeeps ==
  ASSUME TasksInv, NEW t \in Task, NEW i \in 0 .. MaxActions, PointAt(<<t, i>>)
  PROVE  TasksInv'
<1> DEFINE d == <<t, i>>
<1>1. driver[d].at = "point" /\ ~At(d, "idle") /\ UNCHANGED <<task, acts, runs, heard, request, bounds>>
  BY DEF PointAt, At
<1>2. PICK c \in 1 .. Len(acts[t]) + 1 :
        /\ InLoop(t, i, c) /\ driver[d].left = Rest(t, c)
        /\ Rest(t, c) = <<>> <=> c = Len(acts[t]) + 1
        /\ c <= Len(acts[t]) => Current(d) = c /\ c \in DOMAIN acts[t]
  BY <1>1, DriverInLoop DEF Loop
<1>3. TasksTypeOK /\ InOrderIn(t) /\ ActsInv(t) /\ Driven(t)
  BY <1>1, DrivenTask
<1>4. PICK place \in {"start", "complete"} :
        /\ MovedTo(t, i, place, driver[d].left) /\ being' \in BeingRow
        /\ place = "start" <=> c <= Len(acts[t])
  <2>1. being \in BeingRow /\ Len(acts[t]) \in Nat /\ DOMAIN acts[t] \subseteq 1 .. MaxActions
    BY <1>3, RowTypes, RowsOf
  <2>2. "start" \in Places /\ "complete" \in Places
    BY DEF Places, Loop
  <2>3. CASE driver[d].left = <<>>
    <3>1. MovedTo(t, i, "complete", driver[d].left)
      BY <1>1, <2>2, <2>3, DriverGoes DEF PointAt
    <3>2. being' \in BeingRow
      <4>1. being' = [[being EXCEPT !.task = "none"] EXCEPT !.act = 0]
        BY <2>3 DEF PointAt, Cleared
      <4>2. 0 \in 0 .. MaxActions
        BY DEF MaxActions
      <4> QED
        BY <4>1, <4>2, <2>1 DEF BeingRow
    <3> QED
      BY <3>1, <3>2, <2>1, <2>3, <1>2
  <2>4. CASE driver[d].left # <<>>
    <3>1. MovedTo(t, i, "start", driver[d].left)
      BY <1>1, <2>2, <2>4, DriverGoes DEF PointAt
    <3>2. c <= Len(acts[t]) /\ Current(d) \in 0 .. MaxActions
      BY <2>1, <2>4, <1>2 DEF MaxActions
    <3>3. being' \in BeingRow
      BY <2>1, <2>4, <3>2 DEF PointAt, BeingRow
    <3> QED
      BY <3>1, <3>2, <3>3
  <2> QED
    BY <2>3, <2>4
<1>5. TasksTypeOK'
  BY <1>1, <1>3, <1>4, TypesKeep, RowTypes DEF MovedTo
<1>6. InOrderIn(t)'
  BY <1>1, <1>3 DEF InOrderIn
<1>7. ActsInv(t)'
  BY <1>1, <1>3, <1>4 DEF ActsInv, Untried, AllListed, Awaited, MovedTo
<1>8. DriverInv(t, i)'
  <2>1. /\ Rest(t, c)' = Rest(t, c) /\ Reached(t, c)' = Reached(t, c)
        /\ AllListed(t)' = AllListed(t) /\ Untried(t, c)' = Untried(t, c)
    BY <1>1 DEF AllListed, Rest, Reached, Untried
  <2>2. driver'[d].at = place /\ driver'[d].left = Rest(t, c) /\ acts' = acts
    BY <1>1, <1>2, <1>4 DEF MovedTo
  <2>3. AllListed(t) /\ Reached(t, c) /\ i < c /\ (c <= Len(acts[t]) => Untried(t, c))
    BY <1>1, <1>2 DEF InLoop
  <2>4. place = "complete" => c > Len(acts[t])
    BY <1>3, <1>4, RowsOf
  <2>5. InLoop(t, i, c)'
    BY <2>1, <2>2, <2>3, <2>4, <1>4 DEF InLoop
  <2> QED
    BY <2>5, <1>1, <1>4, LoopGoesOn DEF MovedTo, Loop
<1> QED
  BY <1>1, <1>4, <1>5, <1>6, <1>7, <1>8, StepKeeps

(* A driver at an action of its task. *)
AtAction(t, i, c) ==
  /\ c \in Nat /\ c <= Len(acts[t]) /\ c \in 1 .. MaxActions
  /\ InLoop(t, i, c) /\ Current(<<t, i>>) = c /\ AllListed(t) /\ Reached(t, c) /\ i < c
  /\ driver[<<t, i>>].left = Rest(t, c) /\ Tail(driver[<<t, i>>].left) = Rest(t, c + 1)
  /\ task[t].st \notin {"none", "completed"}

LEMMA DriverAtAction ==
  ASSUME TasksInv, NEW t \in Task, NEW i \in 0 .. MaxActions,
         driver[<<t, i>>].at \in {"start", "act", "store", "work", "finish"}
  PROVE  /\ ~At(<<t, i>>, "idle") /\ TasksTypeOK /\ InOrderIn(t) /\ ActsInv(t) /\ Driven(t)
         /\ \E c \in DOMAIN acts[t] : AtAction(t, i, c)
<1> DEFINE d == <<t, i>>
<1>1. ~At(d, "idle")
  BY DEF At
<1>2. TasksTypeOK /\ InOrderIn(t) /\ ActsInv(t) /\ Driven(t) /\ task[t].st # "none"
  BY <1>1, DrivenTask
<1>3. PICK c \in 1 .. Len(acts[t]) + 1 :
        /\ InLoop(t, i, c) /\ driver[d].left = Rest(t, c)
        /\ c <= Len(acts[t]) => Current(d) = c /\ c \in DOMAIN acts[t] /\ Tail(driver[d].left) = Rest(t, c + 1)
  BY DriverInLoop DEF Loop
<1>4. /\ c <= Len(acts[t]) /\ AllListed(t) /\ Reached(t, c) /\ i < c
      /\ acts[t][c].st \in {"pending", "running"}
  BY <1>3 DEF InLoop, Untried, Doing
<1>5. task[t].st # "completed"
  BY <1>2, <1>3, <1>4 DEF InOrderIn
<1>6. c \in Nat /\ c \in 1 .. MaxActions
  BY <1>2, <1>3, <1>4, RowsOf
<1>7. AtAction(t, i, c)
  BY <1>2, <1>3, <1>4, <1>5, <1>6 DEF AtAction
<1> QED
  BY <1>1, <1>2, <1>3, <1>4, <1>7

(* It goes on at the same action, doing it. *)
LEMMA StaysAtAction ==
  ASSUME TasksTypeOK, NEW t \in Task, NEW i \in 0 .. MaxActions, NEW c \in DOMAIN acts[t],
         AtAction(t, i, c), Touches(t, c), NEW at, MovedTo(t, i, at, Rest(t, c)),
         \/ at \in {"act", "finish"} /\ Doing(t, c, FALSE, "none")'
         \/ at = "store" /\ Doing(t, c, FALSE, "live")'
         \/ at = "work" /\ Doing(t, c, TRUE, "live")'
  PROVE  DriverInv(t, i)'
<1>1. Reached(t, c)' /\ AllListed(t)' /\ Rest(t, c)' = Rest(t, c)
  BY AroundAction DEF AtAction
<1>2. driver'[<<t, i>>].at = at /\ driver'[<<t, i>>].left = Rest(t, c)
  BY DEF MovedTo
<1>3. i < c /\ c <= Len(acts'[t])
  BY DEF AtAction, Touches
<1>4. InLoop(t, i, c)'
  BY <1>1, <1>2, <1>3 DEF InLoop
<1>5. c \in 1 .. Len(acts'[t]) + 1
  BY RowsOf DEF Touches
<1> QED
  BY <1>2, <1>4, <1>5, LoopGoesOn DEF Loop

(* It goes on with the next action. *)
LEMMA GoesToNext ==
  ASSUME TasksTypeOK, NEW t \in Task, NEW i \in 0 .. MaxActions, NEW c \in DOMAIN acts[t],
         c \in Nat, i <= c, AllListed(t), Reached(t, c), Touches(t, c),
         acts'[t][c].st = "completed", MovedTo(t, i, "point", Rest(t, c + 1))
  PROVE  DriverInv(t, i)'
<1>1. Reached(t, c)' /\ Reached(t, c + 1)' /\ AllListed(t)' /\ Rest(t, c + 1)' = Rest(t, c + 1)
  BY AroundAction
<1>2. driver'[<<t, i>>].at = "point" /\ driver'[<<t, i>>].left = Rest(t, c + 1)
  BY DEF MovedTo
<1>3. /\ DOMAIN acts'[t] = 1 .. Len(acts'[t]) /\ Len(acts'[t]) \in Nat /\ c \in 1 .. Len(acts'[t])
  BY RowsOf DEF Touches
<1>4. c + 1 <= Len(acts'[t]) => Untried(t, c + 1)'
  <2>1. c + 1 <= Len(acts'[t]) => c + 1 \in DOMAIN acts'[t] /\ c + 1 > c
    BY <1>3
  <2> QED
    BY <1>1, <2>1 DEF Reached
<1>5. i < c + 1
  BY <1>3
<1>6. InLoop(t, i, c + 1)'
  BY <1>1, <1>2, <1>4, <1>5 DEF InLoop
<1>7. c + 1 \in 1 .. Len(acts'[t]) + 1
  BY <1>3
<1> QED
  BY <1>2, <1>6, <1>7, LoopGoesOn DEF Loop

(* The action is started. *)
LEMMA StartActionKeeps ==
  ASSUME TasksInv, NEW t \in Task, NEW i \in 0 .. MaxActions, StartAction(<<t, i>>)
  PROVE  TasksInv'
<1> DEFINE d == <<t, i>>
<1>1. driver[d].at = "start" /\ UNCHANGED <<task, being, runs, heard, request, bounds>>
  BY DEF StartAction, At
<1>2. TasksTypeOK /\ InOrderIn(t) /\ ActsInv(t) /\ Driven(t) /\ ~At(d, "idle")
  BY <1>1, DriverAtAction
<1>3. PICK c \in DOMAIN acts[t] : AtAction(t, i, c)
  BY <1>1, DriverAtAction
<1>4. Untried(t, c)
  BY <1>1, <1>3 DEF AtAction, InLoop
<1>5. MovedTo(t, i, "act", Rest(t, c))
  BY <1>2, <1>3, DriverGoes DEF StartAction, Places, Loop, AtAction
<1>6. /\ acts' \in [Task -> Seq(Row)] /\ \A u \in Task : Len(acts'[u]) = Len(acts[u])
      /\ \A u \in Task : u # t => acts'[u] = acts[u]
      /\ DOMAIN acts'[t] = DOMAIN acts[t]
      /\ acts'[t][c].st = "running" /\ acts'[t][c].run = acts[t][c].run
      /\ \A k \in DOMAIN acts[t] : k # c => acts'[t][k] = acts[t][k]
  <2>1. SetAct(t, c, "running")
    BY <1>3 DEF StartAction, AtAction
  <2> QED
    BY <2>1, <1>2, StatusIsWritten
<1>7. TasksTypeOK'
  BY <1>1, <1>2, <1>5, <1>6, TypesKeep, RowTypes DEF MovedTo
<1>8. Touches(t, c) /\ Doing(t, c, FALSE, "none")'
  BY <1>1, <1>4, <1>6 DEF Touches, Doing, Untried
<1>9. InOrderIn(t)' /\ ActsInv(t)'
  BY <1>1, <1>2, <1>3, <1>6, <1>8, ActionMoves DEF AtAction, Awaited, Doing
<1>10. DriverInv(t, i)'
  BY <1>2, <1>3, <1>5, <1>8, StaysAtAction
<1> QED
  BY <1>1, <1>5, <1>6, <1>7, <1>9, <1>10, StepKeeps

(* An action that is done at once changes the being. *)
LEMMA ActOnBeingKeeps ==
  ASSUME TasksInv, NEW t \in Task, NEW i \in 0 .. MaxActions, ActOnBeing(<<t, i>>)
  PROVE  TasksInv'
<1> DEFINE d == <<t, i>>
<1>1. driver[d].at = "act" /\ UNCHANGED <<task, acts, runs, heard, request, bounds>>
  BY DEF ActOnBeing, At
<1>2. TasksTypeOK /\ InOrderIn(t) /\ ActsInv(t) /\ Driven(t) /\ ~At(d, "idle")
  BY <1>1, DriverAtAction
<1>3. PICK c \in DOMAIN acts[t] : AtAction(t, i, c)
  BY <1>1, DriverAtAction
<1>4. Doing(t, c, FALSE, "none")
  BY <1>1, <1>3 DEF AtAction, InLoop
<1>5. MovedTo(t, i, "finish", Rest(t, c))
  BY <1>2, <1>3, DriverGoes DEF ActOnBeing, Places, Loop, AtAction
<1>6. being' \in BeingRow
  <2>1. being \in BeingRow
    BY <1>2, RowTypes
  <2>2. PICK kind : being' = WithStatus(being, StatusAfter(kind))
    BY DEF ActOnBeing
  <2>3. StatusAfter(kind) \in {"idle", "moving", "sleeping", "none"}
    BY DEF StatusAfter
  <2> QED
    BY <2>1, <2>2, <2>3 DEF WithStatus, BeingRow
<1>7. TasksTypeOK'
  BY <1>1, <1>2, <1>5, <1>6, TypesKeep, RowTypes DEF MovedTo
<1>8. Touches(t, c) /\ Doing(t, c, FALSE, "none")'
  BY <1>1, <1>4 DEF Touches, Doing
<1>9. InOrderIn(t)' /\ ActsInv(t)'
  BY <1>1, <1>2, <1>3, <1>8, ActionMoves DEF AtAction, Awaited, Doing
<1>10. DriverInv(t, i)'
  BY <1>2, <1>3, <1>5, <1>8, StaysAtAction
<1> QED
  BY <1>1, <1>5, <1>7, <1>9, <1>10, StepKeeps

(* The agent run of an action starts. *)
LEMMA StartRunKeeps ==
  ASSUME TasksInv, NEW t \in Task, NEW i \in 0 .. MaxActions, StartRun(<<t, i>>)
  PROVE  TasksInv'
<1> DEFINE d == <<t, i>>
<1>1. driver[d].at = "act" /\ UNCHANGED <<task, acts, being, heard, request, bounds>>
  BY DEF StartRun, At, worldRows
<1>2. TasksTypeOK /\ InOrderIn(t) /\ ActsInv(t) /\ Driven(t) /\ ~At(d, "idle")
  BY <1>1, DriverAtAction
<1>3. PICK c \in DOMAIN acts[t] : AtAction(t, i, c)
  BY <1>1, DriverAtAction
<1>4. Doing(t, c, FALSE, "none") /\ c \in 1 .. MaxActions
  BY <1>1, <1>3 DEF AtAction, InLoop
<1>5. MovedTo(t, i, "store", Rest(t, c))
  BY <1>2, <1>3, DriverGoes DEF StartRun, Places, Loop, AtAction
<1>6. /\ runs' = [runs EXCEPT ![t][c] = "live"]
      /\ runs \in [Task -> [1 .. MaxActions -> {"none", "live"} \cup Over]]
  BY <1>2, <1>3 DEF StartRun, AtAction, TasksTypeOK
<1>7. /\ runs' \in [Task -> [1 .. MaxActions -> {"none", "live"} \cup Over]]
      /\ runs'[t][c] = "live" /\ \A k \in 1 .. MaxActions : k # c => runs'[t][k] = runs[t][k]
      /\ \A u \in Task : u # t => runs'[u] = runs[u]
  BY <1>4, <1>6
<1>8. TasksTypeOK'
  <2>1. \A u \in Task : heard'[u] \subseteq {k \in 1 .. MaxActions : runs'[u][k] \in Over}
    <3>1. c \notin heard[t]
      BY <1>2, <1>4 DEF TasksTypeOK, Doing, Over
    <3> QED
      BY <1>1, <1>2, <1>7, <3>1 DEF TasksTypeOK
  <2>2. driver' \in [Driver -> [at : Places, left : Seq(1 .. MaxActions)]]
    BY <1>5 DEF MovedTo, DriverRow
  <2> QED
    BY <1>1, <1>2, <1>7, <2>1, <2>2 DEF TasksTypeOK, bounds
<1>9. Touches(t, c) /\ Doing(t, c, FALSE, "live")'
  BY <1>1, <1>4, <1>7 DEF Touches, Doing
<1>10. InOrderIn(t)' /\ ActsInv(t)'
  BY <1>1, <1>2, <1>3, <1>9, ActionMoves DEF AtAction, Awaited, Doing
<1>11. DriverInv(t, i)'
  BY <1>2, <1>3, <1>5, <1>9, StaysAtAction
<1> QED
  BY <1>1, <1>5, <1>7, <1>8, <1>10, <1>11, StepKeeps

(* Its id is stored. *)
LEMMA StoreRunKeeps ==
  ASSUME TasksInv, NEW t \in Task, NEW i \in 0 .. MaxActions, StoreRun(<<t, i>>)
  PROVE  TasksInv'
<1> DEFINE d == <<t, i>>
<1>1. driver[d].at = "store" /\ UNCHANGED <<task, being, runs, heard, request, bounds>>
  BY DEF StoreRun, At
<1>2. TasksTypeOK /\ InOrderIn(t) /\ ActsInv(t) /\ Driven(t) /\ ~At(d, "idle")
  BY <1>1, DriverAtAction
<1>3. PICK c \in DOMAIN acts[t] : AtAction(t, i, c)
  BY <1>1, DriverAtAction
<1>4. Doing(t, c, FALSE, "live")
  BY <1>1, <1>3 DEF AtAction, InLoop
<1>5. MovedTo(t, i, "work", Rest(t, c))
  BY <1>2, <1>3, DriverGoes DEF StoreRun, Places, Loop, AtAction
<1>6. /\ acts' \in [Task -> Seq(Row)] /\ \A u \in Task : Len(acts'[u]) = Len(acts[u])
      /\ \A u \in Task : u # t => acts'[u] = acts[u]
      /\ DOMAIN acts'[t] = DOMAIN acts[t]
      /\ acts'[t][c].st = "running" /\ acts'[t][c].run = TRUE
      /\ \A k \in DOMAIN acts[t] : k # c => acts'[t][k] = acts[t][k]
  <2> DEFINE row == [acts[t][c] EXCEPT !.run = TRUE]
  <2>1. acts[t][c] \in Row
    BY <1>2, RowsOf
  <2>2. row \in Row /\ row.st = "running" /\ row.run = TRUE
    BY <1>4, <2>1 DEF Row, Doing
  <2>3. acts' = [acts EXCEPT ![t][c] = row]
    BY <1>3 DEF StoreRun, AtAction
  <2> HIDE DEF row
  <2> QED
    BY <1>2, <2>2, <2>3, RowIsWritten
<1>7. TasksTypeOK'
  BY <1>1, <1>2, <1>5, <1>6, TypesKeep, RowTypes DEF MovedTo
<1>8. Touches(t, c) /\ Doing(t, c, TRUE, "live")'
  BY <1>1, <1>4, <1>6 DEF Touches, Doing
<1>9. InOrderIn(t)' /\ ActsInv(t)'
  BY <1>1, <1>2, <1>3, <1>8, ActionMoves DEF AtAction, Awaited, Doing
<1>10. DriverInv(t, i)'
  BY <1>2, <1>3, <1>5, <1>8, StaysAtAction
<1> QED
  BY <1>1, <1>5, <1>6, <1>7, <1>9, <1>10, StepKeeps

(* An action is done, and the next one comes. *)
LEMMA FinishActionKeeps ==
  ASSUME TasksInv, NEW t \in Task, NEW i \in 0 .. MaxActions, FinishAction(<<t, i>>)
  PROVE  TasksInv'
<1> DEFINE d == <<t, i>>
<1>1. driver[d].at = "finish" /\ UNCHANGED <<task, being, runs, heard, request, bounds>>
  BY DEF FinishAction, At
<1>2. TasksTypeOK /\ InOrderIn(t) /\ ActsInv(t) /\ Driven(t) /\ ~At(d, "idle")
  BY <1>1, DriverAtAction
<1>3. PICK c \in DOMAIN acts[t] : AtAction(t, i, c)
  BY <1>1, DriverAtAction
<1>4. Doing(t, c, FALSE, "none") /\ c \in 1 .. Len(acts[t])
  BY <1>1, <1>2, <1>3, RowsOf DEF AtAction, InLoop
<1>5. MovedTo(t, i, "point", Rest(t, c + 1))
  <2>1. Rest(t, c + 1) \in Seq(1 .. MaxActions)
    <3>1. Len(acts[t]) \in Nat
      BY <1>2, RowsOf
    <3>2. c + 1 \in 1 .. Len(acts[t]) + 1
      BY <1>4, <3>1
    <3> QED
      BY <1>2, <3>2, RestIs
  <2>2. driver' = [driver EXCEPT ![d] = [at |-> "point", left |-> Rest(t, c + 1)]]
    BY <1>3 DEF FinishAction, AtAction
  <2>3. "point" \in Places
    BY DEF Places, Loop
  <2> QED
    BY <1>2, <2>1, <2>2, <2>3, DriverGoes
<1>6. /\ acts' \in [Task -> Seq(Row)] /\ \A u \in Task : Len(acts'[u]) = Len(acts[u])
      /\ \A u \in Task : u # t => acts'[u] = acts[u]
      /\ DOMAIN acts'[t] = DOMAIN acts[t]
      /\ acts'[t][c].st = "completed" /\ acts'[t][c].run = acts[t][c].run
      /\ \A k \in DOMAIN acts[t] : k # c => acts'[t][k] = acts[t][k]
  <2>1. SetAct(t, c, "completed")
    BY <1>3 DEF FinishAction, AtAction
  <2> QED
    BY <2>1, <1>2, StatusIsWritten
<1>7. TasksTypeOK'
  BY <1>1, <1>2, <1>5, <1>6, TypesKeep, RowTypes DEF MovedTo
<1>8. Touches(t, c) /\ ~acts'[t][c].run
  BY <1>1, <1>4, <1>6 DEF Touches, Doing
<1>9. InOrderIn(t)' /\ ActsInv(t)'
  BY <1>1, <1>2, <1>3, <1>6, <1>8, ActionMoves DEF AtAction, Awaited
<1>10. DriverInv(t, i)'
  BY <1>2, <1>3, <1>5, <1>6, <1>8, GoesToNext DEF AtAction
<1> QED
  BY <1>1, <1>5, <1>6, <1>7, <1>9, <1>10, StepKeeps

(* A driver leaves: its task has no driver any more. *)
LEMMA LeaveKeeps ==
  ASSUME TasksInv, NEW t \in Task, NEW i \in 0 .. MaxActions, ~At(<<t, i>>, "idle"), Leave(<<t, i>>),
         UNCHANGED <<acts, runs, heard>>, \A u \in Task : u # t => task'[u] = task[u],
         task'[t].type = task[t].type, task'[t].st # "none",
         task'[t].st = "completed" =>
           task[t].st = "completed" \/ \A k \in DOMAIN acts[t] : acts[t][k].st = "completed",
         driver' \in [Driver -> DriverRow] => TasksTypeOK'
  PROVE  TasksInv'
<1>1. TasksTypeOK /\ InOrderIn(t) /\ ActsInv(t) /\ task[t].st # "none"
  BY DrivenTask
<1>2. MovedTo(t, i, "idle", <<>>)
  BY DriverGoes
<1>3. TasksTypeOK'
  BY <1>2 DEF MovedTo
<1>4. InOrderIn(t)'
  BY <1>1 DEF InOrderIn
<1>5. ActsInv(t)'
  BY <1>1, <1>2 DEF ActsInv, Untried, AllListed, Awaited, MovedTo
<1>6. DriverInv(t, i)'
  BY <1>2 DEF MovedTo, DriverInv, Loop
<1> QED
  BY <1>2, <1>3, <1>4, <1>5, <1>6, StepKeeps

(* The driver leaves the action to its run. *)
LEMMA WorkKeeps ==
  ASSUME TasksInv, NEW t \in Task, NEW i \in 0 .. MaxActions, Work(<<t, i>>)
  PROVE  TasksInv'
<1> DEFINE d == <<t, i>>
<1>1. /\ driver[d].at = "work" /\ ~At(d, "idle") /\ Leave(d)
      /\ UNCHANGED <<task, acts, runs, heard, request, bounds>>
  BY DEF Work, At
<1>2. TasksTypeOK /\ task[t].st # "none"
  BY <1>1, DrivenTask
<1>3. being' \in BeingRow
  BY <1>2, RowTypes DEF Work, BeingRow
<1>4. driver' \in [Driver -> DriverRow] => TasksTypeOK'
  BY <1>1, <1>2, <1>3, TypesKeep, RowTypes
<1> QED
  BY <1>1, <1>2, <1>4, LeaveKeeps

(* The status of the task is written and the driver leaves. *)
LEMMA StatusAtLeave ==
  ASSUME TasksInv, NEW t \in Task, NEW i \in 0 .. MaxActions, ~At(<<t, i>>, "idle"), Leave(<<t, i>>),
         NEW st \in {"completed", "failed"}, task' = [task EXCEPT ![t].st = st],
         UNCHANGED <<acts, being, runs, heard, request, bounds>>,
         st = "completed" => \A k \in DOMAIN acts[t] : acts[t][k].st = "completed"
  PROVE  TasksInv'
<1>1. TasksTypeOK /\ task \in [Task -> TaskRow] /\ being \in BeingRow /\ acts \in [Task -> Seq(Row)]
  BY RowTypes DEF TasksInv
<1>2. /\ task' \in [Task -> TaskRow] /\ \A u \in Task : task'[u].type = task[u].type
      /\ \A u \in Task : u # t => task'[u] = task[u]
      /\ task'[t].st = st
  BY <1>1 DEF TaskRow
<1>3. driver' \in [Driver -> DriverRow] => TasksTypeOK'
  BY <1>1, <1>2, TypesKeep
<1> QED
  BY <1>2, <1>3, LeaveKeeps

(* With nothing left the task is completed. *)
LEMMA CompleteTaskKeeps ==
  ASSUME TasksInv, NEW t \in Task, NEW i \in 0 .. MaxActions, CompleteTask(<<t, i>>)
  PROVE  TasksInv'
<1> DEFINE d == <<t, i>>
<1>1. driver[d].at = "complete" /\ ~At(d, "idle")
  BY DEF CompleteTask, At
<1>2. PICK c \in 1 .. Len(acts[t]) + 1 : InLoop(t, i, c)
  BY <1>1, DriverInLoop
<1>3. c > Len(acts[t]) /\ Reached(t, c)
  BY <1>1, <1>2 DEF InLoop
<1>4. DOMAIN acts[t] = 1 .. Len(acts[t]) /\ Len(acts[t]) \in Nat
  BY RowsOf DEF TasksInv
<1>5. \A k \in DOMAIN acts[t] : acts[t][k].st = "completed"
  BY <1>3, <1>4 DEF Reached
<1> QED
  BY <1>1, <1>5, StatusAtLeave DEF CompleteTask

(* A failure is the end of the task, and so is what the executor throws. *)
LEMMA FailedKeeps ==
  ASSUME TasksInv, NEW t \in Task, NEW i \in 0 .. MaxActions,
         FailTask(<<t, i>>) \/ MarkTaskFailed(<<t, i>>)
  PROVE  TasksInv'
<1>1. ~At(<<t, i>>, "idle")
  BY DEF FailTask, MarkTaskFailed, Failed, At
<1> QED
  BY <1>1, StatusAtLeave DEF FailTask, MarkTaskFailed, Failed
-----------------------------------------------------------------------------
(* The handlers of runs, and failures. *)

(* A driver that fails an action. *)
LEMMA FailingDriver ==
  ASSUME TasksInv, NEW t \in Task, NEW i \in 0 .. MaxActions,
         driver[<<t, i>>].at \in {"fail", "fail_being", "fail_idle", "fail_task"}
  PROVE  /\ ~At(<<t, i>>, "idle") /\ TasksTypeOK /\ InOrderIn(t) /\ ActsInv(t) /\ Driven(t)
         /\ Failing(t, i) /\ task[t].st # "none"
         /\ \E c \in DOMAIN acts[t] : /\ c \in Nat /\ Current(<<t, i>>) = c /\ Reached(t, c)
                                      /\ driver[<<t, i>>].left # <<>>
<1>1. ~At(<<t, i>>, "idle")
  BY DEF At
<1>2. /\ TasksTypeOK /\ InOrderIn(t) /\ ActsInv(t) /\ Driven(t) /\ task[t].st # "none"
      /\ DriverInv(t, i) /\ driver[<<t, i>>] \in DriverRow
  BY <1>1, DrivenTask
<1>3. Failing(t, i)
  BY <1>2 DEF DriverInv
<1> DEFINE c == Current(<<t, i>>)
<1>4. driver[<<t, i>>].left # <<>> /\ c <= Len(acts[t]) /\ Reached(t, c)
  BY <1>3 DEF Failing
<1>5. c \in 1 .. MaxActions
  <2>1. driver[<<t, i>>].left \in Seq(1 .. MaxActions)
    BY <1>2 DEF DriverRow
  <2> QED
    BY <1>4, <2>1, HeadTailProperties DEF Current
<1>6. c \in Nat /\ c \in DOMAIN acts[t]
  BY <1>2, <1>4, <1>5, RowsOf DEF MaxActions
<1> QED
  BY <1>1, <1>2, <1>3, <1>4, <1>6

(* A handler that settles its action. *)
LEMMA SettleKeeps ==
  ASSUME Ties = {}, TasksInv, NEW t \in Task, NEW i \in 0 .. MaxActions, Settle(<<t, i>>)
  PROVE  TasksInv'
<1> DEFINE d == <<t, i>>
<1>1. driver[d].at = "settle" /\ ~At(d, "idle") /\ UNCHANGED <<task, being, runs, heard, request, bounds>>
  BY DEF Settle, At
<1>2. /\ TasksTypeOK /\ InOrderIn(t) /\ ActsInv(t) /\ Driven(t) /\ task[t].st # "none" /\ DriverInv(t, i)
      /\ \A k \in DOMAIN acts[t] : Awaited(t, k) => runs[t][k] = "live"
  BY <1>1, DrivenTask
<1>3. /\ AllListed(t) /\ i \in heard[t] /\ i \in DOMAIN acts[t] /\ Reached(t, i)
      /\ acts[t][i].st = "running"
  BY <1>1, <1>2 DEF DriverInv
<1>4. /\ DOMAIN acts[t] = 1 .. Len(acts[t]) /\ Len(acts[t]) \in Nat /\ i \in 1 .. Len(acts[t])
      /\ i \in Nat
  BY <1>2, <1>3, RowsOf
<1>5. /\ acts' \in [Task -> Seq(Row)] /\ \A u \in Task : Len(acts'[u]) = Len(acts[u])
      /\ \A u \in Task : u # t => acts'[u] = acts[u]
      /\ DOMAIN acts'[t] = DOMAIN acts[t]
      /\ acts'[t][i].st = "completed" /\ acts'[t][i].run = acts[t][i].run
      /\ \A k \in DOMAIN acts[t] : k # i => acts'[t][k] = acts[t][k]
  <2>1. SetAct(t, i, "completed")
    BY DEF Settle
  <2> QED
    BY <2>1, <1>2, <1>3, StatusIsWritten
<1>6. MovedTo(t, i, "point", Rest(t, i + 1))
  <2> DEFINE n == Len(acts[t])
             order == [k \in 1 .. n |-> k]
             at == CHOOSE k \in DOMAIN order : order[k] = i
  <2>1. Listings(t) = {order}
    BY DEF Listings
  <2>2. driver' = [driver EXCEPT ![d] = [at |-> "point", left |-> SubSeq(order, 1 + at, Len(order))]]
    BY <2>1 DEF Settle
  <2>3. order \in Seq(1 .. n) /\ Len(order) = n /\ DOMAIN order = 1 .. n /\ \A k \in 1 .. n : order[k] = k
    BY <1>4
  <2>4. at = i
    <3>1. i \in DOMAIN order /\ order[i] = i
      BY <1>4
    <3>2. at \in DOMAIN order /\ order[at] = i
      BY <3>1
    <3> QED
      BY <3>2
  <2>5. SubSeq(order, 1 + i, n) = Rest(t, i + 1)
    <3>1. \A k \in 1 + i .. n : order[k] \in 1 .. n
      BY <1>4, <2>3
    <3> HIDE DEF order, n, at
    <3>2. n \in Int /\ 1 + i \in Int /\ n = Len(acts[t]) /\ i <= n /\ n \in Nat
      BY <1>4 DEF n
    <3>3. /\ SubSeq(order, 1 + i, n) \in Seq(1 .. n)
          /\ Len(SubSeq(order, 1 + i, n)) = IF 1 + i <= n THEN n - (1 + i) + 1 ELSE 0
          /\ \A k \in 1 .. n - (1 + i) + 1 : SubSeq(order, 1 + i, n)[k] = order[(1 + i) + k - 1]
      BY <3>1, <3>2, SubSeqProperties
    <3>4. Len(SubSeq(order, 1 + i, n)) = n - i
      BY <3>2, <3>3, <1>4
    <3>5. \A k \in 1 .. n - i : SubSeq(order, 1 + i, n)[k] = i + k
      <4> TAKE k \in 1 .. n - i
      <4>1. SubSeq(order, 1 + i, n)[k] = order[(1 + i) + k - 1]
        BY <3>2, <3>3, <1>4
      <4>2. (1 + i) + k - 1 = i + k /\ i + k \in 1 .. n
        BY <3>2, <1>4
      <4> QED
        BY <4>1, <4>2, <2>3
    <3> DEFINE r == Rest(t, i + 1)
    <3>6. r \in Seq(1 .. n) /\ Len(r) = n - i /\ \A k \in 1 .. n - i : r[k] = i + k
      <4>1. i + 1 \in 1 .. n + 1 /\ r = [k \in 1 .. n + 1 - (i + 1) |-> (i + 1) + k - 1]
        BY <3>2, <1>4 DEF Rest
      <4> HIDE DEF r
      <4>2. n \in Nat /\ i \in Nat
        BY <3>2, <1>4
      <4>3. LET s == [k \in 1 .. n + 1 - (i + 1) |-> (i + 1) + k - 1] IN
              s \in Seq(1 .. n) /\ Len(s) = n + 1 - (i + 1)
        BY <4>1, <4>2, CountFrom
      <4>4. r \in Seq(1 .. n) /\ Len(r) = n + 1 - (i + 1)
        BY <4>1, <4>3
      <4>5. n + 1 - (i + 1) = n - i
        BY <4>2
      <4>6. ASSUME NEW k \in 1 .. n - i PROVE r[k] = i + k
        <5>1. r[k] = (i + 1) + k - 1
          BY <4>1, <4>5
        <5> QED
          BY <5>1, <4>2
      <4> QED
        BY <4>4, <4>5, <4>6
    <3> HIDE DEF r
    <3> DEFINE sub == SubSeq(order, 1 + i, n)
               m == n - i
    <3>7. sub \in Seq(1 .. n) /\ Len(sub) = m /\ (\A k \in 1 .. m : sub[k] = i + k)
      BY <3>3, <3>4, <3>5
    <3>8. r \in Seq(1 .. n) /\ Len(r) = m /\ (\A k \in 1 .. m : r[k] = i + k)
      BY <3>6
    <3> HIDE DEF sub, m
    <3>9. sub = r
      <4>1. \A k \in 1 .. Len(sub) : sub[k] = r[k]
        BY <3>7, <3>8
      <4> QED
        BY <3>7, <3>8, <4>1, SeqEqual
    <3> QED
      BY <3>9 DEF r, sub
  <2>6. driver' = [driver EXCEPT ![d] = [at |-> "point", left |-> Rest(t, i + 1)]]
    BY <2>2, <2>3, <2>4, <2>5
  <2>7. Rest(t, i + 1) \in Seq(1 .. MaxActions)
    <3>1. i + 1 \in 1 .. Len(acts[t]) + 1
      BY <1>4
    <3> QED
      BY <1>2, <3>1, RestIs
  <2>8. "point" \in Places
    BY DEF Places, Loop
  <2> QED
    BY <1>1, <2>6, <2>7, <2>8, DriverGoes
<1>7. TasksTypeOK'
  BY <1>1, <1>2, <1>5, <1>6, TypesKeep, RowTypes DEF MovedTo
<1>8. Touches(t, i)
  BY <1>1, <1>5 DEF Touches
<1>9. InOrderIn(t)' /\ ActsInv(t)'
  <2>1. task[t].st # "completed"
    BY <1>2, <1>3 DEF InOrderIn
  <2>2. acts[t][i].run => runs[t][i] # "none"
    BY <1>2, <1>3 DEF ActsInv
  <2> QED
    BY <1>1, <1>2, <1>3, <1>5, <1>8, <2>1, <2>2, ActionMoves DEF Awaited
<1>10. DriverInv(t, i)'
  BY <1>2, <1>3, <1>4, <1>5, <1>6, <1>8, GoesToNext
<1> QED
  BY <1>1, <1>5, <1>6, <1>7, <1>9, <1>10, StepKeeps

(* The action that failed is written. *)
LEMMA FailActionKeeps ==
  ASSUME TasksInv, NEW t \in Task, NEW i \in 0 .. MaxActions, FailAction(<<t, i>>)
  PROVE  TasksInv'
<1> DEFINE d == <<t, i>>
<1>1. driver[d].at = "fail" /\ UNCHANGED <<task, being, runs, heard, request, bounds>>
  BY DEF FailAction, At
<1>2. /\ TasksTypeOK /\ InOrderIn(t) /\ ActsInv(t) /\ Driven(t) /\ ~At(d, "idle")
      /\ Failing(t, i) /\ task[t].st # "none"
  BY <1>1, FailingDriver
<1>3. PICK c \in DOMAIN acts[t] :
        c \in Nat /\ Current(d) = c /\ Reached(t, c) /\ driver[d].left # <<>>
  BY <1>1, FailingDriver
<1>4. acts[t][c].st \in {"pending", "running"} /\ c <= Len(acts[t])
  BY <1>1, <1>2, <1>3 DEF Failing, At
<1>5. /\ acts' \in [Task -> Seq(Row)] /\ \A u \in Task : Len(acts'[u]) = Len(acts[u])
      /\ \A u \in Task : u # t => acts'[u] = acts[u]
      /\ DOMAIN acts'[t] = DOMAIN acts[t]
      /\ acts'[t][c].st = "failed" /\ acts'[t][c].run = acts[t][c].run
      /\ \A k \in DOMAIN acts[t] : k # c => acts'[t][k] = acts[t][k]
  <2>1. SetAct(t, c, "failed")
    BY <1>3 DEF FailAction
  <2> QED
    BY <2>1, <1>2, StatusIsWritten
<1>6. PICK place \in {"fail_idle", "fail_being"} : MovedTo(t, i, place, driver[d].left)
  BY <1>2, DriverGoes DEF FailAction, Places
<1>7. TasksTypeOK'
  BY <1>1, <1>2, <1>5, <1>6, TypesKeep, RowTypes DEF MovedTo
<1>8. Touches(t, c)
  BY <1>1, <1>5 DEF Touches
<1>9. InOrderIn(t)' /\ ActsInv(t)'
  <2>1. task[t].st # "completed"
    BY <1>2, <1>4 DEF InOrderIn
  <2>2. acts[t][c].run => runs[t][c] # "none" /\ AllListed(t)
    BY <1>2 DEF ActsInv
  <2> QED
    BY <1>1, <1>2, <1>3, <1>5, <1>8, <2>1, <2>2, ActionMoves DEF Awaited
<1>10. DriverInv(t, i)'
  <2>1. Reached(t, c)'
    BY <1>2, <1>3, <1>8, AroundAction
  <2>2. driver'[d].at = place /\ driver'[d].left = driver[d].left
    BY <1>6 DEF MovedTo
  <2>3. Failing(t, i)'
    BY <1>3, <1>4, <1>5, <2>1, <2>2 DEF Failing, Current, At
  <2> QED
    BY <2>2, <2>3 DEF DriverInv, Loop
<1> QED
  BY <1>1, <1>5, <1>6, <1>7, <1>9, <1>10, StepKeeps

(* A driver moves, and the task stays as it is. *)
LEMMA MoveKeeps ==
  ASSUME TasksInv, NEW t \in Task, NEW i \in 0 .. MaxActions, ~At(<<t, i>>, "idle"),
         UNCHANGED <<task, acts, runs, heard>>,
         NEW at, NEW left, at # "idle", MovedTo(t, i, at, left), TasksTypeOK', DriverInv(t, i)'
  PROVE  TasksInv'
<1>1. TasksTypeOK /\ InOrderIn(t) /\ ActsInv(t) /\ Driven(t)
  BY DrivenTask
<1>2. InOrderIn(t)'
  BY <1>1 DEF InOrderIn
<1>3. ActsInv(t)'
  BY <1>1 DEF ActsInv, Untried, AllListed, Awaited, MovedTo
<1> QED
  BY <1>2, <1>3, StepKeeps

(* The being is let go of after a failure. *)
LEMMA FailBeingKeeps ==
  ASSUME TasksInv, NEW t \in Task, NEW i \in 0 .. MaxActions, FailBeing(<<t, i>>)
  PROVE  TasksInv'
<1> DEFINE d == <<t, i>>
<1>1. driver[d].at \in {"fail_being", "fail_idle"} /\ UNCHANGED <<task, acts, runs, heard, request, bounds>>
  BY DEF FailBeing, At
<1>2. TasksTypeOK /\ ~At(d, "idle") /\ Failing(t, i)
  BY <1>1, FailingDriver
<1>3. MovedTo(t, i, "fail_task", driver[d].left)
  BY <1>2, DriverGoes DEF FailBeing, Places
<1>4. being' \in BeingRow
  <2>1. being \in BeingRow
    BY <1>2, RowTypes
  <2>2. Cleared(being) \in BeingRow
    <3>1. Cleared(being) = [[being EXCEPT !.task = "none"] EXCEPT !.act = 0]
      BY DEF Cleared
    <3>2. 0 \in 0 .. MaxActions
      BY DEF MaxActions
    <3> QED
      BY <2>1, <3>1, <3>2 DEF BeingRow
  <2> QED
    BY <2>2 DEF FailBeing, BeingRow
<1>5. TasksTypeOK'
  BY <1>1, <1>2, <1>3, <1>4, TypesKeep, RowTypes DEF MovedTo
<1>6. DriverInv(t, i)'
  <2>1. driver'[d].at = "fail_task" /\ driver'[d].left = driver[d].left
    BY <1>3 DEF MovedTo
  <2>2. Failing(t, i)'
    BY <1>1, <1>2, <2>1 DEF Failing, Current, At, Reached, Untried
  <2> QED
    BY <2>1, <2>2 DEF DriverInv, Loop
<1> QED
  BY <1>1, <1>2, <1>3, <1>5, <1>6, MoveKeeps
-----------------------------------------------------------------------------
(* The executor, up to the loop. *)

(* A task that is not created yet has no action, no run and no driver. *)
LEMMA NotCreated ==
  ASSUME TasksInv, NEW t \in Task, task[t].st = "none"
  PROVE  /\ task[t].type = "none" /\ acts[t] = <<>> /\ ~Driven(t)
         /\ \A k \in 1 .. MaxActions : runs[t][k] = "none"
<1>1. TasksTypeOK /\ ActsInv(t)
  BY DEF TasksInv, TaskInv
<1>2. task[t].type = "none" /\ ~Driven(t)
  BY <1>1 DEF ActsInv
<1>3. acts[t] = <<>>
  <2>1. acts[t] \in Seq(Row) /\ Len(acts[t]) <= 0
    BY <1>1, <1>2, ActionsAreKnown DEF TasksTypeOK
  <2> QED
    BY <2>1, EmptySeq
<1>4. DOMAIN acts[t] = {}
  BY <1>1, <1>3, RowsOf
<1> QED
  BY <1>1, <1>2, <1>3, <1>4 DEF ActsInv

(* A task is created. *)
LEMMA CreateTaskKeeps ==
  ASSUME TasksInv, NEW t \in Task, CreateTask(t)
  PROVE  TasksInv'
<1> DEFINE d == <<t, 0>>
           row == [at |-> "claim", left |-> <<>>]
<1>1. /\ task[t].st = "none" /\ Goto(d, "claim")
      /\ UNCHANGED <<acts, being, runs, heard, request, bounds>>
  BY DEF CreateTask
<1>2. PICK type \in Types : task' = [task EXCEPT ![t] = [type |-> type, st |-> "queued"]]
  BY DEF CreateTask
<1>3. /\ TasksTypeOK /\ TaskInv(t) /\ acts[t] = <<>> /\ ~Driven(t)
      /\ \A k \in 1 .. MaxActions : runs[t][k] = "none"
  BY <1>1, NotCreated DEF TasksInv
<1>4. 0 \in 0 .. MaxActions /\ \A j \in 0 .. MaxActions : At(<<t, j>>, "idle")
  BY <1>3 DEF Driven, MaxActions
<1>5. driver' = [driver EXCEPT ![d] = row] /\ row \in DriverRow
  <2>1. driver[d] \in DriverRow /\ driver[d].left = <<>>
    BY <1>3, <1>4, RowTypes DEF Driver, TaskInv, DriverInv, At
  <2>2. [driver[d] EXCEPT !.at = "claim"] = row
    BY <2>1 DEF DriverRow
  <2>3. driver' = [driver EXCEPT ![d] = [driver[d] EXCEPT !.at = "claim"]]
    BY <1>1 DEF Goto
  <2>4. row \in DriverRow
    BY DEF DriverRow, Places
  <2> HIDE DEF row
  <2> QED
    BY <2>2, <2>3, <2>4
<1>6. MovedTo(t, 0, "claim", <<>>)
  <2>1. row.at = "claim" /\ row.left = <<>>
    OBVIOUS
  <2> HIDE DEF row
  <2>2. MovedTo(t, 0, row.at, row.left)
    BY <1>3, <1>4, <1>5, DriverMoves
  <2> QED
    BY <2>1, <2>2
<1>7. /\ task' \in [Task -> TaskRow] /\ \A u \in Task : u # t => task'[u] = task[u]
      /\ task'[t].type = type /\ task'[t].st = "queued" /\ type # "none"
  BY <1>2, <1>3, RowTypes, ConstantsOK DEF TaskRow
<1>8. TasksTypeOK'
  <2>1. \A u \in Task : Len(acts'[u]) <= Len(ActionsOf(task'[u].type))
    <3>1. ASSUME NEW u \in Task, u = t PROVE Len(acts'[u]) <= Len(ActionsOf(task'[u].type))
      <4>1. Len(acts'[u]) = 0
        BY <1>1, <1>3, <3>1
      <4>2. Len(ActionsOf(task'[u].type)) \in 0 .. MaxActions
        BY ActionsAreKnown
      <4> DEFINE m == Len(ActionsOf(task'[u].type))
      <4> HIDE DEF m
      <4>3. m \in 0 .. 9
        BY <4>2 DEF m, MaxActions
      <4>4. 0 <= m
        BY <4>3
      <4> QED
        BY <4>1, <4>4 DEF m
    <3>2. ASSUME NEW u \in Task, u # t PROVE Len(acts'[u]) <= Len(ActionsOf(task'[u].type))
      BY <1>1, <1>3, <1>7, <3>2 DEF TasksTypeOK
    <3> QED
      BY <3>1, <3>2
  <2>2. /\ task' \in [Task -> [type : Types \cup {"none"},
                              st : {"none", "queued", "running", "completed", "failed"}]]
        /\ driver' \in [Driver -> [at : Places, left : Seq(1 .. MaxActions)]]
    BY <1>6, <1>7 DEF TaskRow, DriverRow, MovedTo
  <2> QED
    BY <1>1, <1>3, <2>1, <2>2 DEF TasksTypeOK, bounds
<1>9. DOMAIN acts'[t] = {} /\ acts'[t] = <<>>
  BY <1>1, <1>3, RowsOf
<1>10. InOrderIn(t)'
  BY <1>9 DEF InOrderIn
<1>11. ActsInv(t)'
  BY <1>1, <1>3, <1>7, <1>9 DEF ActsInv
<1>12. DriverInv(t, 0)'
  BY <1>6, <1>7, <1>9 DEF MovedTo, DriverInv, Loop
<1> QED
  BY <1>1, <1>4, <1>6, <1>7, <1>8, <1>10, <1>11, <1>12, StepKeeps

(* A queued task with actions is claimed; any other is left as it is. *)
LEMMA ClaimKeeps ==
  ASSUME TasksInv, NEW t \in Task, Claim(t)
  PROVE  TasksInv'
<1> DEFINE d == <<t, 0>>
<1>1. /\ driver[d].at = "claim" /\ ~At(d, "idle") /\ 0 \in 0 .. MaxActions
      /\ UNCHANGED <<acts, being, runs, heard, request, bounds>>
  BY DEF Claim, At, MaxActions
<1>2. /\ TasksTypeOK /\ InOrderIn(t) /\ ActsInv(t) /\ Driven(t) /\ task[t].st # "none" /\ DriverInv(t, 0)
  BY <1>1, DrivenTask
<1>3. acts[t] = <<>> /\ driver[d].left = <<>> /\ DOMAIN acts[t] = {}
  BY <1>1, <1>2, RowsOf DEF DriverInv
<1>4. CASE Leave(d) /\ UNCHANGED task
  <2>1. driver' \in [Driver -> DriverRow] => TasksTypeOK'
    BY <1>1, <1>2, <1>4, TypesKeep, RowTypes
  <2> QED
    BY <1>1, <1>2, <1>4, <2>1, LeaveKeeps
<1>5. CASE task' = [task EXCEPT ![t].st = "running"] /\ Goto(d, "take")
  <2>1. MovedTo(t, 0, "take", <<>>)
    BY <1>1, <1>3, <1>5, DriverGoes DEF Places
  <2>2. /\ task' \in [Task -> TaskRow] /\ \A u \in Task : task'[u].type = task[u].type
        /\ \A u \in Task : u # t => task'[u] = task[u]
        /\ task'[t].st = "running"
    BY <1>2, <1>5, RowTypes DEF TaskRow
  <2>3. TasksTypeOK'
    BY <1>1, <1>2, <2>1, <2>2, TypesKeep, RowTypes DEF MovedTo
  <2>4. InOrderIn(t)'
    BY <1>1, <1>3 DEF InOrderIn
  <2>5. ActsInv(t)'
    BY <1>1, <1>2, <1>3, <2>2 DEF ActsInv
  <2>6. DriverInv(t, 0)'
    BY <1>1, <1>3, <2>1, <2>2 DEF MovedTo, DriverInv, Loop
  <2> QED
    BY <1>1, <2>1, <2>2, <2>3, <2>4, <2>5, <2>6, StepKeeps
<1> QED
  BY <1>4, <1>5 DEF Claim

(* The being is taken. *)
LEMMA TakeBeingKeeps ==
  ASSUME TasksInv, NEW t \in Task, TakeBeing(t)
  PROVE  TasksInv'
<1> DEFINE d == <<t, 0>>
<1>1. /\ driver[d].at = "take" /\ ~At(d, "idle") /\ 0 \in 0 .. MaxActions
      /\ UNCHANGED <<task, acts, runs, heard, request, bounds>>
  BY DEF TakeBeing, At, MaxActions
<1>2. TasksTypeOK /\ DriverInv(t, 0)
  BY <1>1, DrivenTask
<1>3. acts[t] = <<>> /\ driver[d].left = <<>> /\ DOMAIN acts[t] = {} /\ task[t].st = "running"
  BY <1>1, <1>2, RowsOf DEF DriverInv
<1>4. MovedTo(t, 0, "create", <<>>)
  BY <1>1, <1>3, DriverGoes DEF TakeBeing, Places
<1>5. being' \in BeingRow
  BY <1>2, RowTypes DEF TakeBeing, BeingRow
<1>6. TasksTypeOK'
  BY <1>1, <1>2, <1>4, <1>5, TypesKeep, RowTypes DEF MovedTo
<1>7. DriverInv(t, 0)'
  BY <1>1, <1>3, <1>4 DEF MovedTo, DriverInv, Loop
<1> QED
  BY <1>1, <1>4, <1>6, <1>7, MoveKeeps

(* An executor that makes the actions of its task. *)
LEMMA CreatingDriver ==
  ASSUME TasksInv, NEW t \in Task, driver[<<t, 0>>].at = "create"
  PROVE  /\ ~At(<<t, 0>>, "idle") /\ TasksTypeOK /\ ActsInv(t) /\ Driven(t) /\ 0 \in 0 .. MaxActions
         /\ driver[<<t, 0>>].left = <<>> /\ task[t].st = "running"
         /\ \A k \in DOMAIN acts[t] : Untried(t, k)
<1>1. ~At(<<t, 0>>, "idle") /\ 0 \in 0 .. MaxActions
  BY DEF At, MaxActions
<1>2. TasksTypeOK /\ ActsInv(t) /\ Driven(t) /\ DriverInv(t, 0)
  BY <1>1, DrivenTask
<1> QED
  BY <1>1, <1>2 DEF DriverInv

(* The next action is created. *)
LEMMA CreateActionKeeps ==
  ASSUME TasksInv, NEW t \in Task, CreateAction(t)
  PROVE  TasksInv'
<1> DEFINE d == <<t, 0>>
           kinds == ActionsOf(task[t].type)
           n == Len(acts[t])
           row == [kind |-> kinds[n + 1], st |-> "pending", run |-> FALSE]
<1>1. /\ driver[d].at = "create" /\ n < Len(kinds) /\ acts' = [acts EXCEPT ![t] = Append(acts[t], row)]
      /\ UNCHANGED <<task, being, runs, heard, driver, request, bounds>>
  BY DEF CreateAction, At
<1>2. /\ ~At(d, "idle") /\ TasksTypeOK /\ ActsInv(t) /\ Driven(t) /\ 0 \in 0 .. MaxActions
      /\ driver[d].left = <<>> /\ task[t].st = "running"
      /\ \A k \in DOMAIN acts[t] : Untried(t, k)
  BY <1>1, CreatingDriver
<1>3. /\ acts[t] \in Seq(Row) /\ n \in Nat /\ DOMAIN acts[t] = 1 .. n /\ DOMAIN acts[t] \subseteq 1 .. MaxActions
  BY <1>2, RowsOf
<1>4. row \in Row
  <2>1. kinds \in Seq(Kinds) /\ Len(kinds) \in Nat
    BY ActionsAreKnown, LenProperties
  <2>2. n + 1 \in 1 .. Len(kinds)
    <3> DEFINE m == Len(kinds)
    <3>1. m \in Nat /\ n < m
      BY <2>1, <1>1
    <3> HIDE DEF m, n
    <3>2. n \in Nat
      BY <1>3
    <3>3. n + 1 \in 1 .. m
      BY <3>1, <3>2
    <3> QED
      BY <3>3 DEF m
  <2>3. kinds[n + 1] \in Kinds
    BY <2>1, <2>2, ElementOfSeq
  <2> QED
    BY <2>3 DEF Row
<1>5. /\ Append(acts[t], row) \in Seq(Row) /\ Len(Append(acts[t], row)) = n + 1
      /\ \A k \in 1 .. n : Append(acts[t], row)[k] = acts[t][k]
      /\ Append(acts[t], row)[n + 1] = row
  <2> HIDE DEF row
  <2> QED
    BY <1>3, <1>4, AppendProperties
<1>6. /\ acts' \in [Task -> Seq(Row)] /\ acts'[t] = Append(acts[t], row)
      /\ \A u \in Task : u # t => acts'[u] = acts[u]
  <2> HIDE DEF row
  <2> QED
    BY <1>1, <1>2, <1>5, RowTypes
<1>7. Len(acts'[t]) = n + 1 /\ DOMAIN acts'[t] = 1 .. n + 1
  BY <1>5, <1>6, <1>3, LenProperties
<1>8. \A k \in DOMAIN acts'[t] : Untried(t, k)'
  <2>1. ASSUME NEW k \in 1 .. n PROVE Untried(t, k)'
    BY <1>1, <1>2, <1>3, <1>5, <1>6, <2>1 DEF Untried
  <2>2. ASSUME NEW k \in Nat, k = n + 1 PROVE Untried(t, k)'
    <3>1. runs[t][k] = "none"
      <4>1. n + 1 \notin DOMAIN acts[t]
        BY <1>3
      <4>2. n + 1 \in 1 .. MaxActions
        <5> DEFINE m == Len(kinds)
        <5>1. m \in 0 .. 9 /\ n < m
          BY <1>1, ActionsAreKnown DEF MaxActions
        <5> HIDE DEF m, n
        <5>2. n \in Nat
          BY <1>3
        <5>3. n + 1 \in 1 .. 9
          BY <5>1, <5>2
        <5> QED
          BY <5>3 DEF MaxActions
      <4> QED
        BY <1>2, <2>2, <4>1, <4>2 DEF ActsInv
    <3>2. row.st = "pending" /\ ~row.run
      OBVIOUS
    <3>3. acts'[t][k] = row /\ runs' = runs
      <4> HIDE DEF row, n
      <4> QED
        BY <1>1, <1>5, <1>6, <2>2
    <3> HIDE DEF row, n
    <3> QED
      BY <3>1, <3>2, <3>3 DEF Untried
  <2>3. \A k \in DOMAIN acts'[t] : k \in 1 .. n \/ (k \in Nat /\ k = n + 1)
    BY <1>3, <1>7
  <2> HIDE DEF row, n
  <2> QED
    BY <2>1, <2>2, <2>3
<1>9. MovedTo(t, 0, "create", <<>>)
  <2>1. driver' = [driver EXCEPT ![d] = [at |-> "create", left |-> <<>>]]
    <3>1. driver[d] = [at |-> "create", left |-> <<>>] /\ driver \in [Driver -> DriverRow]
      BY <1>1, <1>2, RowTypes DEF DriverRow, Driver
    <3> QED
      BY <1>1, <3>1
  <2>2. "create" \in Places /\ <<>> \in Seq(1 .. MaxActions)
    BY DEF Places
  <2> QED
    BY <1>2, <2>1, <2>2, DriverGoes
<1>10. TasksTypeOK'
  <2>1. \A u \in Task : Len(acts'[u]) <= Len(ActionsOf(task'[u].type))
    <3>1. n + 1 <= Len(kinds)
      <4> DEFINE m == Len(kinds)
      <4>1. m \in Nat /\ n < m
        BY <1>1, ActionsAreKnown, LenProperties
      <4> HIDE DEF m, n
      <4>2. n \in Nat
        BY <1>3
      <4>3. n + 1 <= m
        BY <4>1, <4>2
      <4> QED
        BY <4>3 DEF m
    <3>2. ASSUME NEW u \in Task, u # t PROVE Len(acts'[u]) <= Len(ActionsOf(task'[u].type))
      BY <1>1, <1>2, <1>6, <3>2 DEF TasksTypeOK
    <3>3. Len(acts'[t]) <= Len(ActionsOf(task'[t].type))
      BY <1>1, <1>7, <3>1
    <3> QED
      BY <3>2, <3>3
  <2> QED
    BY <1>1, <1>2, <1>6, <2>1 DEF TasksTypeOK, bounds
<1>11. InOrderIn(t)'
  BY <1>1, <1>2, <1>8 DEF InOrderIn, Untried
<1>12. ActsInv(t)'
  <2>1. \A k \in 1 .. MaxActions : runs'[t][k] # "none" => k \in DOMAIN acts'[t]
    BY <1>1, <1>2, <1>3, <1>7 DEF ActsInv
  <2> QED
    BY <1>1, <1>2, <1>8, <2>1 DEF ActsInv, Untried, Awaited
<1>13. DriverInv(t, 0)'
  BY <1>1, <1>2, <1>8 DEF DriverInv, Loop
<1> QED
  BY <1>1, <1>2, <1>6, <1>9, <1>10, <1>11, <1>12, <1>13, StepKeeps

(* The actions are listed in the order they were made. *)
LEMMA ListActionsKeeps ==
  ASSUME Ties = {}, TasksInv, NEW t \in Task, ListActions(t)
  PROVE  TasksInv'
<1> DEFINE d == <<t, 0>>
<1>1. /\ driver[d].at = "create" /\ AllListed(t)
      /\ UNCHANGED <<task, acts, being, runs, heard, request, bounds>>
  BY DEF ListActions, At, AllListed, worldRows
<1>2. /\ ~At(d, "idle") /\ TasksTypeOK /\ ActsInv(t) /\ Driven(t) /\ 0 \in 0 .. MaxActions
      /\ \A k \in DOMAIN acts[t] : Untried(t, k)
  BY <1>1, CreatingDriver
<1>3. /\ Len(acts[t]) \in Nat /\ DOMAIN acts[t] = 1 .. Len(acts[t]) /\ 1 \in 1 .. Len(acts[t]) + 1
  BY <1>2, RowsOf
<1>4. Listings(t) = {Rest(t, 1)}
  <2>1. Listings(t) = {[k \in 1 .. Len(acts[t]) |-> k]}
    BY DEF Listings
  <2>2. [k \in 1 .. Len(acts[t]) |-> k] = Rest(t, 1)
    BY <1>3 DEF Rest
  <2> QED
    BY <2>1, <2>2
<1>5. MovedTo(t, 0, "point", Rest(t, 1))
  <2>1. driver' = [driver EXCEPT ![d] = [at |-> "point", left |-> Rest(t, 1)]]
    BY <1>4 DEF ListActions
  <2>2. Rest(t, 1) \in Seq(1 .. MaxActions) /\ "point" \in Places
    BY <1>2, <1>3, RestIs DEF Places, Loop
  <2> QED
    BY <1>2, <2>1, <2>2, DriverGoes
<1>6. TasksTypeOK'
  BY <1>1, <1>2, <1>5, TypesKeep, RowTypes DEF MovedTo
<1>7. DriverInv(t, 0)'
  <2>1. /\ Rest(t, 1)' = Rest(t, 1) /\ Reached(t, 1)' = Reached(t, 1)
        /\ AllListed(t)' = AllListed(t) /\ Untried(t, 1)' = Untried(t, 1)
    BY <1>1 DEF AllListed, Rest, Reached, Untried
  <2>2. driver'[d].at = "point" /\ driver'[d].left = Rest(t, 1)
    BY <1>5 DEF MovedTo
  <2>3. Reached(t, 1)
    BY <1>2, <1>3 DEF Reached
  <2>4. 1 <= Len(acts[t]) => Untried(t, 1)
    BY <1>2, <1>3
  <2>5. InLoop(t, 0, 1)'
    BY <1>1, <2>1, <2>2, <2>3, <2>4 DEF InLoop
  <2> QED
    BY <1>1, <1>3, <2>2, <2>5, LoopGoesOn DEF Loop
<1> QED
  BY <1>1, <1>2, <1>5, <1>6, <1>7, MoveKeeps
-----------------------------------------------------------------------------
(* Faults, the ends of runs, and the user's requests. *)

(* What a write that fails leaves the executor with. *)
LEMMA ThrownByExecutor ==
  ASSUME TasksInv, NEW t \in Task, ~At(<<t, 0>>, "idle"), ~At(<<t, 0>>, "mark"),
         driver[<<t, 0>>].at \in Loop => driver[<<t, 0>>].left = <<>>,
         driver[<<t, 0>>].at # "fail"
  PROVE  /\ driver[<<t, 0>>].left = <<>> => \A k \in DOMAIN acts[t] : acts[t][k].st # "running"
         /\ driver[<<t, 0>>].left # <<>> => Reached(t, Current(<<t, 0>>))
<1> DEFINE d == <<t, 0>>
<1>1. 0 \in 0 .. MaxActions
  BY DEF MaxActions
<1>2. TasksTypeOK /\ DriverInv(t, 0) /\ driver[d] \in DriverRow
  BY <1>1, DrivenTask
<1>3. Len(acts[t]) \in Nat /\ DOMAIN acts[t] = 1 .. Len(acts[t])
  BY <1>2, RowsOf
<1>4. CASE driver[d].at \in {"claim", "take", "create"}
  <2>1. driver[d].left = <<>>
    BY <1>2, <1>4 DEF DriverInv
  <2>2. CASE driver[d].at = "create"
    BY <1>2, <2>1, <2>2 DEF DriverInv, Untried
  <2>3. CASE driver[d].at \in {"claim", "take"}
    <3>1. acts[t] = <<>>
      BY <1>2, <2>3 DEF DriverInv
    <3>2. DOMAIN acts[t] = {}
      BY <3>1, <1>3
    <3> QED
      BY <2>1, <3>2
  <2> QED
    BY <1>4, <2>2, <2>3
<1>5. CASE driver[d].at \in Loop \cup {"complete"}
  <2>1. PICK c \in 1 .. Len(acts[t]) + 1 :
          /\ InLoop(t, 0, c) /\ driver[d].left = Rest(t, c)
          /\ Rest(t, c) = <<>> <=> c = Len(acts[t]) + 1
    BY <1>1, <1>5, DriverInLoop
  <2>2. c > Len(acts[t]) /\ Reached(t, c)
    <3>1. driver[d].at = "complete" => c > Len(acts[t])
      BY <2>1 DEF InLoop
    <3>2. driver[d].at \in Loop => c = Len(acts[t]) + 1
      BY <2>1
    <3>3. c = Len(acts[t]) + 1 => c > Len(acts[t])
      BY <1>3
    <3> QED
      BY <1>5, <2>1, <3>1, <3>2, <3>3 DEF InLoop
  <2>3. \A k \in DOMAIN acts[t] : acts[t][k].st = "completed"
    BY <1>3, <2>2 DEF Reached
  <2>4. driver[d].left = <<>>
    BY <1>3, <2>1, <2>2
  <2> QED
    BY <2>3, <2>4
<1>6. CASE driver[d].at = "settle"
  <2>1. 0 \in DOMAIN acts[t]
    BY <1>2, <1>6 DEF DriverInv
  <2> QED
    BY <1>3, <2>1
<1>7. CASE driver[d].at \in {"fail_being", "fail_idle", "fail_task"}
  BY <1>2, <1>7 DEF DriverInv, Failing
<1> QED
  BY <1>2, <1>4, <1>5, <1>6, <1>7 DEF DriverRow, Places, At

(* A write fails. *)
LEMMA WriteFailsKeeps ==
  ASSUME TasksInv, NEW t \in Task, NEW i \in 0 .. MaxActions, WriteFails(<<t, i>>)
  PROVE  TasksInv'
<1> DEFINE d == <<t, i>>
           place == driver[d].at
<1>1. /\ ~At(d, "idle") /\ failedWrites' = failedWrites + 1
      /\ UNCHANGED <<worldRows, runs, heard, request, crashes, requests>>
  BY DEF WriteFails
<1>2. UNCHANGED <<task, acts, runs, heard>>
  BY <1>1 DEF worldRows
<1>3. /\ TasksTypeOK /\ InOrderIn(t) /\ ActsInv(t) /\ Driven(t) /\ task[t].st # "none" /\ DriverInv(t, i)
  BY <1>1, DrivenTask
<1>4. driver' \in [Driver -> DriverRow] => TasksTypeOK'
  <2>1. /\ request' \in {"none", "idle", "sleeping"}
        /\ failedWrites' \in Nat /\ crashes' \in Nat /\ requests' \in Nat
    BY <1>1, <1>3 DEF TasksTypeOK
  <2> QED
    BY <1>1, <1>3, <2>1, UpsetKeepsTypes
<1>5. ASSUME NEW at \in Places, at # "idle", Goto(d, at), driver'[d].at = at /\ driver'[d].left = driver[d].left
                 => DriverInv(t, i)'
      PROVE  TasksInv'
  <2>1. MovedTo(t, i, at, driver[d].left)
    BY <1>1, <1>5, DriverGoes
  <2> QED
    BY <1>1, <1>2, <1>4, <1>5, <2>1, MoveKeeps DEF MovedTo
<1>6. CASE place \in Loop /\ driver[d].left # <<>> /\ Goto(d, "fail")
  <2>1. PICK c \in 1 .. Len(acts[t]) + 1 :
          /\ InLoop(t, i, c) /\ driver[d].left = Rest(t, c)
          /\ Rest(t, c) = <<>> <=> c = Len(acts[t]) + 1
          /\ c <= Len(acts[t]) => Current(d) = c
    BY <1>6, DriverInLoop
  <2>2. c <= Len(acts[t]) /\ Current(d) = c /\ Reached(t, c) /\ i < c
    <3>1. Len(acts[t]) \in Nat /\ c # Len(acts[t]) + 1
      BY <1>3, <1>6, <2>1, RowsOf
    <3>2. c <= Len(acts[t])
      BY <3>1
    <3> QED
      BY <2>1, <3>2 DEF InLoop
  <2>3. acts[t][c].st \in {"pending", "running"}
    BY <1>6, <2>1, <2>2 DEF InLoop, Loop, Untried, Doing
  <2>4. i # c
    BY <2>2
  <2>5. ASSUME driver'[d].at = "fail", driver'[d].left = driver[d].left PROVE DriverInv(t, i)'
    <3>1. Reached(t, c)' = Reached(t, c)
      BY <1>2 DEF Reached, Untried
    <3>2. Failing(t, i)'
      BY <1>2, <1>6, <2>2, <2>3, <2>4, <2>5, <3>1 DEF Failing, Current, At
    <3> QED
      BY <2>5, <3>2 DEF DriverInv, Loop
  <2> QED
    BY <1>5, <1>6, <2>5 DEF Places
<1>7. CASE place = "fail" /\ Goto(d, "fail_being")
  <2>1. Failing(t, i)
    BY <1>3, <1>7 DEF DriverInv
  <2>2. ASSUME driver'[d].at = "fail_being", driver'[d].left = driver[d].left PROVE DriverInv(t, i)'
    <3>1. Failing(t, i)'
      BY <1>2, <2>1, <2>2 DEF Failing, Current, At, Reached, Untried
    <3> QED
      BY <2>2, <3>1 DEF DriverInv, Loop
  <2> QED
    BY <1>5, <1>7, <2>2 DEF Places
<1>8. CASE /\ place \in Loop => driver[d].left = <<>>
           /\ place # "fail" /\ place # "mark" /\ i = 0 /\ Goto(d, "mark")
  <2>1. /\ driver[d].left = <<>> => \A k \in DOMAIN acts[t] : acts[t][k].st # "running"
        /\ driver[d].left # <<>> => Reached(t, Current(d))
    BY <1>1, <1>8, ThrownByExecutor DEF At
  <2>2. ASSUME driver'[d].at = "mark", driver'[d].left = driver[d].left PROVE DriverInv(t, i)'
    <3>1. driver[d].left # <<>> => Reached(t, Current(d))'
      BY <1>2, <2>1, <2>2 DEF Current, Reached, Untried
    <3> QED
      BY <1>2, <1>8, <2>1, <2>2, <3>1 DEF DriverInv, Loop
  <2> QED
    BY <1>5, <1>8, <2>2 DEF Places
<1>9. CASE Leave(d)
  BY <1>1, <1>2, <1>3, <1>4, <1>9, LeaveKeeps
<1> QED
  BY <1>6, <1>7, <1>8, <1>9 DEF WriteFails, OwnRun, IsExecutor

(* The daemon is lost. *)
LEMMA CrashKeeps ==
  ASSUME TasksInv, Crash
  PROVE  TasksInv'
<1>1. /\ driver' = [d \in Driver |-> NotDriving] /\ request' = "none" /\ crashes' = crashes + 1
      /\ UNCHANGED <<worldRows, runs, heard, failedWrites, requests>>
  BY DEF Crash
<1>2. TasksTypeOK
  BY DEF TasksInv
<1>3. driver' \in [Driver -> DriverRow]
  BY <1>1 DEF NotDriving, DriverRow, Places
<1>4. TasksTypeOK'
  BY <1>1, <1>2, <1>3, UpsetKeepsTypes DEF TasksTypeOK
<1>5. ASSUME NEW t \in Task PROVE TaskInv(t)'
  <2>1. UNCHANGED <<task, acts, runs, heard>>
    BY <1>1 DEF worldRows
  <2>2. \A i \in 0 .. MaxActions : driver'[<<t, i>>].at = "idle" /\ driver'[<<t, i>>].left = <<>>
    BY <1>1 DEF Driver, NotDriving
  <2>3. SoleDriver(t)' /\ ~Driven(t)'
    BY <2>2 DEF SoleDriver, Driven, At
  <2>4. \A i \in 0 .. MaxActions : DriverInv(t, i)'
    BY <2>2 DEF DriverInv, Loop
  <2>5. InOrderIn(t) /\ ActsInv(t)
    BY DEF TasksInv, TaskInv
  <2>6. InOrderIn(t)' /\ ActsInv(t)'
    BY <2>1, <2>3, <2>5 DEF InOrderIn, ActsInv, Untried, AllListed, Awaited
  <2> QED
    BY <2>3, <2>4, <2>6 DEF TaskInv
<1> QED
  BY <1>4, <1>5 DEF TasksInv

(* The user's requests change the being alone. *)
LEMMA RequestsKeep ==
  ASSUME TasksInv, AskStatus \/ WriteStatus
  PROVE  TasksInv'
<1>1. UNCHANGED <<task, acts, runs, heard, driver>> /\ TasksTypeOK
  BY DEF AskStatus, WriteStatus, worldRows, TasksInv
<1>2. TasksTypeOK'
  <2>1. CASE AskStatus
    <3>1. requests' \in Nat /\ request' \in {"none", "idle", "sleeping"} /\ failedWrites' \in Nat /\ crashes' \in Nat
      BY <1>1, <2>1 DEF AskStatus, TasksTypeOK
    <3> QED
      BY <1>1, <2>1, <3>1, UpsetKeepsTypes, RowTypes DEF AskStatus
  <2>2. CASE WriteStatus
    <3>1. being' \in [st : {"idle", "moving", "working", "sleeping"}, task : Task \cup {"none"},
                      act : 0 .. MaxActions]
      BY <1>1, <2>2 DEF WriteStatus, TasksTypeOK
    <3> QED
      BY <1>1, <2>2, <3>1 DEF WriteStatus, TasksTypeOK, bounds
  <2> QED
    BY <2>1, <2>2
<1>3. ASSUME NEW t \in Task PROVE TaskInv(t)'
  BY <1>1, OtherTaskKeeps DEF TasksInv
<1> QED
  BY <1>2, <1>3 DEF TasksInv

(* A run ends: no driver stands at its action. *)
LEMMA RunEndsKeeps ==
  ASSUME FastRuns = FALSE, TasksInv, NEW t \in Task, NEW i \in 1 .. MaxActions, NEW how \in Over,
         RunEnds(t, i, how)
  PROVE  TasksInv'
<1>1. /\ runs[t][i] = "live" /\ runs' = [runs EXCEPT ![t][i] = how]
      /\ \A j \in 0 .. MaxActions : driver[<<t, j>>].left # <<>> => Current(<<t, j>>) # i
      /\ UNCHANGED <<task, acts, being, heard, driver, request, bounds>>
  BY DEF RunEnds, worldRows
<1>2. TasksTypeOK /\ TaskInv(t) /\ InOrderIn(t) /\ ActsInv(t)
  BY DEF TasksInv, TaskInv
<1>3. /\ runs' \in [Task -> [1 .. MaxActions -> {"none", "live"} \cup Over]]
      /\ runs'[t][i] = how /\ \A k \in 1 .. MaxActions : k # i => runs'[t][k] = runs[t][k]
      /\ \A u \in Task : u # t => runs'[u] = runs[u]
  BY <1>1, <1>2 DEF TasksTypeOK
<1>4. i \in DOMAIN acts[t] /\ DOMAIN acts[t] = 1 .. Len(acts[t]) /\ Len(acts[t]) \in Nat
      /\ DOMAIN acts[t] \subseteq 1 .. MaxActions
  BY <1>1, <1>2, RowsOf DEF ActsInv
<1>5. TasksTypeOK'
  <2>1. \A u \in Task : heard'[u] \subseteq {k \in 1 .. MaxActions : runs'[u][k] \in Over}
    BY <1>1, <1>2, <1>3 DEF TasksTypeOK
  <2> QED
    BY <1>1, <1>2, <1>3, <2>1 DEF TasksTypeOK, bounds
<1>6. ASSUME NEW k \in DOMAIN acts[t], Untried(t, k) PROVE k # i /\ Untried(t, k)'
  BY <1>1, <1>3, <1>4, <1>6 DEF Untried
<1>7. ASSUME NEW c, Reached(t, c) PROVE Reached(t, c)'
  BY <1>1, <1>6, <1>7 DEF Reached
<1>8. (\A x : Rest(t, x)' = Rest(t, x)) /\ AllListed(t)' = AllListed(t)
  BY <1>1 DEF Rest, AllListed
<1>9. ASSUME NEW j \in 0 .. MaxActions PROVE DriverInv(t, j)'
  <2> DEFINE d == <<t, j>>
  <2>1. DriverInv(t, j)
    BY <1>2 DEF TaskInv
  <2>2. ASSUME driver[d].at \in Loop \cup {"complete"}
        PROVE  \E c \in 1 .. Len(acts'[t]) + 1 : InLoop(t, j, c)'
    <3>1. PICK c \in 1 .. Len(acts[t]) + 1 :
            /\ InLoop(t, j, c) /\ driver[d].left = Rest(t, c)
            /\ Rest(t, c) = <<>> <=> c = Len(acts[t]) + 1
            /\ c <= Len(acts[t]) => Current(d) = c /\ c \in DOMAIN acts[t]
      BY <2>2, DriverInLoop
    <3>2. c <= Len(acts[t]) => /\ c # i /\ runs'[t][c] = runs[t][c] /\ (Untried(t, c) => Untried(t, c)')
      <4>1. c <= Len(acts[t]) => driver[d].left # <<>> /\ c \in DOMAIN acts[t]
        BY <1>4, <3>1
      <4> QED
        BY <1>1, <1>3, <1>4, <1>6, <3>1, <4>1
    <3>3. /\ Reached(t, c)' /\ AllListed(t)' /\ driver'[d].left = Rest(t, c)' /\ j < c
          /\ acts' = acts /\ driver' = driver
      BY <1>1, <1>7, <1>8, <3>1 DEF InLoop
    <3>4. /\ driver[d].at = "complete" => c > Len(acts[t])
          /\ driver[d].at \notin {"point", "complete"} => c <= Len(acts[t])
          /\ driver[d].at \in {"point", "start"} /\ c <= Len(acts[t]) => Untried(t, c)
          /\ driver[d].at \in {"act", "finish"} => Doing(t, c, FALSE, "none")
          /\ driver[d].at = "store" => Doing(t, c, FALSE, "live")
          /\ driver[d].at = "work"  => Doing(t, c, TRUE, "live")
      BY <3>1 DEF InLoop
    <3>5. \A b, r : Doing(t, c, b, r) /\ c <= Len(acts[t]) => Doing(t, c, b, r)'
      BY <1>1, <3>2 DEF Doing
    <3>6. InLoop(t, j, c)'
      BY <3>2, <3>3, <3>4, <3>5 DEF InLoop
    <3> QED
      BY <1>1, <3>6
  <2>3. Failing(t, j) => Failing(t, j)'
    BY <1>1, <1>7 DEF Failing, Current, At
  <2>4. /\ driver[d].at = "create" => \A k \in DOMAIN acts[t] : Untried(t, k)'
        /\ driver[d].at = "settle" => Reached(t, j)' /\ AllListed(t)'
        /\ driver[d].at = "mark" /\ driver[d].left # <<>> => Reached(t, Current(d))'
    BY <1>1, <1>6, <1>7, <1>8, <2>1 DEF DriverInv, Current
  <2> QED
    BY <1>1, <2>1, <2>2, <2>3, <2>4 DEF DriverInv, Current
<1>10. Awaited(t, i) => ~Driven(t)
  <2> SUFFICES ASSUME Awaited(t, i), NEW j \in 0 .. MaxActions, ~At(<<t, j>>, "idle") PROVE FALSE
    BY DEF Driven
  <2> DEFINE d == <<t, j>>
  <2>1. DriverInv(t, j) /\ driver[d] \in DriverRow /\ acts[t][i].st = "running"
    BY DrivenTask DEF Awaited
  <2>2. \A c : Reached(t, c) => ~(i < c) /\ ~(i > c)
    BY <1>4, <2>1 DEF Reached, Untried
  <2>3. CASE driver[d].at \in Loop \cup {"complete"}
    <3>1. PICK c \in 1 .. Len(acts[t]) + 1 :
            /\ InLoop(t, j, c) /\ driver[d].left = Rest(t, c)
            /\ Rest(t, c) = <<>> <=> c = Len(acts[t]) + 1
            /\ c <= Len(acts[t]) => Current(d) = c
      BY <2>3, DriverInLoop
    <3>2. i = c
      BY <1>4, <2>2, <3>1 DEF InLoop
    <3>3. driver[d].left # <<>> /\ Current(d) = i
      BY <1>4, <3>1, <3>2
    <3> QED
      BY <1>1, <3>3
  <2>4. CASE driver[d].at \in {"claim", "take"}
    <3>1. DOMAIN acts[t] = {}
      BY <1>4, <2>1, <2>4 DEF DriverInv
    <3> QED
      BY <1>4, <3>1
  <2>5. CASE driver[d].at = "create"
    BY <1>4, <2>1, <2>5 DEF DriverInv, Untried
  <2>6. CASE driver[d].at = "settle"
    <3>1. driver[d].left = <<j>> /\ Reached(t, j)
      BY <2>1, <2>6 DEF DriverInv
    <3>2. Current(d) = j /\ driver[d].left # <<>>
      BY <3>1 DEF Current
    <3>3. i = j
      BY <1>4, <2>2, <3>1
    <3> QED
      BY <1>1, <3>2, <3>3
  <2>7. CASE driver[d].at \in {"fail", "fail_being", "fail_idle", "fail_task"}
    <3>1. PICK c \in DOMAIN acts[t] : c \in Nat /\ Current(d) = c /\ Reached(t, c) /\ driver[d].left # <<>>
      BY <2>7, FailingDriver
    <3>2. i = c
      BY <1>4, <2>2, <3>1
    <3> QED
      BY <1>1, <3>1, <3>2
  <2>8. CASE driver[d].at = "mark"
    <3>1. driver[d].left # <<>> /\ Reached(t, Current(d))
      BY <1>4, <2>1, <2>8 DEF DriverInv
    <3>2. Current(d) \in 1 .. MaxActions
      BY <2>1, <3>1, HeadTailProperties DEF DriverRow, Current
    <3>3. i = Current(d)
      BY <1>4, <2>2, <3>1, <3>2
    <3> QED
      BY <1>1, <3>1, <3>3
  <2> QED
    BY <2>1, <2>3, <2>4, <2>5, <2>6, <2>7, <2>8 DEF DriverRow, Places, At
<1>11. ActsInv(t)'
  <2>1. \A k \in DOMAIN acts[t] : acts[t][k].st = "pending" => Untried(t, k)'
    BY <1>2, <1>6 DEF ActsInv
  <2>2. \A k \in DOMAIN acts[t] : acts[t][k].run => runs'[t][k] # "none" /\ AllListed(t)'
    BY <1>2, <1>3, <1>4, <1>8 DEF ActsInv, Over
  <2>3. \A k \in DOMAIN acts[t] : Awaited(t, k)' /\ runs'[t][k] # "live" => ~Driven(t)'
    <3> TAKE k \in DOMAIN acts[t]
    <3>1. Awaited(t, k)' = Awaited(t, k) /\ Driven(t)' = Driven(t)
      BY <1>1 DEF Awaited, Driven, At
    <3>2. CASE k = i
      BY <1>10, <3>1, <3>2
    <3>3. CASE k # i
      <4>1. runs'[t][k] = runs[t][k]
        BY <1>3, <1>4, <3>3
      <4>2. Awaited(t, k) /\ runs[t][k] # "live" => ~Driven(t)
        BY <1>2 DEF ActsInv
      <4> QED
        BY <3>1, <4>1, <4>2
    <3> QED
      BY <3>2, <3>3
  <2>4. Driven(t)' = Driven(t) /\ \A k \in 1 .. MaxActions : runs'[t][k] # "none" => k \in DOMAIN acts[t]
    BY <1>1, <1>2, <1>3, <1>4 DEF ActsInv, Driven, At
  <2> QED
    BY <1>1, <1>2, <2>1, <2>2, <2>3, <2>4 DEF ActsInv
<1>12. TaskInv(t)'
  <2>1. SoleDriver(t)' /\ InOrderIn(t)'
    BY <1>1, <1>2 DEF TaskInv, SoleDriver, At, InOrderIn
  <2> QED
    BY <1>9, <1>11, <2>1 DEF TaskInv
<1>13. ASSUME NEW u \in Task, u # t PROVE TaskInv(u)'
  BY <1>1, <1>3, <1>13, OtherTaskKeeps DEF TasksInv
<1> QED
  BY <1>5, <1>12, <1>13 DEF TasksInv

(* The event of a run is delivered: its action is settled or failed, or the *)
(* event concerns nobody.                                                   *)
LEMMA DeliverKeeps ==
  ASSUME TasksInv, NEW t \in Task, NEW i \in 1 .. MaxActions, Deliver(t, i)
  PROVE  TasksInv'
<1> DEFINE d == <<t, i>>
<1>1. /\ runs[t][i] \in {"completed", "failed", "cancelled"} /\ i \notin heard[t]
      /\ heard' = [heard EXCEPT ![t] = @ \cup {i}]
      /\ UNCHANGED <<task, acts, being, runs, request, bounds>>
  BY DEF Deliver, worldRows
<1>2. TasksTypeOK /\ TaskInv(t) /\ InOrderIn(t) /\ ActsInv(t) /\ SoleDriver(t)
  BY DEF TasksInv, TaskInv
<1>3. /\ i \in DOMAIN acts[t] /\ DOMAIN acts[t] = 1 .. Len(acts[t]) /\ Len(acts[t]) \in Nat
      /\ i \in 0 .. MaxActions /\ runs[t][i] # "live"
  BY <1>1, <1>2, RowsOf DEF ActsInv, MaxActions
<1>4. heard'[t] = heard[t] \cup {i} /\ \A u \in Task : u # t => heard'[u] = heard[u]
  <2>1. heard' = [heard EXCEPT ![t] = heard[t] \cup {i}]
    BY <1>1
  <2>2. t \in DOMAIN heard
    BY <1>2 DEF TasksTypeOK
  <2> QED
    BY <2>1, <2>2
<1>5. driver' \in [Driver -> DriverRow] => TasksTypeOK'
  <2>1. \A u \in Task : heard'[u] \subseteq {k \in 1 .. MaxActions : runs'[u][k] \in Over}
    BY <1>1, <1>2, <1>4 DEF TasksTypeOK, Over
  <2>2. driver' \in [Driver -> DriverRow] => driver' \in [Driver -> [at : Places, left : Seq(1 .. MaxActions)]]
    BY DEF DriverRow
  <2>3. heard' \in [Task -> SUBSET (1 .. MaxActions)]
    BY <1>1, <1>2 DEF TasksTypeOK
  <2> QED
    BY <1>1, <1>2, <2>1, <2>2, <2>3 DEF TasksTypeOK, bounds
<1>6. InOrderIn(t)'
  BY <1>1, <1>2 DEF InOrderIn
<1>7. CASE Awaited(t, i)
  <2>1. ~Driven(t) /\ acts[t][i].run /\ acts[t][i].st = "running" /\ AllListed(t)
    BY <1>2, <1>3, <1>7 DEF ActsInv, Awaited
  <2>2. Reached(t, i)
    <3>1. \A k \in DOMAIN acts[t] : k < i => acts[t][k].st = "completed"
      BY <1>2, <1>3, <2>1 DEF InOrderIn
    <3>2. ASSUME NEW k \in DOMAIN acts[t], k > i PROVE Untried(t, k)
      <4>1. i \in 1 .. k - 1
        BY <1>3, <3>2
      <4>2. acts[t][k].st = "pending"
        BY <1>2, <2>1, <4>1 DEF InOrderIn
      <4> QED
        BY <1>2, <4>2 DEF ActsInv
    <3> QED
      BY <3>1, <3>2 DEF Reached
  <2>3. PICK place \in {"settle", "fail"} : driver' = [driver EXCEPT ![d] = [at |-> place, left |-> <<i>>]]
    BY <2>1 DEF Deliver
  <2>4. MovedTo(t, i, place, <<i>>)
    <3> DEFINE row == [at |-> place, left |-> <<i>>]
    <3>1. row \in DriverRow
      <4>1. <<i>> \in Seq(1 .. MaxActions)
        OBVIOUS
      <4>2. place \in Places
        BY DEF Places
      <4> QED
        BY <4>1, <4>2 DEF DriverRow
    <3>2. \A j \in 0 .. MaxActions : j # i => At(<<t, j>>, "idle")
      BY <2>1 DEF Driven
    <3>3. row.at = place /\ row.left = <<i>> /\ driver' = [driver EXCEPT ![d] = row]
      BY <2>3
    <3> HIDE DEF row
    <3>4. MovedTo(t, i, row.at, row.left)
      BY <1>2, <1>3, <3>1, <3>2, <3>3, DriverMoves
    <3> QED
      BY <3>3, <3>4
  <2>5. TasksTypeOK'
    BY <1>5, <2>4 DEF MovedTo
  <2>6. ActsInv(t)'
    <3>1. \A k \in DOMAIN acts[t] : ~Awaited(t, k)'
      <4> TAKE k \in DOMAIN acts[t]
      <4>1. CASE k = i
        BY <1>4, <4>1 DEF Awaited
      <4>2. CASE k < i
        <5>1. acts[t][k].st = "completed"
          BY <2>2, <4>2 DEF Reached
        <5> QED
          BY <1>1, <5>1 DEF Awaited
      <4>3. CASE k > i
        <5>1. acts[t][k].st = "pending"
          BY <2>2, <4>3 DEF Reached, Untried
        <5> QED
          BY <1>1, <5>1 DEF Awaited
      <4> QED
        BY <1>3, <4>1, <4>2, <4>3
    <3>2. task'[t].st # "none"
      <4>1. acts[t] # <<>>
        BY <1>3
      <4> QED
        BY <1>1, <4>1, NotCreated
    <3> QED
      BY <1>1, <1>2, <3>1, <3>2 DEF ActsInv, Untried, AllListed
  <2>7. DriverInv(t, i)'
    <3>1. driver'[d].at = place /\ driver'[d].left = <<i>>
      BY <2>4 DEF MovedTo
    <3>2. Reached(t, i)' /\ AllListed(t)'
      BY <1>1, <2>1, <2>2 DEF Reached, Untried, AllListed
    <3>3. CASE place = "settle"
      BY <1>1, <1>3, <1>4, <2>1, <3>1, <3>2, <3>3 DEF DriverInv, Loop
    <3>4. CASE place = "fail"
      <4>1. Current(d)' = i /\ driver'[d].left # <<>>
        BY <3>1 DEF Current
      <4>2. Failing(t, i)'
        BY <1>1, <1>3, <2>1, <3>1, <3>2, <4>1 DEF Failing, At
      <4> QED
        BY <3>1, <3>4, <4>2 DEF DriverInv, Loop
    <3> QED
      BY <3>3, <3>4
  <2> QED
    BY <1>1, <1>3, <1>4, <1>6, <2>4, <2>5, <2>6, <2>7, StepKeeps
<1>8. CASE ~Awaited(t, i)
  <2>1. driver' = driver
    BY <1>1, <1>8 DEF Deliver, Awaited
  <2>2. TasksTypeOK'
    BY <1>2, <1>5, <2>1, RowTypes
  <2>3. ActsInv(t)'
    <3>1. Driven(t)' = Driven(t) /\ \A k : Awaited(t, k)' => Awaited(t, k)
      BY <1>1, <1>4, <2>1 DEF Driven, At, Awaited
    <3> QED
      BY <1>1, <1>2, <3>1 DEF ActsInv, Untried, AllListed
  <2>4. SoleDriver(t)'
    BY <1>2, <2>1 DEF SoleDriver, At
  <2>5. ASSUME NEW j \in 0 .. MaxActions PROVE DriverInv(t, j)'
    <3>1. DriverInv(t, j)
      BY <1>2 DEF TaskInv
    <3>2. /\ \A c : Rest(t, c)' = Rest(t, c) /\ Reached(t, c)' = Reached(t, c)
          /\ \A k : Untried(t, k)' = Untried(t, k)
          /\ AllListed(t)' = AllListed(t)
      BY <1>1 DEF Rest, Reached, Untried, AllListed
    <3>3. \A c : InLoop(t, j, c)' = InLoop(t, j, c)
      BY <1>1, <2>1, <3>2 DEF InLoop, Doing
    <3>4. Failing(t, j)' = Failing(t, j)
      BY <1>1, <2>1, <3>2 DEF Failing, Current, At
    <3> QED
      BY <1>1, <1>4, <2>1, <3>1, <3>2, <3>3, <3>4 DEF DriverInv, Current
  <2>6. TaskInv(t)'
    BY <1>6, <2>3, <2>4, <2>5 DEF TaskInv
  <2>7. ASSUME NEW u \in Task, u # t PROVE TaskInv(u)'
    BY <1>1, <1>4, <2>1, <2>7, OtherTaskKeeps DEF TasksInv
  <2> QED
    BY <2>2, <2>6, <2>7 DEF TasksInv
<1> QED
  BY <1>7, <1>8
-----------------------------------------------------------------------------
(* The invariant. *)

(* Before the first task nothing is driven.                                 *)
LEMMA TasksAtFirst == TasksInit => TasksInv
<1> SUFFICES ASSUME TasksInit PROVE TasksInv
  OBVIOUS
<1>1. \A t \in Task : /\ acts[t] = <<>> /\ task[t].type = "none" /\ task[t].st = "none" /\ heard[t] = {}
                      /\ \A i \in 1 .. MaxActions : runs[t][i] = "none"
                      /\ \A i \in 0 .. MaxActions : driver[<<t, i>>].at = "idle" /\ driver[<<t, i>>].left = <<>>
  BY DEF TasksInit, Driver, NotDriving
<1>2. TasksTypeOK
  <2>1. \A t \in Task : Len(acts[t]) <= Len(ActionsOf(task[t].type))
    BY <1>1, ActionsAreKnown
  <2>2. driver \in [Driver -> [at : Places, left : Seq(1 .. MaxActions)]]
    BY DEF TasksInit, NotDriving, Places
  <2>3. acts \in [Task -> Seq(Row)]
    BY DEF TasksInit
  <2>4. 0 \in 0 .. MaxActions
    BY DEF MaxActions
  <2>5. /\ runs \in [Task -> [1 .. MaxActions -> {"none", "live"} \cup Over]]
        /\ \A t \in Task : heard[t] \subseteq {i \in 1 .. MaxActions : runs[t][i] \in Over}
    BY <1>1 DEF TasksInit
  <2> QED
    BY <2>1, <2>2, <2>3, <2>4, <2>5 DEF TasksInit, TasksTypeOK
<1>3. ASSUME NEW t \in Task PROVE TaskInv(t)
  <2>1. DOMAIN acts[t] = {}
    BY <1>1
  <2>2. SoleDriver(t) /\ ~Driven(t)
    BY <1>1 DEF SoleDriver, Driven, At
  <2>3. InOrderIn(t)
    BY <2>1 DEF InOrderIn
  <2>4. ActsInv(t)
    BY <1>1, <2>1, <2>2 DEF ActsInv
  <2>5. \A i \in 0 .. MaxActions : DriverInv(t, i)
    BY <1>1 DEF DriverInv, Loop
  <2> QED
    BY <2>2, <2>3, <2>4, <2>5 DEF TaskInv
<1> QED
  BY <1>2, <1>3 DEF TasksInv

(* A step of a driver. *)
LEMMA DriveKeeps ==
  ASSUME Ties = {}, TasksInv, NEW d \in Driver, Drive(d) \/ WriteFails(d)
  PROVE  TasksInv'
<1>1. PICK t \in Task, i \in 0 .. MaxActions : d = <<t, i>>
  BY DEF Driver
<1> QED
  BY <1>1, PointAtKeeps, StartActionKeeps, ActOnBeingKeeps, StartRunKeeps, StoreRunKeeps, WorkKeeps,
     FinishActionKeeps, CompleteTaskKeeps, SettleKeeps, FailActionKeeps, FailBeingKeeps, FailedKeeps,
     WriteFailsKeeps DEF Drive

(* A step of any of them.                                                   *)
LEMMA TasksStep ==
  ASSUME Ties = {}, FastRuns = FALSE, TasksInv, TasksNext
  PROVE  TasksInv'
<1>1. ASSUME NEW t \in Task, Execute(t) PROVE TasksInv'
  BY <1>1, CreateTaskKeeps, ClaimKeeps, TakeBeingKeeps, CreateActionKeeps, ListActionsKeeps DEF Execute
<1>2. ASSUME NEW t \in Task, NEW i \in 1 .. MaxActions, Runs(t, i) PROVE TasksInv'
  BY <1>2, DeliverKeeps, RunEndsKeeps DEF Runs, Over
<1> QED
  BY <1>1, <1>2, DriveKeeps, CrashKeeps, RequestsKeep DEF TasksNext

(* A step of something else.                                                *)
LEMMA TasksStutter == ASSUME TasksInv, UNCHANGED taskVars PROVE TasksInv'
<1>1. UNCHANGED <<task, acts, being, runs, heard, driver, request, failedWrites, crashes, requests>>
  BY DEF taskVars, worldRows, bounds
<1>2. TasksTypeOK'
  BY <1>1, UpsetKeepsTypes, RowTypes DEF TasksInv, TasksTypeOK, worldRows
<1>3. ASSUME NEW t \in Task PROVE TaskInv(t)'
  BY <1>1, OtherTaskKeeps DEF TasksInv
<1> QED
  BY <1>2, <1>3 DEF TasksInv

(* task-executor.ts: a task has one driver, whose list is what is left of the*)
(* task; the actions before its first are completed, none after it is begun,*)
(* and the action of a run that nobody has heard of is nobody else's.       *)
THEOREM TasksInvariant ==
  ASSUME Ties = {}, FastRuns = FALSE
  PROVE  TasksSpec => []TasksInv
<1>1. TasksInv /\ [TasksNext]_taskVars => TasksInv'
  BY TasksStep, TasksStutter
<1> QED
  BY TasksAtFirst, <1>1, PTL DEF TasksSpec

(* executeActionsFrom, onAgentRunCompleted: whatever the order of writes,   *)
(* run events, crashes and requests, a task is driven by one driver at a    *)
(* time, no action is passed over, and a completed task is done to the last.*)
THEOREM TasksAreTakenInTurn ==
  ASSUME Ties = {}, FastRuns = FALSE
  PROVE  TasksSpec => []TakenInTurn
<1>1. TasksInv => TakenInTurn
  <2> SUFFICES ASSUME TasksInv PROVE TakenInTurn
    OBVIOUS
  <2>1. InOrder
    BY DEF TasksInv, TaskInv, InOrder
  <2>2. ASSUME NEW t \in Task
        PROVE  Cardinality({i \in 0 .. MaxActions : ~At(<<t, i>>, "idle")}) <= 1
    <3> DEFINE D == {i \in 0 .. MaxActions : ~At(<<t, i>>, "idle")}
    <3>1. \A i, j \in D : i = j
      BY DEF TasksInv, TaskInv, SoleDriver
    <3>2. D = {} \/ \E i \in D : D = {i}
      BY <3>1
    <3> HIDE DEF D
    <3>3. CASE D = {}
      <4>1. Cardinality(D) = 0
        BY <3>3, FS_EmptySet
      <4> QED
        BY <4>1 DEF D
    <3>4. CASE \E i \in D : D = {i}
      <4>1. Cardinality(D) = 1
        BY <3>4, FS_Singleton
      <4> QED
        BY <4>1 DEF D
    <3> QED
      BY <3>2, <3>3, <3>4
  <2> QED
    BY <2>1, <2>2 DEF TakenInTurn, OneDriver
<1> QED
  BY <1>1, TasksInvariant, PTL
-----------------------------------------------------------------------------
(* While nothing is lost, what is not over goes on. *)

(* What goes on while nothing is lost.                                      *)
Settles ==
  /\ \A t \in Task : GoesOn(t)
  /\ being.task # "none" \/ being.act # 0 => \E t \in Task : Clearing(t)

(* One driver goes to a place, and no other moves. *)
GoneTo(t, i, at) ==
  /\ driver'[<<t, i>>].at = at
  /\ \A u \in Task : \A j \in 0 .. MaxActions :
       <<u, j>> # <<t, i>> => driver'[<<u, j>>] = driver[<<u, j>>]

(* The other tasks are left as they are.                                    *)
OthersKeep(t) ==
  \A u \in Task : u # t => task'[u] = task[u] /\ acts'[u] = acts[u] /\ heard'[u] = heard[u]

LEMMA WhereItGoes ==
  ASSUME TasksTypeOK, NEW t \in Task, NEW i \in 0 .. MaxActions
  PROVE  /\ \A at : Goto(<<t, i>>, at) => GoneTo(t, i, at)
         /\ Leave(<<t, i>>) => GoneTo(t, i, "idle")
         /\ \A at : \A left : driver' = [driver EXCEPT ![<<t, i>>] = [at |-> at, left |-> left]]
                                => GoneTo(t, i, at)
         /\ driver' = driver => GoneTo(t, i, driver[<<t, i>>].at)
<1>1. /\ driver \in [Driver -> DriverRow] /\ <<t, i>> \in Driver /\ driver[<<t, i>>] \in DriverRow
      /\ \A u \in Task : \A j \in 0 .. MaxActions : <<u, j>> \in Driver
  BY RowTypes DEF Driver
<1>2. ASSUME NEW row, driver' = [driver EXCEPT ![<<t, i>>] = row] PROVE GoneTo(t, i, row.at)
  BY <1>1, <1>2 DEF GoneTo
<1>3. ASSUME NEW at, Goto(<<t, i>>, at) PROVE GoneTo(t, i, at)
  <2> DEFINE row == [driver[<<t, i>>] EXCEPT !.at = at]
  <2>1. row.at = at
    BY <1>1 DEF DriverRow
  <2>2. driver' = [driver EXCEPT ![<<t, i>>] = row]
    BY <1>3 DEF Goto
  <2> HIDE DEF row
  <2>3. GoneTo(t, i, row.at)
    BY <2>2, <1>2
  <2> QED
    BY <2>1, <2>3
<1>4. ASSUME NEW at, NEW left, driver' = [driver EXCEPT ![<<t, i>>] = [at |-> at, left |-> left]]
      PROVE  GoneTo(t, i, at)
  <2> DEFINE row == [at |-> at, left |-> left]
  <2>1. row.at = at /\ driver' = [driver EXCEPT ![<<t, i>>] = row]
    BY <1>4
  <2> HIDE DEF row
  <2>2. GoneTo(t, i, row.at)
    BY <2>1, <1>2
  <2> QED
    BY <2>1, <2>2
<1>5. Leave(<<t, i>>) => GoneTo(t, i, "idle")
  BY <1>4 DEF Leave, NotDriving
<1>6. driver' = driver => GoneTo(t, i, driver[<<t, i>>].at)
  BY DEF GoneTo
<1> QED
  BY <1>3, <1>4, <1>5, <1>6

(* A step of one task: it goes on, and the being is looked after. *)
LEMMA OneTaskSettles ==
  ASSUME Settles, NEW t \in Task, OthersKeep(t), NEW i \in 0 .. MaxActions, NEW at, GoneTo(t, i, at),
         GoesOn(t)',
         \/ Clearing(t)'
         \/ being'.task = "none" /\ being'.act = 0
         \/ being'.task = being.task /\ being'.act = being.act /\ (Clearing(t) => Clearing(t)')
  PROVE  Settles'
<1>1. ASSUME NEW u \in Task, u # t PROVE GoesOn(u)' /\ (Clearing(u) => Clearing(u)')
  <2>1. /\ task'[u] = task[u] /\ acts'[u] = acts[u] /\ heard'[u] = heard[u]
        /\ \A j \in 0 .. MaxActions : driver'[<<u, j>>] = driver[<<u, j>>]
    BY <1>1 DEF GoneTo, OthersKeep
  <2>2. Awaiting(u)' = Awaiting(u)
    BY <2>1 DEF Awaiting, Awaited
  <2>3. Driven(u)' = Driven(u)
    BY <2>1 DEF Driven, At
  <2>4. GoesOn(u)'
    BY <2>1, <2>2, <2>3 DEF Settles, GoesOn
  <2>5. Clearing(u) => Clearing(u)'
    BY <2>1, <2>2 DEF Clearing
  <2> QED
    BY <2>4, <2>5
<1>2. \A u \in Task : GoesOn(u)'
  BY <1>1
<1>3. being'.task # "none" \/ being'.act # 0 => \E u \in Task : Clearing(u)'
  BY <1>1 DEF Settles
<1> QED
  BY <1>2, <1>3 DEF Settles

(* A driver goes to a place from which it will clear the being. *)
LEMMA DriverLooksAfter ==
  ASSUME Settles, NEW t \in Task, OthersKeep(t), NEW i \in 0 .. MaxActions, NEW at \in Clears,
         GoneTo(t, i, at)
  PROVE  Settles'
<1>1. driver'[<<t, i>>].at = at /\ at # "idle"
  BY DEF GoneTo, Clears, Loop
<1>2. Driven(t)' /\ Clearing(t)'
  BY <1>1 DEF Driven, At, Clearing
<1>3. GoesOn(t)'
  BY <1>2 DEF GoesOn
<1> QED
  BY <1>2, <1>3, OneTaskSettles

(* A driver goes to another place and lets go of the being. *)
LEMMA DriverLetsGo ==
  ASSUME Settles, NEW t \in Task, OthersKeep(t), NEW i \in 0 .. MaxActions, NEW at, at # "idle",
         GoneTo(t, i, at), being \in BeingRow, NEW st, being' = [Cleared(being) EXCEPT !.st = st]
  PROVE  Settles'
<1>1. GoesOn(t)'
  BY DEF GoneTo, Driven, At, GoesOn
<1>2. being'.task = "none" /\ being'.act = 0
  BY DEF Cleared, BeingRow
<1> QED
  BY <1>1, <1>2, OneTaskSettles

(* The being points at the next action, or at nothing any more. *)
LEMMA PointAtSettles ==
  ASSUME TasksTypeOK, Settles, NEW t \in Task, NEW i \in 0 .. MaxActions, PointAt(<<t, i>>)
  PROVE  Settles'
<1>1. OthersKeep(t) /\ being \in BeingRow
  BY RowTypes DEF PointAt, OthersKeep
<1>2. CASE driver[<<t, i>>].left = <<>>
  <2>1. GoneTo(t, i, "complete")
    BY <1>2, WhereItGoes DEF PointAt
  <2>2. being' = [Cleared(being) EXCEPT !.st = being.st]
    BY <1>1, <1>2 DEF PointAt, Cleared, BeingRow
  <2> QED
    BY <1>1, <2>1, <2>2, DriverLetsGo
<1>3. CASE driver[<<t, i>>].left # <<>>
  <2>1. GoneTo(t, i, "start") /\ "start" \in Clears
    BY <1>3, WhereItGoes DEF PointAt, Clears, Loop
  <2> QED
    BY <1>1, <2>1, DriverLooksAfter
<1> QED
  BY <1>2, <1>3

(* A failure is noted, and the being let go of. *)
LEMMA FailBeingSettles ==
  ASSUME TasksTypeOK, Settles, NEW t \in Task, NEW i \in 0 .. MaxActions, FailBeing(<<t, i>>)
  PROVE  Settles'
<1>1. OthersKeep(t) /\ being \in BeingRow
  BY RowTypes DEF FailBeing, OthersKeep
<1>2. GoneTo(t, i, "fail_task")
  BY WhereItGoes DEF FailBeing
<1>3. \E st : being' = [Cleared(being) EXCEPT !.st = st]
  <2>1. being' = Cleared(being) => being' = [Cleared(being) EXCEPT !.st = being.st]
    BY <1>1 DEF Cleared, BeingRow
  <2> QED
    BY <2>1 DEF FailBeing
<1> QED
  BY <1>1, <1>2, <1>3, DriverLetsGo

(* The other steps of a driver that go on to a place of the loop or fail.   *)
LEMMA LoopSettles ==
  ASSUME TasksTypeOK, Settles, NEW t \in Task, NEW i \in 0 .. MaxActions,
         \/ StartAction(<<t, i>>) \/ ActOnBeing(<<t, i>>) \/ StartRun(<<t, i>>)
         \/ StoreRun(<<t, i>>) \/ FinishAction(<<t, i>>) \/ Settle(<<t, i>>) \/ FailAction(<<t, i>>)
  PROVE  Settles'
<1>1. OthersKeep(t)
  <2>1. acts \in [Task -> Seq(Row)]
    BY RowTypes
  <2>2. acts' = acts \/ (\E row : acts' = [acts EXCEPT ![t] = row]) => OthersKeep(t)
        \/ ~UNCHANGED <<task, heard>>
    BY <2>1 DEF OthersKeep
  <2>3. UNCHANGED <<task, heard>>
    BY DEF StartAction, ActOnBeing, StartRun, StoreRun, FinishAction, Settle, FailAction, worldRows
  <2>4. acts' = acts \/ \E row : acts' = [acts EXCEPT ![t] = row]
    BY DEF StartAction, ActOnBeing, StartRun, StoreRun, FinishAction, Settle, FailAction, SetAct, worldRows
  <2> QED
    BY <2>2, <2>3, <2>4
<1>2. \E at \in Clears : GoneTo(t, i, at)
  <2>1. /\ \A at : Goto(<<t, i>>, at) => GoneTo(t, i, at)
        /\ \A at : \A left : driver' = [driver EXCEPT ![<<t, i>>] = [at |-> at, left |-> left]]
                               => GoneTo(t, i, at)
    BY WhereItGoes
  <2>2. {"point", "act", "store", "work", "finish", "fail_being", "fail_idle"} \subseteq Clears
    BY DEF Clears, Loop
  <2>3. StartAction(<<t, i>>) => GoneTo(t, i, "act")
    BY <2>1 DEF StartAction
  <2>4. ActOnBeing(<<t, i>>) => GoneTo(t, i, "finish")
    BY <2>1 DEF ActOnBeing
  <2>5. StartRun(<<t, i>>) => GoneTo(t, i, "store")
    BY <2>1 DEF StartRun
  <2>6. StoreRun(<<t, i>>) => GoneTo(t, i, "work")
    BY <2>1 DEF StoreRun
  <2>7. FinishAction(<<t, i>>) => GoneTo(t, i, "point")
    BY <2>1 DEF FinishAction
  <2>8. Settle(<<t, i>>) => GoneTo(t, i, "point")
    BY <2>1 DEF Settle
  <2>9. FailAction(<<t, i>>) => GoneTo(t, i, "fail_idle") \/ GoneTo(t, i, "fail_being")
    BY <2>1 DEF FailAction
  <2> QED
    BY <2>2, <2>3, <2>4, <2>5, <2>6, <2>7, <2>8, <2>9
<1> QED
  BY <1>1, <1>2, DriverLooksAfter

(* The driver leaves the action to its run, which is to be heard of. *)
LEMMA WorkSettles ==
  ASSUME TasksInv, Settles, NEW t \in Task, NEW i \in 0 .. MaxActions, Work(<<t, i>>)
  PROVE  Settles'
<1>1. /\ driver[<<t, i>>].at = "work" /\ UNCHANGED <<task, acts, runs, heard>>
      /\ being' = [being EXCEPT !.st = "working"]
  BY DEF Work, At
<1>2. TasksTypeOK /\ being \in BeingRow
  BY RowTypes DEF TasksInv
<1>3. PICK c \in DOMAIN acts[t] : AtAction(t, i, c)
  BY <1>1, DriverAtAction
<1>4. Doing(t, c, TRUE, "live") /\ c \in 1 .. MaxActions
  BY <1>1, <1>3 DEF AtAction, InLoop
<1>5. c \notin heard[t]
  BY <1>2, <1>4 DEF TasksTypeOK, Doing, Over
<1>6. Awaiting(t)'
  BY <1>1, <1>3, <1>4, <1>5 DEF Awaiting, Awaited, Doing
<1>7. OthersKeep(t) /\ GoneTo(t, i, "idle")
  BY <1>1, <1>2, WhereItGoes DEF OthersKeep, Work
<1> QED
  BY <1>6, <1>7, OneTaskSettles DEF GoesOn, Clearing

(* The last write of a task ends it; what cleared the being does so still. *)
LEMMA EndSettles ==
  ASSUME TasksInv, Settles, NEW t \in Task, NEW i \in 0 .. MaxActions,
         CompleteTask(<<t, i>>) \/ FailTask(<<t, i>>) \/ MarkTaskFailed(<<t, i>>)
  PROVE  Settles'
<1>1. /\ driver[<<t, i>>].at \in {"complete", "fail_task", "mark"} /\ Leave(<<t, i>>)
      /\ UNCHANGED <<acts, being, heard>>
      /\ \E st \in {"completed", "failed"} : task' = [task EXCEPT ![t].st = st]
  BY DEF CompleteTask, FailTask, MarkTaskFailed, Failed, At
<1>2. TasksTypeOK /\ \A j \in 0 .. MaxActions : j # i => At(<<t, j>>, "idle")
  BY <1>1, DrivenTask DEF At
<1>3. task'[t].st \in {"completed", "failed"} /\ OthersKeep(t)
  BY <1>1, <1>2, RowTypes DEF OthersKeep, TaskRow
<1>4. Clearing(t) => Awaiting(t)
  BY <1>1, <1>2 DEF Clearing, Clears, Loop, At
<1>5. Clearing(t) => Clearing(t)'
  BY <1>1, <1>4 DEF Clearing, Awaiting, Awaited
<1>6. GoneTo(t, i, "idle") /\ GoesOn(t)'
  BY <1>1, <1>2, <1>3, WhereItGoes DEF GoesOn
<1> QED
  BY <1>1, <1>3, <1>5, <1>6, OneTaskSettles

(* A task is created, or claimed, or left as it is for want of actions:     *)
(* nobody pointed the being at it.                                          *)
LEMMA ClaimSettles ==
  ASSUME TasksInv, Settles, NEW t \in Task, CreateTask(t) \/ Claim(t)
  PROVE  Settles'
<1>1. UNCHANGED <<acts, being, heard>> /\ 0 \in 0 .. MaxActions /\ TasksTypeOK
  BY DEF CreateTask, Claim, MaxActions, TasksInv
<1>2. OthersKeep(t)
  BY <1>1, RowTypes DEF CreateTask, Claim, OthersKeep
<1>3. CASE CreateTask(t)
  <2>1. acts[t] = <<>> /\ ~Driven(t) /\ DOMAIN acts[t] = {}
    BY <1>3, <1>1, NotCreated, RowsOf DEF CreateTask
  <2>2. ~Clearing(t)
    BY <2>1 DEF Clearing, Awaiting, Driven, At, Clears, Loop
  <2>3. GoneTo(t, 0, "claim")
    BY <1>1, <1>3, WhereItGoes DEF CreateTask
  <2>4. GoesOn(t)'
    BY <1>1, <2>3 DEF GoesOn, GoneTo, Driven, At
  <2> QED
    BY <1>1, <1>2, <2>2, <2>3, <2>4, OneTaskSettles
<1>4. CASE Claim(t)
  <2>1. driver[<<t, 0>>].at = "claim" /\ ~At(<<t, 0>>, "idle")
    BY <1>4 DEF Claim, At
  <2>2. DriverInv(t, 0) /\ \A j \in 0 .. MaxActions : j # 0 => At(<<t, j>>, "idle")
    BY <1>1, <2>1, DrivenTask
  <2>3. acts[t] = <<>> /\ DOMAIN acts[t] = {} /\ task[t].st = "queued"
    BY <1>1, <2>1, <2>2, RowsOf DEF DriverInv
  <2>4. ~Clearing(t)
    BY <2>1, <2>2, <2>3 DEF Clearing, Awaiting, At, Clears, Loop
  <2>5. CASE Goto(<<t, 0>>, "take")
    <3>1. GoneTo(t, 0, "take")
      BY <1>1, <2>5, WhereItGoes
    <3>2. GoesOn(t)'
      BY <1>1, <3>1 DEF GoesOn, GoneTo, Driven, At
    <3> QED
      BY <1>1, <1>2, <2>4, <3>1, <3>2, OneTaskSettles
  <2>6. CASE Leave(<<t, 0>>) /\ UNCHANGED task /\ ActionsOf(task[t].type) = <<>>
    <3>1. GoneTo(t, 0, "idle")
      BY <1>1, <2>6, WhereItGoes
    <3>2. GoesOn(t)'
      BY <2>6, ActionsAreKnown DEF GoesOn
    <3> QED
      BY <1>1, <1>2, <2>4, <3>1, <3>2, OneTaskSettles
  <2> QED
    BY <1>4, <2>3, <2>5, <2>6 DEF Claim
<1> QED
  BY <1>3, <1>4

(* The being is taken, and the actions are made and listed. *)
LEMMA MakingSettles ==
  ASSUME TasksTypeOK, Settles, NEW t \in Task, TakeBeing(t) \/ CreateAction(t) \/ ListActions(t)
  PROVE  Settles'
<1>1. 0 \in 0 .. MaxActions
  BY DEF MaxActions
<1>2. OthersKeep(t)
  BY RowTypes DEF TakeBeing, CreateAction, ListActions, worldRows, OthersKeep
<1>3. "create" \in Clears /\ "point" \in Clears
  BY DEF Clears, Loop
<1>4. TakeBeing(t) => GoneTo(t, 0, "create")
  BY <1>1, WhereItGoes DEF TakeBeing
<1>5. CreateAction(t) => GoneTo(t, 0, "create")
  BY <1>1, WhereItGoes DEF CreateAction, At
<1>6. ListActions(t) => GoneTo(t, 0, "point")
  BY <1>1, WhereItGoes DEF ListActions
<1> QED
  BY <1>1, <1>2, <1>3, <1>4, <1>5, <1>6, DriverLooksAfter

(* The event of a run finds its action, or takes nothing from the task. *)
LEMMA DeliverSettles ==
  ASSUME TasksTypeOK, Settles, NEW t \in Task, NEW i \in 1 .. MaxActions, Deliver(t, i)
  PROVE  Settles'
<1>1. /\ UNCHANGED <<task, acts, being>> /\ heard' = [heard EXCEPT ![t] = heard[t] \cup {i}]
      /\ i \in 0 .. MaxActions
  BY DEF Deliver, worldRows, MaxActions
<1>2. /\ heard'[t] = heard[t] \cup {i} /\ \A u \in Task : u # t => heard'[u] = heard[u]
  BY <1>1 DEF TasksTypeOK
<1>3. OthersKeep(t)
  BY <1>1, <1>2 DEF OthersKeep
<1>4. CASE acts[t][i].run /\ acts[t][i].st = "running"
  <2>1. \E at \in {"settle", "fail"} : GoneTo(t, i, at)
    BY <1>1, <1>4, WhereItGoes DEF Deliver
  <2>2. {"settle", "fail"} \subseteq Clears
    BY DEF Clears
  <2> QED
    BY <1>1, <1>3, <2>1, <2>2, DriverLooksAfter
<1>5. CASE ~(acts[t][i].run /\ acts[t][i].st = "running")
  <2>1. driver' = driver
    BY <1>5 DEF Deliver
  <2>2. Awaiting(t) => Awaiting(t)'
    BY <1>1, <1>2, <1>5 DEF Awaiting, Awaited
  <2>3. GoesOn(t)' /\ (Clearing(t) => Clearing(t)')
    BY <1>1, <2>1, <2>2 DEF Settles, GoesOn, Clearing, Driven, At
  <2>4. GoneTo(t, i, driver[<<t, i>>].at)
    BY <1>1, <2>1, WhereItGoes
  <2> QED
    BY <1>1, <1>3, <2>3, <2>4, OneTaskSettles
<1> QED
  BY <1>4, <1>5

(* A run ends, or the user asks for something: no task is touched. *)
LEMMA AsideSettles ==
  ASSUME TasksTypeOK, Settles, UNCHANGED <<task, acts, heard, driver>>,
         being'.task = being.task, being'.act = being.act
  PROVE  Settles'
<1>1. ASSUME NEW t \in Task PROVE GoesOn(t)' = GoesOn(t) /\ Clearing(t)' = Clearing(t)
  BY DEF GoesOn, Clearing, Awaiting, Awaited, Driven, At
<1> QED
  BY <1>1 DEF Settles

(* A failed write and a crash are counted; no other step loses a task.      *)
LEMMA SettlesStep ==
  ASSUME TasksInv, SettlesInv, TasksNext
  PROVE  SettlesInv'
<1>1. TasksTypeOK /\ failedWrites \in Nat /\ crashes \in Nat /\ being \in BeingRow
  BY RowTypes DEF TasksInv, TasksTypeOK
<1>2. SettlesInv <=> (failedWrites = 0 /\ crashes = 0 => Settles)
  BY DEF SettlesInv, Settles
<1>3. SettlesInv' <=> (failedWrites' = 0 /\ crashes' = 0 => Settles')
  BY DEF SettlesInv, Settles
<1>4. ASSUME UNCHANGED <<failedWrites, crashes>>, Settles => Settles' PROVE SettlesInv'
  BY <1>2, <1>3, <1>4
<1>5. ASSUME NEW t \in Task, Execute(t) PROVE SettlesInv'
  <2>1. UNCHANGED <<failedWrites, crashes>>
    BY <1>5 DEF Execute, CreateTask, Claim, TakeBeing, CreateAction, ListActions, bounds
  <2> QED
    BY <1>1, <1>4, <1>5, <2>1, ClaimSettles, MakingSettles DEF Execute
<1>6. ASSUME NEW t \in Task, NEW i \in 1 .. MaxActions, Runs(t, i) PROVE SettlesInv'
  <2>1. UNCHANGED <<failedWrites, crashes>>
    BY <1>6 DEF Runs, Deliver, RunEnds, bounds
  <2>2. ASSUME NEW how, RunEnds(t, i, how), Settles PROVE Settles'
    BY <2>2, <1>1, AsideSettles DEF RunEnds, worldRows
  <2> QED
    BY <1>1, <1>4, <1>6, <2>1, <2>2, DeliverSettles DEF Runs
<1>7. ASSUME NEW d \in Driver, Drive(d) PROVE SettlesInv'
  <2>1. UNCHANGED <<failedWrites, crashes>>
    BY <1>7 DEF Drive, PointAt, StartAction, ActOnBeing, StartRun, StoreRun, Work, FinishAction,
                CompleteTask, Settle, FailAction, FailBeing, FailTask, MarkTaskFailed, Failed, bounds
  <2>2. PICK t \in Task, i \in 0 .. MaxActions : d = <<t, i>>
    BY DEF Driver
  <2>3. Settles => Settles'
    BY <1>1, <1>7, <2>2, PointAtSettles, FailBeingSettles, LoopSettles, WorkSettles, EndSettles DEF Drive
  <2> QED
    BY <1>4, <2>1, <2>3
<1>8. ASSUME NEW d \in Driver, WriteFails(d) PROVE SettlesInv'
  BY <1>1, <1>3, <1>8 DEF WriteFails
<1>9. ASSUME Crash PROVE SettlesInv'
  BY <1>1, <1>3, <1>9 DEF Crash
<1>10. ASSUME AskStatus \/ WriteStatus PROVE SettlesInv'
  <2>1. UNCHANGED <<failedWrites, crashes, task, acts, heard, driver>>
    BY <1>10 DEF AskStatus, WriteStatus, worldRows, bounds
  <2>2. being'.task = being.task /\ being'.act = being.act
    BY <1>1, <1>10 DEF AskStatus, WriteStatus, worldRows, BeingRow
  <2> QED
    BY <1>1, <1>4, <2>1, <2>2, AsideSettles
<1> QED
  BY <1>5, <1>6, <1>7, <1>8, <1>9, <1>10 DEF TasksNext

(* Before the first task there is none to lose.                             *)
LEMMA SettlesAtFirst == TasksInit => SettlesInv
<1> SUFFICES ASSUME TasksInit PROVE Settles
  BY DEF SettlesInv, Settles
<1>1. \A t \in Task : task[t].type = "none"
  BY DEF TasksInit
<1>2. being.task = "none" /\ being.act = 0
  BY DEF TasksInit
<1>3. "none" \notin DOMAIN TaskActions
  BY DEF TaskActions
<1> QED
  BY <1>1, <1>2, <1>3 DEF Settles, GoesOn

(* At rest nothing is driven and every run was heard of: so nobody waits.   *)
LEMMA SettledAtRest ==
  ASSUME TasksInv, SettlesInv
  PROVE  RestSettled
<1> SUFFICES ASSUME AtRest, failedWrites = 0, crashes = 0
             PROVE  /\ \A t \in Task : task[t].type \in DOMAIN TaskActions
                                         => task[t].st \in {"completed", "failed"}
                    /\ being.task = "none" /\ being.act = 0
  BY DEF RestSettled
<1>1. ASSUME NEW t \in Task PROVE ~Driven(t) /\ ~Awaiting(t) /\ ~Clearing(t)
  <2>1. \A i \in 0 .. MaxActions : driver[<<t, i>>].at = "idle"
    BY DEF AtRest, At, Driver
  <2>2. ~Awaiting(t)
    <3> SUFFICES ASSUME NEW i \in DOMAIN acts[t], Awaited(t, i) PROVE FALSE
      BY DEF Awaiting
    <3>1. i \in 1 .. MaxActions
      BY RowsOf DEF TasksInv
    <3>2. runs[t][i] # "none" /\ i \notin heard[t]
      BY DEF Awaited, TasksInv, TaskInv, ActsInv
    <3> QED
      BY <3>1, <3>2 DEF AtRest
  <2> QED
    BY <2>1, <2>2 DEF Driven, At, Clearing, Clears, Loop
<1> QED
  BY <1>1 DEF SettlesInv, GoesOn

(* Once every event is delivered and nobody drives, each task of a known type*)
(* is over and the being points at none, unless a write failed or the daemon*)
(* was lost: no hand-over between executor and handler drops a task.        *)
THEOREM RestIsSettled ==
  ASSUME Ties = {}, FastRuns = FALSE
  PROVE  TasksSpec => []RestSettled
<1>1. TasksInv /\ SettlesInv /\ [TasksNext]_taskVars => SettlesInv'
  <2>1. ASSUME SettlesInv, UNCHANGED taskVars PROVE SettlesInv'
    BY <2>1 DEF taskVars, worldRows, bounds, SettlesInv, GoesOn, Clearing, Awaiting, Awaited, Driven, At
  <2> QED
    BY <2>1, SettlesStep
<1>2. TasksInv /\ SettlesInv => RestSettled
  BY SettledAtRest
<1> QED
  BY <1>1, <1>2, SettlesAtFirst, TasksInvariant, PTL DEF TasksSpec

-----------------------------------------------------------------------------
(* The world page: its socket, its first fetch and its polling.            *)

(* A non-empty set of numbers has a least one.                              *)
LEMMA LeastNumber ==
  ASSUME NEW T, T \subseteq Nat, T # {}
  PROVE  \E x \in T : \A y \in T : x <= y
<1> DEFINE R == OpToRel(<, Nat)
<1>1. IsWellFoundedOn(R, Nat)
  BY NatLessThanWellFounded
<1>2. \A x, y \in Nat : x < y => <<x, y>> \in R
  BY DEF OpToRel
<1> HIDE DEF R
<1>3. PICK x \in T : \A y \in T : ~(<<y, x>> \in R)
  BY <1>1, WFMin
<1>4. ASSUME NEW y \in T PROVE x <= y
  <2>1. x \in Nat /\ y \in Nat /\ ~(<<y, x>> \in R)
    BY <1>3
  <2>2. ~(y < x)
    BY <1>2, <2>1
  <2> QED
    BY <2>1, <2>2
<1> QED
  BY <1>4

(* Min finds it.                                                            *)
LEMMA LeastOf ==
  ASSUME NEW S, S \subseteq Nat, S # {}
  PROVE  Min(S) \in S
<1>1. PICK n \in S : \A m \in S : n <= m
  BY LeastNumber
<1> QED
  BY <1>1 DEF Min

(* The bounds are numbers, so that 1 .. bound is arithmetic.                *)
LEMMA Bounds ==
  /\ MaxSock \in Nat /\ MaxClosure \in Nat /\ MaxFetch \in Nat /\ MaxWorld \in Nat
  /\ 0 \in 0..MaxSock /\ 0 \in 0..MaxClosure /\ 0 \in 0..MaxWorld
BY SyncAssumption

(* A new socket or request takes a number that is free.                     *)
LEMMA FreeNumbers ==
         /\ FreeSock # {} => Min(FreeSock) \in FreeSock /\ Min(FreeSock) \in Sock
         /\ FreeFetch # {} => Min(FreeFetch) \in FreeFetch /\ Min(FreeFetch) \in Fetch
<1>1. FreeSock \subseteq Nat /\ FreeFetch \subseteq Nat
  BY SyncAssumption DEF FreeSock, FreeFetch, Sock, Fetch
<1>2. FreeSock \subseteq Sock /\ FreeFetch \subseteq Fetch
  BY DEF FreeSock, FreeFetch
<1> QED
  BY <1>1, <1>2, LeastOf

(* The rows of the table of requests.                                       *)
FetchRows == [kind : FetchKinds, by : 0..MaxClosure, ver : 0..MaxWorld]

(* Connecting never leaves the consumers with neither socket nor retry.     *)
LEMMA ConnectKeeps ==
  ASSUME SocketInv, NEW h, h \subseteq Consumer, ConnectSocket(h), holders' = h, h # {},
         sockUp' = sockUp
  PROVE  SocketInv'
<1>1. CASE worldSocket # 0 /\ UNCHANGED <<sock, wired, worldSocket>> /\ reconnect' = FALSE
  <2>1. SocketTypeOK'
    BY <1>1 DEF SocketInv, SocketTypeOK, Sock
  <2> QED
    BY <1>1, <2>1 DEF SocketInv, SharedSocket
<1>2. CASE worldSocket = 0 /\ FreeSock # {} /\ sock' = [sock EXCEPT ![Min(FreeSock)] = "opening"]
           /\ wired' = wired \cup {Min(FreeSock)} /\ worldSocket' = Min(FreeSock) /\ reconnect' = FALSE
  <2>1. Min(FreeSock) \in Sock
    BY <1>2, FreeNumbers
  <2> DEFINE s == Min(FreeSock)
  <2>2. s \in 1..MaxSock /\ s # 0 /\ s \in 0..MaxSock
    BY <2>1, SyncAssumption DEF Sock
  <2> HIDE DEF s
  <2>3. sock' = [sock EXCEPT ![s] = "opening"] /\ wired' = wired \cup {s} /\ worldSocket' = s
    BY <1>2 DEF s
  <2>4. wired = {} /\ sockUp = FALSE
    <3>1. wired \subseteq {0} /\ wired \subseteq Sock /\ ~(0 \in Sock)
      BY <1>2 DEF SocketInv, SocketTypeOK, SharedSocket, Sock
    <3> QED BY <1>2, <3>1 DEF SocketInv, SocketTypeOK, SharedSocket
  <2>5. sock'[s] = "opening" /\ sock' \in [Sock -> {"free", "opening", "open", "closing"}]
    BY <2>2, <2>3 DEF SocketInv, SocketTypeOK, Sock
  <2>6. SocketTypeOK'
    BY <1>2, <2>2, <2>3, <2>4, <2>5 DEF SocketInv, SocketTypeOK, Sock
  <2>7. SharedSocket'
    BY <1>2, <2>2, <2>3, <2>4, <2>5 DEF SharedSocket
  <2> QED
    BY <2>3, <2>6, <2>7 DEF SocketInv
<1>3. CASE worldSocket = 0 /\ UNCHANGED <<sock, wired, worldSocket>> /\ reconnect' = (h # {})
  <2>1. SocketTypeOK'
    BY <1>3 DEF SocketInv, SocketTypeOK, Sock
  <2> QED
    BY <1>3, <2>1 DEF SocketInv, SharedSocket
<1> QED
  BY <1>1, <1>2, <1>3 DEF ConnectSocket

(* A step that leaves the socket and its consumers alone.                   *)
LEMMA SocketsRest == ASSUME SocketInv, UNCHANGED socketVars PROVE SocketInv'
<1>1. UNCHANGED <<holders, sock, wired, worldSocket, reconnect, sockUp>>
  BY DEF socketVars
<1>2. SocketTypeOK'
  BY <1>1 DEF SocketInv, SocketTypeOK, Sock
<1>3. (wired \subseteq {worldSocket})' /\ (worldSocket # 0 => sock[worldSocket] \in {"opening", "open"})'
  BY <1>1 DEF SocketInv, SharedSocket
<1>4. (holders = {} => worldSocket = 0 /\ ~reconnect)' /\ (holders # {} => worldSocket # 0 \/ reconnect)'
  BY <1>1 DEF SocketInv, SharedSocket
<1>5. (sockUp <=> worldSocket # 0 /\ sock[worldSocket] = "open")'
  BY <1>1 DEF SocketInv, SharedSocket
<1> QED
  BY <1>1, <1>2, <1>3, <1>4, <1>5 DEF SocketInv, SharedSocket

(* A step that loses no link of a chain, and no timer of a visible page.    *)
LEMMA ChainStays ==
  ASSUME PollInv, UNCHANGED closure, Mounted' => Mounted, hidden' \/ hidden' = hidden,
         PageTypeOK',
         timer \subseteq timer' \/ hidden',
         \A f \in Fetch : fetch[f].kind = "chain" => fetch'[f] = fetch[f],
         \A f \in Fetch : fetch'[f].kind = "chain" => fetch'[f].by # 0,
         ~Mounted' => closure' = 0
  PROVE  PollInv'
<1>1. PollingContinues'
  <2> SUFFICES ASSUME Mounted', closure' # 0, ~hidden', closure' \notin timer'
               PROVE  \E f \in Fetch : fetch'[f].kind = "chain" /\ fetch'[f].by = closure'
    BY DEF PollingContinues, Fetch
  <2>1. PICK f \in Fetch : fetch[f].kind = "chain" /\ fetch[f].by = closure
    BY DEF PollInv, PollingContinues
  <2> QED
    BY <2>1
<1>2. (\A f \in Fetch : fetch[f].kind = "chain" => fetch[f].by # 0)'
  BY DEF Fetch
<1> QED
  BY <1>1, <1>2 DEF PollInv

(* A request never takes the place of one in flight.                        *)
LEMMA AskKeeps ==
  ASSUME PollInv, NEW kind \in FetchKinds, NEW by \in 0..MaxClosure, Ask(kind, by),
         kind = "chain" => by # 0
  PROVE  /\ fetch' \in [Fetch -> FetchRows]
         /\ \A f \in Fetch : fetch[f].kind = "chain" => fetch'[f] = fetch[f]
         /\ \A f \in Fetch : fetch'[f].kind = "chain" => fetch'[f].by # 0
         /\ \E f \in Fetch : fetch'[f].kind = kind /\ fetch'[f].by = by
<1>1. Min(FreeFetch) \in FreeFetch /\ Min(FreeFetch) \in Fetch
  BY FreeNumbers DEF Ask
<1> DEFINE g == Min(FreeFetch)
<1>2. fetch[g].kind = "none" /\ g \in Fetch
  BY <1>1 DEF FreeFetch, NoFetch
<1>3. fetch' = [fetch EXCEPT ![g] = [kind |-> kind, by |-> by, ver |-> world]]
  BY DEF Ask
<1> HIDE DEF g
<1>4. [kind |-> kind, by |-> by, ver |-> world] \in FetchRows
  BY DEF PollInv, PageTypeOK, FetchRows
<1>5. fetch \in [Fetch -> FetchRows] /\ \A f \in Fetch : fetch[f].kind = "chain" => fetch[f].by # 0
  BY DEF PollInv, PageTypeOK, FetchRows
<1>6. \A f \in Fetch : fetch'[f] = IF f = g THEN [kind |-> kind, by |-> by, ver |-> world] ELSE fetch[f]
  BY <1>2, <1>3, <1>5
<1>7. fetch' \in [Fetch -> FetchRows]
  BY <1>2, <1>3, <1>4, <1>5
<1> QED
  BY <1>2, <1>5, <1>6, <1>7

(* With no page there is nothing to follow.                                 *)
LEMMA SyncAtFirst == SyncInit => SyncInv
<1> SUFFICES ASSUME SyncInit PROVE SyncInv
  OBVIOUS
<1>1. NoFetch \in FetchRows
  BY SyncAssumption DEF NoFetch, FetchKinds, FetchRows
<1>2. SocketTypeOK /\ SharedSocket
  BY Bounds DEF SyncInit, SocketTypeOK, SharedSocket
<1>3. fetch \in [Fetch -> FetchRows] /\ \A f \in Fetch : fetch[f].kind # "chain"
  BY <1>1 DEF SyncInit, NoFetch
<1>4. PageTypeOK
  BY <1>3, Bounds DEF SyncInit, PageTypeOK, FetchRows
<1>5. PollingContinues /\ closure = 0 /\ worldSocket = 0
  BY DEF SyncInit, PollingContinues
<1> QED
  BY <1>2, <1>3, <1>4, <1>5 DEF SyncInv, SocketInv, PollInv

(* acquire: the first consumer connects, the others share.                  *)
LEMMA MountKeeps == ASSUME SyncInv, NEW c \in Consumer, Mount(c) PROVE SyncInv'
<1>1. SocketInv /\ PollInv
  BY DEF SyncInv
<1>2. SocketInv'
  <2>1. holders' # {} /\ holders' \subseteq Consumer
    BY <1>1 DEF Mount, SocketInv, SocketTypeOK
  <2> QED
    BY <1>1, <2>1, ConnectKeeps DEF Mount
<1>3. UNCHANGED <<world, hidden, closure, seen, timer>>
  BY DEF Mount, pollVars
<1>4. CASE c = WorldPage
  <2>1. closure = 0 /\ wsActive' = sockUp /\ view' = [kind |-> "loading", ver |-> 0] /\ Ask("initial", 0)
    BY <1>1, <1>4 DEF Mount, PollInv, Mounted
  <2>2. /\ fetch' \in [Fetch -> FetchRows]
        /\ \A f \in Fetch : fetch'[f].kind = "chain" => fetch'[f].by # 0
    BY <1>1, <2>1, AskKeeps, SyncAssumption DEF FetchKinds
  <2>3. PageTypeOK'
    BY <1>1, <1>3, <2>1, <2>2, SyncAssumption
    DEF PollInv, SocketInv, SocketTypeOK, PageTypeOK, Fetch, Closure, FetchRows
  <2> QED
    BY <1>2, <1>3, <2>1, <2>2, <2>3 DEF SyncInv, PollInv, PollingContinues, Fetch
<1>5. CASE c # WorldPage
  <2>1. UNCHANGED <<wsActive, view, fetch>> /\ Mounted' = Mounted
    BY <1>5 DEF Mount, Mounted
  <2>2. PageTypeOK'
    BY <1>1, <1>3, <2>1 DEF PollInv, PageTypeOK, Fetch, Closure
  <2>3. PollInv'
    BY <1>1, <1>3, <2>1, <2>2, ChainStays DEF PollInv
  <2> QED
    BY <1>2, <2>3 DEF SyncInv
<1> QED
  BY <1>4, <1>5

(* release: the last consumer takes the handlers off and drops the retry.   *)
LEMMA UnmountKeeps == ASSUME SyncInv, NEW c \in Consumer, Unmount(c) PROVE SyncInv'
<1>1. SocketInv /\ PollInv
  BY DEF SyncInv
<1>2. SocketInv'
  <2>1. CASE holders' = {}
    <3>1. wired' = {} /\ worldSocket' = 0 /\ sockUp' = FALSE /\ reconnect' = FALSE
      BY <1>1, <2>1 DEF Unmount, Detached, SocketInv, SharedSocket
    <3>2. sock' \in [Sock -> {"free", "opening", "open", "closing"}]
      BY <1>1, <2>1 DEF Unmount, SocketInv, SocketTypeOK, Sock
    <3>3. SocketTypeOK'
      BY <2>1, <3>1, <3>2, Bounds DEF SocketTypeOK, Sock
    <3> QED
      BY <2>1, <3>1, <3>3 DEF SocketInv, SharedSocket
  <2>2. CASE holders' # {}
    <3>1. UNCHANGED <<reconnect, sock, wired, worldSocket, sockUp>> /\ holders' \subseteq holders
      BY <2>2 DEF Unmount
    <3>2. SocketTypeOK'
      BY <1>1, <3>1 DEF SocketInv, SocketTypeOK, Sock
    <3> QED
      BY <1>1, <2>2, <3>1, <3>2 DEF SocketInv, SharedSocket
  <2> QED BY <2>1, <2>2
<1>3. UNCHANGED <<world, view, hidden, seen>>
  BY DEF Unmount
<1>4. CASE c = WorldPage
  <2>1. \A f \in Fetch : Dropped(f) \in FetchRows /\ (Dropped(f).kind = "chain" => fetch[f].kind = "chain"
                                                      /\ Dropped(f).by = fetch[f].by)
    BY <1>1 DEF Dropped, PollInv, PageTypeOK, FetchKinds, FetchRows
  <2>2. fetch' = [f \in Fetch |-> Dropped(f)] /\ closure' = 0 /\ timer' \subseteq timer /\ wsActive' = FALSE
    BY <1>4 DEF Unmount
  <2>5. fetch' \in [Fetch -> FetchRows]
    BY <2>1, <2>2
  <2>3. PageTypeOK'
    BY <1>1, <1>3, <2>2, <2>5, Bounds DEF PollInv, PageTypeOK, Fetch, Closure, FetchRows
  <2>4. \A f \in Fetch : fetch'[f].kind = "chain" => fetch'[f].by # 0
    BY <1>1, <2>1, <2>2 DEF PollInv
  <2> QED
    BY <1>2, <2>2, <2>3, <2>4 DEF SyncInv, PollInv, PollingContinues, Fetch
<1>5. CASE c # WorldPage
  <2>1. UNCHANGED <<timer, closure, fetch>> /\ wsActive' \in BOOLEAN
    <3>1. wsActive' \in {FALSE, wsActive}
      BY <1>5 DEF Unmount
    <3> QED
      BY <1>1, <1>5, <3>1 DEF Unmount, PollInv, PageTypeOK
  <2>4. Mounted' <=> Mounted
    BY <1>5 DEF Unmount, Mounted
  <2>2. PageTypeOK'
    BY <1>1, <1>3, <2>1 DEF PollInv, PageTypeOK, Fetch, Closure
  <2>3. PollInv'
    BY <1>1, <1>3, <2>1, <2>2, <2>4, ChainStays DEF PollInv
  <2> QED
    BY <1>2, <2>3 DEF SyncInv
<1> QED
  BY <1>4, <1>5

(* onopen of a socket that still has its handlers.                          *)
LEMMA SocketOpensKeeps == ASSUME SyncInv, NEW s \in Sock, SocketOpens(s) PROVE SyncInv'
<1>1. SocketInv /\ PollInv
  BY DEF SyncInv
<1>2. s \in wired <=> s = worldSocket
  BY <1>1, SyncAssumption DEF SocketInv, SharedSocket, Sock
<1>3. /\ sock' = [sock EXCEPT ![s] = "open"]
      /\ UNCHANGED <<holders, wired, worldSocket, reconnect, world, view, hidden, closure, seen, timer, fetch>>
  BY DEF SocketOpens, pollVars
<1>4. SocketInv'
  <2>1. sockUp' \in BOOLEAN
    BY <1>1 DEF SocketOpens, SocketInv, SocketTypeOK
  <2>2. SocketTypeOK'
    BY <1>1, <1>3, <2>1 DEF SocketInv, SocketTypeOK, Sock
  <2>3. CASE s \in wired
    <3>1. sockUp' = TRUE
      BY <2>3 DEF SocketOpens
    <3>2. sock'[worldSocket] = "open" /\ worldSocket # 0
      BY <1>1, <1>2, <1>3, <2>3 DEF SocketInv, SocketTypeOK, Sock
    <3> QED
      BY <1>1, <1>3, <2>2, <3>1, <3>2 DEF SocketInv, SharedSocket
  <2>4. CASE s \notin wired
    <3>1. sockUp' = sockUp
      BY <2>4 DEF SocketOpens
    <3>2. worldSocket # 0 => sock'[worldSocket] = sock[worldSocket]
      BY <1>1, <1>2, <1>3, <2>4 DEF SocketInv, SocketTypeOK, Sock
    <3>3. (sockUp <=> worldSocket # 0 /\ sock[worldSocket] = "open")'
      BY <1>1, <1>3, <3>1, <3>2 DEF SocketInv, SharedSocket
    <3> QED
      BY <1>1, <1>3, <2>2, <3>2, <3>3 DEF SocketInv, SharedSocket
  <2> QED BY <2>3, <2>4
<1>5. wsActive' \in BOOLEAN /\ Mounted' = Mounted
  <2>1. Mounted' = Mounted
    BY <1>3 DEF Mounted
  <2>2. Mounted \in BOOLEAN
    BY DEF Mounted
  <2>3. wsActive' \in {wsActive, Mounted}
    BY <2>1 DEF SocketOpens
  <2> QED
    BY <1>1, <2>1, <2>2, <2>3 DEF PollInv, PageTypeOK
<1>6. PageTypeOK'
  BY <1>1, <1>3, <1>5 DEF PollInv, PageTypeOK, Fetch, Closure
<1>7. PollInv'
  BY <1>1, <1>3, <1>5, <1>6, ChainStays DEF PollInv
<1> QED
  BY <1>4, <1>7 DEF SyncInv

(* onclose: with a consumer left, a retry is set.                           *)
LEMMA SocketClosesKeeps == ASSUME SyncInv, NEW s \in Sock, SocketCloses(s) PROVE SyncInv'
<1>1. SocketInv /\ PollInv
  BY DEF SyncInv
<1>2. s \in wired <=> s = worldSocket
  BY <1>1, SyncAssumption DEF SocketInv, SharedSocket, Sock
<1>3. /\ sock' = [sock EXCEPT ![s] = "free"] /\ wired' = wired \ {s}
      /\ UNCHANGED <<holders, world, view, hidden, closure, seen, timer, fetch>>
  BY DEF SocketCloses, pollVars
<1>4. SocketInv'
  <2>1. sock' \in [Sock -> {"free", "opening", "open", "closing"}]
    BY <1>1, <1>3 DEF SocketInv, SocketTypeOK, Sock
  <2>2. CASE s \in wired
    <3>1. worldSocket' = 0 /\ sockUp' = FALSE /\ reconnect' = (reconnect \/ holders # {})
      BY <2>2 DEF SocketCloses
    <3>2. wired' = {} /\ holders # {}
      BY <1>1, <1>2, <1>3, <2>2 DEF SocketInv, SharedSocket, Sock
    <3>3. reconnect' = TRUE
      BY <3>1, <3>2
    <3>4. SocketTypeOK'
      BY <1>1, <1>3, <2>1, <3>1, <3>2, <3>3, Bounds DEF SocketInv, SocketTypeOK, Sock
    <3> QED
      BY <1>3, <3>1, <3>2, <3>3, <3>4 DEF SocketInv, SharedSocket
  <2>3. CASE s \notin wired
    <3>1. UNCHANGED <<worldSocket, sockUp, reconnect, wired>>
      BY <1>3, <2>3 DEF SocketCloses
    <3>2. worldSocket # 0 => sock'[worldSocket] = sock[worldSocket]
      BY <1>1, <1>2, <1>3, <2>3 DEF SocketInv, SocketTypeOK, Sock
    <3>3. SocketTypeOK'
      BY <1>1, <1>3, <2>1, <3>1 DEF SocketInv, SocketTypeOK, Sock
    <3>4. (sockUp <=> worldSocket # 0 /\ sock[worldSocket] = "open")'
      BY <1>1, <3>1, <3>2 DEF SocketInv, SharedSocket
    <3> QED
      BY <1>1, <1>3, <3>1, <3>2, <3>3, <3>4 DEF SocketInv, SharedSocket
  <2> QED BY <2>2, <2>3
<1>5. wsActive' \in BOOLEAN /\ Mounted' = Mounted
  BY <1>1, <1>3 DEF SocketCloses, PollInv, PageTypeOK, Mounted
<1>6. PageTypeOK'
  BY <1>1, <1>3, <1>5 DEF PollInv, PageTypeOK, Fetch, Closure
<1>7. PollInv'
  BY <1>1, <1>3, <1>5, <1>6, ChainStays DEF PollInv
<1> QED
  BY <1>4, <1>7 DEF SyncInv

(* The retry connects again.                                                *)
LEMMA ReconnectFiresKeeps == ASSUME SyncInv, ReconnectFires PROVE SyncInv'
<1>1. SocketInv /\ PollInv
  BY DEF SyncInv
<1>2. holders # {} /\ holders \subseteq Consumer
  BY <1>1 DEF ReconnectFires, SocketInv, SocketTypeOK, SharedSocket
<1>3. SocketInv'
  BY <1>1, <1>2, ConnectKeeps DEF ReconnectFires
<1>4. UNCHANGED <<holders, wsActive, world, view, hidden, closure, seen, timer, fetch>> /\ Mounted' = Mounted
  BY DEF ReconnectFires, pollVars, Mounted
<1>5. PageTypeOK'
  BY <1>1, <1>4 DEF PollInv, PageTypeOK, Fetch, Closure
<1>6. PollInv'
  BY <1>1, <1>4, <1>5, ChainStays DEF PollInv
<1> QED
  BY <1>3, <1>6 DEF SyncInv

(* A pushed message makes the page fetch.                                   *)
LEMMA WorldMessageKeeps == ASSUME SyncInv, WorldMessage PROVE SyncInv'
<1>1. SocketInv /\ PollInv
  BY DEF SyncInv
<1>2. SocketInv'
  BY <1>1, SocketsRest DEF WorldMessage
<1>3. UNCHANGED <<wsActive, world, view, hidden, closure, seen, timer>> /\ Mounted' = Mounted
  BY DEF WorldMessage, pollVars, socketVars, Mounted
<1>4. /\ fetch' \in [Fetch -> FetchRows]
      /\ \A f \in Fetch : fetch[f].kind = "chain" => fetch'[f] = fetch[f]
      /\ \A f \in Fetch : fetch'[f].kind = "chain" => fetch'[f].by # 0
  BY <1>1, AskKeeps, SyncAssumption DEF WorldMessage, FetchKinds
<1>5. PageTypeOK'
  BY <1>1, <1>3, <1>4 DEF PollInv, PageTypeOK, Fetch, Closure, FetchRows
<1>6. PollInv'
  BY <1>1, <1>3, <1>4, <1>5, ChainStays DEF PollInv
<1> QED
  BY <1>2, <1>6 DEF SyncInv

(* The page, made anew, drops its first fetch and sends another.            *)
LEMMA RefreshKeeps == ASSUME SyncInv, Refresh PROVE SyncInv'
<1>1. SocketInv /\ PollInv
  BY DEF SyncInv
<1>2. SocketInv'
  BY <1>1, SocketsRest DEF Refresh
<1>3. UNCHANGED <<wsActive, world, view, hidden, closure, seen, timer>> /\ Mounted' = Mounted
  BY DEF Refresh, pollVars, socketVars, Mounted
<1>4. /\ fetch' \in [Fetch -> FetchRows]
      /\ \A f \in Fetch : fetch[f].kind = "chain" => fetch'[f] = fetch[f]
      /\ \A f \in Fetch : fetch'[f].kind = "chain" => fetch'[f].by # 0
  <2>1. Min(FreeFetch) \in FreeFetch
    BY FreeNumbers DEF Refresh
  <2>2. fetch[Min(FreeFetch)].kind = "none"
    BY <2>1 DEF FreeFetch, NoFetch
  <2>3. \A f \in Fetch : /\ Dropped(f) \in FetchRows
                         /\ fetch[f].kind = "chain" => Dropped(f) = fetch[f]
                         /\ Dropped(f).kind = "chain" => fetch[f].kind = "chain"
    BY <1>1 DEF Dropped, PollInv, PageTypeOK, FetchKinds, FetchRows
  <2>4. [kind |-> "initial", by |-> 0, ver |-> world] \in FetchRows
    BY <1>1, SyncAssumption DEF PollInv, PageTypeOK, FetchKinds, FetchRows
  <2>5. \A f \in Fetch : fetch'[f] = IF f = Min(FreeFetch) THEN [kind |-> "initial", by |-> 0, ver |-> world]
                                     ELSE Dropped(f)
    BY DEF Refresh
  <2>6. fetch' = [f \in Fetch |-> fetch'[f]]
    BY DEF Refresh
  <2>7. \A f \in Fetch : fetch[f].kind = "chain" => fetch[f].by # 0
    BY <1>1 DEF PollInv
  <2> QED
    BY <2>2, <2>3, <2>4, <2>5, <2>6, <2>7
<1>5. PageTypeOK'
  BY <1>1, <1>3, <1>4 DEF PollInv, PageTypeOK, Fetch, Closure, FetchRows
<1>6. PollInv'
  BY <1>1, <1>3, <1>4, <1>5, ChainStays DEF PollInv
<1> QED
  BY <1>2, <1>6 DEF SyncInv

(* A timer becomes a link of the chain of its closure.                      *)
LEMMA PollTimerFiresKeeps == ASSUME SyncInv, NEW c \in Closure, PollTimerFires(c) PROVE SyncInv'
<1>1. SocketInv /\ PollInv
  BY DEF SyncInv
<1>2. SocketInv'
  BY <1>1, SocketsRest DEF PollTimerFires
<1>3. UNCHANGED <<wsActive, world, view, hidden, closure, seen>> /\ Mounted' = Mounted /\ timer' = timer \ {c}
  BY DEF PollTimerFires, socketVars, Mounted
<1>4. c \in 0..MaxClosure /\ c # 0
  BY SyncAssumption DEF Closure
<1>5. /\ fetch' \in [Fetch -> FetchRows]
      /\ \A f \in Fetch : fetch[f].kind = "chain" => fetch'[f] = fetch[f]
      /\ \A f \in Fetch : fetch'[f].kind = "chain" => fetch'[f].by # 0
      /\ \E f \in Fetch : fetch'[f].kind = "chain" /\ fetch'[f].by = c
  BY <1>1, <1>4, AskKeeps DEF PollTimerFires, FetchKinds
<1>6. PageTypeOK'
  BY <1>1, <1>3, <1>5 DEF PollInv, PageTypeOK, Fetch, Closure, FetchRows
<1>7. PollingContinues'
  <2> SUFFICES ASSUME Mounted, closure # 0, ~hidden, closure \notin timer'
               PROVE  \E f \in Fetch : fetch'[f].kind = "chain" /\ fetch'[f].by = closure
    BY <1>3 DEF PollingContinues, Fetch
  <2>1. CASE closure = c
    BY <1>5, <2>1
  <2>2. CASE closure # c
    <3>1. PICK f \in Fetch : fetch[f].kind = "chain" /\ fetch[f].by = closure
      BY <1>1, <1>3, <2>2 DEF PollInv, PollingContinues
    <3> QED
      BY <1>5, <3>1
  <2> QED BY <2>1, <2>2
<1>8. (\A f \in Fetch : fetch[f].kind = "chain" => fetch[f].by # 0)' /\ (~Mounted => closure = 0)'
  BY <1>1, <1>3, <1>5 DEF PollInv, Fetch
<1> QED
  BY <1>2, <1>6, <1>7, <1>8 DEF SyncInv, PollInv

(* An answer, or an error, of a link sets the next timer.                   *)
LEMMA FetchAnsweredKeeps ==
  ASSUME SyncInv, NEW f \in Fetch, NEW ok \in BOOLEAN, FetchAnswered(f, ok)
  PROVE  SyncInv'
<1>1. SocketInv /\ PollInv
  BY DEF SyncInv
<1>2. SocketInv'
  BY <1>1, SocketsRest DEF FetchAnswered
<1>3. UNCHANGED <<wsActive, world, hidden, closure, seen>> /\ Mounted' = Mounted
  BY DEF FetchAnswered, socketVars, Mounted
<1>4. fetch' = [fetch EXCEPT ![f] = NoFetch]
  BY DEF FetchAnswered
<1>5. /\ fetch' \in [Fetch -> FetchRows]
      /\ \A g \in Fetch : fetch'[g].kind = "chain" => fetch'[g].by # 0
      /\ \A g \in Fetch : g # f => fetch'[g] = fetch[g]
  <2>1. NoFetch \in FetchRows /\ NoFetch.kind = "none"
    BY SyncAssumption DEF NoFetch, FetchKinds, FetchRows
  <2>2. fetch \in [Fetch -> FetchRows] /\ \A g \in Fetch : fetch[g].kind = "chain" => fetch[g].by # 0
    BY <1>1 DEF PollInv, PageTypeOK, FetchRows
  <2>3. \A g \in Fetch : fetch'[g] = IF g = f THEN NoFetch ELSE fetch[g]
    BY <1>4, <2>2
  <2> QED
    BY <1>4, <2>1, <2>2, <2>3
<1>6. view' \in [kind : {"loading", "guide", "world", "error"}, ver : 0..MaxWorld]
  <2>1. fetch[f].ver \in 0..MaxWorld /\ view \in [kind : {"loading", "guide", "world", "error"}, ver : 0..MaxWorld]
    BY <1>1 DEF PollInv, PageTypeOK
  <2>2. Shown(fetch[f].ver) \in [kind : {"loading", "guide", "world", "error"}, ver : 0..MaxWorld]
    BY <2>1 DEF Shown
  <2>3. [kind |-> "error", ver |-> 0] \in [kind : {"loading", "guide", "world", "error"}, ver : 0..MaxWorld]
    BY SyncAssumption
  <2>4. view' \in {view, Shown(fetch[f].ver), [kind |-> "error", ver |-> 0]}
    BY DEF FetchAnswered
  <2> QED
    BY <2>1, <2>2, <2>3, <2>4
<1>7. timer \subseteq timer' /\ (fetch[f].kind = "chain" => fetch[f].by \in timer')
  BY DEF FetchAnswered, ChainGoesOn, Schedule
<1>8. timer' \subseteq Closure
  <2>1. timer' \subseteq timer \cup {fetch[f].by} /\ (fetch[f].kind # "chain" => timer' = timer)
    BY DEF FetchAnswered, ChainGoesOn, Schedule
  <2>2. fetch[f].kind = "chain" => fetch[f].by \in Closure
    BY <1>1, SyncAssumption DEF PollInv, PageTypeOK, Closure
  <2> QED
    BY <1>1, <2>1, <2>2 DEF PollInv, PageTypeOK
<1>9. PollingContinues'
  <2> SUFFICES ASSUME Mounted, closure # 0, ~hidden, closure \notin timer'
               PROVE  \E g \in Fetch : fetch'[g].kind = "chain" /\ fetch'[g].by = closure
    BY <1>3 DEF PollingContinues, Fetch
  <2>1. PICK g \in Fetch : fetch[g].kind = "chain" /\ fetch[g].by = closure
    BY <1>1, <1>7 DEF PollInv, PollingContinues
  <2>2. g # f
    BY <1>7, <2>1
  <2> QED
    BY <1>5, <2>1, <2>2
<1>10. PageTypeOK'
  BY <1>1, <1>3, <1>5, <1>6, <1>8 DEF PollInv, PageTypeOK, Fetch, Closure, FetchRows
<1>11. (\A g \in Fetch : fetch[g].kind = "chain" => fetch[g].by # 0)' /\ (~Mounted => closure = 0)'
  BY <1>1, <1>3, <1>5 DEF PollInv, Fetch
<1> QED
  BY <1>2, <1>9, <1>10, <1>11 DEF SyncInv, PollInv

(* A new closure clears the timer of the old one and sets its own.          *)
LEMMA PollEffectKeeps == ASSUME SyncInv, PollEffect PROVE SyncInv'
<1>1. SocketInv /\ PollInv
  BY DEF SyncInv
<1>2. SocketInv'
  BY <1>1, SocketsRest DEF PollEffect
<1>3. PICK c \in Closure : closure' = c /\ timer' = (timer \ {closure}) \cup {c} /\ seen' = wsActive
  BY DEF PollEffect
<1>4. c \in 0..MaxClosure
  BY SyncAssumption DEF Closure
<1>5. UNCHANGED <<wsActive, world, view, hidden, fetch>> /\ Mounted' /\ Mounted
  BY DEF PollEffect, socketVars, Mounted
<1>6. PageTypeOK'
  BY <1>1, <1>3, <1>4, <1>5 DEF PollInv, PageTypeOK, Fetch, Closure
<1>7. PollingContinues'
  BY <1>3 DEF PollingContinues
<1>8. (\A g \in Fetch : fetch[g].kind = "chain" => fetch[g].by # 0)'
  BY <1>1, <1>5 DEF PollInv, Fetch
<1> QED
  BY <1>2, <1>5, <1>6, <1>7, <1>8 DEF SyncInv, PollInv

(* A hidden page owes no poll.                                              *)
LEMMA HideKeeps == ASSUME SyncInv, Hide PROVE SyncInv'
<1>1. SocketInv /\ PollInv
  BY DEF SyncInv
<1>2. SocketInv'
  BY <1>1, SocketsRest DEF Hide
<1>3. /\ UNCHANGED <<wsActive, world, view, closure, seen, fetch>> /\ Mounted' = Mounted
      /\ hidden' = TRUE /\ timer' = timer \ {closure}
  BY DEF Hide, socketVars, Mounted
<1>4. PageTypeOK'
  BY <1>1, <1>3 DEF PollInv, PageTypeOK, Fetch, Closure
<1>5. PollInv'
  BY <1>1, <1>3, <1>4, ChainStays DEF PollInv
<1> QED
  BY <1>2, <1>5 DEF SyncInv

(* Shown again, the closure in force sets its timer.                        *)
LEMMA ShowKeeps == ASSUME SyncInv, Show PROVE SyncInv'
<1>1. SocketInv /\ PollInv
  BY DEF SyncInv
<1>2. SocketInv'
  BY <1>1, SocketsRest DEF Show
<1>3. UNCHANGED <<wsActive, world, view, closure, seen>> /\ Mounted' = Mounted /\ hidden' = FALSE
  BY DEF Show, socketVars, Mounted
<1>4. CASE closure = 0
  <2>1. UNCHANGED <<timer, fetch>>
    BY <1>4 DEF Show
  <2>2. PageTypeOK'
    BY <1>1, <1>3, <2>1 DEF PollInv, PageTypeOK, Fetch, Closure
  <2>3. (\A g \in Fetch : fetch[g].kind = "chain" => fetch[g].by # 0)'
    BY <1>1, <2>1 DEF PollInv, Fetch
  <2> QED
    BY <1>2, <1>3, <1>4, <2>2, <2>3 DEF SyncInv, PollInv, PollingContinues
<1>5. CASE closure # 0
  <2>1. timer' = timer \cup {closure} /\ Ask("once", 0)
    BY <1>5 DEF Show, Schedule
  <2>2. /\ fetch' \in [Fetch -> FetchRows]
        /\ \A f \in Fetch : fetch'[f].kind = "chain" => fetch'[f].by # 0
    BY <1>1, <2>1, AskKeeps, SyncAssumption DEF FetchKinds
  <2>3. closure \in Closure
    BY <1>1, <1>5, SyncAssumption DEF PollInv, PageTypeOK, Closure
  <2>4. PageTypeOK'
    BY <1>1, <1>3, <2>1, <2>2, <2>3 DEF PollInv, PageTypeOK, Fetch, Closure, FetchRows
  <2>5. PollingContinues' /\ (~Mounted => closure = 0)'
    BY <1>1, <1>3, <2>1 DEF PollInv, PollingContinues
  <2>6. (\A g \in Fetch : fetch[g].kind = "chain" => fetch[g].by # 0)'
    BY <2>2 DEF Fetch
  <2> QED
    BY <1>2, <2>4, <2>5, <2>6 DEF SyncInv, PollInv
<1> QED
  BY <1>4, <1>5

(* What the daemon does changes nothing the page holds.                     *)
LEMMA WorldMovesKeeps == ASSUME SyncInv, WorldMoves PROVE SyncInv'
<1>1. SocketInv /\ PollInv
  BY DEF SyncInv
<1>2. SocketInv'
  BY <1>1, SocketsRest DEF WorldMoves
<1>3. UNCHANGED <<wsActive, view, hidden, closure, seen, timer, fetch>> /\ Mounted' = Mounted
  BY DEF WorldMoves, socketVars, pollVars, Mounted
<1>4. world' \in 0..MaxWorld
  BY <1>1, SyncAssumption DEF WorldMoves, PollInv, PageTypeOK
<1>5. PageTypeOK'
  BY <1>1, <1>3, <1>4 DEF PollInv, PageTypeOK, Fetch, Closure
<1>6. PollInv'
  BY <1>1, <1>3, <1>5, ChainStays DEF PollInv
<1> QED
  BY <1>2, <1>6 DEF SyncInv

(* Nor does a step of something else.                                       *)
LEMMA SyncStutters == ASSUME SyncInv, UNCHANGED syncVars PROVE SyncInv'
<1>1. SocketInv /\ PollInv
  BY DEF SyncInv
<1>2. UNCHANGED <<socketVars, wsActive, world, view, hidden, closure, seen, timer, fetch>>
  BY DEF syncVars, pollVars
<1>3. Mounted' = Mounted
  BY <1>2 DEF socketVars, Mounted
<1>4. SocketInv'
  BY <1>1, <1>2, SocketsRest
<1>5. PageTypeOK'
  BY <1>1, <1>2 DEF PollInv, PageTypeOK, Fetch, Closure
<1>6. PollInv'
  BY <1>1, <1>2, <1>3, <1>5, ChainStays DEF PollInv
<1> QED
  BY <1>4, <1>6 DEF SyncInv

(* useDigitalWorldBootstrap: the shared socket is the only one with its     *)
(* handlers on, and every link of the polling chain belongs to a closure.   *)
THEOREM SyncInvariant == SyncSpec => []SyncInv
<1>1. ASSUME SyncInv, SyncNext PROVE SyncInv'
  BY <1>1, MountKeeps, UnmountKeeps, SocketOpensKeeps, SocketClosesKeeps, ReconnectFiresKeeps,
     WorldMessageKeeps, RefreshKeeps, FetchAnsweredKeeps, PollEffectKeeps, PollTimerFiresKeeps,
     HideKeeps, ShowKeeps, WorldMovesKeeps DEF SyncNext
<1> QED
  BY SyncAtFirst, <1>1, SyncStutters, PTL DEF SyncSpec

(* useDigitalWorldBootstrap: whatever the order of mounts, losses, retries, *)
(* tab switches, answers and errors, the page that shows the world has a    *)
(* socket or a retry, and while it is visible its next poll ahead of it.    *)
THEOREM WorldAlwaysKeepsUp == SyncSpec => []WorldKeepsUp
<1>1. SyncInv => WorldKeepsUp
  BY DEF SyncInv, SocketInv, PollInv, WorldKeepsUp
<1> QED
  BY <1>1, SyncInvariant, PTL

-----------------------------------------------------------------------------
(* The canvas: the drawing and the data the page hands over.               *)

(* What the page hands over is a record of nodes and a list of beings.      *)
LEMMA DataShape ==
  ASSUME NEW d \in WorldData
  PROVE  /\ DOMAIN d = DOMAIN NoData
         /\ \E B, n : d.beings \in [B -> [at : 1..n, status : CanvasStatus]]
<1>1. PICK n \in Layouts : d \in {[nodes |-> n, beings |-> f] : f \in BeingLists(n)}
  BY DEF WorldData
<1>2. PICK f \in BeingLists(n) : d = [nodes |-> n, beings |-> f]
  BY <1>1
<1>3. PICK B \in {C \in SUBSET Being : Primary \in C} : f \in [B -> [at : 1..n, status : CanvasStatus]]
  BY DEF BeingLists
<1> QED
  BY <1>2, <1>3 DEF NoData

(* New data on a mounted canvas is drawn afresh or moves what is drawn.     *)
LEMMA SetDataShows ==
  ASSUME NEW d \in WorldData, SetData(d), DOMAIN sprite = DOMAIN shown.beings,
         DOMAIN walk = DOMAIN NoWalk, walk.on \in BOOLEAN, touched \in BOOLEAN
  PROVE  /\ shown' = d /\ DOMAIN sprite' = DOMAIN d.beings
         /\ DOMAIN walk' = DOMAIN NoWalk /\ walk'.on = walk.on /\ touched' \in BOOLEAN
         /\ ~walk.on => sprite' = d.beings
<1>1. PICK B, n : d.beings \in [B -> [at : 1..n, status : CanvasStatus]]
  BY DataShape
<1>2. CASE d.nodes # shown.nodes \/ DOMAIN d.beings # DOMAIN shown.beings
  <2>1. walk' = Orphaned(walk) /\ sprite' = d.beings /\ touched' = FALSE /\ shown' = d
    BY <1>2 DEF SetData, Drawn
  <2>2. Orphaned(walk).on = walk.on /\ DOMAIN Orphaned(walk) = DOMAIN NoWalk
    BY DEF Orphaned, NoWalk
  <2> QED
    BY <2>1, <2>2
<1>3. CASE ~(d.nodes # shown.nodes \/ DOMAIN d.beings # DOMAIN shown.beings)
  <2>1. /\ shown' = d /\ walk' = walk /\ touched' = (touched /\ walk.on)
        /\ sprite' = [b \in DOMAIN sprite |-> [at |-> IF walk.on THEN sprite[b].at ELSE d.beings[b].at,
                                               status |-> d.beings[b].status]]
    BY <1>3 DEF SetData, isAnimating
  <2>2. DOMAIN sprite = B
    BY <1>1, <1>3
  <2>3. ASSUME ~walk.on PROVE sprite' = d.beings
    <3>1. sprite' = [b \in B |-> [at |-> d.beings[b].at, status |-> d.beings[b].status]]
      BY <2>1, <2>2, <2>3
    <3>2. \A b \in B : d.beings[b] = [at |-> d.beings[b].at, status |-> d.beings[b].status]
      BY <1>1
    <3> QED
      BY <1>1, <3>1, <3>2
  <2> QED
    BY <1>1, <2>1, <2>2, <2>3
<1> QED
  BY <1>2, <1>3

(* Without a canvas nothing is drawn.                                       *)
LEMMA CanvasAtFirst == CanvasInit => CanvasInv
<1> SUFFICES ASSUME CanvasInit PROVE CanvasInv
  OBVIOUS
<1>1. DOMAIN sprite = DOMAIN shown.beings /\ DOMAIN shown = DOMAIN NoData /\ walk = NoWalk
  BY DEF CanvasInit, NoData
<1>2. walk.on = FALSE
  BY <1>1 DEF NoWalk
<1>3. CanvasTypeOK
  <2>1. stage = "none" /\ lateInit = 0 /\ pending = NoData /\ news = NoData /\ touched = FALSE
    BY DEF CanvasInit
  <2>2. stage \in {"none", "initing", "mounted"} /\ lateInit \in 0..1 /\ touched \in BOOLEAN
    <3>1. stage \in {"none", "initing", "mounted"}
      BY <2>1
    <3>2. 0 \in 0..1
      OBVIOUS
    <3>3. lateInit \in 0..1
      BY <2>1, <3>2
    <3>4. touched \in BOOLEAN
      BY <2>1
    <3> QED BY <3>1, <3>3, <3>4
  <2>3. pending \in WorldData \cup {NoData} /\ news \in WorldData \cup {NoData}
    BY <2>1
  <2> QED
    BY <1>2, <2>2, <2>3 DEF CanvasTypeOK
<1> QED
  BY <1>1, <1>2, <1>3 DEF CanvasInit, CanvasInv, CanvasFollowsData, isAnimating

(* init and destroy: what was queued meanwhile is drawn when it is mounted. *)
LEMMA LifeKeeps ==
  ASSUME CanvasInv, MountCanvas \/ InitDone \/ UnmountCanvas \/ LateInit
  PROVE  CanvasInv'
<1>1. CASE MountCanvas
  <2>1. pending' = news' /\ UNCHANGED <<lateInit, pending, news, newsCount, shown, sprite, walk, touched>>
    BY <1>1 DEF MountCanvas, CanvasInv
  <2> QED
    BY <1>1, <2>1 DEF MountCanvas, CanvasInv, CanvasTypeOK, CanvasFollowsData, isAnimating, NoWalk, NoData,
       WorldData, BeingLists
<1>2. CASE InitDone
  <2>1. pending = news /\ ~walk.on /\ UNCHANGED <<lateInit, news, newsCount, walk>>
    BY <1>2 DEF InitDone, CanvasInv, isAnimating
  <2>2. DOMAIN pending = DOMAIN NoData
    BY DataShape DEF CanvasInv, CanvasTypeOK, NoData
  <2> QED
    BY <1>2, <2>1, <2>2 DEF InitDone, Drawn, CanvasInv, CanvasTypeOK, CanvasFollowsData, isAnimating
<1>3. CASE UnmountCanvas
  <2>1. lateInit' \in 0..1
    BY <1>3 DEF UnmountCanvas, CanvasInv, CanvasTypeOK
  <2>2. CanvasTypeOK' /\ walk'.on = FALSE /\ stage' = "none"
    BY <1>3, <2>1 DEF UnmountCanvas, CanvasInv, CanvasTypeOK, NoWalk
  <2>3. DOMAIN shown' = DOMAIN NoData /\ DOMAIN sprite' = DOMAIN shown'.beings
    BY <1>3 DEF UnmountCanvas, NoData
  <2> QED
    BY <1>3, <2>2, <2>3 DEF UnmountCanvas, CanvasInv, CanvasFollowsData, isAnimating, NoWalk, NoData
<1>4. CASE LateInit
  BY <1>4 DEF LateInit, CanvasInv, CanvasTypeOK, CanvasFollowsData, isAnimating
<1> QED
  BY <1>1, <1>2, <1>3, <1>4

(* The page hands over data: it is drawn, or queued.                        *)
LEMMA PageDataKeeps == ASSUME CanvasInv, PageData PROVE CanvasInv'
<1>1. PICK d \in WorldData :
        /\ news' = d
        /\ \/ /\ stage = "initing" /\ pending' = d
              /\ UNCHANGED <<shown, sprite, walk, touched>>
           \/ /\ stage = "mounted" /\ SetData(d)
              /\ UNCHANGED pending
  BY DEF PageData
<1>2. UNCHANGED <<stage, lateInit>>
  BY DEF PageData
<1>3. CASE stage = "initing" /\ pending' = d /\ UNCHANGED <<shown, sprite, walk, touched>>
  BY <1>1, <1>2, <1>3 DEF CanvasInv, CanvasTypeOK, CanvasFollowsData, isAnimating, WorldData, BeingLists, NoData, NoWalk
<1>4. CASE stage = "mounted" /\ SetData(d) /\ UNCHANGED pending
  <2>1. /\ shown' = d /\ DOMAIN sprite' = DOMAIN d.beings
        /\ DOMAIN walk' = DOMAIN NoWalk /\ walk'.on = walk.on /\ touched' \in BOOLEAN
        /\ ~walk.on => sprite' = d.beings
    BY <1>4, SetDataShows DEF CanvasInv, CanvasTypeOK
  <2>2. DOMAIN d = DOMAIN NoData
    BY DataShape
  <2> QED
    BY <1>1, <1>2, <1>4, <2>1, <2>2
    DEF CanvasInv, CanvasTypeOK, CanvasFollowsData, isAnimating, WorldData, BeingLists, NoData, NoWalk
<1> QED
  BY <1>1, <1>3, <1>4

(* Moving the primary being moves no other and makes none.                  *)
LEMMA PrimaryMoves ==
  ASSUME NEW n, NEW status, PrimaryAt(n, status), DOMAIN shown = DOMAIN NoData,
         DOMAIN sprite = DOMAIN shown.beings
  PROVE  DOMAIN shown' = DOMAIN NoData /\ DOMAIN sprite' = DOMAIN shown'.beings
<1>1. DOMAIN shown' = DOMAIN shown /\ DOMAIN sprite' = DOMAIN sprite
  BY DEF PrimaryAt
<1>2. DOMAIN shown'.beings = DOMAIN shown.beings
  BY DEF PrimaryAt
<1> QED
  BY <1>1, <1>2

(* A walk begins on a mounted canvas and moves the primary being.           *)
LEMMA WalksKeep ==
  ASSUME CanvasInv, WalkTick \/ \E n \in 1..Max(Layouts) : TriggerMoveTo(n)
  PROVE  CanvasInv'
<1> DEFINE Frame == /\ UNCHANGED <<stage, lateInit, pending, news, newsCount>> /\ stage = "mounted"
                    /\ DOMAIN shown' = DOMAIN NoData /\ DOMAIN sprite' = DOMAIN shown'.beings
                    /\ DOMAIN walk' = DOMAIN NoWalk /\ walk'.on \in BOOLEAN /\ touched' \in BOOLEAN
                    /\ touched' \/ walk'.on \/ (UNCHANGED <<shown, sprite, touched>> /\ ~walk.on)
<1>1. ASSUME WalkTick PROVE Frame
  <2>1. stage = "mounted" /\ touched' = TRUE /\ UNCHANGED <<stage, lateInit, pending, news, newsCount>>
    BY <1>1 DEF WalkTick, CanvasInv, isAnimating
  <2>2. PICK next, status : PrimaryAt(next, status)
    BY <1>1 DEF WalkTick
  <2>3. DOMAIN shown' = DOMAIN NoData /\ DOMAIN sprite' = DOMAIN shown'.beings
    BY <2>2, PrimaryMoves DEF CanvasInv
  <2>4. DOMAIN walk' = DOMAIN NoWalk /\ walk'.on \in BOOLEAN
    <3>1. PICK after : walk' = NoWalk \/ walk' = [walk EXCEPT !.at = after]
      BY <1>1 DEF WalkTick
    <3>2. DOMAIN NoWalk = {"on", "sprite", "at", "to"} /\ NoWalk.on = FALSE
      BY DEF NoWalk
    <3>3. DOMAIN walk = DOMAIN NoWalk /\ walk.on \in BOOLEAN
      BY DEF CanvasInv, CanvasTypeOK
    <3> QED
      BY <3>1, <3>2, <3>3
  <2> QED
    BY <2>1, <2>3, <2>4
<1>2. ASSUME NEW n \in 1..Max(Layouts), TriggerMoveTo(n) PROVE Frame
  <2> DEFINE at == shown.beings[Primary].at
  <2>1. stage = "mounted" /\ UNCHANGED <<stage, lateInit, pending, news, newsCount>>
    BY <1>2 DEF TriggerMoveTo
  <2>2. walk.on \in BOOLEAN /\ touched \in BOOLEAN /\ DOMAIN walk = DOMAIN NoWalk
    BY DEF CanvasInv, CanvasTypeOK
  <2>3. CASE walk' = NoWalk /\ PrimaryAt(n, "idle") /\ touched' = TRUE
    BY <2>1, <2>2, <2>3, PrimaryMoves DEF CanvasInv, NoWalk
  <2>4. CASE /\ walk' = [on |-> TRUE, sprite |-> "live", at |-> at, to |-> n]
             /\ sprite' = [sprite EXCEPT ![Primary].status = "moving"]
             /\ touched' = TRUE /\ UNCHANGED shown
    BY <2>1, <2>2, <2>4 DEF CanvasInv, NoWalk
  <2>5. CASE /\ walk' = NoWalk
             /\ sprite' = IF walk.on /\ walk.sprite = "live" THEN [sprite EXCEPT ![Primary].status = "idle"]
                          ELSE sprite
             /\ touched' = (touched \/ walk.on)
             /\ UNCHANGED shown
    <3>1. DOMAIN sprite' = DOMAIN sprite
      BY <2>5
    <3>2. walk.on \/ sprite' = sprite
      BY <2>5
    <3> QED
      BY <2>1, <2>2, <2>5, <3>1, <3>2 DEF CanvasInv, NoWalk
  <2> QED
    BY <1>2, <2>3, <2>4, <2>5 DEF TriggerMoveTo
<1>3. ASSUME Frame PROVE CanvasInv'
  BY <1>3 DEF CanvasInv, CanvasTypeOK, CanvasFollowsData, isAnimating, WorldData, BeingLists, NoData, NoWalk
<1> QED
  BY <1>1, <1>2, <1>3

(* WorldApp: the stage has an entity for each being of the data drawn last, *)
(* and what is handed over before it is mounted is queued.                  *)
THEOREM CanvasInvariant == CanvasSpec => []CanvasInv
<1>1. ASSUME CanvasInv, CanvasNext PROVE CanvasInv'
  BY <1>1, LifeKeeps, PageDataKeeps, WalksKeep DEF CanvasNext
<1>2. CanvasInv /\ UNCHANGED canvasVars => CanvasInv'
  BY DEF canvasVars, NoData, NoWalk, CanvasInv, CanvasTypeOK, CanvasFollowsData, isAnimating, WorldData, BeingLists
<1> QED
  BY CanvasAtFirst, <1>1, <1>2, PTL DEF CanvasSpec

(* setData, init, destroy: a mounted canvas shows the data handed over      *)
(* last, whenever it came, until a local walk moves the being.              *)
THEOREM CanvasAlwaysFollows == CanvasSpec => []CanvasFollowsData
<1>1. CanvasInv => CanvasFollowsData
  BY DEF CanvasInv
<1> QED
  BY <1>1, CanvasInvariant, PTL

-----------------------------------------------------------------------------
(* The route: the nodes settled, the distances found, and the ways to them. *)

(* All that the lemmas about ways need to know of the edges.                 *)
Roads == road \in [Node \X Node -> Int]

(* d[i] is the way from the first of s to its i-th node.                    *)
Sums(s, n, d) ==
  /\ d \in [1..n -> Int] /\ d[1] = 0
  /\ \A i \in 1..(n - 1) : d[i + 1] = d[i] + road[<<s[i], s[i + 1]>>]

(* Every sequence of nodes has its sums, ...                                 *)
LEMMA SumsExist ==
  ASSUME Roads, NEW n \in Nat \ {0}, NEW s \in [1..n -> Node]
  PROVE  \E d : Sums(s, n, d)
<1> DEFINE T == {k \in 1..n : ~\E d : Sums(s, k, d)}
<1> SUFFICES ASSUME ~\E d : Sums(s, n, d) PROVE FALSE
  OBVIOUS
<1>1. T # {}
  <2>1. n \in 1..n
    OBVIOUS
  <2> QED
    BY <2>1
<1>a. T \subseteq Nat
  OBVIOUS
<1> HIDE DEF T
<1>2. PICK k \in T : \A l \in T : k <= l
  BY <1>1, <1>a, LeastNumber
<1> USE DEF T
<1>3. k \in 1..n /\ ~\E d : Sums(s, k, d)
  OBVIOUS
<1>4. CASE k = 1
  <2>1. Sums(s, 1, [i \in 1..1 |-> 0])
    BY DEF Sums
  <2> QED
    BY <1>3, <1>4, <2>1
<1>5. CASE k > 1
  <2>1. k - 1 \in 1..n /\ k - 1 \notin T
    BY <1>2, <1>3, <1>5
  <2>2. PICK d : Sums(s, k - 1, d)
    BY <2>1
  <2> DEFINE e == [i \in 1..k |-> IF i = k THEN d[k - 1] + road[<<s[k - 1], s[k]>>] ELSE d[i]]
  <2>3. d[k - 1] \in Int /\ road[<<s[k - 1], s[k]>>] \in Int
    BY <1>3, <1>5, <2>2 DEF Sums, Roads
  <2>4. e \in [1..k -> Int] /\ e[1] = 0
    BY <1>3, <1>5, <2>2, <2>3 DEF Sums
  <2>5. ASSUME NEW i \in 1..(k - 1)
        PROVE  e[i + 1] = e[i] + road[<<s[i], s[i + 1]>>]
    <3>1. CASE i = k - 1
      <4>1. k \in 1..k /\ i \in 1..k /\ i # k /\ i + 1 = k
        BY <1>3, <3>1
      <4>2. e[k] = d[k - 1] + road[<<s[k - 1], s[k]>>] /\ e[i] = d[i]
        BY <4>1
      <4> QED
        BY <3>1, <4>1, <4>2
    <3>2. CASE i # k - 1
      <4>1. i \in 1..((k - 1) - 1) /\ i + 1 \in 1..k /\ i + 1 # k /\ i # k
        BY <1>3, <3>2
      <4>2. d[i + 1] = d[i] + road[<<s[i], s[i + 1]>>]
        BY <2>2, <4>1 DEF Sums
      <4> QED
        BY <4>1, <4>2
    <3> QED
      BY <3>1, <3>2
  <2>6. Sums(s, k, e)
    BY <2>4, <2>5 DEF Sums
  <2> QED
    BY <1>3, <2>6
<1> QED
  BY <1>3, <1>4, <1>5

(* ... and Length is the last of them.                                       *)
LEMMA LengthIsSum ==
  ASSUME Roads, NEW n \in Nat \ {0}, NEW s \in [1..n -> Node], NEW d, Sums(s, n, d)
  PROVE  Length(s) = d[n]
<1>1. Len(s) = n
  BY LenProperties
<1> DEFINE f == CHOOSE f : f = [i \in 1..Len(s) |->
                   IF i = 1 THEN 0 ELSE f[i - 1] + road[<<s[i - 1], s[i]>>]]
<1>2. d = [i \in 1..Len(s) |-> IF i = 1 THEN 0 ELSE d[i - 1] + road[<<s[i - 1], s[i]>>]]
  <2> DEFINE g == [i \in 1..Len(s) |->
                     IF i = 1 THEN 0 ELSE d[i - 1] + road[<<s[i - 1], s[i]>>]]
  <2>1. ASSUME NEW i \in 1..n PROVE d[i] = g[i]
    <3>1. CASE i = 1
      BY <1>1, <3>1 DEF Sums
    <3>2. CASE i # 1
      <4>1. i - 1 \in 1..(n - 1) /\ (i - 1) + 1 = i
        BY <3>2
      <4>2. d[i] = d[i - 1] + road[<<s[i - 1], s[i]>>]
        BY <4>1 DEF Sums
      <4> QED
        BY <1>1, <3>2, <4>2
    <3> QED
      BY <3>1, <3>2
  <2>2. DOMAIN g = 1..n /\ d = [i \in 1..n |-> d[i]] /\ g = [i \in 1..n |-> g[i]]
    BY <1>1 DEF Sums
  <2> QED
    BY <2>1, <2>2
<1>3. f = [i \in 1..Len(s) |-> IF i = 1 THEN 0 ELSE f[i - 1] + road[<<s[i - 1], s[i]>>]]
  BY <1>2
<1> HIDE DEF f
<1>4. \A i \in 1..n : f[i] = IF i = 1 THEN 0 ELSE f[i - 1] + road[<<s[i - 1], s[i]>>]
  BY <1>1, <1>3
<1> DEFINE T == {i \in 1..n : f[i] # d[i]}
<1>5. ASSUME T # {} PROVE FALSE
  <2>a. T \subseteq Nat
    OBVIOUS
  <2> HIDE DEF T
  <2>1. PICK k \in T : \A l \in T : k <= l
    BY <1>5, <2>a, LeastNumber
  <2> USE DEF T
  <2>2. k \in 1..n /\ f[k] # d[k]
    BY <2>1
  <2>3. k # 1
    BY <1>4, <2>2 DEF Sums
  <2>4. k - 1 \in 1..n /\ k - 1 \in 1..(n - 1) /\ (k - 1) + 1 = k
    BY <2>2, <2>3
  <2>5. f[k - 1] = d[k - 1]
    BY <2>1, <2>4
  <2>6. d[k] = d[k - 1] + road[<<s[k - 1], s[k]>>]
    BY <2>4 DEF Sums
  <2> QED
    BY <1>4, <2>2, <2>3, <2>5, <2>6
<1>6. f[n] = d[n]
  BY <1>5
<1> QED
  BY <1>1, <1>6 DEF Length, f

-----------------------------------------------------------------------------
(* A way from "from" to p whose every node but the last is settled, each     *)
(* found from the one before it.                                             *)
Trail(p, n, s) ==
  /\ n \in 1..NodeCount /\ s \in [1..n -> Node] /\ s[1] = from /\ s[n] = p
  /\ \A i, j \in 1..n : s[i] = s[j] => i = j
  /\ \A i \in 1..(n - 1) : /\ s[i] \in visited /\ previous[s[i + 1]] = s[i]
                           /\ road[<<s[i], s[i + 1]>>] # NoEdge
  /\ previous[from] = 0

(* The turns of the walk back over a trail: its last nodes.                  *)
LastNodes(n, s, m) == [i \in 1..m |-> s[(n - m) + i]]

(* reconstructPath: the walk back over a trail to the target returns it.     *)
LEMMA WalkBackIsTrail ==
  ASSUME NEW n, NEW s, Trail(to, n, s)
  PROVE  WalkBack = s
<1>0. /\ NodeCount \in Nat \ {0} /\ Node = 1..NodeCount /\ n \in 1..NodeCount
      /\ s \in [1..n -> Node] /\ s[n] = to /\ s[1] = from /\ previous[from] = 0
  BY RouteAssumption DEF Node, Trail
<1> DEFINE Least(k) == IF k < n THEN k ELSE n
           Turn(k, h) == IF k = 1 THEN <<to>>
                         ELSE IF previous[Head(h[k - 1])] = 0 THEN h[k - 1]
                         ELSE <<previous[Head(h[k - 1])]>> \o h[k - 1]
           w == [k \in 1..NodeCount |-> LastNodes(n, s, Least(k))]
           f == CHOOSE f : f = [k \in 1..NodeCount |->
                  IF k = 1 THEN <<to>>
                  ELSE IF previous[Head(f[k - 1])] = 0 THEN f[k - 1]
                  ELSE <<previous[Head(f[k - 1])]>> \o f[k - 1]]
<1>1. ASSUME NEW k \in 1..NodeCount
      PROVE  LastNodes(n, s, Least(k)) = Turn(k, w)
  <2>0. k \in Nat /\ n \in Nat /\ 1 <= n
    BY <1>0
  <2>1. CASE k = 1
    <3>1. Least(1) = 1
      BY <2>0
    <3>2. LastNodes(n, s, 1) = <<to>>
      BY <1>0, <2>0 DEF LastNodes
    <3> QED
      BY <2>1, <3>1, <3>2
  <2>2. CASE k > 1
    <3> DEFINE m == Least(k - 1)
    <3>1. m \in 1..n /\ m \in Nat /\ k - 1 \in 1..NodeCount /\ n - m \in Nat
      BY <1>0, <2>0, <2>2
    <3>2. w[k - 1] = LastNodes(n, s, m)
      BY <3>1
    <3> HIDE DEF m, w
    <3>3. /\ LastNodes(n, s, m) \in [1..m -> Node]
          /\ LastNodes(n, s, m) \in Seq(Node) /\ Len(LastNodes(n, s, m)) = m
          /\ \A i \in 1..m : LastNodes(n, s, m)[i] = s[(n - m) + i]
      <4>1. \A i \in 1..m : (n - m) + i \in 1..n
        BY <2>0, <3>1
      <4>2. LastNodes(n, s, m) \in [1..m -> Node]
        BY <1>0, <4>1 DEF LastNodes
      <4> QED
        BY <3>1, <4>2 DEF LastNodes
    <3>4. Head(LastNodes(n, s, m)) = s[(n - m) + 1]
      BY <3>1, <3>3
    <3>5. CASE m = n
      <4>1. Least(k) = n
        BY <2>0, <2>2, <3>5 DEF m
      <4>2. previous[Head(w[k - 1])] = 0
        BY <1>0, <2>0, <3>2, <3>4, <3>5
      <4> QED
        BY <2>2, <3>2, <3>5, <4>1, <4>2
    <3>6. CASE m # n
      <4>1. m = k - 1 /\ Least(k) = k /\ n - m \in 1..(n - 1) /\ n - k \in Nat /\ k <= n
        BY <2>0, <2>2, <3>6 DEF m
      <4>2. previous[Head(w[k - 1])] = s[n - m]
        <5>1. previous[s[(n - m) + 1]] = s[n - m]
          BY <4>1 DEF Trail
        <5> QED
          BY <3>2, <3>4, <5>1
      <4>3. s[n - m] \in Node /\ s[n - m] # 0
        BY <1>0, <4>1
      <4> DEFINE l == LastNodes(n, s, k)
                 r == <<s[n - m]>> \o LastNodes(n, s, m)
      <4>4. l \in Seq(Node) /\ Len(l) = k /\ \A i \in 1..k : l[i] = s[(n - k) + i]
        <5>1. \A i \in 1..k : (n - k) + i \in 1..n
          BY <2>0, <4>1
        <5>2. l \in [1..k -> Node]
          BY <1>0, <5>1 DEF LastNodes
        <5> QED
          BY <2>0, <5>2 DEF LastNodes
      <4>5. r \in Seq(Node) /\ Len(r) = k
        BY <2>0, <3>3, <4>1, <4>3
      <4>6. \A i \in 1..k : l[i] = r[i]
        <5> TAKE i \in 1..k
        <5>1. CASE i = 1
          BY <2>0, <3>3, <4>1, <4>3, <4>4, <5>1
        <5>2. CASE i # 1
          <6>1. i - 1 \in 1..m /\ (n - m) + (i - 1) = (n - k) + i
            BY <2>0, <4>1, <5>2
          <6>2. r[i] = LastNodes(n, s, m)[i - 1]
            BY <2>0, <3>3, <4>1, <4>3, <5>2
          <6> QED
            BY <3>3, <4>4, <6>1, <6>2
        <5> QED
          BY <5>1, <5>2
      <4>7. l = r
        BY <4>4, <4>5, <4>6, SeqEqual
      <4> QED
        <5>1. Turn(k, w) = <<previous[Head(w[k - 1])]>> \o w[k - 1]
          BY <2>2, <4>2, <4>3
        <5>2. Turn(k, w) = r
          BY <3>2, <4>2, <5>1
        <5>3. LastNodes(n, s, Least(k)) = l
          BY <4>1
        <5> QED
          BY <4>7, <5>2, <5>3
    <3> QED
      BY <3>5, <3>6
  <2> QED
    BY <2>0, <2>1, <2>2
<1>2. w = [k \in 1..NodeCount |-> Turn(k, w)]
  BY <1>1
<1>3. f = [k \in 1..NodeCount |-> Turn(k, f)]
  BY <1>2
<1>4. WalkBack = f[NodeCount]
  BY DEF WalkBack
<1> HIDE DEF f
<1>5. \A k \in 1..NodeCount : f[k] = Turn(k, f)
  BY <1>3
<1>6. \A k \in 1..NodeCount : w[k] = Turn(k, w)
  BY <1>1
<1> HIDE DEF w
<1> DEFINE T == {k \in 1..NodeCount : f[k] # w[k]}
<1>7. ASSUME T # {} PROVE FALSE
  <2>a. T \subseteq Nat
    OBVIOUS
  <2> HIDE DEF T
  <2>1. PICK k \in T : \A l \in T : k <= l
    BY <1>7, <2>a, LeastNumber
  <2> USE DEF T
  <2>2. k \in 1..NodeCount /\ f[k] # w[k]
    BY <2>1
  <2>3. k = 1 \/ k - 1 \in 1..NodeCount
    BY <1>0, <2>2
  <2>4. k = 1 \/ f[k - 1] = w[k - 1]
    BY <1>0, <2>1, <2>2, <2>3
  <2> QED
    BY <1>5, <1>6, <2>2, <2>4
<1>8. NodeCount \in 1..NodeCount /\ w[NodeCount] = LastNodes(n, s, n)
  BY <1>0 DEF w
<1>9. LastNodes(n, s, n) = s
  <2>1. \A i \in 1..n : (n - n) + i = i
    BY <1>0
  <2> QED
    BY <1>0, <2>1 DEF LastNodes
<1> QED
  BY <1>4, <1>7, <1>8, <1>9

(* No node is on a trail twice, so it has at most as many as there are.      *)
LEMMA FewNodes ==
  ASSUME NEW n \in Nat, NEW s \in [1..n -> Node], \A i, j \in 1..n : s[i] = s[j] => i = j
  PROVE  n <= NodeCount
<1>1. NodeCount \in Nat
  BY RouteAssumption
<1>2. /\ IsFiniteSet(1..n) /\ Cardinality(1..n) = n
      /\ IsFiniteSet(Node) /\ Cardinality(Node) = NodeCount
  BY <1>1, FS_Interval DEF Node
<1>3. ASSUME NodeCount < n PROVE FALSE
  <2>1. \E x, y \in 1..n : x # y /\ s[x] = s[y]
    BY <1>2, <1>3, FS_PigeonHole
  <2> QED
    BY <2>1
<1> QED
  BY <1>1, <1>3

-----------------------------------------------------------------------------
(* The types of the search.                                                  *)
RouteTyped ==
  /\ road \in [Node \X Node -> Int] /\ from \in Node /\ to \in Node
  /\ distances \in [Node -> Int] /\ previous \in [Node -> 0..NodeCount]
  /\ visited \subseteq Node /\ route.state \in {"search", "found", "none"}

(* A node with a finite distance.                                            *)
IsReached(p) == distances[p] # Unreached

(* Every distance is one of a trail; ...                                     *)
TrailsKnown ==
  \A p \in Node : IsReached(p) =>
    \E n, s, d : Trail(p, n, s) /\ Sums(s, n, d) /\ d[n] = distances[p]

(* ... the settled nodes are the nearest ones, and whatever a road leads to  *)
(* from one of them is no farther than over it.                              *)
SettledNear ==
  /\ \A v \in visited : IsReached(v) /\ \A q \in Open : distances[v] <= distances[q]
  /\ \A v \in visited, q \in Node : road[<<v, q>>] # NoEdge =>
       IsReached(q) /\ distances[q] <= distances[v] + road[<<v, q>>]

(* A search that runs has seen that no distance is negative.                 *)
NoNegative ==
  /\ \A p \in Node : IsReached(p) => distances[p] >= 0
  /\ \A p, q \in Node : road[<<p, q>>] # NoEdge => road[<<p, q>>] >= 0
  /\ \A p \in Node : road[<<p, p>>] = NoEdge

(* What holds of a search that is not over.                                  *)
SearchInv ==
  route.state = "search" =>
    /\ from # to /\ to \notin visited /\ distances[from] = 0
    /\ NoNegative /\ TrailsKnown /\ SettledNear

(* The inductive invariant of the route search.                              *)
RouteInv == RouteTyped /\ SearchInv /\ RouteIsShortest

(* The node settled next is open, and none of the open ones is nearer.       *)
LEMMA NearestOpen ==
  ASSUME RouteTyped, SearchInv, route.state = "search", Open # {}
  PROVE  /\ nearest \in Open /\ nearest \in Node /\ nearest \notin visited
         /\ IsReached(nearest) /\ \A q \in Open : distances[nearest] <= distances[q]
<1>0. Open \subseteq Node /\ Node \subseteq Nat
  BY RouteAssumption DEF Open, Node
<1> DEFINE D == {distances[p] : p \in Open}
<1>1. D \subseteq Nat /\ D # {}
  <2>1. ASSUME NEW p \in Open PROVE distances[p] \in Nat
    <3>1. p \in Node /\ IsReached(p)
      BY DEF Open, IsReached
    <3>2. distances[p] \in Int /\ distances[p] >= 0
      BY <3>1 DEF RouteTyped, SearchInv, NoNegative
    <3> QED
      BY <3>2
  <2>2. PICK p : p \in Open
    OBVIOUS
  <2>3. distances[p] \in D
    BY <2>2
  <2> QED
    BY <2>1, <2>3
<1> HIDE DEF D
<1>2. PICK x \in D : \A y \in D : x <= y
  BY <1>1, LeastNumber
<1> USE DEF D
<1> DEFINE N == {p \in Open : \A q \in Open : distances[p] <= distances[q]}
<1>3. N \subseteq Nat /\ N # {}
  <2>1. PICK p \in Open : x = distances[p]
    BY <1>2
  <2>2. \A q \in Open : distances[q] \in D
    OBVIOUS
  <2>3. \A q \in Open : distances[p] <= distances[q]
    BY <1>2, <2>1, <2>2
  <2> QED
    BY <1>0, <2>1, <2>3
<1>4. PICK n \in N : \A m \in N : n <= m
  <2> HIDE DEF N
  <2> QED
    BY <1>3, LeastNumber
<1>5. nearest \in N
  <2> HIDE DEF N
  <2>1. Min(N) \in N
    BY <1>4 DEF Min
  <2> QED
    BY <2>1 DEF nearest, N
<1> QED
  BY <1>0, <1>5 DEF Open, IsReached

(* Along any way, the nodes up to the first that is not settled are no       *)
(* farther than the way to them; so what is not settled is found at the edge.*)
LEMMA EdgeOfSettled ==
  ASSUME RouteTyped, SearchInv, route.state = "search",
         NEW s \in Paths, NEW d, Sums(s, Len(s), d)
  PROVE  /\ \A i \in 1..Len(s) : d[i] >= 0 /\ d[i] <= d[Len(s)]
         /\ \E i \in 1..Len(s) : s[i] \in Open /\ distances[s[i]] <= d[i]
<1> DEFINE n == Len(s)
<1>1. /\ n \in Nat /\ n \in 1..NodeCount /\ s \in [1..n -> Node] /\ s[1] = from /\ s[n] = to
      /\ \A i \in 1..(n - 1) : road[<<s[i], s[i + 1]>>] # NoEdge
  <2>1. PICK m \in 1..NodeCount : s \in [1..m -> Node]
    BY DEF Paths
  <2>2. m \in Nat
    BY RouteAssumption
  <2> QED
    BY <2>1, <2>2 DEF Paths
<1> HIDE DEF n
<1>2. /\ d \in [1..n -> Int] /\ d[1] = 0
      /\ \A i \in 1..(n - 1) : d[i + 1] = d[i] + road[<<s[i], s[i + 1]>>]
  BY DEF Sums, n
<1>3. \A i \in 1..(n - 1) : /\ i \in 1..n /\ i + 1 \in 1..n
                            /\ d[i] \in Int /\ d[i + 1] \in Int /\ d[i] <= d[i + 1]
  <2> TAKE i \in 1..(n - 1)
  <2>1. i \in 1..n /\ i + 1 \in 1..n
    BY <1>1
  <2>2. d[i] \in Int /\ d[i + 1] \in Int
    BY <1>2, <2>1
  <2>3. s[i] \in Node /\ s[i + 1] \in Node /\ road[<<s[i], s[i + 1]>>] # NoEdge
    BY <1>1, <2>1
  <2>4. road[<<s[i], s[i + 1]>>] >= 0 /\ road[<<s[i], s[i + 1]>>] \in Int
    BY <2>3 DEF SearchInv, NoNegative, RouteTyped
  <2>5. d[i + 1] = d[i] + road[<<s[i], s[i + 1]>>]
    BY <1>2
  <2> QED
    BY <2>1, <2>2, <2>4, <2>5
<1>4. \A i \in 1..n : d[i] >= 0
  <2> DEFINE T == {i \in 1..n : ~(d[i] >= 0)}
  <2>1. SUFFICES ASSUME T # {} PROVE FALSE
    BY <1>1
  <2>a. T \subseteq Nat
    OBVIOUS
  <2> HIDE DEF T
  <2>2. PICK k \in T : \A l \in T : k <= l
    BY <2>1, <2>a, LeastNumber
  <2> USE DEF T
  <2>3. k \in 1..n /\ ~(d[k] >= 0)
    BY <2>2
  <2>4. k # 1
    BY <1>2, <2>3
  <2>5. k - 1 \in 1..(n - 1) /\ (k - 1) + 1 = k /\ k - 1 \in 1..n
    BY <1>1, <2>3, <2>4
  <2>6. d[k - 1] >= 0
    BY <2>2, <2>5
  <2>7. d[k - 1] <= d[k] /\ d[k] \in Int /\ d[k - 1] \in Int
    BY <1>3, <2>5
  <2> QED
    BY <2>3, <2>6, <2>7
<1>5. \A i \in 1..n : d[i] <= d[n]
  <2> DEFINE T == {j \in 0..(n - 1) : ~(d[n - j] <= d[n])}
  <2>1. SUFFICES ASSUME T # {} PROVE FALSE
    <3>1. ASSUME NEW i \in 1..n PROVE d[i] <= d[n]
      <4>1. n - i \in 0..(n - 1) /\ n - (n - i) = i
        BY <1>1
      <4> QED
        BY <2>1, <4>1
    <3> QED
      BY <3>1
  <2>a. T \subseteq Nat
    OBVIOUS
  <2> HIDE DEF T
  <2>2. PICK k \in T : \A l \in T : k <= l
    BY <2>1, <2>a, LeastNumber
  <2> USE DEF T
  <2>3. k \in 0..(n - 1) /\ ~(d[n - k] <= d[n])
    BY <2>2
  <2>4. d[n] \in Int
    BY <1>1, <1>2
  <2>5. k # 0
    BY <1>1, <2>3, <2>4
  <2>6. k - 1 \in 0..(n - 1) /\ n - k \in 1..(n - 1) /\ (n - k) + 1 = n - (k - 1)
    BY <1>1, <2>3, <2>5
  <2>7. d[n - (k - 1)] <= d[n]
    BY <2>2, <2>6
  <2>8. d[n - k] <= d[(n - k) + 1] /\ d[n - k] \in Int /\ d[(n - k) + 1] \in Int
    BY <1>3, <2>6
  <2> QED
    BY <2>3, <2>4, <2>6, <2>7, <2>8
<1>6. \E i \in 1..n : s[i] \in Open /\ distances[s[i]] <= d[i]
  <2> DEFINE T == {i \in 1..n : s[i] \notin visited}
  <2>1. T # {}
    <3>1. n \in 1..n /\ s[n] \notin visited
      BY <1>1 DEF SearchInv
    <3> QED
      BY <3>1
  <2>a. T \subseteq Nat
    OBVIOUS
  <2> HIDE DEF T
  <2>2. PICK k \in T : \A l \in T : k <= l
    BY <2>1, <2>a, LeastNumber
  <2> USE DEF T
  <2>3. k \in 1..n /\ s[k] \notin visited /\ s[k] \in Node
    BY <1>1, <2>2
  (* Up to k, what is found is no farther than the way.                      *)
  <2> DEFINE U == {i \in 1..k : ~(IsReached(s[i]) /\ distances[s[i]] <= d[i])}
  <2>4. ASSUME U # {} PROVE FALSE
    <3>a. U \subseteq Nat
      OBVIOUS
    <3> HIDE DEF U
    <3>1. PICK i \in U : \A l \in U : i <= l
      BY <2>4, <3>a, LeastNumber
    <3> USE DEF U
    <3>2. i \in 1..k /\ ~(IsReached(s[i]) /\ distances[s[i]] <= d[i])
      BY <3>1
    <3>3. i # 1
      BY <1>1, <1>2, <3>2 DEF SearchInv, IsReached, Unreached
    <3>4. /\ i - 1 \in 1..k /\ i - 1 \in 1..(n - 1) /\ (i - 1) + 1 = i /\ i - 1 \in 1..n
          /\ i - 1 < i /\ i - 1 < k /\ i \in 1..n
      BY <1>1, <2>3, <3>2, <3>3
    <3>5. IsReached(s[i - 1]) /\ distances[s[i - 1]] <= d[i - 1]
      BY <3>1, <3>4
    <3>6. s[i - 1] \in visited
      BY <2>2, <2>3, <3>4
    <3>7. s[i] \in Node /\ s[i - 1] \in Node /\ road[<<s[i - 1], s[i]>>] # NoEdge
      BY <1>1, <3>4
    <3>8. IsReached(s[i]) /\ distances[s[i]] <= distances[s[i - 1]] + road[<<s[i - 1], s[i]>>]
      BY <3>6, <3>7 DEF SearchInv, SettledNear
    <3>9. d[i] = d[i - 1] + road[<<s[i - 1], s[i]>>]
      BY <1>2, <3>4
    <3>10. /\ d[i] \in Int /\ d[i - 1] \in Int /\ road[<<s[i - 1], s[i]>>] \in Int
           /\ distances[s[i]] \in Int /\ distances[s[i - 1]] \in Int
      BY <1>2, <3>4, <3>7 DEF RouteTyped
    <3> QED
      BY <3>2, <3>5, <3>8, <3>9, <3>10
  <2>5. k \in 1..k
    BY <2>3
  <2>6. IsReached(s[k]) /\ distances[s[k]] <= d[k]
    BY <2>4, <2>5
  <2> QED
    BY <2>3, <2>6 DEF Open, IsReached
<1> QED
  BY <1>4, <1>5, <1>6 DEF n

-----------------------------------------------------------------------------
(* findShortestPath before its loop: only the start is reached.              *)
LEMMA RouteStarts ==
  ASSUME RouteInit
  PROVE  RouteInv
<1>0. NodeCount \in Nat \ {0} /\ Node = 1..NodeCount /\ NoEdge \in Int
  BY RouteAssumption DEF Node, NoEdge
<1>1. PICK e : /\ e \in [{p \in Node \X Node : p[1] < p[2]} ->
                         {[dist |-> NoEdge, both |-> FALSE]} \cup [dist : Distances, both : BOOLEAN]]
              /\ road = [p \in Node \X Node |->
                   IF p[1] < p[2] THEN e[p].dist
                   ELSE IF p[1] > p[2] /\ e[<<p[2], p[1]>>].both THEN e[<<p[2], p[1]>>].dist
                   ELSE NoEdge]
  BY DEF RouteInit, AdjacencyLists
<1>2. ASSUME NEW x, NEW y, x \in Node, y \in Node
      PROVE  /\ road[<<x, y>>] \in Int /\ road[<<x, x>>] = NoEdge
  <2>1. x < y => e[<<x, y>>].dist \in Int
    <3> SUFFICES ASSUME x < y PROVE e[<<x, y>>].dist \in Int
      OBVIOUS
    <3>1. <<x, y>> \in {p \in Node \X Node : p[1] < p[2]}
      BY <1>2
    <3>2. \/ e[<<x, y>>] = [dist |-> NoEdge, both |-> FALSE]
          \/ e[<<x, y>>] \in [dist : Distances, both : BOOLEAN]
      BY <1>1, <3>1
    <3>3. CASE e[<<x, y>>] = [dist |-> NoEdge, both |-> FALSE]
      BY <1>0, <3>3
    <3>4. CASE e[<<x, y>>] \in [dist : Distances, both : BOOLEAN]
      <4>1. e[<<x, y>>].dist \in Distances
        BY <3>4
      <4> QED
        BY <4>1, RouteAssumption
    <3> QED
      BY <3>2, <3>3, <3>4
  <2>2. y < x => e[<<y, x>>].dist \in Int
    <3> SUFFICES ASSUME y < x PROVE e[<<y, x>>].dist \in Int
      OBVIOUS
    <3>1. <<y, x>> \in {p \in Node \X Node : p[1] < p[2]}
      BY <1>2
    <3>2. \/ e[<<y, x>>] = [dist |-> NoEdge, both |-> FALSE]
          \/ e[<<y, x>>] \in [dist : Distances, both : BOOLEAN]
      BY <1>1, <3>1
    <3>3. CASE e[<<y, x>>] = [dist |-> NoEdge, both |-> FALSE]
      BY <1>0, <3>3
    <3>4. CASE e[<<y, x>>] \in [dist : Distances, both : BOOLEAN]
      <4>1. e[<<y, x>>].dist \in Distances
        BY <3>4
      <4> QED
        BY <4>1, RouteAssumption
    <3> QED
      BY <3>2, <3>3, <3>4
  <2>3. /\ road[<<x, y>>] = IF x < y THEN e[<<x, y>>].dist
                           ELSE IF x > y /\ e[<<y, x>>].both THEN e[<<y, x>>].dist ELSE NoEdge
        /\ road[<<x, x>>] = IF x < x THEN e[<<x, x>>].dist
                           ELSE IF x > x /\ e[<<x, x>>].both THEN e[<<x, x>>].dist ELSE NoEdge
    BY <1>1, <1>2
  <2>4. x \in Int /\ y \in Int
    BY <1>0, <1>2
  <2> QED
    BY <1>0, <2>1, <2>2, <2>3, <2>4
<1>3. road \in [Node \X Node -> Int]
  <2>1. ASSUME NEW p \in Node \X Node PROVE road[p] \in Int
    <3>1. p = <<p[1], p[2]>> /\ p[1] \in Node /\ p[2] \in Node
      OBVIOUS
    <3> QED
      BY <1>2, <3>1
  <2>2. road = [p \in Node \X Node |-> road[p]]
    BY <1>1
  <2> QED
    BY <2>1, <2>2
<1>4. /\ from \in Node /\ to \in Node /\ visited = {}
      /\ distances = [p \in Node |-> IF p = from THEN 0 ELSE Unreached]
      /\ previous = [p \in Node |-> 0]
      /\ route = IF from = to THEN [state |-> "found", nodes |-> <<from>>, distance |-> 0]
                ELSE IF \E p \in DOMAIN road : road[p] # NoEdge /\ road[p] < 0
                       THEN NoRoute ELSE Searching
  BY DEF RouteInit
<1>5. RouteTyped
  BY <1>0, <1>3, <1>4 DEF RouteTyped, NoRoute, Searching, Unreached
<1>6. Roads
  BY <1>3 DEF Roads
<1>7. Sums(<<from>>, 1, [i \in 1..1 |-> 0])
  BY DEF Sums
<1>8. SearchInv
  <2> SUFFICES ASSUME route.state = "search" PROVE SearchInv
    BY DEF SearchInv
  <2>1. from # to /\ ~\E p \in DOMAIN road : road[p] # NoEdge /\ road[p] < 0
    BY <1>4 DEF NoRoute
  <2>2. \A p, q \in Node : road[<<p, q>>] # NoEdge => road[<<p, q>>] >= 0
    <3> TAKE p, q \in Node
    <3>1. <<p, q>> \in DOMAIN road /\ road[<<p, q>>] \in Int
      BY <1>2, <1>3
    <3> QED
      BY <2>1, <3>1
  <2>3. \A p \in Node : IsReached(p) => p = from /\ distances[p] = 0
    BY <1>4 DEF IsReached
  <2>4. NoNegative
    BY <1>2, <2>2, <2>3 DEF NoNegative
  <2>5. Trail(from, 1, <<from>>)
    BY <1>0, <1>4 DEF Trail
  <2>6. TrailsKnown
    BY <1>7, <2>3, <2>5 DEF TrailsKnown
  <2> QED
    BY <1>4, <2>1, <2>4, <2>6 DEF SearchInv, SettledNear
<1>9. RouteIsShortest
  <2>1. CASE from = to
    <3>1. <<from>> \in [1..1 -> Node] /\ Len(<<from>>) = 1 /\ 1 \in 1..NodeCount
      BY <1>0, <1>4
    <3>2. <<from>> \in Paths
      BY <2>1, <3>1 DEF Paths
    <3>3. Length(<<from>>) = 0
      <4>1. Length(<<from>>) = [i \in 1..1 |-> 0][1]
        <5> DEFINE z == [i \in 1..1 |-> 0]
        <5>1. 1 \in Nat \ {0} /\ Sums(<<from>>, 1, z)
          BY <1>7
        <5> HIDE DEF z
        <5> QED
          BY <1>6, <3>1, <5>1, LengthIsSum DEF z
      <4> QED
        BY <4>1
    <3>4. ASSUME NEW s \in Paths PROVE 0 <= Length(s)
      <4>1. PICK m \in 1..NodeCount : s \in [1..m -> Node]
        BY DEF Paths
      <4>2. m \in Nat \ {0} /\ Len(s) = m
        BY <1>0, <4>1
      <4>3. s[1] = s[m] /\ \A i, j \in 1..m : s[i] = s[j] => i = j
        BY <2>1, <4>2 DEF Paths
      <4>4. m = 1
        BY <4>2, <4>3
      <4>5. Sums(s, 1, [i \in 1..1 |-> 0])
        BY DEF Sums
      <4>6. Length(s) = [i \in 1..1 |-> 0][1]
        <5> DEFINE z == [i \in 1..1 |-> 0]
        <5>1. 1 \in Nat \ {0} /\ Sums(s, 1, z) /\ s \in [1..1 -> Node]
          BY <4>1, <4>4, <4>5
        <5> HIDE DEF z
        <5> QED
          BY <1>6, <5>1, LengthIsSum DEF z
      <4> QED
        BY <4>6
    <3> QED
      BY <1>4, <2>1, <3>2, <3>3, <3>4 DEF RouteIsShortest
  <2>2. CASE from # to
    <3>1. /\ route.state # "found"
          /\ route.state = "none" => \E p \in DOMAIN road : road[p] # NoEdge /\ road[p] < 0
      BY <1>4, <2>2 DEF NoRoute, Searching
    <3> QED
      BY <3>1 DEF RouteIsShortest
  <2> QED
    BY <2>1, <2>2
<1> QED
  BY <1>5, <1>8, <1>9 DEF RouteInv

(* A turn of the loop: the nearest node is settled and its neighbours relaxed. *)
LEMMA SettleNodeKeeps ==
  ASSUME RouteInv, SettleNode
  PROVE  RouteInv'
<1>0. /\ NodeCount \in Nat \ {0} /\ Node = 1..NodeCount
      /\ RouteTyped /\ SearchInv /\ route.state = "search" /\ Open # {} /\ nearest # to
  BY RouteAssumption DEF RouteInv, Node, SettleNode
<1> DEFINE v == nearest
<1>1. /\ v \in Open /\ v \in Node /\ v \notin visited
      /\ IsReached(v) /\ \A q \in Open : distances[v] <= distances[q]
  BY <1>0, NearestOpen
<1> DEFINE alt(p) == distances[v] + road[<<v, p>>]
           better(p) == /\ p \notin visited' /\ road[<<v, p>>] # NoEdge
                        /\ distances[p] = Unreached \/ alt(p) < distances[p]
<1>2. /\ visited' = visited \cup {v} /\ route' = route /\ road' = road /\ from' = from /\ to' = to
      /\ distances' = [p \in Node |-> IF better(p) THEN alt(p) ELSE distances[p]]
      /\ previous'  = [p \in Node |-> IF better(p) THEN v ELSE previous[p]]
  BY DEF SettleNode
<1> HIDE DEF v
<1>3. /\ from # to /\ to \notin visited /\ distances[from] = 0
      /\ NoNegative /\ TrailsKnown /\ SettledNear
  BY <1>0 DEF SearchInv
<1>4. /\ \A p \in Node : distances[p] \in Int /\ road[<<v, p>>] \in Int /\ alt(p) \in Int
      /\ \A p \in Node : distances'[p] = IF better(p) THEN alt(p) ELSE distances[p]
      /\ \A p \in Node : previous'[p] = IF better(p) THEN v ELSE previous[p]
  <2>1. \A p \in Node : distances[p] \in Int /\ road[<<v, p>>] \in Int
    BY <1>0, <1>1 DEF RouteTyped
  <2>2. distances[v] \in Int
    BY <1>1, <2>1
  <2>3. \A p \in Node : alt(p) \in Int
    BY <2>1, <2>2
  <2> HIDE DEF alt, better
  <2> QED
    BY <1>2, <2>1, <2>3
<1>5. distances[v] >= 0
  BY <1>1, <1>3 DEF NoNegative
<1>6. ASSUME NEW p \in Node, better(p)
      PROVE  alt(p) >= distances[v] /\ alt(p) >= 0 /\ alt(p) # Unreached
  <2>1. road[<<v, p>>] >= 0
    BY <1>1, <1>3, <1>6 DEF NoNegative
  <2>2. distances[v] \in Int /\ road[<<v, p>>] \in Int
    BY <1>1, <1>4
  <2> HIDE DEF better
  <2> QED
    BY <1>5, <2>1, <2>2 DEF Unreached
<1>7. ASSUME NEW p \in visited \cup {v}
      PROVE  p \in Node /\ ~better(p) /\ distances'[p] = distances[p] /\ previous'[p] = previous[p]
  BY <1>0, <1>1, <1>2, <1>4 DEF RouteTyped
<1> HIDE DEF better
<1>8. RouteTyped'
  <2>1. distances' \in [Node -> Int] /\ previous' \in [Node -> 0..NodeCount]
    <3>1. \A p \in Node : previous[p] \in 0..NodeCount /\ v \in 0..NodeCount
      BY <1>0, <1>1 DEF RouteTyped
    <3>2. \A p \in Node : distances'[p] \in Int /\ previous'[p] \in 0..NodeCount
      BY <1>4, <3>1
    <3> QED
      BY <1>2, <1>4, <3>1
  <2> QED
    BY <1>0, <1>1, <1>2, <2>1 DEF RouteTyped
<1>9. ASSUME NEW p \in Node
      PROVE  /\ IsReached(p) => IsReached(p)' /\ distances'[p] <= distances[p]
             /\ IsReached(p)' => IF better(p) THEN distances'[p] = alt(p)
                              ELSE IsReached(p) /\ distances'[p] = distances[p]
  <2>1. CASE better(p)
    <3>1. distances'[p] = alt(p) /\ alt(p) # Unreached
      BY <1>4, <1>6, <2>1
    <3>2. IsReached(p) => alt(p) < distances[p]
      BY <2>1 DEF better, IsReached
    <3> QED
      BY <1>4, <2>1, <3>1, <3>2 DEF IsReached
  <2>2. CASE ~better(p)
    <3>1. distances'[p] = distances[p] /\ distances[p] \in Int
      BY <1>4, <2>2
    <3> QED
      BY <1>6, <2>2, <3>1 DEF IsReached
  <2> QED
    BY <2>1, <2>2
<1>10. NoNegative'
  <2>1. ASSUME NEW p \in Node, IsReached(p)' PROVE distances'[p] >= 0
    <3>1. IsReached(p) => distances[p] >= 0
      BY <1>3 DEF NoNegative
    <3> QED
      BY <1>6, <1>9, <2>1, <3>1
  <2> QED
    BY <1>2, <1>3, <2>1 DEF NoNegative
<1>11. from' # to' /\ to' \notin visited' /\ distances'[from'] = 0 /\ ~better(from)
  <2>1. from \in Node /\ IsReached(from)
    BY <1>0, <1>3 DEF RouteTyped, IsReached, Unreached
  <2>2. ~better(from)
    <3>1. ASSUME better(from) PROVE FALSE
      <4>1. alt(from) >= 0
        BY <1>6, <2>1, <3>1
      <4>2. alt(from) < 0
        BY <1>3, <2>1, <3>1 DEF better, IsReached
      <4> QED
        BY <1>4, <2>1, <4>1, <4>2
    <3> QED
      BY <3>1
  <2> QED
    BY <1>0, <1>2, <1>3, <1>4, <2>1, <2>2 DEF v
<1>12. SettledNear'
  <2>1. ASSUME NEW w \in visited' PROVE IsReached(w)' /\ distances'[w] = distances[w] /\ w \in Node
    <3>1. IsReached(w) /\ w \in visited \cup {v}
      BY <1>1, <1>2, <1>3 DEF SettledNear
    <3> QED
      BY <1>7, <1>9, <3>1
  <2>2. ASSUME NEW w \in visited', NEW q \in Open'
        PROVE  distances'[w] <= distances'[q]
    <3>1. q \in Node /\ q \notin visited' /\ IsReached(q)'
      BY <2>2 DEF Open, IsReached
    <3>2. distances[w] <= distances[v]
      BY <1>1, <1>2, <1>3, <1>4 DEF SettledNear
    <3>3. distances[v] <= distances'[q]
      <4>1. CASE better(q)
        BY <1>4, <1>6, <3>1, <4>1
      <4>2. CASE ~better(q)
        <5>1. IsReached(q) /\ distances'[q] = distances[q]
          BY <1>9, <3>1, <4>2
        <5>2. q \in Open
          BY <1>2, <3>1, <5>1 DEF Open, IsReached
        <5> QED
          BY <1>1, <5>1, <5>2
      <4> QED
        BY <4>1, <4>2
    <3>4. distances[w] \in Int /\ distances[v] \in Int /\ distances'[q] \in Int
      BY <1>1, <1>4, <2>1, <3>1
    <3> QED
      BY <2>1, <3>2, <3>3, <3>4
  <2>3. ASSUME NEW w \in visited', NEW q \in Node, road'[<<w, q>>] # NoEdge
        PROVE  IsReached(q)' /\ distances'[q] <= distances'[w] + road'[<<w, q>>]
    <3>0. /\ road[<<w, q>>] \in Int /\ distances[w] \in Int /\ distances[q] \in Int
          /\ distances'[q] \in Int /\ distances'[w] = distances[w] /\ road' = road /\ w \in Node
      BY <1>0, <1>2, <1>4, <2>1 DEF RouteTyped
    <3>1. CASE w \in visited
      <4>1. IsReached(q) /\ distances[q] <= distances[w] + road[<<w, q>>]
        BY <1>2, <1>3, <2>3, <3>1 DEF SettledNear
      <4>2. IsReached(q)' /\ distances'[q] <= distances[q]
        BY <1>9, <4>1
      <4> QED
        BY <3>0, <4>1, <4>2
    <3>2. CASE w = v
      <4>1. CASE better(q)
        BY <1>4, <1>6, <3>0, <3>2, <4>1 DEF IsReached
      <4>2. CASE ~better(q) /\ q \notin visited'
        <5>1. IsReached(q) /\ ~(alt(q) < distances[q])
          BY <2>3, <3>0, <3>2, <4>2 DEF better, IsReached
        <5> QED
          BY <1>4, <1>9, <3>0, <3>2, <4>2, <5>1
      <4>3. CASE q \in visited'
        <5>1. q # v
          BY <1>1, <1>3, <2>3, <3>0, <3>2 DEF NoNegative
        <5>2. q \in visited
          BY <1>2, <4>3, <5>1
        <5>3. distances[q] <= distances[v] /\ IsReached(q)' /\ distances'[q] = distances[q]
          BY <1>1, <1>3, <2>1, <4>3, <5>2 DEF SettledNear
        <5>4. road[<<v, q>>] >= 0
          BY <1>1, <1>3, <2>3, <3>0, <3>2 DEF NoNegative
        <5> QED
          BY <3>0, <3>2, <5>3, <5>4
      <4> QED
        BY <4>1, <4>2, <4>3
    <3> QED
      BY <1>2, <3>1, <3>2
  <2> QED
    BY <2>1, <2>2, <2>3 DEF SettledNear
<1>13. TrailsKnown'
  <2> SUFFICES ASSUME NEW p \in Node, IsReached(p)'
               PROVE  (\E n, s, d : Trail(p, n, s) /\ Sums(s, n, d) /\ d[n] = distances[p])'
    BY DEF TrailsKnown
  <2>0. previous'[from'] = 0
    <3>1. previous[from] = 0
      BY <1>1, <1>3 DEF TrailsKnown, Trail
    <3> QED
      BY <1>0, <1>2, <1>4, <1>11, <3>1 DEF RouteTyped
  <2>1. CASE ~better(p)
    <3>1. IsReached(p) /\ distances'[p] = distances[p]
      BY <1>9, <2>1
    <3>2. PICK n, s, d : Trail(p, n, s) /\ Sums(s, n, d) /\ d[n] = distances[p]
      BY <1>3, <3>1 DEF TrailsKnown
    <3>3. Sums(s, n, d)'
      BY <1>2, <3>2 DEF Sums
    <3>4. ASSUME NEW i \in 1..(n - 1)
          PROVE  s[i] \in visited' /\ previous'[s[i + 1]] = s[i] /\ road'[<<s[i], s[i + 1]>>] # NoEdge
      <4>1. s[i] \in visited /\ previous[s[i + 1]] = s[i] /\ road[<<s[i], s[i + 1]>>] # NoEdge
        BY <3>2 DEF Trail
      <4>2. i + 1 \in 1..n /\ s[i + 1] \in Node
        BY <1>0, <3>2 DEF Trail
      <4>3. ~better(s[i + 1])
        <5>1. CASE i + 1 = n
          BY <2>1, <3>2, <5>1 DEF Trail
        <5>2. CASE i + 1 # n
          <6>1. i + 1 \in 1..(n - 1)
            BY <1>0, <3>2, <4>2, <5>2 DEF Trail
          <6>2. s[i + 1] \in visited
            BY <3>2, <6>1 DEF Trail
          <6> QED
            BY <1>7, <6>2
        <5> QED
          BY <5>1, <5>2
      <4> QED
        BY <1>2, <1>4, <4>1, <4>2, <4>3
    <3>5. Trail(p, n, s)'
      BY <1>2, <2>0, <3>2, <3>4 DEF Trail
    <3> QED
      BY <3>1, <3>2, <3>3, <3>5
  <2>2. CASE better(p)
    <3>1. PICK n, s, d : Trail(v, n, s) /\ Sums(s, n, d) /\ d[n] = distances[v]
      BY <1>1, <1>3 DEF TrailsKnown
    <3>2. /\ n \in 1..NodeCount /\ n \in Nat /\ s \in [1..n -> Node] /\ s[1] = from /\ s[n] = v
          /\ \A i, j \in 1..n : s[i] = s[j] => i = j
          /\ \A i \in 1..(n - 1) : /\ s[i] \in visited /\ previous[s[i + 1]] = s[i]
                                   /\ road[<<s[i], s[i + 1]>>] # NoEdge
      BY <1>0, <3>1 DEF Trail
    <3>3. p \notin visited' /\ road[<<v, p>>] # NoEdge /\ previous'[p] = v /\ distances'[p] = alt(p)
      BY <1>4, <2>2 DEF better
    <3>4. \A i \in 1..n : s[i] \in visited'
      <4> TAKE i \in 1..n
      <4>1. i = n \/ i \in 1..(n - 1)
        BY <3>2
      <4> QED
        BY <1>2, <3>2, <4>1
    <3>a. PICK t : t = [i \in 1..(n + 1) |-> IF i = n + 1 THEN p ELSE s[i]]
      OBVIOUS
    <3>b. PICK e : e = [i \in 1..(n + 1) |-> IF i = n + 1 THEN alt(p) ELSE d[i]]
      OBVIOUS
    <3>5. /\ t \in [1..(n + 1) -> Node] /\ t[n + 1] = p /\ \A i \in 1..n : t[i] = s[i]
      BY <3>2, <3>a
    <3>6. \A i, j \in 1..(n + 1) : t[i] = t[j] => i = j
      BY <3>2, <3>3, <3>4, <3>5
    <3>7. n + 1 \in 1..NodeCount
      <4>1. n + 1 \in Nat
        BY <3>2
      <4>2. n + 1 <= NodeCount
        BY <3>5, <3>6, <4>1, FewNodes
      <4> QED
        BY <1>0, <3>2, <4>2
    <3>8. d \in [1..n -> Int] /\ d[1] = 0
          /\ \A i \in 1..(n - 1) : d[i + 1] = d[i] + road[<<s[i], s[i + 1]>>]
      BY <3>1 DEF Sums
    <3>9. e \in [1..(n + 1) -> Int] /\ e[n + 1] = alt(p) /\ \A i \in 1..n : e[i] = d[i]
      BY <1>4, <3>2, <3>8, <3>b
    <3>10. ASSUME NEW i \in 1..((n + 1) - 1)
           PROVE  /\ t[i] \in visited' /\ previous'[t[i + 1]] = t[i]
                  /\ road'[<<t[i], t[i + 1]>>] # NoEdge
                  /\ e[i + 1] = e[i] + road'[<<t[i], t[i + 1]>>]
      <4>0. i \in 1..n /\ t[i] = s[i] /\ e[i] = d[i] /\ s[i] \in visited'
        BY <3>2, <3>4, <3>5, <3>9
      <4>1. CASE i = n
        BY <1>2, <3>1, <3>2, <3>3, <3>5, <3>9, <4>0, <4>1
      <4>2. CASE i # n
        <5>1. i \in 1..(n - 1) /\ i + 1 \in 1..n /\ t[i + 1] = s[i + 1] /\ e[i + 1] = d[i + 1]
          BY <3>2, <3>5, <3>9, <4>0, <4>2
        <5>2. s[i + 1] \in visited' /\ s[i + 1] \in Node
          BY <3>2, <3>4, <5>1
        <5>3. previous'[s[i + 1]] = previous[s[i + 1]]
          BY <1>2, <1>7, <5>2
        <5> QED
          BY <1>2, <3>2, <3>8, <4>0, <5>1, <5>3
      <4> QED
        BY <4>1, <4>2
    <3>11. Trail(p, n + 1, t)'
      <4>1. t[1] = from'
        BY <1>2, <3>2, <3>5
      <4> QED
        BY <1>2, <2>0, <3>5, <3>6, <3>7, <3>10, <4>1 DEF Trail
    <3>12. Sums(t, n + 1, e)'
      <4>1. e[1] = 0
        BY <3>2, <3>8, <3>9
      <4> QED
        BY <3>9, <3>10, <4>1 DEF Sums
    <3>13. e[n + 1] = distances'[p]
      BY <3>3, <3>9
    <3> QED
      BY <3>11, <3>12, <3>13
  <2> QED
    BY <2>1, <2>2
<1>14. SearchInv'
  BY <1>10, <1>11, <1>12, <1>13 DEF SearchInv
<1>15. RouteIsShortest'
  BY <1>0, <1>2 DEF RouteIsShortest
<1> QED
  BY <1>8, <1>14, <1>15 DEF RouteInv

(* The end of the loop: the target is nearest, or no open node is left.      *)
LEMMA FinishKeeps ==
  ASSUME RouteInv, Finish
  PROVE  RouteInv'
<1>0. /\ NodeCount \in Nat \ {0} /\ Node = 1..NodeCount
      /\ RouteTyped /\ SearchInv /\ route.state = "search"
  BY RouteAssumption DEF RouteInv, Node, Finish
<1>1. /\ road' = road /\ from' = from /\ to' = to
      /\ distances' = distances /\ previous' = previous /\ visited' = visited
      /\ Open # {} => nearest = to
      /\ route' = IF distances[to] = Unreached THEN NoRoute
                 ELSE [state |-> "found", nodes |-> WalkBack, distance |-> distances[to]]
  BY DEF Finish
<1>2. route'.state \in {"found", "none"}
  BY <1>1 DEF NoRoute
<1>3. RouteTyped' /\ SearchInv'
  BY <1>0, <1>1, <1>2 DEF RouteTyped, SearchInv
<1>4. Roads
  BY <1>0 DEF Roads, RouteTyped
<1>5. ASSUME NEW s \in Paths
      PROVE  IsReached(to) /\ distances[to] <= Length(s)
  <2>1. PICK m \in 1..NodeCount : s \in [1..m -> Node]
    BY DEF Paths
  <2>2. m \in Nat \ {0} /\ Len(s) = m
    BY <1>0, <2>1
  <2>3. PICK d : Sums(s, m, d)
    BY <1>4, <2>1, <2>2, SumsExist
  <2>4. Length(s) = d[m]
    BY <1>4, <2>1, <2>2, <2>3, LengthIsSum
  <2>5. /\ \A i \in 1..m : d[i] <= d[m]
        /\ \E i \in 1..m : s[i] \in Open /\ distances[s[i]] <= d[i]
    BY <1>0, <2>2, <2>3, EdgeOfSettled
  <2>6. PICK i \in 1..m : s[i] \in Open /\ distances[s[i]] <= d[i]
    BY <2>5
  <2>7. nearest = to
    BY <1>1, <2>6
  <2>8. IsReached(to) /\ distances[to] <= distances[s[i]]
    BY <1>0, <2>6, <2>7, NearestOpen
  <2>9. distances[to] \in Int /\ distances[s[i]] \in Int /\ d[i] \in Int /\ d[m] \in Int /\ d[i] <= d[m]
    <3>1. \A q \in Node : distances[q] \in Int
      BY <1>0 DEF RouteTyped
    <3>2. to \in Node /\ s[i] \in Node /\ m \in 1..m /\ i \in 1..m
      BY <1>0, <2>1, <2>2 DEF RouteTyped
    <3>3. \A j \in 1..m : d[j] \in Int
      BY <2>3 DEF Sums
    <3> QED
      BY <2>5, <3>1, <3>2, <3>3
  <2> QED
    BY <2>4, <2>6, <2>8, <2>9
<1>6. CASE ~IsReached(to)
  <2>1. Paths = {}
    BY <1>5, <1>6
  <2>2. Paths' = {}
    BY <1>1, <2>1 DEF Paths
  <2>3. route'.state = "none"
    BY <1>1, <1>6 DEF IsReached, NoRoute
  <2>4. RouteIsShortest'
    BY <2>2, <2>3 DEF RouteIsShortest
  <2> QED
    BY <1>3, <2>4 DEF RouteInv
<1>7. CASE IsReached(to)
  <2>1. PICK n, s, d : Trail(to, n, s) /\ Sums(s, n, d) /\ d[n] = distances[to]
    BY <1>0, <1>7 DEF TrailsKnown, SearchInv, RouteTyped
  <2>2. WalkBack = s
    BY <2>1, WalkBackIsTrail
  <2>3. n \in Nat \ {0} /\ n \in 1..NodeCount /\ s \in [1..n -> Node] /\ Len(s) = n
    BY <1>0, <2>1 DEF Trail
  <2>4. Length(s) = distances[to]
    BY <1>4, <2>1, <2>3, LengthIsSum
  <2>5. s \in Paths
    BY <2>1, <2>3 DEF Paths, Trail
  <2>6. route' = [state |-> "found", nodes |-> s, distance |-> distances[to]]
    BY <1>1, <1>7, <2>2 DEF IsReached
  <2>7. Paths' = Paths
    BY <1>1 DEF Paths
  <2>8. \A t : Length(t)' = Length(t)
    BY <1>1 DEF Length
  <2>9. RouteIsShortest'
    BY <1>5, <2>4, <2>5, <2>6, <2>7, <2>8 DEF RouteIsShortest
  <2> QED
    BY <1>3, <2>9 DEF RouteInv
<1> QED
  BY <1>6, <1>7

(* findShortestPath: at every turn each finite distance is the length of a   *)
(* way that "previous" leads back, the settled nodes are the nearest, and no *)
(* edge leads from one of them to a node thought to be farther than over it. *)
THEOREM RouteInvariant == RouteSpec => []RouteInv
<1>1. RouteInit => RouteInv
  BY RouteStarts
<1>2. RouteInv /\ [RouteNext]_routeVars => RouteInv'
  <2> SUFFICES ASSUME RouteInv, [RouteNext]_routeVars PROVE RouteInv'
    OBVIOUS
  <2>1. CASE SettleNode
    BY <2>1, SettleNodeKeeps
  <2>2. CASE Finish
    BY <2>2, FinishKeeps
  <2>3. CASE UNCHANGED routeVars
    <3>1. /\ road' = road /\ from' = from /\ to' = to /\ route' = route
          /\ distances' = distances /\ previous' = previous /\ visited' = visited
      BY <2>3 DEF routeVars
    <3>2. RouteTyped'
      BY <3>1 DEF RouteInv, RouteTyped
    <3>3. SearchInv'
      <4>1. /\ \A p : IsReached(p)' <=> IsReached(p)
            /\ \A p, n, s : Trail(p, n, s)' <=> Trail(p, n, s)
            /\ \A n, s, d : Sums(s, n, d)' <=> Sums(s, n, d)
            /\ Open' = Open
        BY <3>1 DEF IsReached, Trail, Sums, Open
      <4>2. TrailsKnown => TrailsKnown'
        BY <3>1, <4>1 DEF TrailsKnown
      <4>3. SettledNear => SettledNear'
        BY <3>1, <4>1 DEF SettledNear
      <4>4. NoNegative => NoNegative'
        BY <3>1, <4>1 DEF NoNegative
      <4> QED
        BY <3>1, <4>2, <4>3, <4>4 DEF RouteInv, SearchInv
    <3>4. Paths' = Paths /\ \A t : Length(t)' = Length(t)
      BY <3>1 DEF Paths, Length
    <3>5. RouteIsShortest'
      BY <3>1, <3>4 DEF RouteInv, RouteIsShortest
    <3> QED
      BY <3>2, <3>3, <3>5 DEF RouteInv
  <2> QED
    BY <2>1, <2>2, <2>3 DEF RouteNext
<1> QED
  BY <1>1, <1>2, PTL DEF RouteSpec

(* findShortestPath, reconstructPath: for every number of nodes, all edges and *)
(* all distances the route handed on is a way to the target, as long as it   *)
(* says, and none is shorter; without a negative edge there is none only when *)
(* there is no way.                                                          *)
THEOREM RoutesAreShortest == RouteSpec => []RouteIsShortest
<1>1. RouteInv => RouteIsShortest
  BY DEF RouteInv
<1> QED
  BY <1>1, RouteInvariant, PTL

-----------------------------------------------------------------------------
(* The chat page: what it is bound to, asks for and hears, and the         *)
(* conversation it shows.                                                  *)

(* What the invariant says of the page, for any page, any set of            *)
(* subscriptions and any number of losses.                                  *)
PageInv(p, subs, lost) ==
  /\ p \in PageState /\ IsFiniteSet(p.unsent)
  /\ OfOneConversation(p)
  /\ lost = 0 => FirstConnection(p, subs)

(* The marks are no conversations.                                          *)
LEMMA NowhereIsNoConversation == Nowhere \notin Conv /\ Local \notin Conv /\ Local # Nowhere
BY NavigationAssumption

(* A step that leaves alone what the invariant is about. *)
LEMMA PageStays ==
  ASSUME NEW p, NEW subs, NEW lost, PageInv(p, subs, lost), NEW q \in PageState,
         q.shown = p.shown, q.msgs = p.msgs, q.reading = p.reading, q.restoring = p.restoring,
         q.bound = p.bound, q.home = p.home, Connected(q) = Connected(p),
         q.subscribed = p.subscribed, q.cleans = p.cleans, q.out = p.out, IsFiniteSet(q.unsent)
  PROVE  PageInv(q, subs, lost)
BY DEF PageInv, OfOneConversation, FirstConnection

(* A socket made is not open yet.                                           *)
LEMMA EnsureSocketKeeps ==
  ASSUME NEW p, NEW subs, NEW lost, PageInv(p, subs, lost)
  PROVE  /\ PageInv(EnsureSocket(p), subs, lost)
         /\ EnsureSocket(p).shown = p.shown /\ EnsureSocket(p).msgs = p.msgs
         /\ Connected(EnsureSocket(p)) = Connected(p) /\ EnsureSocket(p).out = p.out
         /\ EnsureSocket(p).unsent = p.unsent
<1> DEFINE q == [[p EXCEPT !.sock = "connecting"] EXCEPT !.born = p.shown]
<1>1. p \in PageState /\ IsFiniteSet(p.unsent)
  BY DEF PageInv
<1>2. CASE p.sock # "off"
  BY <1>2 DEF EnsureSocket
<1>3. CASE p.sock = "off"
  <2>1. EnsureSocket(p) = q
    BY <1>3 DEF EnsureSocket
  <2>2. q \in PageState
    BY <1>1 DEF PageState
  <2>3. /\ q.shown = p.shown /\ q.msgs = p.msgs /\ q.reading = p.reading /\ q.restoring = p.restoring
        /\ q.bound = p.bound /\ q.home = p.home /\ q.sock = "connecting"
        /\ q.subscribed = p.subscribed /\ q.cleans = p.cleans /\ q.out = p.out /\ q.unsent = p.unsent
    BY <1>1 DEF PageState
  <2>4. Connected(q) = Connected(p)
    BY <1>3, <2>3 DEF Connected
  <2> HIDE DEF q
  <2> QED
    BY <1>1, <2>1, <2>2, <2>3, <2>4, PageStays
<1> QED
  BY <1>2, <1>3
-----------------------------------------------------------------------------
(* The commands on the wire. *)

(* Commands written after others.                                           *)
LEMMA CommandsConcat ==
  ASSUME NEW s \in Seq(PageCommand), NEW t \in Seq(PageCommand)
  PROVE  /\ s \o t \in Seq(PageCommand) /\ DOMAIN (s \o t) = 1 .. Len(s) + Len(t)
         /\ \A i \in DOMAIN s : (s \o t)[i] = s[i]
         /\ \A i \in 1 .. Len(t) : (s \o t)[Len(s) + i] = t[i]
         /\ \A j \in DOMAIN (s \o t) : j \in DOMAIN s \/ \E i \in 1 .. Len(t) : j = Len(s) + i
<1>1. /\ s \o t \in Seq(PageCommand) /\ Len(s \o t) = Len(s) + Len(t)
      /\ \A i \in 1 .. Len(s) + Len(t) : (s \o t)[i] = IF i <= Len(s) THEN s[i] ELSE t[i - Len(s)]
  BY ConcatProperties
<1>2. Len(s) \in Nat /\ Len(t) \in Nat /\ DOMAIN s = 1 .. Len(s)
  OBVIOUS
<1>3. DOMAIN (s \o t) = 1 .. Len(s) + Len(t)
  BY <1>1
<1>4. ASSUME NEW i \in DOMAIN s PROVE (s \o t)[i] = s[i]
  BY <1>1, <1>2
<1>5. ASSUME NEW i \in 1 .. Len(t) PROVE (s \o t)[Len(s) + i] = t[i]
  <2>1. Len(s) + i \in 1 .. Len(s) + Len(t) /\ ~(Len(s) + i <= Len(s)) /\ (Len(s) + i) - Len(s) = i
    BY <1>2
  <2> QED
    BY <1>1, <2>1
<1>6. ASSUME NEW j \in DOMAIN (s \o t)
      PROVE  j \in DOMAIN s \/ \E i \in 1 .. Len(t) : j = Len(s) + i
  <2>1. j \in 1 .. Len(s) + Len(t)
    BY <1>3
  <2>2. CASE j <= Len(s)
    BY <1>2, <2>1, <2>2
  <2>3. CASE ~(j <= Len(s))
    <3>1. j - Len(s) \in 1 .. Len(t) /\ j = Len(s) + (j - Len(s))
      BY <1>2, <2>1, <2>3
    <3> QED
      BY <3>1
  <2> QED
    BY <2>2, <2>3
<1> QED
  BY <1>1, <1>3, <1>4, <1>5, <1>6

(* After a subscription the page will hear. *)
LEMMA SubscribedLast ==
  ASSUME NEW s \in Seq(PageCommand), NEW subs, NEW c \in Conv
  PROVE  /\ s \o <<Tell("subscribe", c)>> \in Seq(PageCommand)
         /\ WillHear(s \o <<Tell("subscribe", c)>>, subs, c)
<1> DEFINE x == Tell("subscribe", c)
           t == s \o <<x>>
<1>1. x \in PageCommand /\ <<x>> \in Seq(PageCommand) /\ Len(<<x>>) = 1 /\ <<x>>[1] = x
  BY DEF Tell, PageCommand
<1> HIDE DEF x
<1>2. /\ t \in Seq(PageCommand) /\ DOMAIN t = 1 .. Len(s) + 1 /\ t[Len(s) + 1] = x
  <2>1. 1 \in 1 .. Len(<<x>>)
    BY <1>1
  <2> QED
    BY <1>1, <2>1, CommandsConcat
<1>3. Len(s) + 1 \in DOMAIN t /\ \A j \in DOMAIN t : ~(j > Len(s) + 1)
  BY <1>2
<1> HIDE DEF t
<1>4. WillHear(t, subs, c)
  BY <1>2, <1>3 DEF WillHear, x
<1> QED
  BY <1>2, <1>4 DEF t, x

(* So it will after any other command. *)
LEMMA StillHears ==
  ASSUME NEW s \in Seq(PageCommand), NEW subs, NEW c \in Conv, WillHear(s, subs, c),
         NEW t \in Seq(PageCommand), \A i \in 1 .. Len(t) : t[i] # Tell("unsubscribe", c)
  PROVE  WillHear(s \o t, subs, c)
<1>1. /\ \A i \in DOMAIN s : i \in DOMAIN (s \o t) /\ (s \o t)[i] = s[i]
      /\ \A j \in DOMAIN (s \o t) : j \in DOMAIN s \/ (s \o t)[j] # Tell("unsubscribe", c)
  <2>1. Len(s) \in Nat /\ Len(t) \in Nat /\ DOMAIN s = 1 .. Len(s)
    OBVIOUS
  <2>2. \A i \in DOMAIN s : i \in 1 .. Len(s) + Len(t)
    BY <2>1
  <2> QED
    BY <2>2, CommandsConcat
<1> DEFINE u == s \o t
<1> HIDE DEF u
<1>2. WillHear(u, subs, c)
  BY <1>1 DEF WillHear, u
<1> QED
  BY <1>2 DEF u

(* And when the daemon takes the first of them. *)
LEMMA OneTaken ==
  ASSUME NEW s \in Seq(PageCommand), s # <<>>, NEW subs, NEW c \in Conv, WillHear(s, subs, c),
         NEW now, c \in subs /\ Head(s) # Tell("unsubscribe", c) => c \in now,
         Head(s) = Tell("subscribe", c) => c \in now
  PROVE  WillHear(Tail(s), now, c)
<1> DEFINE t == Tail(s)
<1>1. /\ t \in Seq(PageCommand) /\ Len(t) = Len(s) - 1 /\ \A i \in 1 .. Len(t) : t[i] = s[i + 1]
      /\ Head(s) = s[1] /\ Len(s) \in Nat /\ Len(s) >= 1
  BY HeadTailProperties
<1> HIDE DEF t
<1>2. DOMAIN s = 1 .. Len(s) /\ DOMAIN t = 1 .. Len(s) - 1
  BY <1>1
<1>3. 1 \in DOMAIN s /\ \A j \in DOMAIN t : j + 1 \in DOMAIN s /\ t[j] = s[j + 1]
  BY <1>1, <1>2
<1>4. CASE c \in subs /\ \A j \in DOMAIN s : s[j] # Tell("unsubscribe", c)
  <2>1. c \in now /\ \A j \in DOMAIN t : t[j] # Tell("unsubscribe", c)
    BY <1>1, <1>3, <1>4
  <2> QED
    BY <2>1 DEF WillHear, t
<1>5. CASE \E i \in DOMAIN s : /\ s[i] = Tell("subscribe", c)
                               /\ \A j \in DOMAIN s : j > i => s[j] # Tell("unsubscribe", c)
  <2>1. PICK i \in DOMAIN s : /\ s[i] = Tell("subscribe", c)
                              /\ \A j \in DOMAIN s : j > i => s[j] # Tell("unsubscribe", c)
    BY <1>5
  <2>2. CASE i = 1
    <3>1. \A j \in DOMAIN t : t[j] # Tell("unsubscribe", c)
      <4> TAKE j \in DOMAIN t
      <4>1. j + 1 \in DOMAIN s /\ j + 1 > 1 /\ t[j] = s[j + 1]
        BY <1>2, <1>3
      <4> QED
        BY <2>1, <2>2, <4>1
    <3>2. c \in now
      BY <1>1, <2>1, <2>2
    <3> QED
      BY <3>1, <3>2 DEF WillHear, t
  <2>3. CASE i # 1
    <3>1. i - 1 \in DOMAIN t /\ (i - 1) + 1 = i
      BY <1>1, <1>2, <2>3
    <3>2. t[i - 1] = Tell("subscribe", c)
      BY <1>3, <2>1, <3>1
    <3>3. \A j \in DOMAIN t : j > i - 1 => t[j] # Tell("unsubscribe", c)
      <4> TAKE j \in DOMAIN t
      <4> HAVE j > i - 1
      <4>1. j + 1 \in DOMAIN s /\ j + 1 > i /\ t[j] = s[j + 1]
        BY <1>2, <1>3
      <4> QED
        BY <2>1, <4>1
    <3> QED
      BY <3>1, <3>2, <3>3 DEF WillHear, t
  <2> QED
    BY <2>2, <2>3
<1> QED
  BY <1>4, <1>5 DEF WillHear
-----------------------------------------------------------------------------
(* The page shows another conversation. *)

(* The reset effect changes what the page is bound to, and no more.         *)
LEMMA ResetRunIs ==
  ASSUME NEW p \in PageState, NEW c \in Somewhere, p.home # Nowhere => p.bound = p.home
  PROVE  \E b, h \in Somewhere : \E l \in BOOLEAN :
           /\ ResetRun(p, c) = [p EXCEPT !.bound = b, !.home = h, !.locked = l]
           /\ h # Nowhere => b = h
           /\ c # Nowhere => b \in {Nowhere, c}
<1>1. p.bound \in Somewhere /\ p.home \in Somewhere /\ p.locked \in BOOLEAN /\ Nowhere \in Somewhere
  BY DEF PageState, Somewhere
<1>2. CASE c # Nowhere /\ p.home = c
  <2>1. ResetRun(p, c) = [p EXCEPT !.bound = p.bound, !.home = p.home, !.locked = p.locked]
    BY <1>2 DEF ResetRun, PageState
  <2> QED
    BY <1>1, <1>2, <2>1
<1>3. CASE ~(c # Nowhere /\ p.home = c)
  <2>1. ResetRun(p, c) = [p EXCEPT !.bound = Nowhere, !.home = Nowhere, !.locked = FALSE]
    BY <1>3 DEF ResetRun
  <2> QED
    BY <1>1, <2>1
<1> QED
  BY <1>2, <1>3

(* Nothing is written to a socket that is not open.                         *)
LEMMA UnsubscribeIs ==
  ASSUME NEW p, NEW c \in Somewhere
  PROVE  Unsubscribe(p, c) \in Seq(PageCommand) /\ (~Connected(p) => Unsubscribe(p, c) = <<>>)
<1>1. c # Nowhere => Tell("unsubscribe", c) \in PageCommand
  BY DEF Tell, PageCommand, Somewhere
<1> QED
  BY <1>1 DEF Unsubscribe

(* What the subscription effect writes, and what it knows afterwards. *)
LEMMA ResubscribeIs ==
  ASSUME NEW p \in PageState, NEW c \in Somewhere, NEW subs
  PROVE  \E o \in Seq(PageCommand) : \E s \in Somewhere :
           /\ Resubscribe(p, c) = [p EXCEPT !.out = o, !.subscribed = s, !.cleans = Connected(p)]
           /\ ~Connected(p) => o = p.out /\ (p.subscribed = Nowhere => s = Nowhere)
           /\ Connected(p) /\ c # Nowhere /\ (p.cleans \/ p.subscribed # c) => WillHear(o, subs, c)
<1> DEFINE prev == IF p.cleans THEN Nowhere ELSE p.subscribed
           a == IF p.cleans THEN Unsubscribe(p, p.subscribed) ELSE <<>>
           b == IF prev # c THEN Unsubscribe(p, prev) ELSE <<>>
           joins == Connected(p) /\ c # Nowhere
           e == IF joins /\ c # prev THEN <<Tell("subscribe", c)>> ELSE <<>>
           o == ((p.out \o a) \o b) \o e
           s == IF joins THEN c ELSE prev
<1>1. Resubscribe(p, c) = [p EXCEPT !.out = o, !.subscribed = s, !.cleans = Connected(p)]
  BY DEF Resubscribe
<1>2. p.subscribed \in Somewhere /\ Nowhere \in Somewhere /\ p.out \in Seq(PageCommand)
  BY DEF PageState, Somewhere
<1>3. prev \in Somewhere /\ s \in Somewhere
  BY <1>2
<1>4. /\ a \in Seq(PageCommand) /\ b \in Seq(PageCommand)
      /\ ~Connected(p) => a = <<>> /\ b = <<>> /\ e = <<>>
  <2>1. <<>> \in Seq(PageCommand)
    OBVIOUS
  <2> QED
    BY <1>2, <1>3, <2>1, UnsubscribeIs
<1>5. (p.out \o a) \o b \in Seq(PageCommand)
  <2> HIDE DEF a, b
  <2>1. p.out \o a \in Seq(PageCommand)
    BY <1>2, <1>4, CommandsConcat
  <2> QED
    BY <1>4, <2>1, CommandsConcat
<1>6. ~Connected(p) => o = p.out
  <2> HIDE DEF a, b, e
  <2>1. (p.out \o <<>>) \o <<>> = p.out
    BY <1>2
  <2> QED
    BY <1>2, <1>4, <2>1
<1>7. o \in Seq(PageCommand) /\ (joins /\ c # prev => WillHear(o, subs, c))
  <2> HIDE DEF a, b
  <2> DEFINE r == (p.out \o a) \o b
  <2>1. r \in Seq(PageCommand)
    BY <1>5
  <2> HIDE DEF r
  <2>2. CASE joins /\ c # prev
    <3>1. c \in Conv /\ e = <<Tell("subscribe", c)>>
      BY <2>2 DEF Somewhere
    <3>2. r \o e \in Seq(PageCommand) /\ WillHear(r \o e, subs, c)
      BY <2>1, <3>1, SubscribedLast
    <3> QED
      BY <3>2 DEF r
  <2>3. CASE ~(joins /\ c # prev)
    <3>1. e = <<>>
      BY <2>3
    <3>2. r \o <<>> = r
      BY <2>1
    <3> QED
      BY <2>1, <2>3, <3>1, <3>2 DEF r
  <2> QED
    BY <2>2, <2>3
<1>8. /\ ~Connected(p) => (p.subscribed = Nowhere => s = Nowhere)
      /\ Connected(p) /\ c # Nowhere /\ (p.cleans \/ p.subscribed # c) => joins /\ c # prev
  OBVIOUS
<1> HIDE DEF o, s, prev, joins, e, a, b
<1> QED
  BY <1>1, <1>3, <1>6, <1>7, <1>8

(* Whatever the page showed and knew, it may show c next.                   *)
LEMMA ShowPageKeeps ==
  ASSUME NEW p, NEW subs, NEW lost, PageInv(p, subs, lost), NEW c \in Somewhere
  PROVE  PageInv(ShowPage(p, c), subs, lost)
<1>1. p \in PageState /\ IsFiniteSet(p.unsent) /\ OfOneConversation(p) /\ (p.home # Nowhere => p.bound = p.home)
  BY DEF PageInv, OfOneConversation
<1>2. CASE c = p.shown
  BY <1>2 DEF ShowPage
<1>3. CASE c # p.shown
  <2>1. PICK b \in Somewhere, h \in Somewhere, l \in BOOLEAN :
          /\ ResetRun(p, c) = [p EXCEPT !.bound = b, !.home = h, !.locked = l]
          /\ h # Nowhere => b = h
          /\ c # Nowhere => b \in {Nowhere, c}
    BY <1>1, ResetRunIs
  <2> DEFINE q == [p EXCEPT !.bound = b, !.home = h, !.locked = l]
  <2>2. q \in PageState /\ Connected(q) = Connected(p)
    BY <1>1 DEF PageState, Connected
  <2>3. q.out = p.out /\ q.subscribed = p.subscribed /\ q.cleans = p.cleans
    BY <1>1 DEF PageState
  <2>4. PICK o \in Seq(PageCommand), s \in Somewhere :
          /\ Resubscribe(q, c) = [q EXCEPT !.out = o, !.subscribed = s, !.cleans = Connected(p)]
          /\ ~Connected(p) => o = p.out /\ (p.subscribed = Nowhere => s = Nowhere)
          /\ Connected(p) /\ c # Nowhere /\ (p.cleans \/ p.subscribed # c) => WillHear(o, subs, c)
    <3> HIDE DEF q
    <3>1. PICK o \in Seq(PageCommand), s \in Somewhere :
            /\ Resubscribe(q, c) = [q EXCEPT !.out = o, !.subscribed = s, !.cleans = Connected(q)]
            /\ ~Connected(q) => o = q.out /\ (q.subscribed = Nowhere => s = Nowhere)
            /\ Connected(q) /\ c # Nowhere /\ (q.cleans \/ q.subscribed # c) => WillHear(o, subs, c)
      BY <2>2, ResubscribeIs
    <3> QED
      BY <2>2, <2>3, <3>1
  <2> DEFINE w == IF c = Nowhere THEN NoRestore ELSE [of |-> c, answer |-> "asked"]
             r == [q EXCEPT !.out = o, !.subscribed = s, !.cleans = Connected(p),
                            !.shown = c, !.reading = c, !.refreshing = Append(p.refreshing, c),
                            !.restoring = w]
  <2>5. ShowPage(p, c) = r
    <3> DEFINE z == [q EXCEPT !.out = o, !.subscribed = s, !.cleans = Connected(p)]
    <3>1. ShowPage(p, c) = [Resubscribe(q, c) EXCEPT !.shown = c, !.reading = c,
                              !.refreshing = Append(@, c), !.restoring = w]
      BY <1>3, <2>1 DEF ShowPage
    <3>2. Resubscribe(q, c) = z
      BY <2>4
    <3>3. z.refreshing = p.refreshing
      BY <1>1 DEF PageState
    <3> HIDE DEF w
    <3>4. r = [z EXCEPT !.shown = c, !.reading = c, !.refreshing = Append(p.refreshing, c), !.restoring = w]
      OBVIOUS
    <3> HIDE DEF z, r, q
    <3> QED
      BY <3>1, <3>2, <3>3, <3>4
  <2>6. /\ w \in [of : Somewhere, answer : RunStates \cup {"asked"}]
        /\ w.of \in {Nowhere, c} /\ (w.answer # "none" => w.of # Nowhere)
    BY DEF NoRestore, RunStates, Somewhere
  <2>7. Append(p.refreshing, c) \in Seq(Somewhere) /\ Connected(p) \in BOOLEAN
    BY <1>1 DEF PageState, Connected
  <2> HIDE DEF w
  <2>8. r \in PageState
    BY <1>1, <2>6, <2>7 DEF PageState
  <2>9. /\ r.shown = c /\ r.reading = c /\ r.restoring = w /\ r.bound = b /\ r.home = h
        /\ r.out = o /\ r.subscribed = s /\ r.cleans = Connected(p) /\ r.unsent = p.unsent
        /\ r.sock = p.sock
    BY <1>1 DEF PageState
  <2> HIDE DEF r, q
  <2>10. OfOneConversation(r)
    BY <2>1, <2>6, <2>9 DEF OfOneConversation
  <2>11. lost = 0 => FirstConnection(r, subs)
    <3>1. Connected(r) = Connected(p)
      BY <2>9 DEF Connected
    <3>2. lost = 0 => FirstConnection(p, subs)
      BY DEF PageInv
    <3> QED
      BY <1>3, <2>4, <2>9, <3>1, <3>2 DEF FirstConnection
  <2> QED
    BY <1>1, <2>5, <2>8, <2>9, <2>10, <2>11 DEF PageInv
<1> QED
  BY <1>2, <1>3
-----------------------------------------------------------------------------
(* The steps. *)

(* The invariant, as a statement about the page and what reaches it.        *)
LEMMA NavigationInvIs ==
  NavigationInv <=> /\ PageInv(page, daemon.heard, losses)
                    /\ daemon \in DaemonState /\ onWay \in Seq(PageEvent) /\ losses \in Nat
BY DEF NavigationInv, NavigationTypeOK, PageInv

(* After a step.                                                            *)
LEMMA NavigationInvNext ==
  ASSUME PageInv(page', daemon'.heard, losses'), daemon' \in DaemonState,
         onWay' \in Seq(PageEvent), losses' \in Nat
  PROVE  NavigationInv'
BY DEF NavigationInv, NavigationTypeOK, PageInv, OfOneConversation, FirstConnection, WillHear, Connected

(* A step of the hooks that shows no other page and reads nothing else: a   *)
(* message it adds and a run it binds are of the conversation shown.        *)
LEMMA PageKeeps ==
  ASSUME NEW p, NEW subs, NEW lost, PageInv(p, subs, lost), NEW q \in PageState, IsFiniteSet(q.unsent),
         q.shown = p.shown, q.reading = p.reading, q.restoring = p.restoring,
         p.shown # Nowhere => q.msgs \subseteq p.msgs \cup {p.shown} /\ q.bound \in {Nowhere, p.shown},
         q.home # Nowhere => q.bound = q.home,
         NEW now, NEW then, then = 0 => FirstConnection(q, now)
  PROVE  PageInv(q, now, then)
BY DEF PageInv, OfOneConversation

(* A step that leaves the connection and what is known of it alone.         *)
LEMMA SameConnection ==
  ASSUME NEW p, NEW subs, FirstConnection(p, subs), NEW q,
         q.shown = p.shown, q.sock = p.sock, q.subscribed = p.subscribed,
         q.cleans = p.cleans, q.out = p.out
  PROVE  FirstConnection(q, subs)
BY DEF FirstConnection, Connected

(* A page whose messages are cleared. *)
LEMMA PageClears ==
  ASSUME NEW p, NEW subs, NEW lost, PageInv(p, subs, lost), NEW a \in BOOLEAN
  PROVE  PageInv([p EXCEPT !.asked = a, !.msgs = {}], subs, lost)
<1> DEFINE q == [p EXCEPT !.asked = a, !.msgs = {}]
<1>1. p \in PageState /\ IsFiniteSet(p.unsent) /\ OfOneConversation(p) /\ (lost = 0 => FirstConnection(p, subs))
  BY DEF PageInv
<1>2. q \in PageState
  BY <1>1 DEF PageState
<1>3. /\ q.shown = p.shown /\ q.msgs = {} /\ q.reading = p.reading /\ q.restoring = p.restoring
      /\ q.bound = p.bound /\ q.home = p.home /\ q.sock = p.sock
      /\ q.subscribed = p.subscribed /\ q.cleans = p.cleans /\ q.out = p.out /\ q.unsent = p.unsent
  BY <1>1 DEF PageState
<1> HIDE DEF q
<1>4. lost = 0 => FirstConnection(q, subs)
  BY <1>1, <1>3, SameConnection
<1>5. OfOneConversation(q)
  BY <1>1, <1>3 DEF OfOneConversation
<1> QED
  BY <1>1, <1>2, <1>3, <1>4, <1>5 DEF PageInv, q

(* The new-chat page.                                                       *)
LEMMA NewChatKeeps ==
  ASSUME NavigationInv, NewChat PROVE NavigationInv'
<1>1. /\ PageInv(page, daemon.heard, losses)
      /\ daemon \in DaemonState /\ onWay \in Seq(PageEvent) /\ losses \in Nat
  BY NavigationInvIs
<1>2. /\ page' = ShowPage([EnsureSocket(page) EXCEPT !.asked = TRUE, !.msgs = {}], Nowhere)
      /\ UNCHANGED <<daemon, onWay, losses>>
  BY DEF NewChat
<1>3. PageInv(EnsureSocket(page), daemon.heard, losses)
  BY <1>1, EnsureSocketKeeps
<1>4. PageInv([EnsureSocket(page) EXCEPT !.asked = TRUE, !.msgs = {}], daemon.heard, losses)
  BY <1>3, PageClears
<1>5. PageInv(page', daemon.heard, losses)
  BY <1>2, <1>4, ShowPageKeeps DEF Somewhere
<1> QED
  BY <1>1, <1>2, <1>5, NavigationInvNext

(* A conversation of the list.                                              *)
LEMMA SelectKeeps ==
  ASSUME NavigationInv, NEW c \in Conv, SelectConversation(c) PROVE NavigationInv'
<1>1. /\ PageInv(page, daemon.heard, losses)
      /\ daemon \in DaemonState /\ onWay \in Seq(PageEvent) /\ losses \in Nat
  BY NavigationInvIs
<1> DEFINE e == EnsureSocket(page)
<1>2. /\ page' = ShowPage([e EXCEPT !.msgs = {}], c)
      /\ UNCHANGED <<daemon, onWay, losses>>
  BY DEF SelectConversation
<1>3. PageInv(e, daemon.heard, losses)
  BY <1>1, EnsureSocketKeeps
<1> HIDE DEF e
<1>4. [e EXCEPT !.msgs = {}] = [e EXCEPT !.asked = e.asked, !.msgs = {}] /\ e.asked \in BOOLEAN
  BY <1>3 DEF PageInv, PageState
<1>5. PageInv([e EXCEPT !.msgs = {}], daemon.heard, losses)
  BY <1>3, <1>4, PageClears
<1>6. PageInv(page', daemon.heard, losses)
  BY <1>2, <1>5, ShowPageKeeps DEF Somewhere
<1> QED
  BY <1>1, <1>2, <1>6, NavigationInvNext

(* A command after the others. *)
LEMMA CommandAdded ==
  ASSUME NEW s \in Seq(PageCommand), NEW x \in PageCommand
  PROVE  /\ Append(s, x) \in Seq(PageCommand)
         /\ \A subs : \A c \in Conv :
              WillHear(s, subs, c) /\ x # Tell("unsubscribe", c) => WillHear(Append(s, x), subs, c)
<1>1. Append(s, x) = s \o <<x>> /\ <<x>> \in Seq(PageCommand) /\ Len(<<x>>) = 1 /\ <<x>>[1] = x
  OBVIOUS
<1>2. \A i \in 1 .. Len(<<x>>) : <<x>>[i] = x
  BY <1>1
<1>3. Append(s, x) \in Seq(PageCommand)
  OBVIOUS
<1>4. ASSUME NEW subs, NEW c \in Conv, WillHear(s, subs, c), x # Tell("unsubscribe", c)
      PROVE  WillHear(Append(s, x), subs, c)
  <2> DEFINE t == <<x>>
  <2>1. t \in Seq(PageCommand) /\ \A i \in 1 .. Len(t) : t[i] # Tell("unsubscribe", c)
    BY <1>1, <1>2, <1>4
  <2> HIDE DEF t
  <2>2. WillHear(s \o t, subs, c)
    BY <1>4, <2>1, StillHears
  <2> QED
    BY <1>1, <2>2 DEF t
<1> QED
  BY <1>3, <1>4

(* A message, transmitted or kept until the socket opens.                   *)
LEMMA SendKeeps ==
  ASSUME NavigationInv, SendMessage PROVE NavigationInv'
<1>1. /\ PageInv(page, daemon.heard, losses)
      /\ daemon \in DaemonState /\ onWay \in Seq(PageEvent) /\ losses \in Nat
  BY NavigationInvIs
<1> DEFINE e == EnsureSocket(page)
           m == IF page.shown = Nowhere THEN Local ELSE page.shown
           o == IF Connected(page) THEN Append(e.out, Tell("send", page.shown)) ELSE e.out
           u == IF Connected(page) THEN e.unsent ELSE e.unsent \cup {page.shown}
           q == [e EXCEPT !.locked = TRUE, !.msgs = e.msgs \cup {m}, !.out = o, !.unsent = u]
<1>2. page' = q /\ UNCHANGED <<daemon, onWay, losses>>
  BY DEF SendMessage
<1>3. /\ PageInv(e, daemon.heard, losses)
      /\ e.shown = page.shown /\ Connected(e) = Connected(page)
  BY <1>1, EnsureSocketKeeps
<1> HIDE DEF e
<1>4. /\ e \in PageState /\ IsFiniteSet(e.unsent) /\ OfOneConversation(e)
      /\ losses = 0 => FirstConnection(e, daemon.heard)
  BY <1>3 DEF PageInv
<1>5. e.shown \in Somewhere /\ e.out \in Seq(PageCommand) /\ e.msgs \in SUBSET (Conv \cup {Local})
      /\ e.unsent \in SUBSET Somewhere
  BY <1>4 DEF PageState
<1>6. Tell("send", page.shown) \in PageCommand
  BY <1>3, <1>5 DEF Tell, PageCommand
<1>7. o \in Seq(PageCommand) /\ (~Connected(e) => o = e.out)
  BY <1>3, <1>5, <1>6, CommandAdded
<1>8. \A c \in Conv : WillHear(e.out, daemon.heard, c) => WillHear(o, daemon.heard, c)
  <2> TAKE c \in Conv
  <2>1. Tell("send", page.shown) # Tell("unsubscribe", c)
    BY DEF Tell
  <2> QED
    BY <1>5, <1>6, <2>1, CommandAdded
<1>9. u \in SUBSET Somewhere /\ IsFiniteSet(u)
  BY <1>3, <1>4, <1>5, FS_AddElement
<1>10. m \in Conv \cup {Local} /\ (e.shown # Nowhere => m = e.shown)
  BY <1>3, <1>5 DEF Somewhere
<1> HIDE DEF m, o, u
<1>11. q \in PageState
  BY <1>4, <1>5, <1>7, <1>9, <1>10 DEF PageState
<1>12. /\ q.shown = e.shown /\ q.msgs = e.msgs \cup {m} /\ q.reading = e.reading /\ q.restoring = e.restoring
       /\ q.bound = e.bound /\ q.home = e.home /\ q.sock = e.sock
       /\ q.subscribed = e.subscribed /\ q.cleans = e.cleans /\ q.out = o /\ q.unsent = u
  BY <1>4 DEF PageState
<1> HIDE DEF q
<1>13. losses = 0 => FirstConnection(q, daemon.heard)
  <2>1. Connected(q) = Connected(e)
    BY <1>12 DEF Connected
  <2> QED
    BY <1>4, <1>5, <1>7, <1>8, <1>12, <2>1 DEF FirstConnection, Somewhere
<1>14. PageInv(q, daemon.heard, losses)
  BY <1>3, <1>4, <1>9, <1>10, <1>11, <1>12, <1>13, PageKeeps DEF OfOneConversation
<1> QED
  BY <1>1, <1>2, <1>14, NavigationInvNext

(* What a lost connection leaves. *)
LEMMA NothingLeft ==
  /\ {} \in SUBSET Somewhere /\ <<>> \in Seq(PageCommand) /\ <<>> \in Seq(PageEvent)
  /\ \A d \in DaemonState : Forgotten(d) \in DaemonState
<1>1. {} \in SUBSET Somewhere /\ <<>> \in Seq(PageCommand) /\ <<>> \in Seq(PageEvent)
  OBVIOUS
<1>2. ASSUME NEW d \in DaemonState PROVE Forgotten(d) \in DaemonState
  BY DEF Forgotten, DaemonState
<1> QED
  BY <1>1, <1>2

(* The stop command, or the socket closed for good. *)
LEMMA StopKeeps ==
  ASSUME NavigationInv, StopRun PROVE NavigationInv'
<1>1. /\ PageInv(page, daemon.heard, losses)
      /\ daemon \in DaemonState /\ onWay \in Seq(PageEvent) /\ losses \in Nat
  BY NavigationInvIs
<1> DEFINE p == [page EXCEPT !.bound = Nowhere, !.home = Nowhere, !.locked = FALSE]
           x == Tell("stop", page.bound)
           q == [p EXCEPT !.out = Append(p.out, x)]
           r == [Disconnected(p) EXCEPT !.again = FALSE]
<1>2. /\ page \in PageState /\ IsFiniteSet(page.unsent) /\ OfOneConversation(page)
      /\ losses = 0 => FirstConnection(page, daemon.heard)
  BY <1>1 DEF PageInv
<1>3. /\ p \in PageState /\ p.shown = page.shown /\ p.msgs = page.msgs /\ p.reading = page.reading
      /\ p.restoring = page.restoring /\ p.bound = Nowhere /\ p.home = Nowhere
      /\ p.sock = page.sock /\ p.subscribed = page.subscribed /\ p.cleans = page.cleans
      /\ p.out = page.out /\ p.unsent = page.unsent
  BY <1>2 DEF PageState, Somewhere
<1>4. CASE Connected(page) /\ page.bound # Nowhere
  <2>1. page' = q /\ UNCHANGED <<daemon, onWay, losses>>
    BY <1>4 DEF StopRun
  <2>2. x \in PageCommand /\ \A c \in Conv : x # Tell("unsubscribe", c)
    BY <1>2, <1>4 DEF Tell, PageCommand, PageState, Somewhere
  <2>3. page.out \in Seq(PageCommand) /\ page.shown \in Somewhere
    BY <1>2 DEF PageState
  <2> HIDE DEF p, x
  <2>4. Append(p.out, x) \in Seq(PageCommand)
    BY <1>3, <2>2, <2>3, CommandAdded
  <2>5. /\ q \in PageState /\ q.shown = p.shown /\ q.msgs = p.msgs /\ q.reading = p.reading
        /\ q.restoring = p.restoring /\ q.bound = p.bound /\ q.home = p.home
        /\ q.sock = p.sock /\ q.subscribed = p.subscribed /\ q.cleans = p.cleans
        /\ q.out = Append(p.out, x) /\ q.unsent = p.unsent
    BY <1>3, <2>4 DEF PageState
  <2> HIDE DEF q
  <2>6. losses = 0 => FirstConnection(q, daemon.heard)
    <3>1. Connected(q) /\ Connected(page)
      BY <1>3, <1>4, <2>5 DEF Connected
    <3>2. page.shown # Nowhere /\ WillHear(page.out, daemon.heard, page.shown)
             => WillHear(q.out, daemon.heard, page.shown)
      BY <1>3, <2>2, <2>3, <2>5, CommandAdded DEF Somewhere
    <3> QED
      BY <1>2, <1>3, <2>5, <3>1, <3>2 DEF FirstConnection
  <2>7. PageInv(q, daemon.heard, losses)
    BY <1>1, <1>2, <1>3, <2>5, <2>6, PageKeeps
  <2> QED
    BY <1>1, <2>1, <2>7, NavigationInvNext
<1>5. CASE ~(Connected(page) /\ page.bound # Nowhere)
  <2> DEFINE lost == IF page.sock = "off" THEN losses ELSE losses + 1
  <2>1. page' = r /\ daemon' = Forgotten(daemon) /\ onWay' = <<>> /\ losses' = lost
    BY <1>5 DEF StopRun
  <2>2. r = [p EXCEPT !.sock = "off", !.locked = FALSE, !.out = <<>>, !.unsent = {}, !.again = FALSE]
    BY DEF Disconnected
  <2> HIDE DEF p
  <2>3. /\ r \in PageState /\ r.shown = p.shown /\ r.msgs = p.msgs /\ r.reading = p.reading
        /\ r.restoring = p.restoring /\ r.bound = p.bound /\ r.home = p.home
        /\ r.sock = "off" /\ r.subscribed = p.subscribed /\ r.cleans = p.cleans
        /\ r.out = <<>> /\ r.unsent = {}
    BY <1>3, <2>2, NothingLeft DEF PageState
  <2> HIDE DEF r
  <2>4. ASSUME lost = 0 PROVE FirstConnection(r, daemon'.heard)
    <3>1. losses = 0 /\ page.sock = "off"
      BY <1>1, <2>4
    <3> QED
      BY <1>2, <1>3, <2>3, <3>1 DEF FirstConnection, Connected
  <2>5. PageInv(r, daemon'.heard, lost)
    BY <1>1, <1>2, <1>3, <2>3, <2>4, FS_EmptySet, PageKeeps
  <2>6. daemon' \in DaemonState /\ lost \in Nat /\ onWay' \in Seq(PageEvent)
    BY <1>1, <2>1, NothingLeft
  <2> HIDE DEF lost
  <2> QED
    BY <2>1, <2>5, <2>6, NavigationInvNext
<1> QED
  BY <1>4, <1>5

(* A lost connection is no first connection any more.                       *)
LEMMA LostKeeps ==
  ASSUME NavigationInv, ConnectionLost PROVE NavigationInv'
<1>1. /\ PageInv(page, daemon.heard, losses)
      /\ daemon \in DaemonState /\ onWay \in Seq(PageEvent) /\ losses \in Nat
  BY NavigationInvIs
<1> DEFINE r == [page EXCEPT !.sock = "off", !.locked = FALSE, !.out = <<>>, !.unsent = {}, !.again = TRUE]
<1>2. page' = r /\ daemon' = Forgotten(daemon) /\ onWay' = <<>> /\ losses' = losses + 1
  BY DEF ConnectionLost, Disconnected
<1>3. page \in PageState /\ OfOneConversation(page)
  BY <1>1 DEF PageInv
<1>4. /\ r \in PageState /\ r.shown = page.shown /\ r.msgs = page.msgs /\ r.reading = page.reading
      /\ r.restoring = page.restoring /\ r.bound = page.bound /\ r.home = page.home /\ r.unsent = {}
  BY <1>3, NothingLeft DEF PageState
<1> HIDE DEF r
<1>5. losses + 1 \in Nat /\ losses + 1 # 0
  BY <1>1
<1>6. PageInv(r, daemon'.heard, losses + 1)
  BY <1>1, <1>3, <1>4, <1>5, FS_EmptySet, PageKeeps DEF OfOneConversation
<1>7. daemon' \in DaemonState /\ onWay' \in Seq(PageEvent)
  BY <1>1, <1>2, NothingLeft
<1> QED
  BY <1>2, <1>5, <1>6, <1>7, NavigationInvNext

(* Nor is a socket made by the timer open yet.                              *)
LEMMA ReconnectKeeps ==
  ASSUME NavigationInv, Reconnect PROVE NavigationInv'
<1>1. /\ PageInv(page, daemon.heard, losses)
      /\ daemon \in DaemonState /\ onWay \in Seq(PageEvent) /\ losses \in Nat
  BY NavigationInvIs
<1> DEFINE s == IF page.sock = "off" THEN "connecting" ELSE page.sock
           r == [page EXCEPT !.again = FALSE, !.sock = s]
<1>2. page' = r /\ UNCHANGED <<daemon, onWay, losses>>
  BY DEF Reconnect
<1>3. page \in PageState /\ IsFiniteSet(page.unsent)
  BY <1>1 DEF PageInv
<1>4. s \in {"off", "connecting", "open"} /\ (s = "open" <=> page.sock = "open")
  BY <1>3 DEF PageState
<1> HIDE DEF s
<1>5. /\ r \in PageState /\ r.shown = page.shown /\ r.msgs = page.msgs /\ r.reading = page.reading
      /\ r.restoring = page.restoring /\ r.bound = page.bound /\ r.home = page.home
      /\ r.sock = s /\ r.subscribed = page.subscribed /\ r.cleans = page.cleans
      /\ r.out = page.out /\ r.unsent = page.unsent
  BY <1>3, <1>4 DEF PageState
<1> HIDE DEF r
<1>6. Connected(r) = Connected(page)
  BY <1>4, <1>5 DEF Connected
<1>7. PageInv(r, daemon.heard, losses)
  BY <1>1, <1>3, <1>5, <1>6, PageStays
<1> QED
  BY <1>1, <1>2, <1>7, NavigationInvNext
-----------------------------------------------------------------------------
(* The messages a page could not send when it was offline. *)
LEMMA UnsentCommands ==
  ASSUME NEW S \in SUBSET Somewhere, IsFiniteSet(S)
  PROVE  /\ SetToSeq({Tell("send", c) : c \in S}) \in Seq(PageCommand)
         /\ \A i \in 1 .. Len(SetToSeq({Tell("send", c) : c \in S})) :
              SetToSeq({Tell("send", c) : c \in S})[i].do = "send"
<1> DEFINE T == {Tell("send", c) : c \in S}
           f == [c \in S |-> Tell("send", c)]
           n == Cardinality(T)
<1>1. f \in Surjection(S, T)
  BY DEF Surjection
<1>2. IsFiniteSet(T)
  BY <1>1, FS_Surjection
<1>3. n \in Nat /\ ExistsBijection(1 .. n, T)
  BY <1>2, FS_CardinalityType
<1>4. T \subseteq PageCommand /\ \A x \in T : x.do = "send"
  BY DEF Tell, PageCommand
<1> HIDE DEF T, n
<1>5. \E g \in [1 .. n -> T] : IsInjective(g)
  BY <1>3 DEF ExistsBijection, Bijection, Injection
<1>6. SetToSeq(T) \in [1 .. n -> T]
  BY <1>5 DEF SetToSeq, n
<1>7. SetToSeq(T) \in Seq(T) /\ Len(SetToSeq(T)) = n
  BY <1>3, <1>6
<1>8. SetToSeq(T) \in Seq(PageCommand) /\ \A i \in 1 .. Len(SetToSeq(T)) : SetToSeq(T)[i] \in T
  BY <1>3, <1>4, <1>6, <1>7
<1> QED
  BY <1>4, <1>8 DEF T

(* The open event subscribes before it sends.                               *)
LEMMA OpenedKeeps ==
  ASSUME NavigationInv, Opened PROVE NavigationInv'
<1>1. /\ PageInv(page, daemon.heard, losses)
      /\ daemon \in DaemonState /\ onWay \in Seq(PageEvent) /\ losses \in Nat
  BY NavigationInvIs
<1> DEFINE b == IF page.shown # Nowhere THEN page.shown ELSE page.subscribed
           a == IF page.shown # Nowhere THEN <<Tell("subscribe", page.shown)>> ELSE <<>>
           t == SetToSeq({Tell("send", c) : c \in page.unsent})
           q == [page EXCEPT !.sock = "open", !.unsent = {}, !.subscribed = b, !.out = a \o t]
<1>2. page.sock = "connecting" /\ page' = q /\ UNCHANGED <<daemon, onWay, losses>>
  BY DEF Opened
<1>3. /\ page \in PageState /\ IsFiniteSet(page.unsent) /\ OfOneConversation(page)
      /\ losses = 0 => FirstConnection(page, daemon.heard)
  BY <1>1 DEF PageInv
<1>4. /\ page.shown \in Somewhere /\ page.subscribed \in Somewhere /\ page.unsent \in SUBSET Somewhere
      /\ b \in Somewhere
  BY <1>3 DEF PageState
<1>5. /\ t \in Seq(PageCommand)
      /\ \A c : \A i \in 1 .. Len(t) : t[i] # Tell("unsubscribe", c)
  <2>1. t \in Seq(PageCommand) /\ \A i \in 1 .. Len(t) : t[i].do = "send"
    BY <1>3, <1>4, UnsentCommands
  <2> HIDE DEF t
  <2> QED
    BY <2>1 DEF Tell
<1> HIDE DEF t
<1>6. /\ a \in Seq(PageCommand)
      /\ page.shown # Nowhere => page.shown \in Conv /\ WillHear(a, daemon.heard, page.shown)
  <2>1. CASE page.shown # Nowhere
    <3>1. page.shown \in Conv
      BY <1>4, <2>1 DEF Somewhere
    <3>2. <<>> \o a = a /\ a = <<Tell("subscribe", page.shown)>> /\ <<>> \in Seq(PageCommand)
      BY <2>1
    <3>3. /\ <<>> \o <<Tell("subscribe", page.shown)>> \in Seq(PageCommand)
          /\ WillHear(<<>> \o <<Tell("subscribe", page.shown)>>, daemon.heard, page.shown)
      BY <3>1, <3>2, SubscribedLast
    <3> HIDE DEF a
    <3> QED
      BY <3>1, <3>2, <3>3
  <2>2. CASE page.shown = Nowhere
    BY <2>2
  <2> QED
    BY <2>1, <2>2
<1> HIDE DEF a, b
<1>7. /\ a \o t \in Seq(PageCommand)
      /\ page.shown # Nowhere => WillHear(a \o t, daemon.heard, page.shown)
  <2>1. a \o t \in Seq(PageCommand)
    BY <1>5, <1>6, CommandsConcat
  <2> QED
    BY <1>5, <1>6, <2>1, StillHears
<1>8. /\ q \in PageState /\ q.shown = page.shown /\ q.msgs = page.msgs /\ q.reading = page.reading
      /\ q.restoring = page.restoring /\ q.bound = page.bound /\ q.home = page.home
      /\ q.sock = "open" /\ q.subscribed = b /\ q.cleans = page.cleans
      /\ q.out = a \o t /\ q.unsent = {}
  BY <1>3, <1>4, <1>7 DEF PageState
<1> HIDE DEF q
<1>9. losses = 0 => FirstConnection(q, daemon.heard)
  <2>1. Connected(q) /\ ~Connected(page)
    BY <1>2, <1>8 DEF Connected
  <2> QED
    BY <1>3, <1>7, <1>8, <2>1 DEF FirstConnection, b
<1>10. PageInv(q, daemon.heard, losses)
  BY <1>1, <1>3, <1>8, <1>9, FS_EmptySet, PageKeeps DEF OfOneConversation
<1> QED
  BY <1>1, <1>2, <1>10, NavigationInvNext
-----------------------------------------------------------------------------
(* The answers. *)

(* A refresh leaves the list of refreshes.                                  *)
LEMMA OneAnswered ==
  ASSUME NEW s \in Seq(Somewhere), NEW i \in DOMAIN s
  PROVE  RemoveAt(s, i) \in Seq(Somewhere)
<1>1. i \in Int /\ i >= 1 /\ i <= Len(s) /\ Len(s) \in Int /\ \A j \in 1 .. Len(s) : s[j] \in Somewhere
  OBVIOUS
<1>2. SubSeq(s, 1, i - 1) \in Seq(Somewhere)
  <2>1. 1 \in Int /\ i - 1 \in Int /\ \A j \in 1 .. i - 1 : s[j] \in Somewhere
    BY <1>1
  <2> QED
    BY <2>1, SubSeqProperties
<1>3. SubSeq(s, i + 1, Len(s)) \in Seq(Somewhere)
  <2>1. i + 1 \in Int /\ \A j \in i + 1 .. Len(s) : s[j] \in Somewhere
    BY <1>1
  <2> QED
    BY <1>1, <2>1, SubSeqProperties
<1> QED
  BY <1>2, <1>3, ConcatProperties DEF RemoveAt

(* The list is read: the page may select a conversation of it.              *)
LEMMA RefreshAnswerKeeps ==
  ASSUME NavigationInv, NEW i \in DOMAIN page.refreshing, RefreshAnswered(i) PROVE NavigationInv'
<1>1. /\ PageInv(page, daemon.heard, losses)
      /\ daemon \in DaemonState /\ onWay \in Seq(PageEvent) /\ losses \in Nat
  BY NavigationInvIs
<1> DEFINE p(a) == [page EXCEPT !.refreshing = RemoveAt(page.refreshing, i), !.first = FALSE, !.asked = a]
           p0 == [page EXCEPT !.refreshing = RemoveAt(page.refreshing, i), !.first = FALSE]
<1>2. page \in PageState /\ IsFiniteSet(page.unsent)
  BY <1>1 DEF PageInv
<1>3. page.refreshing \in Seq(Somewhere) /\ page.asked \in BOOLEAN
  BY <1>2 DEF PageState
<1>4. RemoveAt(page.refreshing, i) \in Seq(Somewhere)
  BY <1>3, OneAnswered
<1>5. ASSUME NEW a \in BOOLEAN PROVE PageInv(p(a), daemon.heard, losses)
  <2> DEFINE q == p(a)
  <2>1. /\ q \in PageState /\ q.shown = page.shown /\ q.msgs = page.msgs /\ q.reading = page.reading
        /\ q.restoring = page.restoring /\ q.bound = page.bound /\ q.home = page.home
        /\ q.sock = page.sock /\ q.subscribed = page.subscribed /\ q.cleans = page.cleans
        /\ q.out = page.out /\ q.unsent = page.unsent
    BY <1>2, <1>4 DEF PageState
  <2> HIDE DEF q
  <2>2. Connected(q) = Connected(page)
    BY <2>1 DEF Connected
  <2>3. PageInv(q, daemon.heard, losses)
    BY <1>1, <1>2, <2>1, <2>2, PageStays
  <2> QED
    BY <2>3 DEF q
<1>6. p0 = p(page.asked) /\ [p0 EXCEPT !.asked = FALSE] = p(FALSE)
  BY <1>2 DEF PageState
<1>7. /\ page' = p0 \/ page' = [p0 EXCEPT !.asked = FALSE]
         \/ \E c \in daemon.rows : page' = ShowPage([p0 EXCEPT !.asked = FALSE], c)
      /\ UNCHANGED <<daemon, onWay, losses>>
  BY DEF RefreshAnswered
<1>8. daemon.rows \subseteq Somewhere
  BY <1>1 DEF DaemonState, Somewhere
<1>9. PageInv(p0, daemon.heard, losses) /\ PageInv([p0 EXCEPT !.asked = FALSE], daemon.heard, losses)
  BY <1>3, <1>5, <1>6
<1> HIDE DEF p, p0
<1> DEFINE q0 == [p0 EXCEPT !.asked = FALSE]
<1> HIDE DEF q0
<1>10. CASE \E c \in daemon.rows : page' = ShowPage(q0, c)
  <2>1. PICK c \in daemon.rows : page' = ShowPage(q0, c)
    BY <1>10
  <2>2. PageInv(q0, daemon.heard, losses) /\ c \in Somewhere
    BY <1>8, <1>9 DEF q0
  <2>3. PageInv(page', daemon.heard, losses)
    BY <2>1, <2>2, ShowPageKeeps
  <2> QED
    BY <1>1, <1>7, <2>3, NavigationInvNext
<1>11. CASE page' = p0 \/ page' = q0
  <2>1. PageInv(page', daemon.heard, losses)
    BY <1>9, <1>11 DEF q0
  <2> QED
    BY <1>1, <1>7, <2>1, NavigationInvNext
<1> QED
  BY <1>7, <1>10, <1>11 DEF q0

(* The conversation of a run just made is shown.                            *)
LEMMA AddKeeps ==
  ASSUME NavigationInv, NEW c \in Conv, AddAnswered(c) PROVE NavigationInv'
<1>1. /\ PageInv(page, daemon.heard, losses)
      /\ daemon \in DaemonState /\ onWay \in Seq(PageEvent) /\ losses \in Nat
  BY NavigationInvIs
<1> DEFINE q == [page EXCEPT !.adding = page.adding \ {c}]
<1>2. page' = ShowPage(q, c) /\ UNCHANGED <<daemon, onWay, losses>>
  BY DEF AddAnswered
<1>3. page \in PageState /\ IsFiniteSet(page.unsent)
  BY <1>1 DEF PageInv
<1>4. /\ q \in PageState /\ q.shown = page.shown /\ q.msgs = page.msgs /\ q.reading = page.reading
      /\ q.restoring = page.restoring /\ q.bound = page.bound /\ q.home = page.home
      /\ q.sock = page.sock /\ q.subscribed = page.subscribed /\ q.cleans = page.cleans
      /\ q.out = page.out /\ q.unsent = page.unsent
  BY <1>3 DEF PageState
<1> HIDE DEF q
<1>5. Connected(q) = Connected(page)
  BY <1>4 DEF Connected
<1>6. PageInv(q, daemon.heard, losses)
  BY <1>1, <1>3, <1>4, <1>5, PageStays
<1>7. PageInv(page', daemon.heard, losses)
  BY <1>2, <1>6, ShowPageKeeps DEF Somewhere
<1> QED
  BY <1>1, <1>2, <1>7, NavigationInvNext

(* The messages fetched are those of the conversation shown.                *)
LEMMA MessagesKeep ==
  ASSUME NavigationInv, MessagesAnswered PROVE NavigationInv'
<1>1. /\ PageInv(page, daemon.heard, losses)
      /\ daemon \in DaemonState /\ onWay \in Seq(PageEvent) /\ losses \in Nat
  BY NavigationInvIs
<1> DEFINE q == [page EXCEPT !.reading = Nowhere, !.msgs = {page.reading}]
<1>2. page.reading # Nowhere /\ page' = q /\ UNCHANGED <<daemon, onWay, losses>>
  BY DEF MessagesAnswered
<1>3. /\ page \in PageState /\ IsFiniteSet(page.unsent) /\ OfOneConversation(page)
      /\ losses = 0 => FirstConnection(page, daemon.heard)
  BY <1>1 DEF PageInv
<1>4. /\ q \in PageState /\ q.shown = page.shown /\ q.msgs = {page.reading} /\ q.reading = Nowhere
      /\ q.restoring = page.restoring /\ q.bound = page.bound /\ q.home = page.home
      /\ q.sock = page.sock /\ q.subscribed = page.subscribed /\ q.cleans = page.cleans
      /\ q.out = page.out /\ q.unsent = page.unsent
  BY <1>2, <1>3 DEF PageState, Somewhere
<1> HIDE DEF q
<1>5. OfOneConversation(q)
  BY <1>2, <1>3, <1>4 DEF OfOneConversation
<1>6. losses = 0 => FirstConnection(q, daemon.heard)
  BY <1>3, <1>4, SameConnection
<1>7. PageInv(q, daemon.heard, losses)
  BY <1>3, <1>4, <1>5, <1>6 DEF PageInv
<1> QED
  BY <1>1, <1>2, <1>7, NavigationInvNext

(* The active run is read for the conversation shown.                       *)
LEMMA ActiveReadKeeps ==
  ASSUME NavigationInv, ActiveRunRead PROVE NavigationInv'
<1>1. /\ PageInv(page, daemon.heard, losses)
      /\ daemon \in DaemonState /\ onWay \in Seq(PageEvent) /\ losses \in Nat
  BY NavigationInvIs
<1> DEFINE w == [page.restoring EXCEPT !.answer = daemon.run[page.restoring.of]]
           q == [page EXCEPT !.restoring = w]
<1>2. /\ page.restoring.answer = "asked" /\ UNCHANGED <<daemon, onWay, losses>>
      /\ page' = q
  BY DEF ActiveRunRead
<1>3. /\ page \in PageState /\ IsFiniteSet(page.unsent) /\ OfOneConversation(page)
      /\ losses = 0 => FirstConnection(page, daemon.heard)
  BY <1>1 DEF PageInv
<1>4. page.restoring \in [of : Somewhere, answer : RunStates \cup {"asked"}]
  BY <1>3 DEF PageState
<1>5. page.restoring.of # Nowhere
  BY <1>2, <1>3 DEF OfOneConversation
<1>6. daemon.run[page.restoring.of] \in RunStates
  BY <1>1, <1>4, <1>5 DEF DaemonState, Somewhere
<1>7. w \in [of : Somewhere, answer : RunStates \cup {"asked"}] /\ w.of = page.restoring.of
  BY <1>4, <1>6
<1> HIDE DEF w
<1>8. /\ q \in PageState /\ q.shown = page.shown /\ q.msgs = page.msgs /\ q.reading = page.reading
      /\ q.restoring = w /\ q.bound = page.bound /\ q.home = page.home
      /\ q.sock = page.sock /\ q.subscribed = page.subscribed /\ q.cleans = page.cleans
      /\ q.out = page.out /\ q.unsent = page.unsent
  BY <1>3, <1>7 DEF PageState
<1> HIDE DEF q
<1>9. OfOneConversation(q)
  BY <1>3, <1>5, <1>7, <1>8 DEF OfOneConversation
<1>10. losses = 0 => FirstConnection(q, daemon.heard)
  BY <1>3, <1>8, SameConnection
<1>11. PageInv(q, daemon.heard, losses)
  BY <1>3, <1>8, <1>9, <1>10 DEF PageInv
<1> QED
  BY <1>1, <1>2, <1>11, NavigationInvNext

(* And bound, as one of it.                                                 *)
LEMMA ActiveAnswerKeeps ==
  ASSUME NavigationInv, ActiveRunAnswered PROVE NavigationInv'
<1>1. /\ PageInv(page, daemon.heard, losses)
      /\ daemon \in DaemonState /\ onWay \in Seq(PageEvent) /\ losses \in Nat
  BY NavigationInvIs
<1> DEFINE c == page.restoring.of
           p == [page EXCEPT !.restoring = NoRestore]
           q == [p EXCEPT !.bound = c, !.home = c, !.locked = TRUE]
<1>2. /\ page' = p \/ (page' = q /\ page.restoring.answer # "none")
      /\ UNCHANGED <<daemon, onWay, losses>>
  BY DEF ActiveRunAnswered
<1>3. /\ page \in PageState /\ IsFiniteSet(page.unsent) /\ OfOneConversation(page)
      /\ losses = 0 => FirstConnection(page, daemon.heard)
  BY <1>1 DEF PageInv
<1>4. NoRestore \in [of : Somewhere, answer : RunStates \cup {"asked"}]
  BY DEF NoRestore, Somewhere, RunStates
<1>5. NoRestore.of = Nowhere /\ NoRestore.answer = "none"
  BY DEF NoRestore
<1>6. /\ p \in PageState /\ p.shown = page.shown /\ p.msgs = page.msgs /\ p.reading = page.reading
      /\ p.restoring = NoRestore /\ p.bound = page.bound /\ p.home = page.home
      /\ p.sock = page.sock /\ p.subscribed = page.subscribed /\ p.cleans = page.cleans
      /\ p.out = page.out /\ p.unsent = page.unsent
  BY <1>3, <1>4 DEF PageState
<1>7. c \in Somewhere
  BY <1>3 DEF PageState
<1> HIDE DEF p
<1>8. OfOneConversation(p) /\ (losses = 0 => FirstConnection(p, daemon.heard))
  BY <1>3, <1>5, <1>6, SameConnection DEF OfOneConversation
<1>9. CASE page' = p
  <2>1. PageInv(p, daemon.heard, losses)
    BY <1>3, <1>6, <1>8 DEF PageInv
  <2> QED
    BY <1>1, <1>2, <1>9, <2>1, NavigationInvNext
<1>10. CASE page' = q /\ page.restoring.answer # "none"
  <2>1. c = page.shown
    BY <1>3, <1>10 DEF OfOneConversation
  <2> HIDE DEF c
  <2>2. /\ q \in PageState /\ q.shown = p.shown /\ q.msgs = p.msgs /\ q.reading = p.reading
        /\ q.restoring = p.restoring /\ q.bound = c /\ q.home = c
        /\ q.sock = p.sock /\ q.subscribed = p.subscribed /\ q.cleans = p.cleans
        /\ q.out = p.out /\ q.unsent = p.unsent
    BY <1>6, <1>7 DEF PageState
  <2> HIDE DEF q
  <2>3. OfOneConversation(q) /\ (losses = 0 => FirstConnection(q, daemon.heard))
    BY <1>6, <1>8, <2>1, <2>2, SameConnection DEF OfOneConversation
  <2>4. PageInv(q, daemon.heard, losses)
    BY <1>3, <1>6, <2>2, <2>3 DEF PageInv
  <2> QED
    BY <1>1, <1>2, <1>10, <2>4, NavigationInvNext
<1> QED
  BY <1>2, <1>9, <1>10
-----------------------------------------------------------------------------
(* The daemon. *)

(* What the daemon puts on the way.                                         *)
LEMMA DeliveredIs ==
  ASSUME onWay \in Seq(PageEvent), NEW c \in Conv, NEW d,
         NEW type \in {"run.created", "run.started", "message.started", "approval.required", "run.ended"}
  PROVE  Delivered(d, c, type) \in Seq(PageEvent)
<1>1. [type |-> type, of |-> c] \in PageEvent
  BY DEF PageEvent
<1> DEFINE e == [type |-> type, of |-> c]
<1> HIDE DEF e
<1>2. Append(onWay, e) \in Seq(PageEvent)
  BY <1>1 DEF e
<1> QED
  BY <1>2 DEF Delivered, e

(* The page's next command is taken; what the daemon then sends the page    *)
(* follows from it.                                                         *)
LEMMA PageServed ==
  ASSUME NEW p, NEW subs, NEW lost, PageInv(p, subs, lost), p.out # <<>>,
         NEW now, \A c \in subs : Head(p.out) # Tell("unsubscribe", c) => c \in now,
         \A c : Head(p.out) = Tell("subscribe", c) => c \in now
  PROVE  PageInv([p EXCEPT !.out = Tail(p.out)], now, lost)
<1> DEFINE q == [p EXCEPT !.out = Tail(p.out)]
<1>1. p \in PageState /\ IsFiniteSet(p.unsent) /\ OfOneConversation(p) /\ (lost = 0 => FirstConnection(p, subs))
  BY DEF PageInv
<1>2. p.out \in Seq(PageCommand) /\ p.shown \in Somewhere
  BY <1>1 DEF PageState
<1>3. Tail(p.out) \in Seq(PageCommand)
  BY <1>2
<1>4. /\ q \in PageState /\ q.shown = p.shown /\ q.msgs = p.msgs /\ q.reading = p.reading
      /\ q.restoring = p.restoring /\ q.bound = p.bound /\ q.home = p.home
      /\ q.sock = p.sock /\ q.subscribed = p.subscribed /\ q.cleans = p.cleans
      /\ q.out = Tail(p.out) /\ q.unsent = p.unsent
  BY <1>1, <1>3 DEF PageState
<1> HIDE DEF q
<1>5. ASSUME lost = 0 PROVE FirstConnection(q, now)
  <2>1. Connected(p) /\ Connected(q)
    BY <1>1, <1>4, <1>5 DEF FirstConnection, Connected
  <2>2. ASSUME p.shown # Nowhere PROVE WillHear(Tail(p.out), now, p.shown)
    <3>1. p.shown \in Conv /\ WillHear(p.out, subs, p.shown)
      BY <1>1, <1>2, <1>5, <2>1, <2>2 DEF FirstConnection, Somewhere
    <3> QED
      BY <1>2, <3>1, OneTaken
  <2> QED
    BY <1>1, <1>4, <1>5, <2>1, <2>2 DEF FirstConnection
<1>6. PageInv(q, now, lost)
  BY <1>1, <1>4, <1>5, PageKeeps DEF OfOneConversation
<1> QED
  BY <1>6 DEF q

(* A command is taken.                                                      *)
LEMMA ServeKeeps ==
  ASSUME NavigationInv, Serve PROVE NavigationInv'
<1>1. /\ PageInv(page, daemon.heard, losses)
      /\ daemon \in DaemonState /\ onWay \in Seq(PageEvent) /\ losses \in Nat
  BY NavigationInvIs
<1> DEFINE cmd == Head(page.out)
<1>2. page.out # <<>> /\ page' = [page EXCEPT !.out = Tail(page.out)] /\ UNCHANGED losses
  BY DEF Serve
<1>3. cmd \in PageCommand
  <2>1. page.out \in Seq(PageCommand)
    BY <1>1 DEF PageInv, PageState
  <2> QED
    BY <1>2, <2>1
<1> SUFFICES /\ daemon' \in DaemonState /\ onWay' \in Seq(PageEvent)
             /\ \A c \in daemon.heard : cmd # Tell("unsubscribe", c) => c \in daemon'.heard
             /\ \A c : cmd = Tell("subscribe", c) => c \in daemon'.heard
  BY <1>1, <1>2, PageServed, NavigationInvNext
<1>4. /\ cmd.do \in {"subscribe", "unsubscribe", "stop"} => cmd.of \in Conv
      /\ cmd.of \in Somewhere /\ cmd = Tell(cmd.do, cmd.of)
  BY <1>3 DEF PageCommand, Tell, Somewhere
<1>5. \A do, c : Tell(do, c).do = do /\ Tell(do, c).of = c
  BY DEF Tell
<1> HIDE DEF cmd
<1>6. CASE cmd.do = "send"
  <2>1. PICK c \in IF cmd.of = Nowhere THEN Conv \ daemon.rows ELSE {cmd.of} :
          /\ daemon' = [daemon EXCEPT !.rows = @ \cup {c}, !.run[c] = "accepted",
                                      !.started = @ \cup {c}]
          /\ onWay' = Delivered(daemon', c, "run.created")
    BY <1>6 DEF Serve, cmd
  <2>2. c \in Conv
    BY <1>4, <2>1 DEF Somewhere
  <2>3. daemon' \in DaemonState /\ daemon'.heard = daemon.heard
    BY <1>1, <2>1, <2>2 DEF DaemonState, RunStates
  <2>4. onWay' \in Seq(PageEvent)
    BY <1>1, <2>1, <2>2, DeliveredIs
  <2> QED
    BY <1>5, <1>6, <2>3, <2>4
<1>7. CASE cmd.do = "subscribe"
  <2>1. daemon' = [daemon EXCEPT !.heard = @ \cup {cmd.of}] /\ UNCHANGED onWay
    BY <1>7 DEF Serve, cmd
  <2>2. daemon' \in DaemonState /\ daemon'.heard = daemon.heard \cup {cmd.of}
    BY <1>1, <1>4, <1>7, <2>1 DEF DaemonState
  <2> QED
    BY <1>1, <1>5, <2>1, <2>2
<1>8. CASE cmd.do = "unsubscribe"
  <2>1. daemon' = [daemon EXCEPT !.heard = @ \ {cmd.of}] /\ UNCHANGED onWay
    BY <1>8 DEF Serve, cmd
  <2>2. daemon' \in DaemonState /\ daemon'.heard = daemon.heard \ {cmd.of}
    BY <1>1, <2>1 DEF DaemonState
  <2>3. cmd = Tell("unsubscribe", cmd.of) /\ \A c : cmd # Tell("subscribe", c)
    BY <1>4, <1>5, <1>8
  <2> QED
    BY <1>1, <2>1, <2>2, <2>3
<1>9. CASE cmd.do = "stop"
  <2>1. daemon' = [daemon EXCEPT !.run[cmd.of] = "ended"] /\ onWay' = Delivered(daemon, cmd.of, "run.ended")
    BY <1>9 DEF Serve, cmd
  <2>2. daemon' \in DaemonState /\ daemon'.heard = daemon.heard
    BY <1>1, <1>4, <1>9, <2>1 DEF DaemonState, RunStates
  <2>3. onWay' \in Seq(PageEvent)
    BY <1>1, <1>4, <1>9, <2>1, DeliveredIs
  <2> QED
    BY <1>5, <1>9, <2>2, <2>3
<1> QED
  BY <1>6, <1>7, <1>8, <1>9 DEF Serve, cmd

(* A run goes on.                                                           *)
LEMMA RunKeeps ==
  ASSUME NavigationInv, NEW c \in Conv, NEW was, NEW now \in RunStates,
         NEW type \in {"run.created", "run.started", "message.started", "approval.required", "run.ended"},
         RunSteps(c, was, now, type)
  PROVE  NavigationInv'
<1>1. /\ PageInv(page, daemon.heard, losses)
      /\ daemon \in DaemonState /\ onWay \in Seq(PageEvent) /\ losses \in Nat
  BY NavigationInvIs
<1>2. /\ daemon' = [daemon EXCEPT !.run[c] = now] /\ onWay' = Delivered(daemon, c, type)
      /\ UNCHANGED <<page, losses>>
  BY DEF RunSteps
<1>3. daemon' \in DaemonState /\ daemon'.heard = daemon.heard
  BY <1>1, <1>2 DEF DaemonState
<1>4. onWay' \in Seq(PageEvent)
  BY <1>1, <1>2, DeliveredIs
<1> QED
  BY <1>1, <1>2, <1>3, <1>4, NavigationInvNext
-----------------------------------------------------------------------------
(* An event that passes the guard. *)

(* A page of no conversation, or of this one, binds the run of c. *)
LEMMA PageBinds ==
  ASSUME NEW p, NEW subs, NEW lost, PageInv(p, subs, lost), NEW c \in Conv,
         p.shown \in {Nowhere, c}, NEW b \in {Nowhere, c}, NEW h \in {Nowhere, b},
         NEW l \in BOOLEAN, NEW ms \in SUBSET (Conv \cup {Local}), NEW ad \in SUBSET Conv,
         p.shown # Nowhere => ms \subseteq p.msgs \cup {c}
  PROVE  PageInv([p EXCEPT !.bound = b, !.home = h, !.locked = l, !.msgs = ms, !.adding = ad], subs, lost)
<1> DEFINE q == [p EXCEPT !.bound = b, !.home = h, !.locked = l, !.msgs = ms, !.adding = ad]
<1>1. p \in PageState /\ IsFiniteSet(p.unsent) /\ OfOneConversation(p) /\ (lost = 0 => FirstConnection(p, subs))
  BY DEF PageInv
<1>2. b \in Somewhere /\ h \in Somewhere
  BY DEF Somewhere
<1>3. /\ q \in PageState /\ q.shown = p.shown /\ q.msgs = ms /\ q.reading = p.reading
      /\ q.restoring = p.restoring /\ q.bound = b /\ q.home = h
      /\ q.sock = p.sock /\ q.subscribed = p.subscribed /\ q.cleans = p.cleans
      /\ q.out = p.out /\ q.unsent = p.unsent
  BY <1>1, <1>2 DEF PageState
<1> HIDE DEF q
<1>4. lost = 0 => FirstConnection(q, subs)
  BY <1>1, <1>3, SameConnection
<1>5. PageInv(q, subs, lost)
  BY <1>1, <1>3, <1>4, PageKeeps
<1> QED
  BY <1>5 DEF q

(* Each kind of event.                                                      *)
LEMMA AppliedKeeps ==
  ASSUME NEW p, NEW subs, NEW lost, PageInv(p, subs, lost), NEW e \in PageEvent, ~Ignored(p, e)
  PROVE  PageInv(Applied(p, e), subs, lost)
<1> DEFINE c == e.of
           Bound(b, h, l, ms, ad) ==
             [p EXCEPT !.bound = b, !.home = h, !.locked = l, !.msgs = ms, !.adding = ad]
<1>1. p \in PageState /\ IsFiniteSet(p.unsent) /\ OfOneConversation(p)
  BY DEF PageInv
<1>2. /\ c \in Conv /\ p.shown \in {Nowhere, c} /\ p.bound \in {Nowhere, c}
      /\ p.home # Nowhere => p.bound = p.home
  BY <1>1 DEF PageEvent, Ignored, OfOneConversation
<1>3. /\ p.msgs \in SUBSET (Conv \cup {Local}) /\ p.adding \in SUBSET Conv
      /\ p.locked \in BOOLEAN /\ p.home \in {Nowhere, c} /\ p.home \in {Nowhere, p.bound}
  BY <1>1, <1>2 DEF PageState
<1> HIDE DEF c
<1>4. ASSUME NEW b \in {Nowhere, c}, NEW h \in {Nowhere, b}, NEW l \in BOOLEAN,
             NEW ms \in SUBSET (Conv \cup {Local}), NEW ad \in SUBSET Conv,
             p.shown # Nowhere => ms \subseteq p.msgs \cup {c}
      PROVE  PageInv(Bound(b, h, l, ms, ad), subs, lost)
  BY <1>2, <1>4, PageBinds
<1>5. CASE e.type = "run.created"
  <2> DEFINE ms == IF Local \in p.msgs THEN (p.msgs \ {Local}) \cup {c} ELSE p.msgs
             ad == IF p.born = Nowhere THEN p.adding \cup {c} ELSE p.adding
  <2>1. Applied(p, e) = ShowPage(Bound(c, c, p.locked, ms, ad), c)
    <3>1. Bound(c, c, p.locked, ms, ad) = [p EXCEPT !.bound = c, !.home = c, !.msgs = ms, !.adding = ad]
      BY <1>1 DEF PageState
    <3>2. Applied(p, e) = ShowPage([p EXCEPT !.bound = c, !.home = c, !.msgs = ms, !.adding = ad], c)
      BY <1>5 DEF Applied, RunCreated, c
    <3> HIDE DEF Bound
    <3> QED
      BY <3>1, <3>2
  <2>2. /\ ms \in SUBSET (Conv \cup {Local}) /\ ad \in SUBSET Conv
        /\ ms \subseteq p.msgs \cup {c}
    BY <1>2, <1>3
  <2> HIDE DEF ms, ad
  <2>3. PageInv(Bound(c, c, p.locked, ms, ad), subs, lost)
    BY <1>3, <1>4, <2>2
  <2> HIDE DEF Bound
  <2> QED
    BY <1>2, <2>1, <2>3, ShowPageKeeps DEF Somewhere
<1>6. CASE e.type = "run.started"
  <2>1. Applied(p, e) = ShowPage(Bound(c, c, p.locked, p.msgs, p.adding), c)
    <3>1. Bound(c, c, p.locked, p.msgs, p.adding) = [p EXCEPT !.bound = c, !.home = c]
      BY <1>1 DEF PageState
    <3>2. Applied(p, e) = ShowPage([p EXCEPT !.bound = c, !.home = c], c)
      BY <1>6 DEF Applied, RunStarted, c
    <3> HIDE DEF Bound
    <3> QED
      BY <3>1, <3>2
  <2>2. PageInv(Bound(c, c, p.locked, p.msgs, p.adding), subs, lost)
    BY <1>3, <1>4
  <2> HIDE DEF Bound
  <2> QED
    BY <1>2, <2>1, <2>2, ShowPageKeeps DEF Somewhere
<1>7. CASE e.type = "message.started"
  <2>1. Applied(p, e) = Bound(c, p.home, p.locked, p.msgs \cup {c}, p.adding)
    BY <1>1, <1>7 DEF Applied, c, PageState
  <2> DEFINE ms == p.msgs \cup {c}
  <2>0. ms \in SUBSET (Conv \cup {Local}) /\ ms \subseteq p.msgs \cup {c}
    BY <1>2, <1>3
  <2> HIDE DEF ms
  <2>2. PageInv(Bound(c, p.home, p.locked, ms, p.adding), subs, lost)
    BY <1>3, <1>4, <2>0
  <2> HIDE DEF Bound
  <2> QED
    BY <2>1, <2>2 DEF ms
<1>8. CASE e.type = "approval.required"
  <2>1. Applied(p, e) = Bound(c, p.home, TRUE, p.msgs, p.adding)
    BY <1>1, <1>8 DEF Applied, c, PageState
  <2>2. PageInv(Bound(c, p.home, TRUE, p.msgs, p.adding), subs, lost)
    BY <1>2, <1>3, <1>4
  <2> HIDE DEF Bound
  <2> QED
    BY <2>1, <2>2
<1>9. CASE e.type = "run.ended" /\ p.bound = c
  <2>1. Applied(p, e) = Bound(Nowhere, Nowhere, FALSE, p.msgs, p.adding)
    BY <1>1, <1>9 DEF Applied, c, PageState
  <2>2. PageInv(Bound(Nowhere, Nowhere, FALSE, p.msgs, p.adding), subs, lost)
    BY <1>3, <1>4
  <2> HIDE DEF Bound
  <2> QED
    BY <2>1, <2>2
<1>10. CASE e.type = "run.ended" /\ p.bound # c
  <2>1. Applied(p, e) = p
    BY <1>10 DEF Applied, c
  <2> QED
    BY <2>1
<1> QED
  BY <1>5, <1>6, <1>7, <1>8, <1>9, <1>10 DEF PageEvent

(* An event arrives, ignored or applied.                                    *)
LEMMA EventKeeps ==
  ASSUME NavigationInv, EventArrives PROVE NavigationInv'
<1>1. /\ PageInv(page, daemon.heard, losses)
      /\ daemon \in DaemonState /\ onWay \in Seq(PageEvent) /\ losses \in Nat
  BY NavigationInvIs
<1>2. /\ onWay # <<>> /\ onWay' = Tail(onWay)
      /\ page' = IF Ignored(page, Head(onWay)) THEN page ELSE Applied(page, Head(onWay))
      /\ UNCHANGED <<daemon, losses>>
  BY DEF EventArrives
<1>3. Head(onWay) \in PageEvent /\ Tail(onWay) \in Seq(PageEvent)
  BY <1>1, <1>2
<1>4. PageInv(page', daemon.heard, losses)
  BY <1>1, <1>2, <1>3, AppliedKeeps
<1> QED
  BY <1>1, <1>2, <1>3, <1>4, NavigationInvNext
-----------------------------------------------------------------------------
(* The inductive invariant of the page's ways between conversations, for    *)
(* every number of conversations, clicks, losses and events.                *)
THEOREM NavigationInvariant == NavigationSpec => []NavigationInv
<1>1. NavigationInit => NavigationInv
  <2> SUFFICES ASSUME NavigationInit PROVE NavigationInv
    OBVIOUS
  <2>1. Nowhere \in Somewhere /\ <<Nowhere>> \in Seq(Somewhere) /\ <<>> \in Seq(PageCommand) /\ <<>> \in Seq(PageEvent)
    BY DEF Somewhere
  <2>2. NoRestore \in [of : Somewhere, answer : RunStates \cup {"asked"}]
    BY <2>1 DEF NoRestore, RunStates
  <2>3. page \in PageState /\ IsFiniteSet(page.unsent)
    BY <2>1, <2>2, FS_EmptySet DEF NavigationInit, PageState
  <2>4. daemon \in DaemonState /\ onWay \in Seq(PageEvent) /\ losses \in Nat
    BY <2>1 DEF NavigationInit, DaemonState, RunStates
  <2>5. OfOneConversation(page) /\ FirstConnection(page, daemon.heard)
    BY DEF NavigationInit, OfOneConversation, FirstConnection, Connected, NoRestore
  <2> QED
    BY <2>3, <2>4, <2>5 DEF NavigationInv, NavigationTypeOK
<1>2. NavigationInv /\ [NavigationNext]_navVars => NavigationInv'
  <2> SUFFICES ASSUME NavigationInv, [NavigationNext]_navVars PROVE NavigationInv'
    OBVIOUS
  <2>1. CASE Arrives
    <3>1. ASSUME NEW i \in DOMAIN page.refreshing, RefreshAnswered(i) PROVE NavigationInv'
      BY <3>1, RefreshAnswerKeeps
    <3>2. ASSUME NEW c \in Conv, AddAnswered(c) PROVE NavigationInv'
      BY <3>2, AddKeeps
    <3> QED
      BY <2>1, <3>1, <3>2, ServeKeeps, EventKeeps, MessagesKeep, ActiveReadKeeps, ActiveAnswerKeeps
         DEF Arrives
  <2>2. CASE Happens
    <3>1. ASSUME NEW c \in Conv, SelectConversation(c) PROVE NavigationInv'
      BY <3>1, SelectKeeps
    <3>2. ASSUME NEW c \in Conv, RunStreams(c) \/ RunMoves(c) PROVE NavigationInv'
      <4>1. \/ RunSteps(c, "running", "running", "message.started")
            \/ RunSteps(c, "accepted", "running", "run.started")
            \/ RunSteps(c, "approval", "running", "run.started")
            \/ RunSteps(c, "running", "approval", "approval.required")
            \/ RunSteps(c, "running", "ended", "run.ended")
        BY <3>2 DEF RunStreams, RunMoves
      <4>2. {"running", "approval", "ended"} \subseteq RunStates
        BY DEF RunStates
      <4> QED
        BY <4>1, <4>2, RunKeeps
    <3> QED
      BY <2>2, <3>1, <3>2, NewChatKeeps, SendKeeps, StopKeeps, OpenedKeeps, LostKeeps, ReconnectKeeps
         DEF Happens
  <2>3. CASE UNCHANGED navVars
    <3>1. UNCHANGED <<page, daemon, onWay, losses>>
      BY <2>3 DEF navVars
    <3> QED
      BY <3>1, NavigationInvIs, NavigationInvNext
  <2> QED
    BY <2>1, <2>2, <2>3 DEF NavigationNext
<1> QED
  BY <1>1, <1>2, PTL DEF NavigationSpec

(* A page that shows a conversation is bound to no run of another, shows    *)
(* no message of another, and hears the conversation as long as its socket  *)
(* was never replaced.                                                      *)
THEOREM PagesAreOfOneConversation == NavigationSpec => []PageOfOneConversation
<1>1. NavigationInv => PageOfOneConversation
  <2> SUFFICES ASSUME NavigationInv, page.shown # Nowhere,
                      losses = 0, Connected(page), page.out = <<>>
               PROVE  page.shown \in daemon.heard
    BY DEF NavigationInv, OfOneConversation, PageOfOneConversation
  <2>1. WillHear(page.out, daemon.heard, page.shown)
    BY DEF NavigationInv, FirstConnection
  <2>2. DOMAIN page.out = {}
    OBVIOUS
  <2> QED
    BY <2>1, <2>2 DEF WillHear
<1> QED
  BY <1>1, NavigationInvariant, PTL

-----------------------------------------------------------------------------
(* The composer: the types of its parts, and what makes a message whole.     *)
ComposerText == Draft \cup {NoText}
EntryState == {"uploading", "done", "error"}
Pressed == [text : ComposerText, overtaken : BOOLEAN]
BoxRow ==
  [text : ComposerText, files : SUBSET Entry, queued : BOOLEAN, failed : BOOLEAN, was : BOOLEAN,
   last : Content, state : States, pending : BOOLEAN]
SentRow ==
  [text : ComposerText, files : SUBSET Entry, asked : Pressed,
   left : SUBSET [image : BOOLEAN, st : EntryState, flying : BOOLEAN]]

SaysWhat(text, pressed) == text = pressed.text \/ (pressed.overtaken /\ text = NoText)

IsWhole(m) ==
  /\ SaysWhat(m.text, m.asked)
  /\ \A e \in m.files : e.st = "done"
  /\ \A e \in m.left : ~e.image /\ e.st = "uploading" /\ ~e.flying

LEMMA ComposerTypes ==
  /\ ComposerTypeOK <=>
       /\ box \in BoxRow
       /\ rendered \in [files : SUBSET Entry, queued : BOOLEAN, failed : BOOLEAN, state : States,
                        uploading : BOOLEAN, again : BOOLEAN]
       /\ flights \subseteq Int /\ running \in BOOLEAN /\ asked \in Pressed /\ sent \in Seq(SentRow)
  /\ MessagesAreWhole <=> \A i \in DOMAIN sent : IsWhole(sent[i])
BY DEF ComposerTypeOK, BoxRow, SentRow, Pressed, ComposerText, EntryState, MessagesAreWhole, IsWhole, SaysWhat

(* What is neither under way nor failed is done.                             *)
LEMMA RefsAreDone ==
  ASSUME NEW files \in SUBSET Entry
  PROVE  Refs(files) \in SUBSET Entry /\ \A e \in Refs(files) : e.st = "done"
BY DEF Refs, Entry

(* A message that is let through when no upload is under way is whole.       *)
LEMMA MessageIsWhole ==
  ASSUME box \in BoxRow, flights = {}, ~Blocked(box.files), NEW text \in ComposerText,
         NEW pressed \in Pressed, SaysWhat(text, pressed)
  PROVE  NewMessage(text, pressed) \in SentRow /\ IsWhole(NewMessage(text, pressed))
<1> DEFINE left == {[image |-> uploads[e.uid] \in Image, st |-> e.st, flying |-> e.uid \in flights] :
                      e \in box.files \ Refs(box.files)}
<1>1. box.files \in SUBSET Entry
  BY DEF BoxRow
<1>2. \A e \in box.files \ Refs(box.files) :
         e.st = "uploading" /\ uploads[e.uid] \notin Image /\ e.uid \notin flights
  BY <1>1 DEF Refs, Blocked, Entry
<1>3. \A x \in left : x = [image |-> FALSE, st |-> "uploading", flying |-> FALSE]
  <2> SUFFICES ASSUME NEW e \in box.files \ Refs(box.files)
               PROVE  [image |-> uploads[e.uid] \in Image, st |-> e.st, flying |-> e.uid \in flights]
                        = [image |-> FALSE, st |-> "uploading", flying |-> FALSE]
    OBVIOUS
  <2>1. (uploads[e.uid] \in Image) = FALSE /\ (e.uid \in flights) = FALSE /\ e.st = "uploading"
    BY <1>2
  <2> QED BY <2>1, Zenon
<1> HIDE DEF left
<1>4. left \in SUBSET [image : BOOLEAN, st : EntryState, flying : BOOLEAN]
  <2>1. [image |-> FALSE, st |-> "uploading", flying |-> FALSE] \in [image : BOOLEAN, st : EntryState, flying : BOOLEAN]
    BY DEF EntryState
  <2> QED BY <1>3, <2>1
<1>5. NewMessage(text, pressed) = [text |-> text, files |-> Refs(box.files), asked |-> pressed, left |-> left]
  BY DEF NewMessage, left
<1>6. Refs(box.files) \in SUBSET Entry /\ \A e \in Refs(box.files) : e.st = "done"
  BY <1>1, RefsAreDone
<1> QED BY <1>3, <1>4, <1>5, <1>6 DEF SentRow, IsWhole

(* It joins those sent before.                                               *)
LEMMA DispatchKeeps ==
  ASSUME ComposerTypeOK, MessagesAreWhole, flights = {}, ~Blocked(box.files),
         NEW text \in ComposerText, NEW pressed \in Pressed, SaysWhat(text, pressed),
         Dispatch(text, pressed)
  PROVE  /\ running' \in BOOLEAN /\ sent' \in Seq(SentRow)
         /\ \A i \in DOMAIN sent' : IsWhole(sent'[i])
<1>1. /\ box \in BoxRow /\ running \in BOOLEAN /\ sent \in Seq(SentRow)
      /\ \A i \in DOMAIN sent : IsWhole(sent[i])
  BY ComposerTypes
<1>2. CASE Takes(text)
  <2> DEFINE m == NewMessage(text, pressed)
  <2>1. m \in SentRow /\ IsWhole(m)
    BY <1>1, MessageIsWhole
  <2>2. running' = TRUE /\ sent' = Append(sent, m)
    BY <1>2 DEF Dispatch
  <2> HIDE DEF m
  <2>3. /\ sent' \in Seq(SentRow) /\ Len(sent') = Len(sent) + 1
        /\ \A i \in 1..Len(sent) : sent'[i] = sent[i] /\ sent'[Len(sent) + 1] = m
    BY <1>1, <2>1, <2>2, AppendProperties
  <2>4. sent'[Len(sent) + 1] = m
    BY <1>1, <2>1, <2>2, AppendProperties
  <2>5. DOMAIN sent = 1..Len(sent) /\ DOMAIN sent' = 1..Len(sent') /\ Len(sent) \in Nat
    BY <1>1, <2>3
  <2> QED BY <1>1, <2>1, <2>2, <2>3, <2>4, <2>5
<1>3. CASE ~Takes(text)
  BY <1>1, <1>3 DEF Dispatch
<1> QED BY <1>2, <1>3

(* Handing a message over changes what is pending and the state; emptying    *)
(* the composer, its input.                                                  *)
LEMMA HandOverTypes ==
  ASSUME NEW c \in BoxRow, NEW text
  PROVE  /\ HandOver(c, text) \in BoxRow /\ HandOver(c, text).last = c.last
         /\ HandOver(c, text).state \in {c.state, "accepted"}
BY DEF HandOver, BoxRow, States

LEMMA EmptiedTypes ==
  ASSUME NEW c \in BoxRow
  PROVE  Emptied(c) \in BoxRow /\ Emptied(c).last = c.last /\ Emptied(c).state = c.state
BY DEF Emptied, BoxRow, ComposerText

LEMMA RefusedTypes ==
  ASSUME NEW c \in BoxRow
  PROVE  Refused(c) \in BoxRow /\ Refused(c).last = c.last /\ Refused(c).state = "failed"
BY DEF Refused, BoxRow, States

(* An event leaves the invariant if it keeps what was last sent, and brings  *)
(* no completion unseen.                                                     *)
LEMMA EventHolds ==
  ASSUME ComposerInv, Settled, box' \in BoxRow, box'.last = box.last,
         box'.state \in {box.state} \cup (States \ {"completed"}) \/ asked'.overtaken,
         UNCHANGED <<rendered, sent>>, flights' \subseteq Int, running' \in BOOLEAN,
         asked' \in Pressed, asked' = asked \/ (asked'.text = asked.text /\ asked'.overtaken)
  PROVE  ComposerInv'
<1>1. ComposerTypeOK'
  BY ComposerTypes DEF ComposerInv, ComposerTypeOK, BoxRow, SentRow, Pressed, ComposerText, EntryState
<1>2. box'.last.text = asked'.text \/ (asked'.overtaken /\ box'.last.text = NoText)
  BY DEF ComposerInv
<1>3. Turned' /\ box'.state = "completed" => asked'.overtaken
  BY DEF ComposerInv, Turned, Settled, Look
<1>4. MessagesAreWhole'
  BY DEF ComposerInv, MessagesAreWhole
<1> QED BY <1>1, <1>2, <1>3, <1>4 DEF ComposerInv

(* New uploads add entries that are under way.                               *)
LEMMA UploadsStart ==
  ASSUME NEW c \in BoxRow, NEW fs, NEW count, flights \subseteq Int, StartUploads(c, fs, count)
  PROVE  /\ flights' \subseteq Int /\ box' \in BoxRow /\ box'.last = c.last /\ box'.state = c.state
<1> DEFINE room  == IF count < MaxFiles THEN MaxFiles - count ELSE 0
           taken == SubSeq(fs, 1, IF room < Len(fs) THEN room ELSE Len(fs))
           n     == Len(uploads)
           uids == n + 1 .. n + Len(taken)
           more  == {[uid |-> u, st |-> "uploading"] : u \in uids}
<1>1. flights' = flights \cup uids /\ box' = [c EXCEPT !.files = c.files \cup more]
  BY DEF StartUploads
<1>2. uids \subseteq Int /\ more \subseteq Entry
  BY DEF Entry
<1> HIDE DEF more, uids
<1> QED BY <1>1, <1>2 DEF BoxRow

LEMMA AttachmentsHold ==
  ASSUME ComposerInv,
         \/ \E f \in Image \cup Document : Attach(f)
         \/ \E u \in flights, st \in {"done", "error"} : UploadEnds(u, st)
         \/ \E u \in DOMAIN uploads : RemoveFile(u)
         \/ RetryUpload
  PROVE  ComposerInv'
<1>1. box \in BoxRow /\ flights \subseteq Int /\ running \in BOOLEAN /\ asked \in Pressed /\ box.state \in States
      /\ box.files \subseteq Entry
  BY ComposerTypes DEF ComposerInv, BoxRow
<1>2. ASSUME NEW f, Attach(f) PROVE ComposerInv'
  <2>1. Settled /\ UNCHANGED <<rendered, running, asked, sent>> /\ StartUploads(box, <<f>>, Cardinality(box.files))
    BY <1>2 DEF Attach
  <2>2. flights' \subseteq Int /\ box' \in BoxRow /\ box'.last = box.last /\ box'.state = box.state
    BY <1>1, <2>1, UploadsStart
  <2> QED BY <1>1, <2>1, <2>2, EventHolds
<1>3. ASSUME NEW u \in flights, NEW st \in {"done", "error"}, UploadEnds(u, st) PROVE ComposerInv'
  <2> DEFINE files == {IF e.uid = u THEN [uid |-> u, st |-> st] ELSE e : e \in box.files}
  <2>1. /\ Settled /\ UNCHANGED <<rendered, running, asked, sent>> /\ flights' = flights \ {u}
        /\ box' = [box EXCEPT !.files = files]
    BY <1>3 DEF UploadEnds
  <2>2. files \subseteq Entry
    BY <1>1, <1>3 DEF Entry
  <2> HIDE DEF files
  <2>3. box' \in BoxRow /\ box'.last = box.last /\ box'.state = box.state
    BY <1>1, <2>1, <2>2 DEF BoxRow
  <2> QED BY <1>1, <2>1, <2>3, EventHolds
<1>4. ASSUME NEW u, RemoveFile(u) PROVE ComposerInv'
  <2>1. /\ Settled /\ UNCHANGED <<rendered, running, asked, sent, flights>>
        /\ box' = [box EXCEPT !.files = {e \in box.files : e.uid # u}]
    BY <1>4 DEF RemoveFile
  <2>2. box' \in BoxRow /\ box'.last = box.last /\ box'.state = box.state
    BY <1>1, <2>1 DEF BoxRow
  <2> QED BY <1>1, <2>1, <2>2, EventHolds
<1>5. ASSUME RetryUpload PROVE ComposerInv'
  <2> DEFINE c == [box EXCEPT !.failed = FALSE, !.files = {e \in box.files : e.st # "error"}]
  <2>1. PICK fs, n : StartUploads(c, fs, n)
    BY <1>5 DEF RetryUpload
  <2>2. Settled /\ UNCHANGED <<rendered, running, asked, sent>>
    BY <1>5 DEF RetryUpload
  <2>3. c \in BoxRow /\ c.last = box.last /\ c.state = box.state
    BY <1>1 DEF BoxRow
  <2> HIDE DEF c
  <2>4. flights' \subseteq Int /\ box' \in BoxRow /\ box'.last = box.last /\ box'.state = box.state
    BY <1>1, <2>1, <2>3, UploadsStart
  <2> QED BY <1>1, <2>2, <2>4, EventHolds
<1> QED BY <1>2, <1>3, <1>4, <1>5

LEMMA TypeHolds ==
  ASSUME ComposerInv, NEW t \in ComposerText, Type(t)
  PROVE  ComposerInv'
<1>1. box \in BoxRow /\ flights \subseteq Int /\ running \in BOOLEAN /\ asked \in Pressed
  BY ComposerTypes DEF ComposerInv
<1>2. Settled /\ UNCHANGED <<rendered, flights, running, asked, sent>> /\ box' = [box EXCEPT !.text = t]
  BY DEF Type
<1>3. box' \in BoxRow /\ box'.last = box.last /\ box'.state = box.state
  BY <1>1, <1>2 DEF BoxRow
<1> QED BY <1>1, <1>2, <1>3, EventHolds

LEMMA ReportsHold ==
  ASSUME ComposerInv,
         \/ \E st \in {"running", "waiting_approval", "waiting_user"} : RunReports(st)
         \/ \E st \in {"completed", "failed"} : RunStops(st)
         \/ LoseTrack
  PROVE  ComposerInv'
<1>1. box \in BoxRow /\ flights \subseteq Int /\ running \in BOOLEAN /\ asked \in Pressed
      /\ box.state \in States /\ box.pending \in BOOLEAN
  BY ComposerTypes DEF ComposerInv, BoxRow
<1>2. ASSUME NEW st \in {"running", "waiting_approval", "waiting_user"}, RunReports(st) PROVE ComposerInv'
  <2> DEFINE p == CASE st = "waiting_approval" -> TRUE
                    [] st = "waiting_user"     -> FALSE
                    [] OTHER                   -> box.pending
  <2>1. /\ Settled /\ UNCHANGED <<rendered, flights, running, asked, sent>>
        /\ box' = [box EXCEPT !.state = st, !.pending = p]
    BY <1>2 DEF RunReports
  <2>2. p \in BOOLEAN
    BY <1>1
  <2> HIDE DEF p
  <2>3. box' \in BoxRow /\ box'.last = box.last /\ box'.state \in States \ {"completed"}
    BY <1>1, <2>1, <2>2 DEF BoxRow, States
  <2> QED BY <1>1, <2>1, <2>3, EventHolds
<1>3. ASSUME NEW st \in {"completed", "failed"}, RunStops(st) PROVE ComposerInv'
  <2>1. /\ Settled /\ UNCHANGED <<rendered, flights, sent>> /\ running' = FALSE
        /\ box' = [box EXCEPT !.state = st, !.pending = FALSE]
        /\ asked' = [asked EXCEPT !.overtaken = asked.overtaken \/ st = "completed"]
    BY <1>3 DEF RunStops
  <2>2. box' \in BoxRow /\ box'.last = box.last /\ box'.state = st /\ st \in States
    BY <1>1, <2>1 DEF BoxRow, States
  <2>3. asked' \in Pressed /\ asked'.text = asked.text /\ (st = "completed" => asked'.overtaken)
        /\ (asked' = asked \/ asked'.overtaken)
    <3>1. asked'.text = asked.text /\ asked'.overtaken = (asked.overtaken \/ st = "completed")
          /\ asked' \in Pressed
      BY <1>1, <2>1 DEF Pressed
    <3>2. asked.overtaken \/ st = "completed" => asked'.overtaken
      BY <3>1
    <3>3. ~asked.overtaken /\ st # "completed" => asked' = asked
      BY <1>1, <2>1 DEF Pressed
    <3> QED BY <3>1, <3>2, <3>3, Zenon
  <2> QED BY <1>1, <2>1, <2>2, <2>3, EventHolds
<1>4. ASSUME LoseTrack PROVE ComposerInv'
  <2>1. Settled /\ UNCHANGED <<rendered, flights, running, asked, sent>> /\ box' = [box EXCEPT !.pending = FALSE]
    BY <1>4 DEF LoseTrack
  <2>2. box' \in BoxRow /\ box'.last = box.last /\ box'.state = box.state
    BY <1>1, <2>1 DEF BoxRow
  <2> QED BY <1>1, <2>1, <2>2, EventHolds
<1> QED BY <1>2, <1>3, <1>4

LEMMA PressSendHolds ==
  ASSUME ComposerInv, PressSend
  PROVE  ComposerInv'
<1> DEFINE c == [box EXCEPT !.last = [text |-> box.text, files |-> box.files]]
<1>1. /\ box \in BoxRow /\ flights \subseteq Int /\ running \in BOOLEAN /\ sent \in Seq(SentRow)
      /\ \A i \in DOMAIN sent : IsWhole(sent[i])
      /\ rendered \in [files : SUBSET Entry, queued : BOOLEAN, failed : BOOLEAN, state : States,
                       uploading : BOOLEAN, again : BOOLEAN]
  BY ComposerTypes DEF ComposerInv
<1>2. /\ Settled /\ asked' = [text |-> box.text, overtaken |-> FALSE] /\ UNCHANGED <<rendered, uploads, flights>>
      /\ \/ box' = [c EXCEPT !.queued = TRUE, !.state = "queued_until_upload_done"] /\ UNCHANGED <<running, sent>>
         \/ box' = Refused(c) /\ UNCHANGED <<running, sent>>
         \/ /\ flights = {} /\ ~Blocked(box.files)
            /\ box' = Emptied(HandOver(c, box.text)) /\ Dispatch(box.text, asked')
  BY DEF PressSend
<1>3. box.text \in ComposerText /\ c \in BoxRow /\ c.last.text = box.text /\ c.state = box.state
      /\ asked' \in Pressed /\ asked'.text = box.text
  BY <1>1, <1>2 DEF BoxRow, Content, Pressed, ComposerText
<1> HIDE DEF c
<1>4. box' \in BoxRow /\ box'.last = c.last /\ (box'.state = box.state \/ box'.state # "completed")
  <2>1. [c EXCEPT !.queued = TRUE, !.state = "queued_until_upload_done"] \in BoxRow
    BY <1>3 DEF BoxRow, States
  <2>2. [c EXCEPT !.queued = TRUE, !.state = "queued_until_upload_done"].last = c.last
    BY <1>3 DEF BoxRow
  <2>3. CASE box' = [c EXCEPT !.queued = TRUE, !.state = "queued_until_upload_done"]
    BY <1>3, <2>1, <2>2, <2>3 DEF BoxRow
  <2>4. CASE box' = Refused(c)
    BY <1>3, <2>4, RefusedTypes
  <2>5. CASE box' = Emptied(HandOver(c, box.text))
    BY <1>3, <2>5, HandOverTypes, EmptiedTypes
  <2> QED BY <1>2, <2>3, <2>4, <2>5
<1>5. running' \in BOOLEAN /\ sent' \in Seq(SentRow) /\ \A i \in DOMAIN sent' : IsWhole(sent'[i])
  <2>1. CASE UNCHANGED <<running, sent>>
    BY <1>1, <2>1
  <2>2. CASE flights = {} /\ ~Blocked(box.files) /\ Dispatch(box.text, asked')
    <3>1. SaysWhat(box.text, asked')
      BY <1>3 DEF SaysWhat
    <3> QED BY <1>3, <2>2, <3>1, DispatchKeeps DEF ComposerInv
  <2> QED BY <1>2, <2>1, <2>2
<1>6. ComposerTypeOK' /\ MessagesAreWhole'
  BY <1>1, <1>2, <1>3, <1>4, <1>5
     DEF ComposerTypeOK, BoxRow, SentRow, Pressed, ComposerText, EntryState, MessagesAreWhole, IsWhole, SaysWhat
<1>7. ~(Turned' /\ box'.state = "completed")
  BY <1>2, <1>4 DEF Turned, Settled, Look
<1> QED BY <1>3, <1>4, <1>6, <1>7 DEF ComposerInv

(* The effects before the queued send forget what was sent only on a         *)
(* completion, and report none.                                              *)
LEMMA EffectsKeep ==
  ASSUME ComposerTypeOK
  PROVE  LET c == ReportUploads(ForgetSent(RestoreInput(box)))
         IN  /\ c \in BoxRow /\ (c.state = box.state \/ c.state # "completed")
             /\ c.last = box.last \/ (c.last = Nothing /\ Turned /\ box.state = "completed")
<1>1. box \in BoxRow
  BY ComposerTypes
<1> DEFINE a == RestoreInput(box)
           b == ForgetSent(a)
           c == ReportUploads(b)
<1>2. a \in BoxRow /\ a.state = box.state /\ a.last = box.last
  <2> DEFINE text == IF /\ Turned /\ box.state = "failed" /\ rendered.state # "editing"
                        /\ box.text = NoText
                     THEN box.last.text ELSE box.text
             files == IF PutsBack THEN box.last.files ELSE box.files
  <2>1. a = [box EXCEPT !.text = text, !.files = files]
    BY DEF RestoreInput
  <2>2. text \in ComposerText /\ files \in SUBSET Entry
    BY <1>1 DEF BoxRow, Content, ComposerText
  <2> HIDE DEF text, files
  <2> QED BY <1>1, <2>1, <2>2 DEF BoxRow
<1> HIDE DEF a
<1>3. b \in BoxRow /\ b.state = box.state
      /\ (b.last = box.last \/ (b.last = Nothing /\ Turned /\ box.state = "completed"))
  <2>1. CASE Turned /\ box.state = "completed"
    <3>1. b = [a EXCEPT !.last = Nothing] /\ Nothing \in Content
      BY <2>1 DEF ForgetSent, Nothing, Content
    <3> QED BY <1>2, <2>1, <3>1 DEF BoxRow
  <2>2. CASE ~(Turned /\ box.state = "completed")
    BY <1>2, <2>2 DEF ForgetSent
  <2> QED BY <2>1, <2>2
<1> HIDE DEF b
<1>4. c \in BoxRow /\ c.last = b.last /\ (c.state = box.state \/ c.state # "completed")
  <2>1. CASE <<Look.uploading, box.queued, box.failed>> = <<rendered.uploading, rendered.queued, rendered.failed>>
    BY <1>3, <2>1 DEF ReportUploads
  <2>2. CASE ~(<<Look.uploading, box.queued, box.failed>> = <<rendered.uploading, rendered.queued, rendered.failed>>)
    <3>1. CASE Look.uploading
      <4> DEFINE s == IF box.queued THEN "queued_until_upload_done" ELSE "uploading"
      <4>1. c = [b EXCEPT !.was = TRUE, !.state = s]
        BY <2>2, <3>1 DEF ReportUploads
      <4>2. s \in States \ {"completed"}
        BY DEF States
      <4> HIDE DEF s
      <4> QED BY <1>3, <4>1, <4>2 DEF BoxRow
    <3>2. CASE ~Look.uploading
      <4> DEFINE s == IF box.failed THEN "failed" ELSE IF box.was THEN "editing" ELSE b.state
      <4>1. c = [b EXCEPT !.was = FALSE, !.state = s]
        BY <2>2, <3>2 DEF ReportUploads
      <4>2. s \in States /\ (s = box.state \/ s # "completed")
        BY <1>3 DEF States, BoxRow
      <4> HIDE DEF s
      <4> QED BY <1>3, <4>1, <4>2 DEF BoxRow
    <3> QED BY <3>1, <3>2
  <2> QED BY <2>1, <2>2
<1> QED BY <1>3, <1>4 DEF a, b

LEMMA DetectFailuresTypes ==
  ASSUME NEW c \in BoxRow
  PROVE  DetectFailures(c) \in BoxRow /\ DetectFailures(c).last = c.last /\ DetectFailures(c).state = c.state
<1>1. CASE Look.uploading \/ (~rendered.uploading /\ box.files = rendered.files /\ ~rendered.again)
  BY <1>1 DEF DetectFailures
<1>2. CASE ~(Look.uploading \/ (~rendered.uploading /\ box.files = rendered.files /\ ~rendered.again))
  <2> DEFINE f == \E e \in box.files : e.st = "error"
  <2>1. DetectFailures(c) = [c EXCEPT !.failed = f]
    BY <1>2 DEF DetectFailures
  <2>2. f \in BOOLEAN
    OBVIOUS
  <2> HIDE DEF f
  <2> QED BY <2>1, <2>2 DEF BoxRow
<1> QED BY <1>1, <1>2

LEMMA RenderHolds ==
  ASSUME ComposerInv, Render
  PROVE  ComposerInv'
<1> DEFINE c == ReportUploads(ForgetSent(RestoreInput(box)))
           d == [c EXCEPT !.queued = FALSE]
           h == Emptied(HandOver(d, c.last.text))
           g == [h EXCEPT !.state = "sending"]
<1>1. /\ box \in BoxRow /\ flights \subseteq Int /\ running \in BOOLEAN /\ sent \in Seq(SentRow) /\ asked \in Pressed
      /\ \A i \in DOMAIN sent : IsWhole(sent[i]) /\ SaysWhat(box.last.text, asked)
      /\ SaysWhat(box.last.text, asked)
      /\ Turned /\ box.state = "completed" => asked.overtaken
  BY ComposerTypes DEF ComposerInv, SaysWhat
<1>2. /\ UNCHANGED <<uploads, flights, asked>> /\ rendered' = [Look EXCEPT !.again = PutsBack]
      /\ \/ box' = DetectFailures(c) /\ UNCHANGED <<running, sent>>
         \/ box' = DetectFailures(Refused(d)) /\ UNCHANGED <<running, sent>>
         \/ /\ ~Look.uploading /\ ~Blocked(box.files)
            /\ box' = DetectFailures(g) /\ Dispatch(c.last.text, asked)
  BY DEF Render
<1>3. c \in BoxRow /\ (c.state = box.state \/ c.state # "completed")
      /\ (c.last = box.last \/ (c.last = Nothing /\ Turned /\ box.state = "completed"))
  BY EffectsKeep DEF ComposerInv
<1> HIDE DEF c
<1>4. c.last.text \in ComposerText /\ SaysWhat(c.last.text, asked)
  BY <1>1, <1>3 DEF SaysWhat, Nothing, BoxRow, Content, ComposerText
<1>5. d \in BoxRow /\ d.last = c.last
  BY <1>3 DEF BoxRow
<1> HIDE DEF d
<1>6. h \in BoxRow /\ h.last = c.last
  BY <1>5, HandOverTypes, EmptiedTypes
<1> HIDE DEF h
<1>7. g \in BoxRow /\ g.last = c.last /\ g.state = "sending"
  BY <1>6 DEF BoxRow, States
<1> HIDE DEF g
<1>8. box' \in BoxRow /\ box'.last = c.last /\ (box'.state = box.state \/ box'.state # "completed")
  BY <1>2, <1>3, <1>5, <1>7, RefusedTypes, DetectFailuresTypes
<1>9. running' \in BOOLEAN /\ sent' \in Seq(SentRow) /\ \A i \in DOMAIN sent' : IsWhole(sent'[i])
  <2>1. CASE UNCHANGED <<running, sent>>
    BY <1>1, <2>1
  <2>2. CASE ~Look.uploading /\ ~Blocked(box.files) /\ Dispatch(c.last.text, asked)
    <3>1. flights = {}
      BY <2>2 DEF Look
    <3> QED BY <1>1, <1>4, <2>2, <3>1, DispatchKeeps DEF ComposerInv
  <2> QED BY <1>2, <2>1, <2>2
<1>10. /\ rendered' \in [files : SUBSET Entry, queued : BOOLEAN, failed : BOOLEAN, state : States,
                         uploading : BOOLEAN, again : BOOLEAN]
       /\ rendered'.state = box.state
  <2>1. PutsBack \in BOOLEAN
    BY DEF PutsBack
  <2> QED BY <1>1, <1>2, <2>1 DEF Look, BoxRow
<1>11. ComposerTypeOK' /\ MessagesAreWhole'
  BY <1>1, <1>2, <1>8, <1>9, <1>10
     DEF ComposerTypeOK, BoxRow, SentRow, Pressed, ComposerText, EntryState, MessagesAreWhole, IsWhole, SaysWhat
<1>12. ~(Turned' /\ box'.state = "completed")
  BY <1>8, <1>10 DEF Turned
<1>13. SaysWhat(box'.last.text, asked')
  BY <1>2, <1>4, <1>8
<1> QED BY <1>11, <1>12, <1>13 DEF ComposerInv, SaysWhat

LEMMA ComposerStepHolds ==
  ComposerInv /\ [ComposerNext]_composerVars => ComposerInv'
<1> SUFFICES ASSUME ComposerInv, [ComposerNext]_composerVars PROVE ComposerInv'
  OBVIOUS
<1>1. CASE UNCHANGED composerVars
  BY <1>1 DEF composerVars, ComposerInv, ComposerTypeOK, MessagesAreWhole, Turned
<1> QED
  BY <1>1, AttachmentsHold, TypeHolds, ReportsHold, PressSendHolds, RenderHolds
     DEF ComposerNext, ComposerText

LEMMA ComposerInitHolds ==
  ComposerInit => ComposerInv
<1> SUFFICES ASSUME ComposerInit PROVE ComposerInv
  OBVIOUS
<1>1. ComposerTypeOK
  <2>1. box \in BoxRow
    BY DEF ComposerInit, BoxRow, ComposerText, Content, Nothing, States
  <2>2. Look \in [files : SUBSET Entry, queued : BOOLEAN, failed : BOOLEAN, state : States,
                 uploading : BOOLEAN, again : BOOLEAN]
    BY <2>1 DEF Look, BoxRow
  <2>3. flights \subseteq Int /\ running \in BOOLEAN /\ asked \in Pressed /\ sent \in Seq(SentRow)
    <3>1. sent = <<>> /\ flights = {} /\ running = FALSE /\ asked = [text |-> NoText, overtaken |-> FALSE]
      BY DEF ComposerInit
    <3>2. <<>> \in Seq(SentRow)
      OBVIOUS
    <3>3. asked \in Pressed
      BY <3>1 DEF Pressed, ComposerText
    <3> QED BY <3>1, <3>2, <3>3
  <2> QED BY <2>1, <2>2, <2>3, ComposerTypes DEF ComposerInit
<1>2. ~Turned /\ box.last.text = asked.text
  BY DEF ComposerInit, Turned, Look, Nothing
<1>3. MessagesAreWhole
  BY DEF ComposerInit, MessagesAreWhole
<1> QED BY <1>1, <1>2, <1>3 DEF ComposerInv

(* What was last sent is what was asked for when send was pressed, unless a  *)
(* run completed after that.                                                 *)
THEOREM ComposerInvariant == ComposerSpec => []ComposerInv
BY ComposerInitHolds, ComposerStepHolds, PTL DEF ComposerSpec

(* A message says what was in the input, and carries every attachment that   *)
(* is there when it goes out, but for documents that a failed send put back. *)
THEOREM MessagesWhole == ComposerSpec => []MessagesAreWhole
<1>1. ComposerInv => MessagesAreWhole
  BY DEF ComposerInv
<1> QED BY <1>1, ComposerInvariant, PTL

=============================================================================
