---------------------------- MODULE RunLifecycle ----------------------------
(***************************************************************************)
(* What the rest of the system is promised about the status of every run:  *)
(* it appears once, as "created", then moves one legal transition at a     *)
(* time, and a terminal status is final.  AgentRuntime is shown to         *)
(* implement this specification.                                           *)
(***************************************************************************)
EXTENDS RunStatus

CONSTANT Run

VARIABLE status     \* status[r]: the status column of run r, or "absent"

LifecycleTypeOK == status \in [Run -> Status \cup {"absent"}]

Init == status = [r \in Run |-> "absent"]

(* createRun inserts the row.                                              *)
Create(r) ==
  /\ status[r] = "absent"
  /\ status' = [status EXCEPT ![r] = "created"]

(* Any writer moves the row to a status its current one allows.            *)
Move(r, s) ==
  /\ status[r] # "absent"
  /\ s \in Legal(status[r])
  /\ status' = [status EXCEPT ![r] = s]

Next == \E r \in Run : Create(r) \/ \E s \in Status : Move(r, s)

Spec == Init /\ [][Next]_status
=============================================================================
