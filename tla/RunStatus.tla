----------------------------- MODULE RunStatus -----------------------------
(***************************************************************************)
(* The run status machine: the statuses of an agent run, the transitions   *)
(* the repository accepts, and the three constants every writer of a run   *)
(* consults.  Everything here is data; the modules that EXTEND it say who  *)
(* moves a run and when.                                                   *)
(***************************************************************************)

Status == {"created", "running", "waiting_approval", "waiting_user",
           "interrupted", "completed", "cancelled", "failed"}

Terminal == {"completed", "cancelled", "failed"}

(* LEGAL_TRANSITIONS: the next statuses each status allows.                *)
Legal(s) ==
  CASE s = "created" -> {"running", "cancelled", "failed"}
    [] s = "running" -> {"waiting_approval", "waiting_user", "completed",
                         "cancelled", "failed", "interrupted"}
    [] s \in {"waiting_approval", "waiting_user"} ->
         {"running", "cancelled", "failed", "interrupted"}
    [] s = "interrupted" -> {"running", "cancelled", "failed"}
    [] OTHER -> {}

(* A retry or a "resume" of a run that cannot continue in place starts a   *)
(* new run, and is offered only from these statuses.                       *)
Attemptable == {"interrupted", "failed", "cancelled"}
=============================================================================
