----------------------------- MODULE ToolSafety -----------------------------
(***************************************************************************)
(* Who may run a tool.  An action is a skill with its exact arguments.     *)
(* Before a batch of calls is accepted the permission policy says of each  *)
(* call whether it is refused, runs, or needs the user's approval; right   *)
(* before a call runs the safety boundary checks it once more, against the *)
(* approval that came with it or the grants this run has gathered.         *)
(*                                                                         *)
(* Sandbox rules and the detection of injected text are choices here: any  *)
(* call may be refused by them.  A skill's permissions are granted         *)
(* together, so one grant stands for all of them.  That grants expire is   *)
(* left out: an expired one only refuses more.                             *)
(***************************************************************************)
EXTENDS Integers, FiniteSets

CONSTANTS
  Action,           \* the actions a model may ask for
  NoAction,         \* a call that names no usable tool or has bad arguments
  SkillOf,          \* SkillOf[a]: the skill
  Risk,             \* Risk[a]: the classification of skill and arguments
  Destructive       \* the skills requiresFreshApproval knows by name

ASSUME SafetyAssumption ==
  /\ NoAction \notin Action
  /\ Risk \in [Action -> {"low", "medium", "high", "critical"}]
  /\ DOMAIN SkillOf = Action

PermissionMode == {"ask", "auto", "full"}

(* PermissionPolicy.evaluate, for skills that declare permissions.         *)
Refused(a) == Risk[a] = "critical"
NeedsApproval(mode, a) ==
  \/ mode = "ask" /\ Risk[a] \in {"medium", "high"}
  \/ mode = "auto" /\ Risk[a] = "high"

(* TaskScopedPermission: what was granted, for which call and how widely.  *)
Grant(Id) == [action : Action, id : Id, scope : {"this_run", "this_tool_call_only"}]

FreshApproval(a) ==
  Risk[a] \in {"high", "critical"} \/ (SkillOf[a] \in Destructive /\ Risk[a] # "low")

(* argsMatch, and the scope of a grant.                                    *)
Covers(g, a, id) == g.action = a /\ (g.scope = "this_tool_call_only" => g.id = id)

(* TaskScopedPermissionManager.check: the first use of a skill is granted  *)
(* in the mode "auto" or at low risk; later uses need a grant that covers  *)
(* them.                                                                   *)
Granted(mode, grants, a, id) ==
  \/ mode = "full"
  \/ LET same == {g \in grants : SkillOf[g.action] = SkillOf[a]}
     IN  IF same = {} THEN mode = "auto" \/ Risk[a] = "low"
                      ELSE \E g \in same : Covers(g, a, id)

(* checkScopedPermissions: an approval covers exactly the call it names.   *)
InScope(mode, grants, a, id, approved) ==
  \/ approved
  \/ (mode = "full" \/ ~FreshApproval(a)) /\ Granted(mode, grants, a, id)

(* The grants kept for the run once the call has passed.                   *)
GrantsAfter(mode, grants, a, id, approved) ==
  LET scope == IF ~approved /\ mode \in {"auto", "full"} THEN "this_run" ELSE "this_tool_call_only"
      covering == {g \in grants : Covers(g, a, id)}
  IN  IF ~approved /\ mode # "full" /\ covering # {} THEN grants
      ELSE {g \in grants : ~(g.id = id /\ SkillOf[g.action] = SkillOf[a])}
             \cup {[action |-> a, id |-> id, scope |-> scope]}
=============================================================================
