------------------------- MODULE AgentRuntimeProofs -------------------------
(***************************************************************************)
(* Proofs about AgentRuntime for every number of runs, handlers and        *)
(* approvals, every round budget and every number of faults and crashes.   *)
(***************************************************************************)
EXTENDS AgentRuntime, TLAPS

(* The records the handlers build from a flow's record are flow records.   *)
LEMMA RecordTypes ==
  ASSUME NEW rec \in FlowState
  PROVE  /\ \A pc \in PC : [rec EXCEPT !.pc = pc] \in FlowState
         /\ \A why \in Why, goal \in Status : ToMark(rec, why, goal) \in FlowState
         /\ Rethrown(rec) \in FlowState
         /\ TailThrown(rec) \in FlowState
         /\ Returned(rec) \in FlowState
<1>1. \A pc \in PC : [rec EXCEPT !.pc = pc] \in FlowState
  BY DEF FlowState
<1>2. ASSUME NEW why \in Why, NEW goal \in Status
      PROVE  ToMark(rec, why, goal) \in FlowState
  BY DEF FlowState, ToMark, PC
<1>3. {"unres", "lastCatch", "catch", "settle", "exit"} \subseteq PC
  BY DEF PC
<1>4. Rethrown(rec) \in FlowState
  BY <1>1, <1>3 DEF Rethrown
<1>5. TailThrown(rec) \in FlowState
  BY <1>1, <1>3, <1>4 DEF TailThrown
<1>6. Returned(rec) \in FlowState
  BY <1>1, <1>3 DEF Returned
<1> QED
  BY <1>1, <1>2, <1>4, <1>5, <1>6

(* The record of an idle flow is a flow record.                            *)
LEMMA IdleType == Idle \in FlowState
  BY BoundAssumption DEF Idle, FlowState, PC, Kind, Why, Status

(* The registry operators keep the types of the registry and the signals.  *)
LEMMA RegistryType ==
  ASSUME TypeOK, NEW f \in Flow, NEW r \in Run
  PROVE  /\ RegistryCreate(f, r) =>
              aborted' \subseteq Flow /\ registry' \in [Run -> Flow \cup {NoFlow}]
         /\ RegistryAbort(r) =>
              aborted' \subseteq Flow /\ registry' \in [Run -> Flow \cup {NoFlow}]
         /\ RegistryRemove(r) => registry' \in [Run -> Flow \cup {NoFlow}]
  BY DEF TypeOK, RegistryCreate, RegistryAbort, RegistryRemove, AbortOf

(* A fault is counted within its bound.                                    *)
LEMMA FaultType == ASSUME TypeOK, Fault PROVE faults' \in 0 .. MaxFault
  BY BoundAssumption DEF TypeOK, Fault
-----------------------------------------------------------------------------
(* The parts of TypeOK that no other part of the invariant speaks of.      *)
Rest ==
  /\ ckpt \in [Run -> Approval \cup {"none", "plain"}]
  /\ aborted \subseteq Flow
  /\ registry \in [Run -> Flow \cup {NoFlow}]
  /\ resumes \subseteq Run
  /\ toolRuns \in [Approval -> Nat]
  /\ told \in [Run -> SUBSET Ending]
  /\ faults \in 0 .. MaxFault
  /\ crashes \in 0 .. MaxCrash

(* A record that flow f may take while statuses and approvals stand still: *)
(* it satisfies the flow invariant, it starts no execution and brings no   *)
(* decision that f was not already responsible for.                        *)
MayBecome(f, rec) ==
  /\ rec \in FlowState
  /\ RecInv(rec)
  /\ rec.pc = "newRun" => \A g \in Flow : flow[g].run # rec.run
  /\ \/ rec.run \in {flow[f].run, NoRun} \/ rec.pc = "newRun"
     \/ rec.run \in Run /\ status[rec.run] # "absent"
  /\ Executes(rec) => Executing(f) /\ rec.run = flow[f].run
  /\ Decides(rec) => Deciding(f) /\ rec.run = flow[f].run

(* OneOpenDecision survives whatever brings no approval, no decision, and  *)
(* moves no run that one of them still blocks.                             *)
LEMMA DecisionsShrink ==
  ASSUME OneOpenDecision,
         \A r \in Run : status'[r] \notin Terminal =>
           /\ status[r] \notin Terminal
           /\ OpenOf(r)' \subseteq OpenOf(r)
           /\ DecidersOf(r)' \subseteq DecidersOf(r)
           /\ OpenOf(r)' \cup DecidersOf(r)' # {} => status'[r] = status[r]
  PROVE  OneOpenDecision'
<1> SUFFICES ASSUME NEW r \in Run, status'[r] \notin Terminal
             PROVE  /\ \A a, b \in OpenOf(r)' : a = b
                    /\ \A f, g \in DecidersOf(r)' : f = g
                    /\ OpenOf(r)' = {} \/ DecidersOf(r)' = {}
                    /\ OpenOf(r)' \cup DecidersOf(r)' # {} => status'[r] = "waiting_approval"
  BY DEF OneOpenDecision
<1>1. /\ \A a, b \in OpenOf(r) : a = b
      /\ \A f, g \in DecidersOf(r) : f = g
      /\ OpenOf(r) = {} \/ DecidersOf(r) = {}
      /\ OpenOf(r) \cup DecidersOf(r) # {} => status[r] = "waiting_approval"
  BY DEF OneOpenDecision
<1> QED
  BY <1>1

(* A step of one flow during which statuses and approvals stand still.     *)
LEMMA QuietStep ==
  ASSUME IInv, NEW f \in Flow, NEW rec, MayBecome(f, rec),
         flow' = [flow EXCEPT ![f] = rec], phase = "up", Rest',
         UNCHANGED <<status, apState, apRun, phase, todo>>
  PROVE  IInv'
<1>1. /\ TypeOK /\ StartInv /\ ExecutorOwnsRun /\ SingleExecutor /\ OneOpenDecision
      /\ \A g \in Flow : FlowInv(g)
      /\ \A a \in Approval : ApprovalInv(a)
  BY DEF IInv
<1>2. flow' \in [Flow -> FlowState] /\ rec \in FlowState
  BY <1>1 DEF TypeOK, MayBecome
<1>3. flow'[f] = rec /\ \A g \in Flow : g # f => flow'[g] = flow[g]
  BY <1>1 DEF TypeOK
<1>4. TypeOK'
  BY <1>1, <1>2 DEF TypeOK, Rest
<1>5. \A g \in Flow : RecInv(flow[g])' 
  <2>1. \A x \in FlowState : RecInv(x)' = RecInv(x)
    BY DEF RecInv
  <2>2. RecInv(rec) /\ \A g \in Flow : RecInv(flow[g])
    BY <1>1 DEF FlowInv, MayBecome
  <2> QED
    BY <1>2, <1>3, <2>2 DEF RecInv
<1>6. ASSUME NEW g \in Flow, At(g, "newRun")'
      PROVE  \A h \in Flow : flow'[h].run = flow'[g].run => h = g
  <2>1. CASE g = f
    BY <1>3, <1>6, <2>1 DEF MayBecome, At
  <2>2. CASE g # f
    <3>1. flow[g].pc = "newRun" /\ flow[g].run \in Run /\ status[flow[g].run] = "absent"
      BY <1>1, <1>3, <1>6, <2>2 DEF At, FlowInv, RecInv
    <3>2. \A h \in Flow : flow[h].run = flow[g].run => h = g
      BY <1>1, <3>1 DEF At, FlowInv
    <3>3. rec.run # flow[g].run
      BY <1>1, <2>2, <3>1, <3>2, IdAssumption DEF MayBecome
    <3> QED
      BY <1>3, <2>2, <3>2, <3>3
  <2> QED
    BY <2>1, <2>2
<1>7. \A g \in Flow : FlowInv(g)'
  BY <1>5, <1>6 DEF FlowInv
<1>8. \A a \in Approval : ApprovalInv(a)'
  BY <1>1 DEF ApprovalInv
<1>9. StartInv'
  BY <1>1 DEF StartInv
<1>10. \A g \in Flow : Executing(g)' => Executing(g) /\ flow'[g].run = flow[g].run
  BY <1>3 DEF MayBecome, Executing
<1>11. ExecutorOwnsRun'
  BY <1>1, <1>10 DEF ExecutorOwnsRun
<1>12. SingleExecutor'
  BY <1>1, <1>10 DEF SingleExecutor
<1>13. OneOpenDecision'
  <2>1. \A g \in Flow : Deciding(g)' => Deciding(g) /\ flow'[g].run = flow[g].run
    BY <1>3 DEF MayBecome, Deciding
  <2>2. \A r \in Run : OpenOf(r)' = OpenOf(r) /\ DecidersOf(r)' \subseteq DecidersOf(r)
    BY <2>1 DEF OpenOf, Open, DecidersOf
  <2> QED
    BY <1>1, <2>2, DecisionsShrink
<1> QED
  BY <1>4, <1>7, <1>8, <1>9, <1>11, <1>12, <1>13 DEF IInv

(* A step of flow f that also moves the run f works for.                   *)
LEMMA MoveStep ==
  ASSUME IInv, NEW f \in Flow, NEW rec, NEW r \in Run, NEW s \in Status,
         r = flow[f].run, status[r] \notin Terminal \cup {"absent"},
         status' = [status EXCEPT ![r] = s],
         MayBecome(f, rec), rec.pc \notin {"newRun", "reqCommit"}, 
         flow' = [flow EXCEPT ![f] = rec],
         rec.run = r => ~Executes(rec) /\ ~Decides(rec),
         s \in Terminal \/ Executing(f) \/ Deciding(f),
         phase = "up", Rest', UNCHANGED <<apState, apRun, phase, todo>>
  PROVE  IInv'
<1>1. /\ TypeOK /\ StartInv /\ ExecutorOwnsRun /\ SingleExecutor /\ OneOpenDecision
      /\ \A g \in Flow : FlowInv(g)
      /\ \A a \in Approval : ApprovalInv(a)
  BY DEF IInv
<1>2. flow' \in [Flow -> FlowState] /\ rec \in FlowState
  BY <1>1 DEF TypeOK, MayBecome
<1>3. flow'[f] = rec /\ \A g \in Flow : g # f => flow'[g] = flow[g]
  BY <1>1 DEF TypeOK
<1>4. /\ status' \in [Run -> Status \cup {"absent"}] 
      /\ status'[r] = s /\ s # "absent" /\ \A q \in Run : q # r => status'[q] = status[q]
  BY <1>1 DEF TypeOK, Status
<1>5. TypeOK'
  BY <1>1, <1>2, <1>4 DEF TypeOK, Rest
<1>6. ~Executes(rec) /\ ~Decides(rec)
  BY DEF MayBecome
<1>7. \A g \in Flow : RecInv(flow[g])'
  <2>1. RecInv(rec) /\ \A g \in Flow : RecInv(flow[g])
    BY <1>1 DEF FlowInv, MayBecome
  <2>2. ASSUME NEW g \in Flow, g # f PROVE RecInv(flow[g])'
    <3>1. flow[g].pc # "newRun" \/ flow[g].run # r
      BY <1>1, <2>2 DEF FlowInv, At
    <3>2. flow'[g] = flow[g]
      BY <1>3, <2>2
    <3> QED
      BY <1>4, <2>1, <3>1, <3>2 DEF RecInv
  <2>3. RecInv(flow[f])'
    BY <1>3, <1>4, <2>1 DEF RecInv
  <2> QED
    BY <2>2, <2>3
<1>8. \A g \in Flow : FlowInv(g)'
  <2> SUFFICES ASSUME NEW g \in Flow, At(g, "newRun")'
               PROVE  \A h \in Flow : flow'[h].run = flow'[g].run => h = g
    BY <1>7 DEF FlowInv
  <2>1. g # f /\ flow'[g] = flow[g] /\ flow[g].pc = "newRun"
    BY <1>3 DEF At
  <2>2. flow[g].run \in Run /\ status[flow[g].run] = "absent"
    BY <1>1, <2>1 DEF FlowInv, RecInv
  <2>3. \A h \in Flow : flow[h].run = flow[g].run => h = g
    BY <1>1, <2>1 DEF FlowInv, At
  <2>4. rec.run # flow[g].run
    BY <2>1, <2>2, <2>3, IdAssumption DEF MayBecome
  <2> QED
    BY <1>3, <2>1, <2>3, <2>4
<1>9. \A a \in Approval : ApprovalInv(a)'
  BY <1>1, <1>4 DEF ApprovalInv
<1>10. StartInv'
  BY <1>1 DEF StartInv
<1>11. \A g \in Flow : Executing(g)' => /\ g # f /\ Executing(g)
                                        /\ flow'[g].run = flow[g].run
  BY <1>3, <1>6 DEF Executing
<1>12. \A g \in Flow : Deciding(g)' => /\ g # f /\ Deciding(g)
                                       /\ flow'[g].run = flow[g].run
  BY <1>3, <1>6 DEF Deciding
<1>13. Executing(f) => status[r] = "running"
  BY <1>1 DEF ExecutorOwnsRun
<1>14. Deciding(f) => /\ f \in DecidersOf(r) /\ OpenOf(r) = {}
                      /\ status[r] = "waiting_approval"
                      /\ \A g \in DecidersOf(r) : g = f
  <2>1. Deciding(f) => f \in DecidersOf(r)
    BY DEF DecidersOf
  <2> QED
    BY <1>1, <2>1 DEF OneOpenDecision
<1>15. s \in Terminal \/ ~\E g \in Flow : Executing(g)' /\ flow'[g].run = r
  <2>1. CASE Executing(f)
    BY <1>1, <1>11, <2>1 DEF SingleExecutor
  <2>2. CASE Deciding(f)
    BY <1>1, <1>11, <1>14, <2>2 DEF ExecutorOwnsRun, Terminal
  <2> QED
    BY <2>1, <2>2
<1>16. ExecutorOwnsRun'
  <2> SUFFICES ASSUME NEW g \in Flow, Executing(g)'
               PROVE  status'[flow'[g].run] \in {"running"} \cup Terminal
    BY DEF ExecutorOwnsRun
  <2>1. flow'[g].run = flow[g].run /\ status[flow[g].run] \in {"running"} \cup Terminal
    BY <1>1, <1>11 DEF ExecutorOwnsRun
  <2>2. flow[g].run \in Run
    BY <1>1, <1>11 DEF FlowInv, RecInv, Executing, Executes
  <2> QED
    BY <1>4, <1>15, <2>1, <2>2
<1>17. SingleExecutor'
  BY <1>1, <1>11 DEF SingleExecutor
<1>18. OneOpenDecision'
  <2>1. \A q \in Run : OpenOf(q)' = OpenOf(q) /\ DecidersOf(q)' \subseteq DecidersOf(q)
    BY <1>12 DEF OpenOf, Open, DecidersOf
  <2>2. s \notin Terminal => OpenOf(r)' = {} /\ DecidersOf(r)' = {}
    <3>1. CASE Executing(f)
      <4>1. OpenOf(r) \cup DecidersOf(r) = {}
        BY <1>1, <1>13, <3>1 DEF OneOpenDecision
      <4> QED
        BY <2>1, <4>1
    <3>2. CASE Deciding(f)
      BY <1>12, <1>14, <2>1, <3>2 DEF DecidersOf
    <3> QED
      BY <3>1, <3>2
  <2>3. \A q \in Run : status'[q] \notin Terminal => status[q] \notin Terminal
    BY <1>4
  <2> QED
    BY <1>1, <1>4, <2>1, <2>2, <2>3, DecisionsShrink
<1> QED
  BY <1>5, <1>8, <1>9, <1>10, <1>16, <1>17, <1>18 DEF IInv
-----------------------------------------------------------------------------
(* The records that the handlers step to are records they may become.      *)
LEMMA RecordsBecome ==
  ASSUME IInv, NEW f \in Flow, flow[f].pc \notin {"idle", "newRun"}
  PROVE  /\ MayBecome(f, Idle)
         /\ MayBecome(f, Returned(flow[f]))
         /\ MayBecome(f, Rethrown(flow[f]))
         /\ MayBecome(f, TailThrown(flow[f]))
         /\ \A pc \in {"settle", "exit", "catch", "lastCatch", "unres", "linkRead",
                       "cancelCheck"} : MayBecome(f, [flow[f] EXCEPT !.pc = pc])
         /\ \A why \in Why \ {"rejCancel", "rejInterrupt"} : \A goal \in GoalsOf(why) :
              (why \in {"finish", "ask"} => Executing(f)) =>
                MayBecome(f, ToMark(flow[f], why, goal))
         /\ Executing(f) =>
              \A pc \in {"build", "tools", "persist", "top", "turn", "finish", "ask"} :
                MayBecome(f, [flow[f] EXCEPT !.pc = pc])
<1>1. /\ flow[f] \in FlowState /\ RecInv(flow[f])
      /\ flow[f].run \in Run /\ status[flow[f].run] # "absent"
  BY DEF IInv, TypeOK, FlowInv, RecInv
<1>2. MayBecome(f, Idle)
  <2>1. Idle.pc = "idle" /\ Idle.run = NoRun
    BY DEF Idle
  <2> QED
    BY <2>1, IdleType DEF MayBecome, RecInv, Executes, Decides
<1>3. \A pc \in {"settle", "exit", "catch", "lastCatch", "unres", "linkRead",
                 "cancelCheck"} : MayBecome(f, [flow[f] EXCEPT !.pc = pc])
  <2> SUFFICES ASSUME NEW pc \in {"settle", "exit", "catch", "lastCatch", "unres",
                                  "linkRead", "cancelCheck"}
               PROVE  MayBecome(f, [flow[f] EXCEPT !.pc = pc])
    OBVIOUS
  <2>1. [flow[f] EXCEPT !.pc = pc] \in FlowState
    BY <1>1, RecordTypes DEF PC
  <2>2. /\ [flow[f] EXCEPT !.pc = pc].pc = pc
        /\ [flow[f] EXCEPT !.pc = pc].run = flow[f].run
    BY <1>1 DEF FlowState
  <2> QED
    BY <1>1, <2>1, <2>2 DEF MayBecome, RecInv, Executes, Decides
<1>4. MayBecome(f, Rethrown(flow[f]))
  BY <1>3 DEF Rethrown
<1>5. MayBecome(f, TailThrown(flow[f])) /\ MayBecome(f, Returned(flow[f]))
  BY <1>3, <1>4 DEF TailThrown, Returned
<1>6. \A why \in Why \ {"rejCancel", "rejInterrupt"} : \A goal \in GoalsOf(why) :
        (why \in {"finish", "ask"} => Executing(f)) =>
          MayBecome(f, ToMark(flow[f], why, goal))
  <2> SUFFICES ASSUME NEW why \in Why \ {"rejCancel", "rejInterrupt"},
                      NEW goal \in GoalsOf(why), why \in {"finish", "ask"} => Executing(f)
               PROVE  MayBecome(f, ToMark(flow[f], why, goal))
    OBVIOUS
  <2>1. goal \in Status
    BY DEF GoalsOf, Status
  <2>2. ToMark(flow[f], why, goal) \in FlowState
    BY <1>1, <2>1, RecordTypes
  <2>3. /\ ToMark(flow[f], why, goal).pc = "mark"
        /\ ToMark(flow[f], why, goal).why = why
        /\ ToMark(flow[f], why, goal).goal = goal
        /\ ToMark(flow[f], why, goal).run = flow[f].run
    BY <1>1 DEF FlowState, ToMark
  <2> QED
    BY <1>1, <2>2, <2>3 DEF MayBecome, RecInv, Executes, Decides
<1>7. ASSUME Executing(f), NEW pc \in {"build", "tools", "persist", "top", "turn",
                                       "finish", "ask"}
      PROVE  MayBecome(f, [flow[f] EXCEPT !.pc = pc])
  <2>1. [flow[f] EXCEPT !.pc = pc] \in FlowState
    BY <1>1, RecordTypes DEF PC
  <2>2. /\ [flow[f] EXCEPT !.pc = pc].pc = pc
        /\ [flow[f] EXCEPT !.pc = pc].run = flow[f].run
    BY <1>1 DEF FlowState
  <2> QED
    BY <1>1, <1>7, <2>1, <2>2 DEF MayBecome, RecInv, Executes, Decides
<1> QED
  BY <1>2, <1>3, <1>4, <1>5, <1>6, <1>7

(* What every step of a flow that has been started may rely on.            *)
LEMMA Started ==
  ASSUME IInv, NEW f \in Flow, ~At(f, "idle")
  PROVE  /\ TypeOK /\ Rest /\ phase = "up"
         /\ flow[f] \in FlowState /\ RecInv(flow[f]) /\ flow[f].run \in Run
         /\ Fault => faults' \in 0 .. MaxFault
  BY FaultType DEF IInv, TypeOK, Rest, StartInv, FlowInv, RecInv, At

(* The steps of a flow that read, call out or save a checkpoint: statuses  *)
(* and approvals stand still.                                              *)
LEMMA QuietActions ==
  ASSUME IInv, NEW f \in Flow,
         \/ BuildContext(f) \/ RunApprovedTools(f) \/ PersistCheckpoint(f) \/ LoopHead(f)
         \/ TurnFails(f) \/ Finish(f) \/ AskUser(f) \/ CatchError(f) \/ LastResort(f)
         \/ Unresumable(f) \/ CancelCheck(f) \/ Settle(f) \/ Exit(f)
  PROVE  IInv'
<1>0. /\ ~At(f, "idle") /\ flow[f].pc \notin {"idle", "newRun"}
      /\ At(f, "build") \/ At(f, "tools") \/ At(f, "persist") \/ At(f, "top")
         \/ At(f, "turn") \/ At(f, "finish") \/ At(f, "ask") => Executing(f)
  BY DEF At, BuildContext, RunApprovedTools, PersistCheckpoint, LoopHead, TurnFails,
         Finish, AskUser, CatchError, LastResort, Unresumable, CancelCheck, Settle, Exit,
         Executing, Executes
<1>s. /\ TypeOK /\ Rest /\ phase = "up"
      /\ flow[f] \in FlowState /\ RecInv(flow[f]) /\ flow[f].run \in Run
      /\ Fault => faults' \in 0 .. MaxFault
  BY <1>0, Started
<1>q. ASSUME NEW rec, MayBecome(f, rec), flow' = [flow EXCEPT ![f] = rec], Rest',
             UNCHANGED <<status, apState, apRun, phase, todo>>
      PROVE  IInv'
  BY <1>s, <1>q, QuietStep
<1>g. /\ \A pc \in {"settle", "exit", "catch", "lastCatch", "unres", "linkRead",
                    "cancelCheck"} : MayBecome(f, [flow[f] EXCEPT !.pc = pc])
      /\ Executing(f) =>
           \A pc \in {"build", "tools", "persist", "top", "turn", "finish", "ask"} :
             MayBecome(f, [flow[f] EXCEPT !.pc = pc])
  BY <1>0, RecordsBecome
<1>r. /\ MayBecome(f, Idle)
      /\ MayBecome(f, Rethrown(flow[f])) /\ MayBecome(f, TailThrown(flow[f]))
  BY <1>0, RecordsBecome
<1>m. /\ Executing(f) => /\ MayBecome(f, ToMark(flow[f], "finish", "completed"))
                         /\ MayBecome(f, ToMark(flow[f], "ask", "waiting_user"))
      /\ \A goal \in {"cancelled", "failed"} :
           \A why \in {"error", "acqError", "prep", "lastResort", "unresumable"} :
             MayBecome(f, ToMark(flow[f], why, goal))
  BY <1>0, RecordsBecome DEF GoalsOf, Why
<1>1. CASE BuildContext(f)
  <2>1. \E rec : MayBecome(f, rec) /\ flow' = [flow EXCEPT ![f] = rec]
    BY <1>0, <1>g, <1>r, <1>m, <1>1 DEF BuildContext, Goto, Done
  <2>2. Rest'
    BY <1>s, <1>1 DEF Rest, BuildContext, RegistryRemove, Announce, Ending, db, mem, seenV, daemon
  <2>3. UNCHANGED <<status, apState, apRun, phase, todo>>
    BY <1>1 DEF BuildContext, db, daemon
  <2> QED
    BY <1>q, <2>1, <2>2, <2>3
<1>2. CASE RunApprovedTools(f)
  <2>1. \E rec : MayBecome(f, rec) /\ flow' = [flow EXCEPT ![f] = rec]
    BY <1>0, <1>g, <1>r, <1>m, <1>2 DEF RunApprovedTools, Goto, Done
  <2>2. Rest'
    BY <1>s, <1>2 DEF Rest, RunApprovedTools, RegistryRemove, Announce, Ending, db, mem, seenV, daemon
  <2>3. UNCHANGED <<status, apState, apRun, phase, todo>>
    BY <1>2 DEF RunApprovedTools, db, daemon
  <2> QED
    BY <1>q, <2>1, <2>2, <2>3
<1>3. CASE PersistCheckpoint(f)
  <2>1. \E rec : MayBecome(f, rec) /\ flow' = [flow EXCEPT ![f] = rec]
    BY <1>0, <1>g, <1>r, <1>m, <1>3 DEF PersistCheckpoint, Goto, Done
  <2>2. Rest'
    BY <1>s, <1>3 DEF Rest, PersistCheckpoint, RegistryRemove, Announce, Ending, db, mem, seenV, daemon
  <2>3. UNCHANGED <<status, apState, apRun, phase, todo>>
    BY <1>3 DEF PersistCheckpoint, db, daemon
  <2> QED
    BY <1>q, <2>1, <2>2, <2>3
<1>4. CASE LoopHead(f)
  <2>1. \E rec : MayBecome(f, rec) /\ flow' = [flow EXCEPT ![f] = rec]
    BY <1>0, <1>g, <1>r, <1>m, <1>4 DEF LoopHead, Goto, Done
  <2>2. Rest'
    BY <1>s, <1>4 DEF Rest, LoopHead, RegistryRemove, Announce, Ending, db, mem, seenV, daemon
  <2>3. UNCHANGED <<status, apState, apRun, phase, todo>>
    BY <1>4 DEF LoopHead, db, daemon
  <2> QED
    BY <1>q, <2>1, <2>2, <2>3
<1>5. CASE TurnFails(f)
  <2>1. \E rec : MayBecome(f, rec) /\ flow' = [flow EXCEPT ![f] = rec]
    BY <1>0, <1>g, <1>r, <1>m, <1>5 DEF TurnFails, Goto, Done
  <2>2. Rest'
    BY <1>s, <1>5 DEF Rest, TurnFails, RegistryRemove, Announce, Ending, db, mem, seenV, daemon
  <2>3. UNCHANGED <<status, apState, apRun, phase, todo>>
    BY <1>5 DEF TurnFails, db, daemon
  <2> QED
    BY <1>q, <2>1, <2>2, <2>3
<1>6. CASE Finish(f)
  <2>1. \E rec : MayBecome(f, rec) /\ flow' = [flow EXCEPT ![f] = rec]
    BY <1>0, <1>g, <1>r, <1>m, <1>6 DEF Finish, Goto, Done
  <2>2. Rest'
    BY <1>s, <1>6 DEF Rest, Finish, RegistryRemove, Announce, Ending, db, mem, seenV, daemon
  <2>3. UNCHANGED <<status, apState, apRun, phase, todo>>
    BY <1>6 DEF Finish, db, daemon
  <2> QED
    BY <1>q, <2>1, <2>2, <2>3
<1>7. CASE AskUser(f)
  <2>1. \E rec : MayBecome(f, rec) /\ flow' = [flow EXCEPT ![f] = rec]
    BY <1>0, <1>g, <1>r, <1>m, <1>7 DEF AskUser, Goto, Done
  <2>2. Rest'
    BY <1>s, <1>7 DEF Rest, AskUser, RegistryRemove, Announce, Ending, db, mem, seenV, daemon
  <2>3. UNCHANGED <<status, apState, apRun, phase, todo>>
    BY <1>7 DEF AskUser, db, daemon
  <2> QED
    BY <1>q, <2>1, <2>2, <2>3
<1>8. CASE CatchError(f)
  <2>1. \E rec : MayBecome(f, rec) /\ flow' = [flow EXCEPT ![f] = rec]
    BY <1>0, <1>g, <1>r, <1>m, <1>8 DEF CatchError, Goto, Done
  <2>2. Rest'
    BY <1>s, <1>8 DEF Rest, CatchError, RegistryRemove, Announce, Ending, db, mem, seenV, daemon
  <2>3. UNCHANGED <<status, apState, apRun, phase, todo>>
    BY <1>8 DEF CatchError, db, daemon
  <2> QED
    BY <1>q, <2>1, <2>2, <2>3
<1>9. CASE LastResort(f)
  <2>1. \E rec : MayBecome(f, rec) /\ flow' = [flow EXCEPT ![f] = rec]
    BY <1>0, <1>g, <1>r, <1>m, <1>9 DEF LastResort, Goto, Done
  <2>2. Rest'
    BY <1>s, <1>9 DEF Rest, LastResort, RegistryRemove, Announce, Ending, db, mem, seenV, daemon
  <2>3. UNCHANGED <<status, apState, apRun, phase, todo>>
    BY <1>9 DEF LastResort, db, daemon
  <2> QED
    BY <1>q, <2>1, <2>2, <2>3
<1>10. CASE Unresumable(f)
  <2>1. \E rec : MayBecome(f, rec) /\ flow' = [flow EXCEPT ![f] = rec]
    BY <1>0, <1>g, <1>r, <1>m, <1>10 DEF Unresumable, Goto, Done
  <2>2. Rest'
    BY <1>s, <1>10 DEF Rest, Unresumable, RegistryRemove, Announce, Ending, db, mem, seenV, daemon
  <2>3. UNCHANGED <<status, apState, apRun, phase, todo>>
    BY <1>10 DEF Unresumable, db, daemon
  <2> QED
    BY <1>q, <2>1, <2>2, <2>3
<1>11. CASE CancelCheck(f)
  <2>1. \E rec : MayBecome(f, rec) /\ flow' = [flow EXCEPT ![f] = rec]
    BY <1>0, <1>g, <1>r, <1>m, <1>11 DEF CancelCheck, Goto, Done
  <2>2. Rest'
    BY <1>s, <1>11 DEF Rest, CancelCheck, RegistryRemove, Announce, Ending, db, mem, seenV, daemon
  <2>3. UNCHANGED <<status, apState, apRun, phase, todo>>
    BY <1>11 DEF CancelCheck, db, daemon
  <2> QED
    BY <1>q, <2>1, <2>2, <2>3
<1>12. CASE Settle(f)
  <2>1. \E rec : MayBecome(f, rec) /\ flow' = [flow EXCEPT ![f] = rec]
    BY <1>0, <1>g, <1>r, <1>m, <1>12 DEF Settle, Goto, Done
  <2>2. Rest'
    BY <1>s, <1>12 DEF Rest, Settle, RegistryRemove, Announce, Ending, db, mem, seenV, daemon
  <2>3. UNCHANGED <<status, apState, apRun, phase, todo>>
    BY <1>12 DEF Settle, db, daemon
  <2> QED
    BY <1>q, <2>1, <2>2, <2>3
<1>13. CASE Exit(f)
  <2>1. \E rec : MayBecome(f, rec) /\ flow' = [flow EXCEPT ![f] = rec]
    BY <1>0, <1>g, <1>r, <1>m, <1>13 DEF Exit, Goto, Done
  <2>2. Rest'
    BY <1>s, <1>13 DEF Rest, Exit, RegistryRemove, Announce, Ending, db, mem, seenV, daemon
  <2>3. UNCHANGED <<status, apState, apRun, phase, todo>>
    BY <1>13 DEF Exit, db, daemon
  <2> QED
    BY <1>q, <2>1, <2>2, <2>3
<1> QED
  BY <1>1, <1>2, <1>3, <1>4, <1>5, <1>6, <1>7, <1>8, <1>9, <1>10, <1>11, <1>12, <1>13

(* The steps before an execution, up to the check of the suspended run.    *)
LEMMA EntryActions ==
  ASSUME IInv, NEW f \in Flow, SaveUserMessage(f) \/ Enter(f) \/ Require(f)
  PROVE  IInv'
<1>0. ~At(f, "idle") /\ flow[f].pc \notin {"idle", "newRun"}
  BY DEF At, SaveUserMessage, Enter, Require
<1>s. /\ TypeOK /\ Rest /\ phase = "up"
      /\ flow[f] \in FlowState /\ RecInv(flow[f]) /\ flow[f].run \in Run
      /\ Fault => faults' \in 0 .. MaxFault
  BY <1>0, Started
<1>q. ASSUME NEW rec, MayBecome(f, rec), flow' = [flow EXCEPT ![f] = rec], Rest',
             UNCHANGED <<status, apState, apRun, phase, todo>>
      PROVE  IInv'
  BY <1>s, <1>q, QuietStep
<1>r. /\ MayBecome(f, Idle) /\ MayBecome(f, Rethrown(flow[f]))
      /\ MayBecome(f, ToMark(flow[f], "prep", "failed"))
  BY <1>0, RecordsBecome DEF GoalsOf, Why
<1>1. CASE SaveUserMessage(f)
  <2>1. MayBecome(f, [flow[f] EXCEPT !.pc = "acquire"])
    <3>1. /\ [flow[f] EXCEPT !.pc = "acquire"] \in FlowState
          /\ [flow[f] EXCEPT !.pc = "acquire"].pc = "acquire"
          /\ [flow[f] EXCEPT !.pc = "acquire"].run = flow[f].run
          /\ [flow[f] EXCEPT !.pc = "acquire"].kind = flow[f].kind
          /\ [flow[f] EXCEPT !.pc = "acquire"].seen = flow[f].seen
      BY <1>s DEF FlowState, PC
    <3>2. At(f, "userMsg")
      BY <1>1 DEF SaveUserMessage
    <3> QED
      BY <1>s, <3>1, <3>2 DEF At, MayBecome, RecInv, Expected, Sync, Executes, Decides
  <2>2. \E rec : MayBecome(f, rec) /\ flow' = [flow EXCEPT ![f] = rec]
    BY <1>r, <1>1, <2>1 DEF SaveUserMessage, Goto
  <2>3. Rest'
    BY <1>s, <1>1 DEF Rest, SaveUserMessage, RegistryRemove, db, seenV
  <2> QED
    BY <1>q, <1>1, <2>2, <2>3 DEF SaveUserMessage, db, daemon
<1>2. CASE Enter(f)
  <2>1. MayBecome(f, [flow[f] EXCEPT !.pc = "require"])
    <3>1. /\ [flow[f] EXCEPT !.pc = "require"] \in FlowState
          /\ [flow[f] EXCEPT !.pc = "require"].pc = "require"
          /\ [flow[f] EXCEPT !.pc = "require"].run = flow[f].run
          /\ [flow[f] EXCEPT !.pc = "require"].kind = flow[f].kind
          /\ [flow[f] EXCEPT !.pc = "require"].seen = flow[f].seen
      BY <1>s DEF FlowState, PC
    <3>2. At(f, "enter")
      BY <1>2 DEF Enter
    <3> QED
      BY <1>s, <3>1, <3>2
      DEF At, MayBecome, RecInv, Expected, Executes, Decides, Deciding
  <2>2. \E rec : MayBecome(f, rec) /\ flow' = [flow EXCEPT ![f] = rec]
    BY <1>r, <1>2, <2>1 DEF Enter, Goto, Done
  <2>3. Rest'
    BY <1>s, <1>2, RegistryType DEF Rest, Enter, db, seenV
  <2> QED
    BY <1>q, <1>2, <2>2, <2>3 DEF Enter, db, daemon
<1>3. CASE Require(f)
  <2>1. ckpt[flow[f].run] \in Approval \cup {"none", "plain"}
    BY <1>s DEF TypeOK
  <2>2. \A ck \in Approval \cup {"none", "plain"} :
          MayBecome(f, [flow[f] EXCEPT !.pc = "acquire", !.ck = ck])
    <3> SUFFICES ASSUME NEW ck \in Approval \cup {"none", "plain"}
                 PROVE  MayBecome(f, [flow[f] EXCEPT !.pc = "acquire", !.ck = ck])
      OBVIOUS
    <3> DEFINE rec == [flow[f] EXCEPT !.pc = "acquire", !.ck = ck]
    <3>1. /\ rec \in FlowState
          /\ rec.pc = "acquire" /\ rec.run = flow[f].run
          /\ rec.kind = flow[f].kind /\ rec.seen = flow[f].seen
      BY <1>s DEF FlowState, PC
    <3>2. At(f, "require")
      BY <1>3 DEF Require
    <3> HIDE DEF rec
    <3>3. MayBecome(f, rec)
      BY <1>s, <3>1, <3>2
      DEF At, MayBecome, RecInv, Expected, Executes, Decides, Deciding
    <3> QED
      BY <3>3 DEF rec
  <2>3. \E rec : MayBecome(f, rec) /\ flow' = [flow EXCEPT ![f] = rec]
    <3>1. CASE flow' = [flow EXCEPT ![f].pc = "acquire", ![f].ck = ckpt[flow[f].run]]
      <4>1. flow' = [flow EXCEPT ![f] =
                       [flow[f] EXCEPT !.pc = "acquire", !.ck = ckpt[flow[f].run]]]
        BY <3>1
      <4> QED
        BY <4>1, <2>1, <2>2
    <3>2. CASE flow' = [flow EXCEPT ![f] = Rethrown(@)]
      BY <1>r, <3>2
    <3> QED
      BY <1>3, <3>1, <3>2 DEF Require
  <2>4. Rest'
    BY <1>s, <1>3 DEF Rest, Require, db, seenV
  <2> QED
    BY <1>q, <1>3, <2>3, <2>4 DEF Require, db, daemon
<1> QED
  BY <1>1, <1>2, <1>3

(* The turns that go on, answer or ask, the save of the frozen batch, and  *)
(* the read with which requestApproval begins.                             *)
LEMMA TurnActions ==
  ASSUME IInv, NEW f \in Flow,
         \/ TurnContinues(f) \/ TurnAnswers(f) \/ TurnAsksUser(f)
         \/ FreezeBatch(f) \/ RequestRead(f)
  PROVE  IInv'
<1>0. /\ ~At(f, "idle") /\ flow[f].pc \notin {"idle", "newRun"}
      /\ Executing(f)
  BY DEF At, TurnContinues, TurnAnswers, TurnAsksUser, TurnCheckpoint, FreezeBatch,
         RequestRead, Executing, Executes
<1>s. /\ TypeOK /\ Rest /\ phase = "up"
      /\ flow[f] \in FlowState /\ RecInv(flow[f]) /\ flow[f].run \in Run
      /\ Fault => faults' \in 0 .. MaxFault
  BY <1>0, Started
<1>q. ASSUME NEW rec, MayBecome(f, rec), flow' = [flow EXCEPT ![f] = rec], Rest',
             UNCHANGED <<status, apState, apRun, phase, todo>>
      PROVE  IInv'
  BY <1>s, <1>q, QuietStep
<1>r. MayBecome(f, TailThrown(flow[f]))
  BY <1>0, RecordsBecome
<1>1. ASSUME NEW pc \in {"top", "finish", "ask"}, TurnCheckpoint(f, pc),
             pc = "top" => flow[f].rounds < MaxRounds
      PROVE  IInv'
  <2>1. flow[f].rounds \in 0 .. MaxRounds
    BY <1>s DEF FlowState
  <2>2. pc = "top" => flow[f].rounds + 1 \in 0 .. MaxRounds
    BY <1>1, <2>1, BoundAssumption
  <2>3. \A n \in 0 .. MaxRounds : MayBecome(f, [flow[f] EXCEPT !.pc = pc, !.rounds = n])
    <3> SUFFICES ASSUME NEW n \in 0 .. MaxRounds
                 PROVE  MayBecome(f, [flow[f] EXCEPT !.pc = pc, !.rounds = n])
      OBVIOUS
    <3> DEFINE rec == [flow[f] EXCEPT !.pc = pc, !.rounds = n]
    <3>1. rec \in FlowState /\ rec.pc = pc /\ rec.run = flow[f].run
      BY <1>s DEF FlowState, PC
    <3> HIDE DEF rec
    <3>2. MayBecome(f, rec)
      BY <1>0, <1>s, <3>1 DEF MayBecome, RecInv, Executes, Decides
    <3> QED
      BY <3>2 DEF rec
  <2>4. \E rec : MayBecome(f, rec) /\ flow' = [flow EXCEPT ![f] = rec]
    BY <1>1, <2>1, <2>2, <2>3 DEF TurnCheckpoint
  <2>5. Rest'
    BY <1>s, <1>1 DEF Rest, TurnCheckpoint, seenV
  <2> QED
    BY <1>q, <1>1, <2>4, <2>5 DEF TurnCheckpoint, daemon
<1>2. CASE FreezeBatch(f)
  <2>0. At(f, "freeze")
    BY <1>2 DEF FreezeBatch
  <2>1. MayBecome(f, [flow[f] EXCEPT !.pc = "reqRead"])
    <3> DEFINE rec == [flow[f] EXCEPT !.pc = "reqRead"]
    <3>1. /\ rec \in FlowState /\ rec.pc = "reqRead"
          /\ rec.run = flow[f].run /\ rec.ap = flow[f].ap
      BY <1>s DEF FlowState, PC
    <3> HIDE DEF rec
    <3>2. MayBecome(f, rec)
      BY <1>0, <1>s, <2>0, <3>1 DEF At, MayBecome, RecInv, Executes, Decides
    <3> QED
      BY <3>2 DEF rec
  <2>2. \E rec : MayBecome(f, rec) /\ flow' = [flow EXCEPT ![f] = rec]
    BY <1>r, <1>2, <2>1 DEF FreezeBatch, Goto
  <2>3. Rest'
    <3>1. flow[f].ap \in Approval
      BY <1>s, <2>0 DEF At, RecInv
    <3> QED
      BY <1>s, <1>2, <3>1 DEF Rest, FreezeBatch, seenV
  <2> QED
    BY <1>q, <1>2, <2>2, <2>3 DEF FreezeBatch, daemon
<1>3. CASE RequestRead(f)
  <2>0. At(f, "reqRead")
    BY <1>3 DEF RequestRead
  <2>1. MayBecome(f, [flow[f] EXCEPT !.pc = "reqCommit", !.seen = status[flow[f].run]])
    <3> DEFINE rec == [flow[f] EXCEPT !.pc = "reqCommit", !.seen = status[flow[f].run]]
    <3>1. status[flow[f].run] \in {"running"} \cup Terminal
      BY <1>0 DEF IInv, ExecutorOwnsRun
    <3>2. status[flow[f].run] \in Status
      BY <3>1 DEF Terminal, Status
    <3>3. /\ rec \in FlowState /\ rec.pc = "reqCommit"
          /\ rec.run = flow[f].run /\ rec.ap = flow[f].ap
          /\ rec.seen = status[flow[f].run]
      BY <1>s, <3>2 DEF FlowState, PC
    <3> HIDE DEF rec
    <3>4. MayBecome(f, rec)
      BY <1>0, <1>s, <2>0, <3>1, <3>3 DEF At, MayBecome, RecInv, Executes, Decides
    <3> QED
      BY <3>4 DEF rec
  <2>2. \E rec : MayBecome(f, rec) /\ flow' = [flow EXCEPT ![f] = rec]
    BY <1>r, <1>3, <2>1 DEF RequestRead
  <2>3. Rest'
    BY <1>s, <1>3 DEF Rest, RequestRead, db, seenV
  <2> QED
    BY <1>q, <1>3, <2>2, <2>3 DEF RequestRead, db, daemon
<1> QED
  BY <1>1, <1>2, <1>3 DEF TurnContinues, TurnAnswers, TurnAsksUser

(* A won acquisition: nobody executes the run, and if it was waiting for a *)
(* decision, f is the one that carries it.                                 *)
LEMMA AcquireStep ==
  ASSUME IInv, NEW f \in Flow, NEW rec \in FlowState, NEW r \in Run,
         At(f, "acquire"), r = flow[f].run, status[r] = flow[f].seen,
         status' = [status EXCEPT ![r] = "running"],
         flow' = [flow EXCEPT ![f] = rec], rec.run = r,
         RecInv(rec), rec.pc \notin {"newRun", "reqCommit"}, ~Decides(rec), Rest',
         UNCHANGED <<apState, apRun, phase, todo>>
  PROVE  IInv'
<1>1. /\ TypeOK /\ StartInv /\ ExecutorOwnsRun /\ SingleExecutor /\ OneOpenDecision
      /\ \A g \in Flow : FlowInv(g)
      /\ \A a \in Approval : ApprovalInv(a)
  BY DEF IInv
<1>2. flow' \in [Flow -> FlowState]
  BY <1>1 DEF TypeOK
<1>3. flow'[f] = rec /\ \A g \in Flow : g # f => flow'[g] = flow[g]
  BY <1>1 DEF TypeOK
<1>4. /\ status' \in [Run -> Status \cup {"absent"}]
      /\ status'[r] = "running" /\ \A q \in Run : q # r => status'[q] = status[q]
  BY <1>1 DEF TypeOK, Status
<1>5. TypeOK'
  BY <1>1, <1>2, <1>4 DEF TypeOK, Rest
<1>6. status[r] \in {"created", "waiting_approval", "waiting_user", "interrupted"}
  BY <1>1 DEF FlowInv, RecInv, At, Expected
<1>7. status[r] = "waiting_approval" => Deciding(f)
  BY <1>1 DEF FlowInv, RecInv, At, Expected, Deciding, Decides
<1>8. \A g \in Flow : RecInv(flow[g])'
  <2>1. \A g \in Flow : RecInv(flow[g])
    BY <1>1 DEF FlowInv
  <2>2. ASSUME NEW g \in Flow, g # f PROVE RecInv(flow[g])'
    <3>1. flow[g].pc # "newRun" \/ flow[g].run # r
      BY <1>6, <2>1 DEF RecInv
    <3>2. flow[g].pc = "reqCommit" => flow[g].run \in Run
      BY <2>1 DEF RecInv
    <3>3. status[r] \notin Terminal
      BY <1>6 DEF Terminal
    <3>4. flow'[g] = flow[g]
      BY <1>3, <2>2
    <3> QED
      BY <1>4, <2>1, <3>1, <3>2, <3>3, <3>4 DEF RecInv
  <2>3. RecInv(flow[f])'
    BY <1>3, <1>4 DEF RecInv
  <2> QED
    BY <2>2, <2>3
<1>9. \A g \in Flow : FlowInv(g)'
  <2> SUFFICES ASSUME NEW g \in Flow, At(g, "newRun")'
               PROVE  \A h \in Flow : flow'[h].run = flow'[g].run => h = g
    BY <1>8 DEF FlowInv
  <2>1. g # f /\ flow'[g] = flow[g] /\ flow[g].pc = "newRun"
    BY <1>3 DEF At
  <2> QED
    BY <1>1, <1>3, <2>1 DEF FlowInv, At
<1>10. \A a \in Approval : ApprovalInv(a)'
  BY <1>1, <1>4 DEF ApprovalInv
<1>11. StartInv'
  BY <1>1 DEF StartInv, At
<1>12. ~\E g \in Flow : Executing(g) /\ flow[g].run = r
  BY <1>1, <1>6 DEF ExecutorOwnsRun, Terminal
<1>13. \A g \in Flow : Executing(g)' /\ g # f => /\ Executing(g) /\ flow'[g] = flow[g]
                                                /\ flow[g].run # r
  BY <1>3, <1>12 DEF Executing
<1>14. ExecutorOwnsRun'
  <2> SUFFICES ASSUME NEW g \in Flow, Executing(g)'
               PROVE  status'[flow'[g].run] \in {"running"} \cup Terminal
    BY DEF ExecutorOwnsRun
  <2>1. CASE g = f
    BY <1>3, <1>4, <2>1
  <2>2. CASE g # f
    <3>1. flow[g].run \in Run
      BY <1>1, <1>13, <2>2 DEF FlowInv, RecInv, Executing, Executes
    <3> QED
      BY <1>1, <1>4, <1>13, <2>2, <3>1 DEF ExecutorOwnsRun
  <2> QED
    BY <2>1, <2>2
<1>15. SingleExecutor'
  <2>1. flow'[f].run = r
    BY <1>3
  <2> QED
    BY <1>1, <1>13, <2>1 DEF SingleExecutor
<1>16. OneOpenDecision'
  <2>1. \A g \in Flow : Deciding(g)' => g # f /\ Deciding(g) /\ flow'[g] = flow[g]
    BY <1>3 DEF Deciding
  <2>2. \A q \in Run : OpenOf(q)' = OpenOf(q) /\ DecidersOf(q)' \subseteq DecidersOf(q)
    BY <2>1 DEF OpenOf, Open, DecidersOf
  <2>3. OpenOf(r)' = {} /\ DecidersOf(r)' = {}
    <3>1. CASE status[r] = "waiting_approval"
      <4>1. f \in DecidersOf(r)
        BY <1>7, <3>1 DEF DecidersOf
      <4>2. OpenOf(r) = {} /\ \A g \in DecidersOf(r) : g = f
        BY <1>1, <1>6, <4>1 DEF OneOpenDecision, Terminal
      <4> QED
        BY <2>1, <2>2, <4>2 DEF DecidersOf
    <3>2. CASE status[r] # "waiting_approval"
      <4>1. OpenOf(r) \cup DecidersOf(r) = {}
        BY <1>1, <1>6, <3>2 DEF OneOpenDecision, Terminal
      <4> QED
        BY <2>2, <4>1
    <3> QED
      BY <3>1, <3>2
  <2>4. \A q \in Run : status'[q] \notin Terminal => status[q] \notin Terminal
    BY <1>4, <1>6 DEF Terminal
  <2> QED
    BY <1>1, <1>4, <2>2, <2>3, <2>4, DecisionsShrink
<1> QED
  BY <1>5, <1>9, <1>10, <1>11, <1>14, <1>15, <1>16 DEF IInv

(* acquireExecution, won, lost, and failed before or after its commit.     *)
LEMMA AcquireActions ==
  ASSUME IInv, NEW f \in Flow, Acquire(f) \/ AcquireFault(f)
  PROVE  IInv'
<1>0. /\ At(f, "acquire") /\ ~At(f, "idle") /\ flow[f].pc \notin {"idle", "newRun"}
  BY DEF At, Acquire, AcquireFault
<1>s. /\ TypeOK /\ Rest /\ phase = "up"
      /\ flow[f] \in FlowState /\ RecInv(flow[f]) /\ flow[f].run \in Run
      /\ Fault => faults' \in 0 .. MaxFault
  BY <1>0, Started
<1>q. ASSUME NEW rec, MayBecome(f, rec), flow' = [flow EXCEPT ![f] = rec], Rest',
             UNCHANGED <<status, apState, apRun, phase, todo>>
      PROVE  IInv'
  BY <1>s, <1>q, QuietStep
<1>r. /\ MayBecome(f, Rethrown(flow[f])) /\ MayBecome(f, Returned(flow[f]))
      /\ \A goal \in {"cancelled", "failed"} : MayBecome(f, ToMark(flow[f], "acqError", goal))
  BY <1>0, RecordsBecome DEF GoalsOf, Why
<1>a. ASSUME NEW rec \in FlowState, status[flow[f].run] = flow[f].seen,
             status' = [status EXCEPT ![flow[f].run] = "running"],
             flow' = [flow EXCEPT ![f] = rec], rec.run = flow[f].run,
             RecInv(rec), rec.pc \notin {"newRun", "reqCommit"}, ~Decides(rec), Rest',
             UNCHANGED <<apState, apRun, phase, todo>>
      PROVE  IInv'
  BY <1>0, <1>s, <1>a, AcquireStep
<1>1. CASE Acquire(f)
  <2>1. Rest'
    BY <1>s, <1>1 DEF Rest, Acquire, seenV
  <2>2. CASE /\ status[flow[f].run] = flow[f].seen
             /\ status' = [status EXCEPT ![flow[f].run] = "running"]
             /\ Goto(f, "build")
    <3> DEFINE rec == [flow[f] EXCEPT !.pc = "build"]
    <3>1. rec \in FlowState /\ rec.pc = "build" /\ rec.run = flow[f].run
      BY <1>s DEF FlowState, PC
    <3>2. flow' = [flow EXCEPT ![f] = rec]
      BY <2>2 DEF Goto
    <3> HIDE DEF rec
    <3>3. RecInv(rec) /\ ~Decides(rec)
      BY <1>0, <1>s, <3>1 DEF RecInv, At, Decides
    <3> QED
      BY <1>a, <1>1, <2>1, <2>2, <3>1, <3>2, <3>3 DEF Acquire, daemon
  <2>3. CASE flow' = [flow EXCEPT ![f] = Returned(@)] /\ UNCHANGED status
    BY <1>q, <1>r, <1>1, <2>1, <2>3 DEF Acquire, daemon
  <2> QED
    BY <1>1, <2>2, <2>3 DEF Acquire
<1>2. CASE AcquireFault(f)
  <2>1. Rest'
    BY <1>s, <1>2 DEF Rest, AcquireFault, seenV
  <2>2. PICK rec : /\ MayBecome(f, rec) /\ flow' = [flow EXCEPT ![f] = rec]
                   /\ rec.run = flow[f].run /\ rec.pc \in {"unres", "lastCatch", "mark"}
                   /\ rec.pc = "mark" => rec.why = "acqError"
    <3>1. \A why \in Why, goal \in Status :
            /\ ToMark(flow[f], why, goal).run = flow[f].run
            /\ ToMark(flow[f], why, goal).pc = "mark"
            /\ ToMark(flow[f], why, goal).why = why
      BY <1>s DEF ToMark, FlowState
    <3>2. /\ Rethrown(flow[f]).run = flow[f].run
          /\ Rethrown(flow[f]).pc \in {"unres", "lastCatch"}
      BY <1>s DEF Rethrown, FlowState
    <3> DEFINE goal == IF f \in aborted THEN "cancelled" ELSE "failed"
    <3>3. /\ goal \in {"cancelled", "failed"} /\ goal \in Status /\ "acqError" \in Why
      BY DEF Why, Status
    <3>4. \/ flow' = [flow EXCEPT ![f] = Rethrown(flow[f])]
          \/ flow' = [flow EXCEPT ![f] = ToMark(flow[f], "acqError", goal)]
      BY <1>2 DEF AcquireFault
    <3> HIDE DEF goal
    <3>5. CASE flow' = [flow EXCEPT ![f] = Rethrown(flow[f])]
      BY <1>r, <3>2, <3>5
    <3>6. CASE flow' = [flow EXCEPT ![f] = ToMark(flow[f], "acqError", goal)]
      BY <1>r, <3>1, <3>3, <3>6
    <3> QED
      BY <3>4, <3>5, <3>6
  <2>3. CASE UNCHANGED status
    BY <1>q, <1>2, <2>1, <2>2, <2>3 DEF AcquireFault, daemon
  <2>4. CASE /\ status[flow[f].run] = flow[f].seen
             /\ status' = [status EXCEPT ![flow[f].run] = "running"]
    <3>1. RecInv(rec) /\ rec \in FlowState /\ ~Decides(rec)
      BY <2>2 DEF MayBecome, Decides
    <3> QED
      BY <1>a, <1>2, <2>1, <2>2, <2>4, <3>1 DEF AcquireFault, daemon
  <2> QED
    BY <1>2, <2>3, <2>4 DEF AcquireFault
<1> QED
  BY <1>1, <1>2

(* What the status writers do once their write returned or threw.          *)
LEMMA MarkRecords ==
  ASSUME IInv, NEW f \in Flow, flow[f].pc \in {"mark", "commit"},
         AfterMark(f) \/ MarkThrown(f)
  PROVE  /\ \E rec : /\ MayBecome(f, rec) /\ flow' = [flow EXCEPT ![f] = rec]
                     /\ rec.pc \notin {"newRun", "reqCommit"}
                     /\ ~Executes(rec) /\ ~Decides(rec)
         /\ aborted' \subseteq Flow
         /\ registry' \in [Run -> Flow \cup {NoFlow}]
         /\ told' \in [Run -> SUBSET Ending]
<1>0. ~At(f, "idle") /\ flow[f].pc \notin {"idle", "newRun"}
  BY DEF At
<1>s. /\ TypeOK /\ Rest /\ flow[f] \in FlowState /\ RecInv(flow[f]) /\ flow[f].run \in Run
  BY <1>0, Started
<1>r. /\ MayBecome(f, Idle) /\ MayBecome(f, Returned(flow[f]))
      /\ MayBecome(f, Rethrown(flow[f])) /\ MayBecome(f, TailThrown(flow[f]))
      /\ \A pc \in {"exit", "cancelCheck"} : MayBecome(f, [flow[f] EXCEPT !.pc = pc])
  BY <1>0, RecordsBecome
<1>p. /\ \A pc \in {"exit", "cancelCheck"} : [flow[f] EXCEPT !.pc = pc].pc = pc
      /\ Idle.pc = "idle" /\ Returned(flow[f]).pc \in {"settle", "exit"}
      /\ Rethrown(flow[f]).pc \in {"unres", "lastCatch"}
      /\ TailThrown(flow[f]).pc \in {"catch", "unres", "lastCatch"}
  BY <1>s DEF Idle, Returned, Rethrown, TailThrown, FlowState
<1>1. CASE AfterMark(f)
  <2>1. \/ flow' = [flow EXCEPT ![f] = Idle]
        \/ flow' = [flow EXCEPT ![f] = Returned(flow[f])]
        \/ \E pc \in {"exit", "cancelCheck"} :
             flow' = [flow EXCEPT ![f] = [flow[f] EXCEPT !.pc = pc]]
    BY <1>1 DEF AfterMark, Goto, Done
  <2>2. \E rec : /\ MayBecome(f, rec) /\ flow' = [flow EXCEPT ![f] = rec]
                 /\ rec.pc \notin {"newRun", "reqCommit"}
                 /\ ~Executes(rec) /\ ~Decides(rec)
    <3>1. CASE flow' = [flow EXCEPT ![f] = Idle]
      BY <1>r, <1>p, <3>1 DEF Executes, Decides
    <3>2. CASE flow' = [flow EXCEPT ![f] = Returned(flow[f])]
      BY <1>r, <1>p, <3>2 DEF Executes, Decides
    <3>3. CASE \E pc \in {"exit", "cancelCheck"} :
                 flow' = [flow EXCEPT ![f] = [flow[f] EXCEPT !.pc = pc]]
      BY <1>r, <1>p, <3>3 DEF Executes, Decides
    <3> QED
      BY <2>1, <3>1, <3>2, <3>3
  <2>3. aborted' \subseteq Flow /\ registry' \in [Run -> Flow \cup {NoFlow}]
    BY <1>s, <1>1, RegistryType DEF AfterMark, Rest
  <2>4. told' \in [Run -> SUBSET Ending]
    BY <1>s, <1>1 DEF AfterMark, Rest, Announce, Ending, RecInv, GoalsOf
  <2> QED
    BY <2>2, <2>3, <2>4
<1>2. CASE MarkThrown(f)
  <2>1. \/ flow' = [flow EXCEPT ![f] = Idle]
        \/ flow' = [flow EXCEPT ![f] = TailThrown(flow[f])]
        \/ flow' = [flow EXCEPT ![f] = Rethrown(flow[f])]
        \/ flow' = [flow EXCEPT ![f] = [flow[f] EXCEPT !.pc = "exit"]]
    BY <1>2 DEF MarkThrown
  <2>2. \E rec : /\ MayBecome(f, rec) /\ flow' = [flow EXCEPT ![f] = rec]
                 /\ rec.pc \notin {"newRun", "reqCommit"}
                 /\ ~Executes(rec) /\ ~Decides(rec)
    <3>1. CASE flow' = [flow EXCEPT ![f] = Idle]
      BY <1>r, <1>p, <3>1 DEF Executes, Decides
    <3>2. CASE flow' = [flow EXCEPT ![f] = TailThrown(flow[f])]
      BY <1>r, <1>p, <3>2 DEF Executes, Decides
    <3>3. CASE flow' = [flow EXCEPT ![f] = Rethrown(flow[f])]
      BY <1>r, <1>p, <3>3 DEF Executes, Decides
    <3>4. CASE flow' = [flow EXCEPT ![f] = [flow[f] EXCEPT !.pc = "exit"]]
      BY <1>r, <1>p, <3>4 DEF Executes, Decides
    <3> QED
      BY <2>1, <3>1, <3>2, <3>3, <3>4
  <2> QED
    BY <1>s, <1>2, <2>2 DEF MarkThrown, Rest
<1> QED
  BY <1>1, <1>2

(* A committed status write: the goal was legal from the status that the   *)
(* run still has, so the run was not terminal.                             *)
LEMMA CommittedMark ==
  ASSUME IInv, NEW f \in Flow, At(f, "commit"), status[flow[f].run] = flow[f].seen,
         status' = [status EXCEPT ![flow[f].run] = flow[f].goal],
         AfterMark(f) \/ MarkThrown(f), Rest',
         UNCHANGED <<apState, apRun, phase, todo>>
  PROVE  IInv'
<1>s. /\ TypeOK /\ Rest /\ phase = "up" /\ flow[f] \in FlowState /\ RecInv(flow[f])
      /\ flow[f].run \in Run
  BY Started DEF At
<1>1. PICK rec : /\ MayBecome(f, rec) /\ flow' = [flow EXCEPT ![f] = rec]
                 /\ rec.pc \notin {"newRun", "reqCommit"}
                 /\ ~Executes(rec) /\ ~Decides(rec)
  BY MarkRecords DEF At
<1>2. flow[f].goal \in Legal(flow[f].seen) /\ flow[f].goal \in GoalsOf(flow[f].why)
  BY <1>s DEF RecInv, At
<1>3. status[flow[f].run] \notin Terminal \cup {"absent"}
  BY <1>2 DEF Legal, Terminal
<1>4. flow[f].goal \in Terminal \/ Executing(f) \/ Deciding(f)
  BY <1>2 DEF GoalsOf, Terminal, At, Executing, Executes, Deciding, Decides
<1>5. flow[f].goal \in Status
  BY <1>s DEF FlowState
<1> QED
  BY <1>s, <1>1, <1>3, <1>4, <1>5, MoveStep

(* markStatus, markFailed and markCancelled: read, commit and failure.     *)
LEMMA MarkActions ==
  ASSUME IInv, NEW f \in Flow, MarkRead(f) \/ MarkCommit(f) \/ MarkFault(f)
  PROVE  IInv'
<1>0. flow[f].pc \in {"mark", "commit"} /\ ~At(f, "idle")
  BY DEF At, MarkRead, MarkCommit, MarkFault
<1>s. /\ TypeOK /\ Rest /\ phase = "up"
      /\ flow[f] \in FlowState /\ RecInv(flow[f]) /\ flow[f].run \in Run
      /\ Fault => faults' \in 0 .. MaxFault
  BY <1>0, Started
<1>q. ASSUME NEW rec, MayBecome(f, rec), flow' = [flow EXCEPT ![f] = rec], Rest',
             UNCHANGED <<status, apState, apRun, phase, todo>>
      PROVE  IInv'
  BY <1>s, <1>q, QuietStep
<1>r. ASSUME AfterMark(f) \/ MarkThrown(f), faults' \in 0 .. MaxFault,
             UNCHANGED <<ckpt, resumes, toolRuns, crashes>>
      PROVE  Rest'
  BY <1>0, <1>s, <1>r, MarkRecords DEF Rest
<1>m. ASSUME AfterMark(f) \/ MarkThrown(f), Rest',
             UNCHANGED <<status, apState, apRun, phase, todo>>
      PROVE  IInv'
  BY <1>0, <1>q, <1>m, MarkRecords
<1>1. CASE MarkRead(f)
  <2>1. CASE AfterMark(f) \/ MarkThrown(f)
    <3>1. Rest'
      BY <1>s, <1>r, <1>1, <2>1 DEF MarkRead, Rest, db
    <3> QED
      BY <1>m, <1>1, <2>1, <3>1 DEF MarkRead, db, daemon
  <2>2. CASE /\ flow[f].goal \in Legal(status[flow[f].run])
             /\ flow' = [flow EXCEPT ![f].pc = "commit", ![f].seen = status[flow[f].run]]
             /\ UNCHANGED <<aborted, registry, told>>
    <3> DEFINE rec == [flow[f] EXCEPT !.pc = "commit", !.seen = status[flow[f].run]]
    <3>1. /\ rec \in FlowState /\ rec.pc = "commit" /\ rec.seen = status[flow[f].run]
          /\ rec.run = flow[f].run /\ rec.why = flow[f].why /\ rec.goal = flow[f].goal
      BY <1>s DEF FlowState, PC, TypeOK
    <3>2. flow' = [flow EXCEPT ![f] = rec]
      BY <2>2
    <3>3. At(f, "mark")
      BY <1>1 DEF MarkRead
    <3> HIDE DEF rec
    <3>4. MayBecome(f, rec)
      BY <1>s, <2>2, <3>1, <3>3
      DEF MayBecome, RecInv, At, Executes, Executing, Decides, Deciding
    <3>5. Rest'
      BY <1>s, <1>1, <2>2 DEF Rest, MarkRead, db
    <3> QED
      BY <1>q, <1>1, <3>2, <3>4, <3>5 DEF MarkRead, db, daemon
  <2> QED
    BY <1>1, <2>1, <2>2 DEF MarkRead
<1>2. CASE MarkCommit(f)
  <2>1. AfterMark(f) \/ MarkThrown(f)
    BY <1>2 DEF MarkCommit
  <2>2. Rest'
    BY <1>s, <1>r, <1>2, <2>1 DEF MarkCommit, Rest
  <2>3. CASE UNCHANGED status
    BY <1>m, <1>2, <2>1, <2>2, <2>3 DEF MarkCommit, daemon
  <2>4. CASE /\ status[flow[f].run] = flow[f].seen
             /\ status' = [status EXCEPT ![flow[f].run] = flow[f].goal]
    BY <1>2, <2>1, <2>2, <2>4, CommittedMark DEF MarkCommit, daemon
  <2> QED
    BY <1>2, <2>3, <2>4 DEF MarkCommit
<1>3. CASE MarkFault(f)
  <2>1. MarkThrown(f)
    BY <1>3 DEF MarkFault
  <2>2. Rest'
    BY <1>s, <1>r, <1>3, <2>1 DEF MarkFault, Rest
  <2>3. CASE UNCHANGED status
    BY <1>m, <1>3, <2>1, <2>2, <2>3 DEF MarkFault, daemon
  <2>4. CASE /\ At(f, "commit") /\ status[flow[f].run] = flow[f].seen
             /\ status' = [status EXCEPT ![flow[f].run] = flow[f].goal]
    BY <1>3, <2>1, <2>2, <2>4, CommittedMark DEF MarkFault, daemon
  <2> QED
    BY <1>3, <2>3, <2>4 DEF MarkFault
<1> QED
  BY <1>1, <1>2, <1>3

(* recordAttemptLink: the status is not touched, whatever the context.     *)
LEMMA LinkActions ==
  ASSUME IInv, NEW f \in Flow, LinkRead(f) \/ LinkWrite(f)
  PROVE  IInv'
<1>0. ~At(f, "idle") /\ flow[f].pc \notin {"idle", "newRun"}
  BY DEF At, LinkRead, LinkWrite
<1>s. /\ TypeOK /\ Rest /\ phase = "up"
      /\ flow[f] \in FlowState /\ RecInv(flow[f]) /\ flow[f].run \in Run
      /\ Fault => faults' \in 0 .. MaxFault
  BY <1>0, Started
<1>q. ASSUME NEW rec, MayBecome(f, rec), flow' = [flow EXCEPT ![f] = rec], Rest',
             UNCHANGED <<status, apState, apRun, phase, todo>>
      PROVE  IInv'
  BY <1>s, <1>q, QuietStep
<1>1. CASE LinkRead(f)
  <2> DEFINE rec == [flow[f] EXCEPT !.pc = "linkWrite", !.ck = ckpt[flow[f].run]]
  <2>1. ckpt[flow[f].run] \in Approval \cup {"none", "plain"}
    BY <1>s DEF TypeOK
  <2>2. rec \in FlowState /\ rec.pc = "linkWrite" /\ rec.run = flow[f].run
    BY <1>s, <2>1 DEF FlowState, PC
  <2>3. flow' = [flow EXCEPT ![f] = rec]
    BY <1>1 DEF LinkRead
  <2> HIDE DEF rec
  <2>4. MayBecome(f, rec)
    BY <1>0, <1>s, <2>2 DEF MayBecome, RecInv, Executes, Decides
  <2>5. Rest'
    BY <1>s, <1>1 DEF Rest, LinkRead, db, seenV
  <2> QED
    BY <1>q, <1>1, <2>3, <2>4, <2>5 DEF LinkRead, db, daemon
<1>2. CASE LinkWrite(f)
  <2>1. MayBecome(f, Idle)
    BY <1>0, RecordsBecome
  <2>2. flow[f].ck \in Approval \cup {"none", "plain"}
    BY <1>s DEF FlowState
  <2>3. Rest'
    BY <1>s, <1>2, <2>2 DEF Rest, LinkWrite, seenV
  <2> QED
    BY <1>q, <1>2, <2>1, <2>3 DEF LinkWrite, Done, daemon
<1> QED
  BY <1>1, <1>2

(* createRun: until its row exists no other flow and no approval names the *)
(* run.                                                                    *)
LEMMA CreateRunAction ==
  ASSUME IInv, NEW f \in Flow, CreateRun(f)
  PROVE  IInv'
<1>0. At(f, "newRun") /\ ~At(f, "idle")
  BY DEF At, CreateRun
<1>s. /\ TypeOK /\ Rest /\ phase = "up"
      /\ flow[f] \in FlowState /\ RecInv(flow[f]) /\ flow[f].run \in Run
      /\ Fault => faults' \in 0 .. MaxFault
  BY <1>0, Started
<1>q. ASSUME NEW rec, MayBecome(f, rec), flow' = [flow EXCEPT ![f] = rec], Rest',
             UNCHANGED <<status, apState, apRun, phase, todo>>
      PROVE  IInv'
  BY <1>s, <1>q, QuietStep
<1>1. CASE Done(f) /\ Fault /\ RegistryRemove(flow[f].run) /\ UNCHANGED status
  <2>1. MayBecome(f, Idle)
    <3>1. Idle.pc = "idle" /\ Idle.run = NoRun
      BY DEF Idle
    <3> QED
      BY <3>1, IdleType DEF MayBecome, RecInv, Executes, Decides
  <2>2. Rest'
    BY <1>s, <1>1 DEF CreateRun, Rest, RegistryRemove, seenV
  <2> QED
    BY <1>q, <1>1, <2>1, <2>2 DEF CreateRun, Done, daemon
<1>2. ASSUME NEW rec \in FlowState,
             \/ rec.pc = "idle" /\ rec.run = NoRun
             \/ /\ rec.pc \in {"userMsg", "lastCatch"} /\ rec.run = flow[f].run
                /\ rec.kind = flow[f].kind /\ rec.seen = flow[f].seen,
             status' = [status EXCEPT ![flow[f].run] = "created"],
             flow' = [flow EXCEPT ![f] = rec], Rest'
      PROVE  IInv'
  <2>0. PICK r \in Run : r = flow[f].run
    BY <1>s
  <2>1. /\ TypeOK /\ StartInv /\ ExecutorOwnsRun /\ SingleExecutor /\ OneOpenDecision
        /\ \A g \in Flow : FlowInv(g)
        /\ \A b \in Approval : ApprovalInv(b)
    BY DEF IInv
  <2>2. /\ r \in Run /\ status[r] = "absent" /\ \A g \in Flow : flow[g].run = r => g = f
    BY <1>0, <1>s, <2>0, <2>1 DEF FlowInv, RecInv, At
  <2>3. /\ rec.pc \in {"idle", "userMsg", "lastCatch"}
        /\ rec.pc # "idle" => /\ rec.run = r /\ rec.kind = flow[f].kind
                              /\ rec.seen = flow[f].seen
    BY <1>2, <2>0
  <2>4. flow'[f] = rec /\ \A g \in Flow : g # f => flow'[g] = flow[g]
    BY <1>2, <2>1 DEF TypeOK
  <2>5. flow' \in [Flow -> FlowState]
    BY <1>2, <2>1 DEF TypeOK
  <2>6. /\ status' \in [Run -> Status \cup {"absent"}]
        /\ status'[r] = "created" /\ \A q \in Run : q # r => status'[q] = status[q]
    BY <1>2, <2>0, <2>1, <2>2 DEF TypeOK, Status
  <2>7. TypeOK' /\ StartInv'
    <3>1. Rest' /\ UNCHANGED <<apState, apRun, phase, todo>>
      BY <1>2 DEF CreateRun, daemon
    <3> QED
      BY <1>s, <2>1, <2>5, <2>6, <3>1 DEF TypeOK, Rest, StartInv
  <2>8. \A g \in Flow : g # f => flow[g].run # r /\ (flow[g].pc # "idle" => flow[g].run \in Run)
    BY <2>1, <2>2 DEF FlowInv, RecInv
  <2>9. \A g \in Flow : FlowInv(g)'
    <3>1. UNCHANGED <<apState, apRun>>
      BY DEF CreateRun
    <3>2. FlowInv(f)'
      <4>1. RecInv(flow[f])'
        BY <1>0, <1>s, <2>0, <2>2, <2>3, <2>4, <2>6 DEF RecInv, At, Expected
      <4> QED
        BY <2>3, <2>4, <4>1 DEF FlowInv, At
    <3>3. ASSUME NEW g \in Flow, g # f PROVE FlowInv(g)'
      <4>1. RecInv(flow[g])'
        BY <2>1, <2>4, <2>6, <2>8, <3>1, <3>3 DEF FlowInv, RecInv
      <4>2. flow'[f].run \in {r, NoRun} /\ flow'[g] = flow[g]
        BY <1>2, <2>0, <2>4, <3>3
      <4>3. At(g, "newRun") => flow[g].run \in Run /\ flow[g].run \notin {r, NoRun}
        BY <2>8, <3>3, IdAssumption DEF At
      <4> QED
        BY <2>1, <2>4, <3>3, <4>1, <4>2, <4>3 DEF FlowInv, At
    <3> QED
      BY <3>2, <3>3
  <2>10. \A b \in Approval : ApprovalInv(b)'
    BY <2>1, <2>6 DEF CreateRun, ApprovalInv
  <2>11. \A g \in Flow : Executing(g)' => g # f /\ Executing(g) /\ flow'[g] = flow[g]
    BY <2>3, <2>4 DEF Executing, Executes
  <2>12. \A g \in Flow : Deciding(g)' => g # f /\ Deciding(g) /\ flow'[g] = flow[g]
    BY <2>3, <2>4 DEF Deciding, Decides
  <2>13. ExecutorOwnsRun'
    <3>1. \A g \in Flow : Executing(g) => flow[g].pc # "idle"
      BY DEF Executing, Executes
    <3> QED
      BY <2>1, <2>6, <2>8, <2>11, <3>1 DEF ExecutorOwnsRun
  <2>14. SingleExecutor'
    BY <2>1, <2>11 DEF SingleExecutor
  <2>15. OneOpenDecision'
    <3>1. \A q \in Run : OpenOf(q)' = OpenOf(q) /\ DecidersOf(q)' \subseteq DecidersOf(q)
      BY <2>12 DEF CreateRun, OpenOf, Open, DecidersOf
    <3>2. \A q \in Run : q = r => OpenOf(q) = {}
      BY <2>1, <2>2 DEF OpenOf, Open, ApprovalInv
    <3>4. \A q \in Run : q = r => DecidersOf(q)' = {}
      BY <2>8, <2>12 DEF DecidersOf
    <3>3. status[r] \notin Terminal
      BY <2>2 DEF Terminal
    <3>5. \A q \in Run : status'[q] \notin Terminal =>
            /\ status[q] \notin Terminal
            /\ OpenOf(q)' \subseteq OpenOf(q)
            /\ DecidersOf(q)' \subseteq DecidersOf(q)
            /\ OpenOf(q)' \cup DecidersOf(q)' # {} => status'[q] = status[q]
      <4> SUFFICES ASSUME NEW q \in Run, status'[q] \notin Terminal
                   PROVE  /\ status[q] \notin Terminal
                          /\ OpenOf(q)' \cup DecidersOf(q)' # {} => status'[q] = status[q]
        BY <3>1
      <4>1. CASE q = r
        BY <3>1, <3>2, <3>3, <3>4, <4>1
      <4>2. CASE q # r
        BY <2>6, <4>2
      <4> QED
        BY <4>1, <4>2
    <3> QED
      BY <2>1, <3>5, DecisionsShrink
  <2> QED
    BY <2>7, <2>9, <2>10, <2>13, <2>14, <2>15 DEF IInv
<1>3. Rest'
  BY <1>s DEF CreateRun, Rest, RegistryRemove, seenV, daemon
<1>4. /\ [flow[f] EXCEPT !.pc = "userMsg"] \in FlowState
      /\ [flow[f] EXCEPT !.pc = "lastCatch"] \in FlowState
  BY <1>s, RecordTypes DEF PC
<1>5. CASE /\ status' = [status EXCEPT ![flow[f].run] = "created"]
           /\ Goto(f, "userMsg")
  BY <1>2, <1>3, <1>4, <1>5, <1>s DEF Goto, FlowState
<1>6. CASE /\ Done(f)
           /\ status' = [status EXCEPT ![flow[f].run] = "created"]
  BY <1>2, <1>3, <1>6, IdleType DEF Done, Idle
<1>7. CASE /\ status' = [status EXCEPT ![flow[f].run] = "created"]
           /\ flow[f].kind \in Sync
           /\ flow' = [flow EXCEPT ![f] = Rethrown(@)]
  <2>1. Rethrown(flow[f]) = [flow[f] EXCEPT !.pc = "lastCatch"]
    BY <1>7 DEF Rethrown, Sync
  <2> QED
    BY <1>2, <1>3, <1>4, <1>7, <1>s, <2>1 DEF FlowState
<1> QED
  BY <1>1, <1>5, <1>6, <1>7 DEF CreateRun

(* A batch is frozen under a fresh id: no decision is asked for yet.       *)
LEMMA FreezeAction ==
  ASSUME IInv, NEW f \in Flow, NEW a \in Approval, TurnNeedsApproval(f, a)
  PROVE  IInv'
<1>0. At(f, "turn") /\ ~At(f, "idle") /\ Executing(f) /\ apState[a] = "absent"
  BY DEF At, TurnNeedsApproval, Executing, Executes
<1>s. /\ TypeOK /\ Rest /\ phase = "up" /\ flow[f] \in FlowState /\ RecInv(flow[f])
      /\ flow[f].run \in Run
  BY <1>0, Started
<1>1. /\ TypeOK /\ StartInv /\ ExecutorOwnsRun /\ SingleExecutor /\ OneOpenDecision
      /\ \A g \in Flow : FlowInv(g)
      /\ \A b \in Approval : ApprovalInv(b)
  BY DEF IInv
<1> DEFINE rec == [flow[f] EXCEPT !.pc = "freeze", !.ap = a]
<1>2. /\ rec \in FlowState /\ rec.pc = "freeze" /\ rec.run = flow[f].run /\ rec.ap = a
  BY <1>s DEF FlowState, PC
<1>3. flow'[f] = rec /\ \A g \in Flow : g # f => flow'[g] = flow[g]
  BY <1>1 DEF TypeOK, TurnNeedsApproval
<1>4. flow' \in [Flow -> FlowState]
  BY <1>1, <1>2 DEF TypeOK, TurnNeedsApproval
<1> HIDE DEF rec
<1>5. /\ apState' = [apState EXCEPT ![a] = "frozen"] /\ apRun' = [apRun EXCEPT ![a] = flow[f].run]
      /\ UNCHANGED <<status, phase, todo>>
  BY DEF TurnNeedsApproval, daemon
<1>6. /\ apState'[a] = "frozen" /\ apRun'[a] = flow[f].run
      /\ \A b \in Approval : b # a => apState'[b] = apState[b] /\ apRun'[b] = apRun[b]
  BY <1>1, <1>5 DEF TypeOK
<1>7. TypeOK'
  <2>1. Rest'
    BY <1>s DEF Rest, TurnNeedsApproval, seenV
  <2> QED
    BY <1>s, <1>1, <1>4, <1>5, <2>1 DEF TypeOK, Rest
<1>8. StartInv'
  BY <1>s, <1>1, <1>5 DEF StartInv
<1>9. \A g \in Flow : FlowInv(g)'
  <2>1. FlowInv(f)'
    <3>1. status[flow[f].run] # "absent"
      BY <1>0, <1>s DEF RecInv, At
    <3> QED
      BY <1>s, <1>2, <1>3, <1>5, <1>6, <3>1 DEF FlowInv, RecInv, At
  <2>2. ASSUME NEW g \in Flow, g # f PROVE FlowInv(g)'
    <3>1. flow'[g] = flow[g] /\ flow'[f].run = flow[f].run
      BY <1>2, <1>3, <2>2
    <3>2. flow[g].pc \in {"freeze", "reqRead", "reqCommit"} => flow[g].ap # a
      BY <1>0, <1>1 DEF FlowInv, RecInv
    <3>3. RecInv(flow[g])'
      BY <1>1, <1>5, <1>6, <3>1, <3>2 DEF FlowInv, RecInv
    <3> QED
      BY <1>1, <1>3, <3>1, <3>3 DEF FlowInv, At
  <2> QED
    BY <2>1, <2>2
<1>10. \A b \in Approval : ApprovalInv(b)'
  <2>1. status[flow[f].run] # "absent"
    BY <1>0, <1>s DEF RecInv, At
  <2> QED
    BY <1>s, <1>1, <1>5, <1>6, <2>1 DEF ApprovalInv
<1>11. \A g \in Flow : Executing(g)' => Executing(g) /\ flow'[g].run = flow[g].run
  BY <1>0, <1>2, <1>3 DEF Executing
<1>12. \A g \in Flow : Deciding(g)' => Deciding(g) /\ flow'[g].run = flow[g].run
  BY <1>2, <1>3 DEF Deciding, Decides
<1>13. ExecutorOwnsRun' /\ SingleExecutor'
  BY <1>1, <1>5, <1>11 DEF ExecutorOwnsRun, SingleExecutor
<1>14. OneOpenDecision'
  <2>1. \A q \in Run : OpenOf(q)' \subseteq OpenOf(q) /\ DecidersOf(q)' \subseteq DecidersOf(q)
    BY <1>6, <1>12 DEF OpenOf, Open, DecidersOf
  <2> QED
    BY <1>1, <1>5, <2>1, DecisionsShrink
<1> QED
  BY <1>7, <1>8, <1>9, <1>10, <1>13, <1>14 DEF IInv

(* requestApproval's commit: only the executor of a running run can suspend*)
(* it, so the new approval is the only thing that blocks it.               *)
LEMMA RequestAction ==
  ASSUME IInv, NEW f \in Flow, RequestCommit(f)
  PROVE  IInv'
<1>0. /\ At(f, "reqCommit") /\ ~At(f, "idle") /\ Executing(f)
      /\ flow[f].pc \notin {"idle", "newRun"}
  BY DEF At, RequestCommit, Executing, Executes
<1>s. /\ TypeOK /\ Rest /\ phase = "up"
      /\ flow[f] \in FlowState /\ RecInv(flow[f]) /\ flow[f].run \in Run
      /\ Fault => faults' \in 0 .. MaxFault
  BY <1>0, Started
<1>q. ASSUME NEW rec, MayBecome(f, rec), flow' = [flow EXCEPT ![f] = rec], Rest',
             UNCHANGED <<status, apState, apRun, phase, todo>>
      PROVE  IInv'
  BY <1>s, <1>q, QuietStep
<1>1. CASE flow' = [flow EXCEPT ![f] = TailThrown(flow[f])] /\ UNCHANGED <<status, apState>>
  <2>1. MayBecome(f, TailThrown(flow[f]))
    BY <1>0, RecordsBecome
  <2>2. Rest'
    BY <1>s DEF RequestCommit, Rest, seenV
  <2> QED
    BY <1>q, <1>1, <2>1, <2>2 DEF RequestCommit, daemon
<1>2. ASSUME NEW r \in Run, r = flow[f].run, NEW a \in Approval, a = flow[f].ap,
             \/ status[r] \in Terminal /\ UNCHANGED status
             \/ /\ status[r] = "running"
                /\ status' = [status EXCEPT ![r] = "waiting_approval"],
             apState' = [apState EXCEPT ![a] = "pending"],
             flow' = [flow EXCEPT ![f] = Returned(flow[f])], UNCHANGED faults
      PROVE  IInv'
  <2> DEFINE rec == Returned(flow[f])
  <2>1. /\ TypeOK /\ StartInv /\ ExecutorOwnsRun /\ SingleExecutor /\ OneOpenDecision
        /\ \A g \in Flow : FlowInv(g)
        /\ \A b \in Approval : ApprovalInv(b)
    BY DEF IInv
  <2>2. /\ rec \in FlowState /\ rec.pc \in {"settle", "exit"} /\ rec.run = r
    BY <1>s, <1>2, RecordTypes DEF Returned, FlowState
  <2>3. flow'[f] = rec /\ \A g \in Flow : g # f => flow'[g] = flow[g]
    BY <1>2, <2>1 DEF TypeOK
  <2>4. flow' \in [Flow -> FlowState]
    BY <1>2, <2>1, <2>2 DEF TypeOK
  <2> HIDE DEF rec
  <2>5. /\ apRun[a] = r /\ apState[a] # "absent"
    BY <1>0, <1>s, <1>2 DEF RecInv, At
  <2>6. /\ apState'[a] = "pending" /\ UNCHANGED apRun
        /\ \A b \in Approval : b # a => apState'[b] = apState[b]
        /\ \A b \in Approval : apState[b] # "absent" => apState'[b] # "absent"
    BY <1>2, <2>1 DEF TypeOK, RequestCommit
  <2>7. /\ status' \in [Run -> Status \cup {"absent"}]
        /\ \A q \in Run : q # r => status'[q] = status[q]
        /\ \A q \in Run : status[q] \in Terminal => status'[q] = status[q]
        /\ \A q \in Run : (status'[q] = "absent") <=> (status[q] = "absent")
    BY <1>2, <2>1 DEF TypeOK, Status, Terminal
  <2>8. TypeOK'
    <3>1. Rest' /\ UNCHANGED <<phase, todo>>
      BY <1>s, <1>2 DEF RequestCommit, Rest, seenV, daemon
    <3> QED
      BY <1>2, <2>1, <2>4, <2>6, <2>7, <3>1 DEF TypeOK, Rest
  <2>9. StartInv'
    BY <1>s, <2>1 DEF StartInv, RequestCommit, daemon
  <2>10. \A g \in Flow : FlowInv(g)'
    <3>1. FlowInv(f)'
      <4>1. status[r] # "absent"
        BY <1>0, <1>s, <1>2 DEF RecInv
      <4> QED
        BY <2>2, <2>3, <2>7, <4>1 DEF FlowInv, RecInv, At
    <3>2. ASSUME NEW g \in Flow, g # f PROVE FlowInv(g)'
      <4>1. flow'[g] = flow[g] /\ flow'[f].run = flow[f].run
        BY <1>2, <2>2, <2>3, <3>2
      <4>2. RecInv(flow[g])'
        BY <2>1, <2>6, <2>7, <4>1 DEF FlowInv, RecInv
      <4> QED
        BY <2>1, <2>3, <4>1, <4>2 DEF FlowInv, At
    <3> QED
      BY <3>1, <3>2
  <2>11. \A b \in Approval : ApprovalInv(b)'
    BY <1>0, <1>s, <1>2, <2>1, <2>5, <2>6, <2>7 DEF ApprovalInv
  <2>12. \A g \in Flow : Executing(g)' => g # f /\ Executing(g) /\ flow'[g] = flow[g]
    BY <2>2, <2>3 DEF Executing, Executes
  <2>13. \A g \in Flow : Deciding(g)' => g # f /\ Deciding(g) /\ flow'[g] = flow[g]
    BY <2>2, <2>3 DEF Deciding, Decides
  <2>14. ExecutorOwnsRun'
    <3> SUFFICES ASSUME NEW g \in Flow, Executing(g)'
                 PROVE  status'[flow'[g].run] \in {"running"} \cup Terminal
      BY DEF ExecutorOwnsRun
    <3>1. g # f /\ Executing(g) /\ flow'[g].run = flow[g].run /\ flow[g].run # r
      BY <1>0, <1>2, <2>1, <2>12 DEF SingleExecutor
    <3>2. flow[g].run \in Run
      BY <2>1, <3>1 DEF FlowInv, RecInv, Executing, Executes
    <3> QED
      BY <2>1, <2>7, <3>1, <3>2 DEF ExecutorOwnsRun
  <2>15. SingleExecutor'
    BY <2>1, <2>12 DEF SingleExecutor
  <2>16. OneOpenDecision'
    <3>1. \A q \in Run : DecidersOf(q)' \subseteq DecidersOf(q)
      BY <2>13 DEF DecidersOf
    <3>2. \A q \in Run : q # r => OpenOf(q)' = OpenOf(q)
      BY <2>5, <2>6 DEF OpenOf, Open
    <3>3. OpenOf(r)' \subseteq OpenOf(r) \cup {a}
      BY <2>6 DEF OpenOf, Open
    <3> SUFFICES ASSUME NEW q \in Run, status'[q] \notin Terminal
                 PROVE  /\ \A b, c \in OpenOf(q)' : b = c
                        /\ \A g, h \in DecidersOf(q)' : g = h
                        /\ OpenOf(q)' = {} \/ DecidersOf(q)' = {}
                        /\ OpenOf(q)' \cup DecidersOf(q)' # {} => status'[q] = "waiting_approval"
      BY DEF OneOpenDecision
    <3>4. status[q] \notin Terminal
      BY <2>7
    <3>5. CASE q = r
      <4>1. status[r] = "running" /\ status'[r] = "waiting_approval"
        BY <1>2, <2>1, <3>4, <3>5 DEF TypeOK
      <4>2. OpenOf(r) = {} /\ DecidersOf(r) = {}
        BY <2>1, <3>4, <3>5, <4>1 DEF OneOpenDecision
      <4> QED
        BY <3>1, <3>3, <3>5, <4>1, <4>2
    <3>6. CASE q # r
      <4>1. /\ \A b, c \in OpenOf(q) : b = c
            /\ \A g, h \in DecidersOf(q) : g = h
            /\ OpenOf(q) = {} \/ DecidersOf(q) = {}
            /\ OpenOf(q) \cup DecidersOf(q) # {} => status[q] = "waiting_approval"
        BY <2>1, <3>4 DEF OneOpenDecision
      <4> QED
        BY <2>7, <3>1, <3>2, <3>6, <4>1
    <3> QED
      BY <3>5, <3>6
  <2> QED
    BY <2>8, <2>9, <2>10, <2>11, <2>14, <2>15, <2>16 DEF IInv
<1>3. /\ flow[f].ap \in Approval
      /\ \/ flow[f].seen = "running"
         \/ flow[f].seen \in Terminal /\ status[flow[f].run] \in Terminal
  BY <1>0, <1>s DEF RecInv, At
<1> QED
  BY <1>s, <1>1, <1>2, <1>3 DEF RequestCommit, Terminal

(* A new run, a resumption or a cancellation begins: nothing is written    *)
(* yet, and what the flow expects of the run it has just read.             *)
LEMMA CommandActions ==
  ASSUME IInv, NEW f \in Flow, NEW r \in Run,
         \/ \E kind \in {"chat"} \cup Sync : NewRun(f, r, kind)
         \/ ResumeRun(f, r) \/ CancelRun(f, r)
  PROVE  IInv'
<1>s. TypeOK /\ Rest
  BY DEF IInv, TypeOK, Rest
<1>q. ASSUME NEW rec, MayBecome(f, rec), flow' = [flow EXCEPT ![f] = rec], Rest',
             phase = "up", UNCHANGED <<status, apState, apRun, phase, todo>>
      PROVE  IInv'
  BY <1>q, QuietStep
<1>1. ASSUME NEW kind \in {"chat"} \cup Sync, NewRun(f, r, kind)
      PROVE  IInv'
  <2> DEFINE rec == [Idle EXCEPT !.pc = "newRun", !.kind = kind, !.run = r, !.seen = "created"]
  <2>1. /\ rec \in FlowState /\ rec.pc = "newRun" /\ rec.run = r
        /\ rec.kind = kind /\ rec.seen = "created"
    BY IdleType DEF FlowState, PC, Kind, Status, Idle, Sync
  <2>2. flow' = [flow EXCEPT ![f] = rec]
    BY <1>1 DEF NewRun
  <2> HIDE DEF rec
  <2>3. MayBecome(f, rec)
    BY <1>1, <2>1 DEF MayBecome, RecInv, NewRun, Expected, Executes, Decides, Sync
  <2>4. Rest'
    BY <1>s, <1>1, RegistryType DEF Rest, NewRun, db, seenV
  <2> QED
    BY <1>q, <1>1, <2>2, <2>3, <2>4 DEF NewRun, db, daemon
<1>2. CASE ResumeRun(f, r)
  <2>1. PICK pc \in {"require", "unres"} :
          flow' = [flow EXCEPT ![f] = [Idle EXCEPT !.pc = pc, !.kind = "resume",
                                                   !.run = r, !.seen = status[r]]]
    BY <1>2 DEF ResumeRun
  <2> DEFINE rec == [Idle EXCEPT !.pc = pc, !.kind = "resume", !.run = r, !.seen = status[r]]
  <2>2. /\ rec \in FlowState /\ rec.pc = pc /\ rec.run = r
        /\ rec.kind = "resume" /\ rec.seen = status[r]
    BY <1>s, IdleType DEF FlowState, PC, Kind, TypeOK, Idle
  <2>3. flow' = [flow EXCEPT ![f] = rec]
    BY <2>1
  <2> HIDE DEF rec
  <2>4. MayBecome(f, rec)
    BY <1>2, <2>1, <2>2 DEF MayBecome, RecInv, ResumeRun, Expected, Executes, Decides
  <2>5. Rest'
    BY <1>s, <1>2, RegistryType DEF Rest, ResumeRun, db, seenV
  <2> QED
    BY <1>q, <1>2, <2>3, <2>4, <2>5 DEF ResumeRun, db, daemon
<1>3. CASE CancelRun(f, r)
  <2> DEFINE rec == ToMark([Idle EXCEPT !.kind = "cancel", !.run = r], "cancel", "cancelled")
  <2>1. /\ rec \in FlowState /\ rec.pc = "mark" /\ rec.run = r
        /\ rec.why = "cancel" /\ rec.goal = "cancelled"
    BY IdleType DEF FlowState, PC, Kind, Status, Why, Idle, ToMark
  <2>2. flow' = [flow EXCEPT ![f] = rec]
    BY <1>3 DEF CancelRun
  <2> HIDE DEF rec
  <2>3. MayBecome(f, rec)
    BY <1>3, <2>1 DEF MayBecome, RecInv, CancelRun, GoalsOf, Executes, Decides
  <2>4. Rest'
    BY <1>s, <1>3, RegistryType DEF Rest, CancelRun, db, seenV
  <2> QED
    BY <1>q, <1>3, <2>2, <2>3, <2>4 DEF CancelRun, db, daemon
<1> QED
  BY <1>1, <1>2, <1>3

(* A human decision takes the place of the open approval it decides.       *)
LEMMA DecideStep ==
  ASSUME IInv, NEW f \in Flow, NEW a \in Approval, NEW verdict \in {"approved", "rejected"},
         NEW rec \in FlowState, phase = "up", At(f, "idle"), apState[a] = "pending",
         apState' = [apState EXCEPT ![a] = verdict],
         flow' = [flow EXCEPT ![f] = rec],
         rec.run = apRun[a], rec.pc \in {"enter", "mark"}, Decides(rec), ~Executes(rec),
         rec.pc = "enter" => rec.seen \in Expected(rec),
         rec.pc = "mark" => rec.goal \in GoalsOf(rec.why),
         UNCHANGED <<status, ckpt, apRun, aborted, registry, resumes, seenV, daemon,
                     faults, crashes>>
  PROVE  IInv'
<1>1. /\ TypeOK /\ StartInv /\ ExecutorOwnsRun /\ SingleExecutor /\ OneOpenDecision
      /\ \A g \in Flow : FlowInv(g)
      /\ \A b \in Approval : ApprovalInv(b)
  BY DEF IInv
<1>2. PICK r \in Run : r = apRun[a] /\ status[r] # "absent"
  BY <1>1 DEF ApprovalInv
<1>3. flow'[f] = rec /\ \A g \in Flow : g # f => flow'[g] = flow[g]
  BY <1>1 DEF TypeOK
<1>4. /\ apState'[a] = verdict /\ \A b \in Approval : b # a => apState'[b] = apState[b]
      /\ UNCHANGED <<status, apRun, phase, todo>>
  BY <1>1 DEF TypeOK, daemon
<1>5. TypeOK'
  BY <1>1 DEF TypeOK, seenV, daemon
<1>6. StartInv'
  BY <1>1, <1>4 DEF StartInv
<1>7. \A g \in Flow : FlowInv(g)'
  <2>1. FlowInv(f)'
    BY <1>2, <1>3, <1>4 DEF FlowInv, RecInv, At
  <2>2. ASSUME NEW g \in Flow, g # f PROVE FlowInv(g)'
    <3>1. flow'[g] = flow[g]
      BY <1>3, <2>2
    <3>2. RecInv(flow[g])'
      BY <1>1, <1>4, <3>1 DEF FlowInv, RecInv
    <3>3. At(g, "newRun") => flow[g].run # r
      BY <1>1, <1>2 DEF FlowInv, RecInv, At
    <3> QED
      BY <1>1, <1>2, <1>3, <3>1, <3>2, <3>3 DEF FlowInv, At
  <2> QED
    BY <2>1, <2>2
<1>8. \A b \in Approval : ApprovalInv(b)'
  BY <1>1, <1>4 DEF ApprovalInv
<1>9. \A g \in Flow : Executing(g)' => Executing(g) /\ flow'[g].run = flow[g].run
  BY <1>3 DEF Executing
<1>10. ExecutorOwnsRun' /\ SingleExecutor'
  BY <1>1, <1>4, <1>9 DEF ExecutorOwnsRun, SingleExecutor
<1>11. OneOpenDecision'
  <2> SUFFICES ASSUME NEW q \in Run, status'[q] \notin Terminal
               PROVE  /\ \A b, c \in OpenOf(q)' : b = c
                      /\ \A g, h \in DecidersOf(q)' : g = h
                      /\ OpenOf(q)' = {} \/ DecidersOf(q)' = {}
                      /\ OpenOf(q)' \cup DecidersOf(q)' # {} => status'[q] = "waiting_approval"
    BY DEF OneOpenDecision
  <2>1. /\ \A b, c \in OpenOf(q) : b = c
        /\ \A g, h \in DecidersOf(q) : g = h
        /\ OpenOf(q) = {} \/ DecidersOf(q) = {}
        /\ OpenOf(q) \cup DecidersOf(q) # {} => status[q] = "waiting_approval"
    BY <1>1, <1>4 DEF OneOpenDecision
  <2>2. OpenOf(q)' \subseteq OpenOf(q) \ {a}
    BY <1>4 DEF OpenOf, Open
  <2>3. DecidersOf(q)' \subseteq DecidersOf(q) \cup {f}
    BY <1>3 DEF DecidersOf, Deciding
  <2>4. CASE q = r
    <3>1. a \in OpenOf(q)
      BY <1>2, <2>4 DEF OpenOf, Open
    <3> QED
      BY <1>4, <2>1, <2>2, <2>3, <3>1
  <2>5. CASE q # r
    <3>1. f \notin DecidersOf(q)'
      BY <1>2, <1>3, <2>5 DEF DecidersOf
    <3> QED
      BY <1>4, <2>1, <2>2, <2>3, <3>1
  <2> QED
    BY <2>4, <2>5
<1> QED
  BY <1>5, <1>6, <1>7, <1>8, <1>10, <1>11 DEF IInv

(* Approve and Reject preserve the invariant.                              *)
LEMMA DecisionActions ==
  ASSUME IInv, NEW f \in Flow, NEW a \in Approval, Approve(f, a) \/ Reject(f, a)
  PROVE  IInv'
<1>1. ASSUME NEW verdict \in {"approved", "rejected"}, NEW kind \in {"approve", "rejCont"},
             Decide(f, a, verdict, [Idle EXCEPT !.pc = "enter", !.kind = kind,
                                                !.seen = "waiting_approval"])
      PROVE  IInv'
  <2> DEFINE rec == [Idle EXCEPT !.pc = "enter", !.kind = kind, !.seen = "waiting_approval",
                                 !.run = apRun[a], !.ap = a]
  <2>1. apRun[a] \in Run
    BY <1>1 DEF Decide, IInv, ApprovalInv
  <2>2. /\ rec \in FlowState /\ rec.pc = "enter" /\ rec.run = apRun[a]
        /\ rec.kind = kind /\ rec.seen = "waiting_approval"
    BY <2>1, IdleType DEF FlowState, PC, Kind, Status, Idle
  <2>3. flow' = [flow EXCEPT ![f] = rec]
    BY <1>1 DEF Decide, Idle
  <2> HIDE DEF rec
  <2>4. Decides(rec) /\ ~Executes(rec) /\ rec.seen \in Expected(rec)
    BY <2>2 DEF Decides, Executes, Expected
  <2> QED
    BY <1>1, <2>2, <2>3, <2>4, DecideStep DEF Decide
<1>2. ASSUME NEW why \in {"rejCancel", "rejInterrupt"}, NEW goal \in GoalsOf(why),
             Decide(f, a, "rejected", ToMark([Idle EXCEPT !.kind = "rejEnd"], why, goal))
      PROVE  IInv'
  <2> DEFINE rec == [ToMark([Idle EXCEPT !.kind = "rejEnd"], why, goal)
                       EXCEPT !.run = apRun[a], !.ap = a]
  <2>1. apRun[a] \in Run /\ goal \in Status
    BY <1>2 DEF Decide, IInv, ApprovalInv, GoalsOf, Status
  <2>2. /\ rec \in FlowState /\ rec.pc = "mark" /\ rec.run = apRun[a]
        /\ rec.why = why /\ rec.goal = goal
    BY <2>1, IdleType DEF FlowState, PC, Kind, Why, Idle, ToMark
  <2>3. flow' = [flow EXCEPT ![f] = rec]
    BY <1>2 DEF Decide
  <2> HIDE DEF rec
  <2>4. Decides(rec) /\ ~Executes(rec)
    BY <2>2 DEF Decides, Executes
  <2> QED
    BY <1>2, <2>2, <2>3, <2>4, DecideStep DEF Decide
<1> QED
  BY <1>1, <1>2 DEF Approve, Reject, GoalsOf

(* A step of the daemon that leaves flows and statuses alone and opens no  *)
(* approval.                                                               *)
LEMMA DaemonStep ==
  ASSUME IInv, UNCHANGED <<status, apRun, flow>>, StartInv', TypeOK',
         \A a \in Approval : /\ Open(a)' => Open(a)
                             /\ apState'[a] = "absent" <=> apState[a] = "absent"
  PROVE  IInv'
<1>1. /\ TypeOK /\ StartInv /\ ExecutorOwnsRun /\ SingleExecutor /\ OneOpenDecision
      /\ \A g \in Flow : FlowInv(g)
      /\ \A b \in Approval : ApprovalInv(b)
  BY DEF IInv
<1>2. \A g \in Flow : FlowInv(g)'
  BY <1>1 DEF FlowInv, RecInv, At
<1>3. \A b \in Approval : ApprovalInv(b)'
  BY <1>1 DEF ApprovalInv
<1>4. \A g \in Flow : Executing(g)' = Executing(g) /\ Deciding(g)' = Deciding(g)
  BY DEF Executing, Deciding
<1>5. ExecutorOwnsRun' /\ SingleExecutor'
  BY <1>1, <1>4 DEF ExecutorOwnsRun, SingleExecutor
<1>6. OneOpenDecision'
  <2>1. \A q \in Run : OpenOf(q)' \subseteq OpenOf(q) /\ DecidersOf(q)' \subseteq DecidersOf(q)
    BY <1>4 DEF OpenOf, DecidersOf
  <2> QED
    BY <1>1, <2>1, DecisionsShrink
<1> QED
  BY <1>1, <1>2, <1>3, <1>5, <1>6 DEF IInv

(* The expiry transaction ends the run it blocks, and the start-up scan    *)
(* moves a run while no handler is alive.                                  *)
LEMMA DaemonMoves ==
  ASSUME IInv, NEW r \in Run, NEW s \in Status,
         status[r] \notin Terminal \cup {"absent"},
         status' = [status EXCEPT ![r] = s],
         s \in Terminal \/ (status[r] = "running" /\ \A g \in Flow : At(g, "idle")),
         UNCHANGED <<apRun, flow>>, StartInv', TypeOK',
         \A a \in Approval : /\ Open(a)' => Open(a)
                             /\ apState'[a] = "absent" <=> apState[a] = "absent"
  PROVE  IInv'
<1>1. /\ TypeOK /\ StartInv /\ ExecutorOwnsRun /\ SingleExecutor /\ OneOpenDecision
      /\ \A g \in Flow : FlowInv(g)
      /\ \A b \in Approval : ApprovalInv(b)
  BY DEF IInv
<1>2. /\ status'[r] = s /\ s # "absent" /\ \A q \in Run : q # r => status'[q] = status[q]
  BY <1>1 DEF TypeOK, Status
<1>3. \A g \in Flow : FlowInv(g)'
  <2> SUFFICES ASSUME NEW g \in Flow PROVE FlowInv(g)'
    OBVIOUS
  <2>1. flow[g].pc # "newRun" \/ flow[g].run # r
    BY <1>1 DEF FlowInv, RecInv
  <2>2. RecInv(flow[g])'
    BY <1>1, <1>2, <2>1 DEF FlowInv, RecInv
  <2> QED
    BY <1>1, <2>2 DEF FlowInv, At
<1>4. \A b \in Approval : ApprovalInv(b)'
  BY <1>1, <1>2 DEF ApprovalInv
<1>5. \A g \in Flow : Executing(g)' = Executing(g) /\ Deciding(g)' = Deciding(g)
  BY DEF Executing, Deciding
<1>6. \A g \in Flow : At(g, "idle") => ~Executing(g) /\ ~Deciding(g)
  BY DEF At, Executing, Executes, Deciding, Decides
<1>7. ExecutorOwnsRun'
  <2>1. \A g \in Flow : Executing(g) => flow[g].run \in Run
    BY <1>1 DEF FlowInv, RecInv, Executing, Executes
  <2> QED
    BY <1>1, <1>2, <1>5, <1>6, <2>1 DEF ExecutorOwnsRun
<1>8. SingleExecutor'
  BY <1>1, <1>5 DEF SingleExecutor
<1>9. OneOpenDecision'
  <2>1. \A q \in Run : OpenOf(q)' \subseteq OpenOf(q) /\ DecidersOf(q)' \subseteq DecidersOf(q)
    BY <1>5 DEF OpenOf, DecidersOf
  <2>2. s \notin Terminal => OpenOf(r) \cup DecidersOf(r) = {}
    BY <1>1 DEF OneOpenDecision
  <2>3. \A q \in Run : status'[q] \notin Terminal =>
          /\ status[q] \notin Terminal
          /\ OpenOf(q)' \cup DecidersOf(q)' # {} => status'[q] = status[q]
    <3> SUFFICES ASSUME NEW q \in Run, status'[q] \notin Terminal
                 PROVE  /\ status[q] \notin Terminal
                        /\ OpenOf(q)' \cup DecidersOf(q)' # {} => status'[q] = status[q]
      OBVIOUS
    <3>1. CASE q = r
      <4>1. OpenOf(q) \cup DecidersOf(q) = {}
        BY <1>2, <2>2, <3>1
      <4> QED
        BY <2>1, <3>1, <4>1
    <3>2. CASE q # r
      BY <1>2, <3>2
    <3> QED
      BY <3>1, <3>2
  <2> QED
    BY <1>1, <2>1, <2>3, DecisionsShrink
<1> QED
  BY <1>3, <1>4, <1>7, <1>8, <1>9 DEF IInv

(* The steps of the daemon preserve the invariant.                         *)
LEMMA DaemonActions ==
  ASSUME IInv, Daemon
  PROVE  IInv'
<1>s. TypeOK /\ StartInv /\ \A b \in Approval : ApprovalInv(b)
  BY DEF IInv
<1>1. ASSUME NEW a \in Approval, Overdue(a)
      PROVE  IInv'
  <2>1. TypeOK' /\ StartInv'
    BY <1>s, <1>1 DEF Overdue, TypeOK, StartInv, At, mem, seenV, daemon
  <2>2. UNCHANGED <<status, apRun, flow>>
    BY <1>1 DEF Overdue, mem
  <2>3. \A b \in Approval : /\ Open(b)' => Open(b)
                            /\ apState'[b] = "absent" <=> apState[b] = "absent"
    BY <1>s, <1>1 DEF Overdue, TypeOK, Open
  <2> QED
    BY <2>1, <2>2, <2>3, DaemonStep
<1>2. ASSUME NEW a \in Approval, Expire(a)
      PROVE  IInv'
  <2>1. PICK r \in Run : r = apRun[a]
    BY <1>s, <1>2 DEF Expire, ApprovalInv
  <2>2. UNCHANGED <<ckpt, apRun, flow, aborted, registry, resumes, toolRuns, phase, todo,
                    faults, crashes>>
    BY <1>2 DEF Expire, mem, daemon
  <2>3. \A b \in Approval : /\ Open(b)' => Open(b)
                            /\ apState'[b] = "absent" <=> apState[b] = "absent"
    BY <1>s, <1>2 DEF Expire, TypeOK, Open
  <2>4. apState' \in [Approval -> {"absent", "frozen", "pending", "due", "approved",
                                   "rejected", "expired"}]
    BY <1>s, <1>2 DEF Expire, TypeOK
  <2>5. StartInv'
    BY <1>s, <2>2 DEF StartInv, At
  <2>6. CASE UNCHANGED <<status, told>>
    <3>1. TypeOK'
      BY <1>s, <2>2, <2>4, <2>6 DEF TypeOK
    <3> QED
      BY <2>2, <2>3, <2>5, <2>6, <3>1, DaemonStep
  <2>7. CASE /\ status[r] = "waiting_approval"
             /\ status' = [status EXCEPT ![r] = "cancelled"] /\ Announce(r, "cancelled")
    <3>1. TypeOK'
      BY <1>s, <2>2, <2>4, <2>7 DEF TypeOK, Announce, Ending, Status
    <3>2. status[r] \notin Terminal \cup {"absent"} /\ "cancelled" \in Terminal \cap Status
      BY <2>7 DEF Terminal, Status
    <3> QED
      BY <2>2, <2>3, <2>5, <2>7, <3>1, <3>2, DaemonMoves
  <2> QED
    BY <1>2, <2>1, <2>6, <2>7 DEF Expire
<1>3. ASSUME NEW r \in Run, StopChat(r)
      PROVE  IInv'
  <2>1. TypeOK' /\ StartInv'
    BY <1>s, <1>3 DEF StopChat, RegistryAbort, AbortOf, TypeOK, StartInv, At, db, seenV, daemon
  <2> QED
    BY <1>3, <2>1, DaemonStep DEF StopChat, db, Open
<1>4. ASSUME NEW r \in Run, Recover(r)
      PROVE  IInv'
  <2>1. /\ phase = "recovering" /\ \A g \in Flow : At(g, "idle")
    BY <1>s, <1>4 DEF Recover, StartInv, TypeOK
  <2>2. UNCHANGED <<ckpt, apState, apRun, flow, aborted, registry, resumes, toolRuns, phase,
                    crashes>>
    BY <1>4 DEF Recover, mem
  <2>3. todo' \subseteq Run /\ faults' \in 0 .. MaxFault
    BY <1>s, <1>4, FaultType DEF Recover, TypeOK
  <2>4. StartInv'
    BY <2>1, <2>2 DEF StartInv, At
  <2>5. \A b \in Approval : /\ Open(b)' => Open(b)
                            /\ apState'[b] = "absent" <=> apState[b] = "absent"
    BY <2>2 DEF Open
  <2>6. CASE UNCHANGED <<status, told>>
    <3>1. TypeOK'
      BY <1>s, <2>2, <2>3, <2>6 DEF TypeOK
    <3> QED
      BY <2>2, <2>4, <2>5, <2>6, <3>1, DaemonStep
  <2>7. ASSUME NEW s \in {"failed", "interrupted"},
               status' = [status EXCEPT ![r] = s], Announce(r, s),
               status[r] \notin Terminal \cup {"absent"},
               s = "failed" \/ status[r] = "running"
        PROVE  IInv'
    <3>1. TypeOK'
      BY <1>s, <2>2, <2>3, <2>7 DEF TypeOK, Announce, Ending, Status
    <3>2. s \in Status /\ (s = "failed" => s \in Terminal)
      BY DEF Status, Terminal
    <3> QED
      BY <2>1, <2>2, <2>4, <2>5, <2>7, <3>1, <3>2, DaemonMoves
  <2> QED
    BY <1>4, <2>6, <2>7 DEF Recover, Terminal
<1>5. CASE Crash
  <2>1. Idle.pc = "idle" /\ Idle.run = NoRun
    BY DEF Idle
  <2>2. \A g \in Flow : flow'[g] = Idle
    BY <1>5 DEF Crash
  <2>3. TypeOK'
    BY <1>s, <1>5, IdleType, BoundAssumption DEF Crash, TypeOK, db, seenV
  <2>4. StartInv'
    BY <1>5, <2>1, <2>2 DEF Crash, StartInv, At
  <2>5. \A g \in Flow : FlowInv(g)'
    BY <2>1, <2>2 DEF FlowInv, RecInv, At
  <2>6. UNCHANGED <<status, apState, apRun>>
    BY <1>5 DEF Crash, db
  <2>7. \A b \in Approval : ApprovalInv(b)'
    BY <1>s, <2>6 DEF ApprovalInv
  <2>8. \A g \in Flow : ~Executing(g)' /\ ~Deciding(g)'
    BY <2>1, <2>2 DEF Executing, Executes, Deciding, Decides
  <2>9. ExecutorOwnsRun' /\ SingleExecutor'
    BY <2>8 DEF ExecutorOwnsRun, SingleExecutor
  <2>10. OneOpenDecision'
    <3>1. \A q \in Run : OpenOf(q)' = OpenOf(q) /\ DecidersOf(q)' = {}
      BY <2>6, <2>8 DEF OpenOf, Open, DecidersOf
    <3> QED
      BY <2>6, <3>1, DecisionsShrink DEF IInv
  <2> QED
    BY <2>3, <2>4, <2>5, <2>7, <2>9, <2>10 DEF IInv
<1>6. CASE ExpireScanDone
  <2>1. TypeOK' /\ StartInv'
    BY <1>s, <1>6 DEF ExpireScanDone, TypeOK, StartInv, At, db, mem, seenV
  <2> QED
    BY <1>6, <2>1, DaemonStep DEF ExpireScanDone, db, mem, Open
<1>7. CASE RecoveryDone
  <2>1. TypeOK' /\ StartInv'
    BY <1>s, <1>7 DEF RecoveryDone, TypeOK, StartInv, At, db, mem, seenV
  <2> QED
    BY <1>7, <2>1, DaemonStep DEF RecoveryDone, db, mem, Open
<1> QED
  BY <1>1, <1>2, <1>3, <1>4, <1>5, <1>6, <1>7 DEF Daemon
-----------------------------------------------------------------------------
(* Nothing has started, so every part of the invariant holds.              *)
LEMMA InitIInv == Init => IInv
<1> SUFFICES ASSUME Init PROVE IInv
  OBVIOUS
<1>1. Idle.pc = "idle" /\ Idle.run = NoRun
  BY DEF Idle
<1>2. \A g \in Flow : flow[g] = Idle
  BY DEF Init
<1>3. TypeOK
  BY IdleType, BoundAssumption DEF Init, TypeOK
<1>4. \A g \in Flow : FlowInv(g)
  BY <1>1, <1>2 DEF FlowInv, RecInv, At
<1>5. \A a \in Approval : ApprovalInv(a)
  BY DEF Init, ApprovalInv
<1>6. StartInv
  BY DEF Init, StartInv
<1>7. \A g \in Flow : ~Executing(g) /\ ~Deciding(g)
  BY <1>1, <1>2 DEF Executing, Executes, Deciding, Decides
<1>8. \A r \in Run : OpenOf(r) = {} /\ DecidersOf(r) = {}
  BY <1>7 DEF Init, OpenOf, Open, DecidersOf
<1> QED
  BY <1>3, <1>4, <1>5, <1>6, <1>7, <1>8
  DEF IInv, ExecutorOwnsRun, SingleExecutor, OneOpenDecision

(* Every step, and every stutter, keeps the inductive invariant.           *)
LEMMA NextIInv == IInv /\ [Next]_vars => IInv'
<1> SUFFICES ASSUME IInv, [Next]_vars PROVE IInv'
  OBVIOUS
<1>1. ASSUME NEW f \in Flow, Command(f)
      PROVE  IInv'
  <2>1. ASSUME NEW r \in Run, StartChat(f, r) \/ ResumeRun(f, r) \/ CancelRun(f, r)
        PROVE  IInv'
    BY <2>1, CommandActions DEF StartChat, Sync
  <2>2. ASSUME NEW r \in Run, NEW source \in Run, RetryRun(f, source, r)
        PROVE  IInv'
    BY <2>2, CommandActions DEF RetryRun, Sync
  <2>3. ASSUME NEW a \in Approval, Approve(f, a) \/ Reject(f, a)
        PROVE  IInv'
    BY <2>3, DecisionActions
  <2> QED
    BY <1>1, <2>1, <2>2, <2>3 DEF Command
<1>2. ASSUME NEW f \in Flow, Advance(f)
      PROVE  IInv'
  BY <1>2, QuietActions, EntryActions, TurnActions, AcquireActions, MarkActions, LinkActions,
     CreateRunAction, FreezeAction, RequestAction DEF Advance
<1>3. CASE Daemon
  BY <1>3, DaemonActions
<1>4. CASE UNCHANGED vars
  <2>1. TypeOK' /\ StartInv'
    BY <1>4 DEF IInv, TypeOK, StartInv, At, vars, db, mem, seenV, daemon
  <2> QED
    BY <1>4, <2>1, DaemonStep DEF vars, db, mem, Open
<1> QED
  BY <1>1, <1>2, <1>3, <1>4 DEF Next

(* The handlers, the daemon and its crashes keep the inductive invariant.  *)
THEOREM InvariantHolds == Spec => []IInv
  BY InitIInv, NextIInv, PTL DEF Spec

(* Every variable keeps the values the code can give it.                   *)
THEOREM TypeCorrect == Spec => []TypeOK
  BY InvariantHolds, PTL DEF IInv

(* acquireExecution, the conditional status writes and the start-up order  *)
(* leave at most one flow executing a run, however handlers interleave,    *)
(* calls fail and the daemon restarts.                                     *)
THEOREM OneExecutorPerRun == Spec => []SingleExecutor
  BY InvariantHolds, PTL DEF IInv

(* The run of an executing flow is running or has been ended under it:     *)
(* no other writer suspends it.                                            *)
THEOREM ExecutorsOwnTheirRuns == Spec => []ExecutorOwnsRun
  BY InvariantHolds, PTL DEF IInv

(* A run that can still go on waits for at most one decision: no approval  *)
(* is open beside another, or beside a decision on its way, and only a run *)
(* in waiting_approval is blocked by either.                               *)
THEOREM OneDecisionPerRun == Spec => []OneOpenDecision
  BY InvariantHolds, PTL DEF IInv

(* The three together: a run belongs to one loop or waits for one decision.*)
THEOREM RunsHaveOneOwner == Spec => []RunHasOneOwner
<1>1. IInv => RunHasOneOwner
  BY DEF IInv, RunHasOneOwner
<1> QED
  BY <1>1, InvariantHolds, PTL
-----------------------------------------------------------------------------
(* The handlers implement the lifecycle: what changes a status changes it  *)
(* legally, and everything else leaves every status alone.                 *)
LegalStep ==
  \/ UNCHANGED status
  \/ \E r \in Run : \/ Lifecycle!Create(r)
                    \/ \E s \in Status : Lifecycle!Move(r, s)

(* Whatever a flow does moves the status column legally or not at all.     *)
LEMMA FlowsMoveLegally ==
  ASSUME IInv, NEW f \in Flow, Advance(f)
  PROVE  LegalStep
<1>0. Advance(f) => ~At(f, "idle")
  BY DEF Advance, At, CreateRun, SaveUserMessage, Enter, Require, Acquire, AcquireFault,
         BuildContext, RunApprovedTools, PersistCheckpoint, LoopHead, TurnContinues,
         TurnAnswers, TurnAsksUser, TurnCheckpoint, TurnNeedsApproval, TurnFails, Finish,
         AskUser, FreezeBatch, RequestRead, RequestCommit, CatchError, MarkRead, MarkCommit,
         MarkFault, LastResort, Unresumable, CancelCheck, Settle, Exit, LinkRead, LinkWrite
<1>s. /\ TypeOK /\ RecInv(flow[f]) /\ flow[f].run \in Run
  BY <1>0, Started
<1>1. ASSUME NEW s \in Status, s \in Legal(status[flow[f].run]),
             status[flow[f].run] # "absent",
             status' = [status EXCEPT ![flow[f].run] = s]
      PROVE  LegalStep
  BY <1>s, <1>1 DEF LegalStep, Lifecycle!Move, Lifecycle!Legal, Legal
<1>2. CASE CreateRun(f)
  BY <1>s, <1>2 DEF LegalStep, Lifecycle!Create, CreateRun, RecInv, At
<1>3. CASE Acquire(f) \/ AcquireFault(f)
  <2>1. /\ flow[f].seen \in {"created", "waiting_approval", "waiting_user", "interrupted"}
        /\ status[flow[f].run] # "absent"
    BY <1>s, <1>3 DEF Acquire, AcquireFault, RecInv, At, Expected
  <2>2. "running" \in Legal(flow[f].seen) /\ "running" \in Status
    BY <2>1 DEF Legal, Status
  <2> QED
    BY <1>1, <1>3, <2>1, <2>2 DEF Acquire, AcquireFault, LegalStep
<1>4. CASE RequestCommit(f)
  <2>1. \/ flow[f].seen = "running"
        \/ flow[f].seen \in Terminal /\ status[flow[f].run] \in Terminal
    BY <1>s, <1>4 DEF RequestCommit, RecInv, At
  <2>2. "waiting_approval" \in Legal("running") /\ "waiting_approval" \in Status
    BY DEF Legal, Status
  <2> QED
    BY <1>1, <1>4, <2>1, <2>2 DEF RequestCommit, LegalStep, Terminal
<1>5. CASE MarkCommit(f) \/ MarkFault(f)
  <2>1. \/ UNCHANGED status
        \/ /\ At(f, "commit") /\ status[flow[f].run] = flow[f].seen
           /\ status' = [status EXCEPT ![flow[f].run] = flow[f].goal]
    BY <1>5 DEF MarkCommit, MarkFault
  <2>2. flow[f].goal \in Status /\ (At(f, "commit") => flow[f].goal \in Legal(flow[f].seen))
    BY <1>s DEF TypeOK, FlowState, RecInv, At
  <2>3. At(f, "commit") => status[flow[f].run] # "absent"
    BY <1>s DEF RecInv, At
  <2> QED
    BY <1>1, <2>1, <2>2, <2>3 DEF LegalStep
<1>6. \/ UNCHANGED status
      \/ CreateRun(f) \/ Acquire(f) \/ AcquireFault(f) \/ RequestCommit(f)
      \/ MarkCommit(f) \/ MarkFault(f)
  BY DEF Advance, SaveUserMessage, Enter, Require, BuildContext, RunApprovedTools,
         PersistCheckpoint, LoopHead, TurnContinues, TurnAnswers, TurnAsksUser,
         TurnCheckpoint, TurnNeedsApproval, TurnFails, Finish, AskUser, FreezeBatch,
         RequestRead, CatchError, MarkRead, LastResort, Unresumable, CancelCheck, Settle,
         Exit, LinkRead, LinkWrite, db
<1> QED
  BY <1>2, <1>3, <1>4, <1>5, <1>6 DEF LegalStep

(* So does whatever the daemon does.                                       *)
LEMMA DaemonMovesLegally ==
  ASSUME IInv, Daemon
  PROVE  LegalStep
<1>s. TypeOK /\ \A a \in Approval : ApprovalInv(a)
  BY DEF IInv
<1>1. ASSUME NEW r \in Run, NEW s \in Status, s \in Legal(status[r]), status[r] # "absent",
             status' = [status EXCEPT ![r] = s]
      PROVE  LegalStep
  BY <1>1 DEF LegalStep, Lifecycle!Move, Lifecycle!Legal, Legal
<1>2. ASSUME NEW a \in Approval, Expire(a)
      PROVE  LegalStep
  <2>1. PICK r \in Run : r = apRun[a]
    BY <1>s, <1>2 DEF Expire, ApprovalInv
  <2>2. "cancelled" \in Legal("waiting_approval") /\ "cancelled" \in Status
    BY DEF Legal, Status
  <2> QED
    BY <1>1, <1>2, <2>1, <2>2 DEF Expire, LegalStep
<1>3. ASSUME NEW r \in Run, Recover(r)
      PROVE  LegalStep
  <2>1. /\ \A q \in {"created", "running", "waiting_approval", "waiting_user"} :
             "failed" \in Legal(q)
        /\ "interrupted" \in Legal("running") /\ {"failed", "interrupted"} \subseteq Status
    BY DEF Legal, Status
  <2> QED
    BY <1>1, <1>3, <2>1 DEF Recover, LegalStep
<1>4. \/ UNCHANGED status
      \/ \E a \in Approval : Expire(a)
      \/ \E r \in Run : Recover(r)
  BY DEF Daemon, Overdue, StopChat, Crash, ExpireScanDone, RecoveryDone, db
<1> QED
  BY <1>2, <1>3, <1>4 DEF LegalStep

(* Every step maps to a step or a stutter of the lifecycle.                *)
LEMMA NextIsLegal == IInv /\ [Next]_vars => [Lifecycle!Next]_status
<1> SUFFICES ASSUME IInv, [Next]_vars PROVE LegalStep
  BY DEF LegalStep, Lifecycle!Next, Lifecycle!Status, Status
<1>1. ASSUME NEW f \in Flow, Command(f)
      PROVE  LegalStep
  BY <1>1 DEF Command, StartChat, RetryRun, NewRun, ResumeRun, CancelRun, Approve, Reject,
              Decide, LegalStep, db
<1>2. CASE UNCHANGED vars
  BY <1>2 DEF vars, db, LegalStep
<1> QED
  BY <1>1, <1>2, FlowsMoveLegally, DaemonMovesLegally DEF Next

(* The whole runtime implements RunLifecycle: a run's status appears once, *)
(* moves only along LEGAL_TRANSITIONS, and a terminal one is final, with   *)
(* any number of handlers, failing calls and crashes.                      *)
THEOREM RuntimeImplementsLifecycle == Spec => ImplementsLifecycle
<1>1. Init => Lifecycle!Init
  BY DEF Init, Lifecycle!Init
<1> QED
  BY <1>1, InvariantHolds, NextIsLegal, PTL DEF Spec, ImplementsLifecycle, Lifecycle!Spec
-----------------------------------------------------------------------------
(* What the handlers' records keep of the flow's record.                    *)
Keeps(x, rec) ==
  /\ x.kind = rec.kind /\ x.run = rec.run /\ x.ap = rec.ap /\ x.ck = rec.ck
  /\ x.seen = rec.seen

Placed(rec, pc) == [rec EXCEPT !.pc = pc]

LEMMA RecordFields ==
  ASSUME NEW rec \in FlowState
  PROVE  /\ \A pc : /\ Keeps(Placed(rec, pc), rec)
                    /\ Placed(rec, pc).pc = pc /\ Placed(rec, pc).why = rec.why
         /\ \A why, goal : LET x == ToMark(rec, why, goal) IN
                           Keeps(x, rec) /\ x.pc = "mark" /\ x.why = why /\ x.goal = goal
         /\ Keeps(Rethrown(rec), rec) /\ Rethrown(rec).pc \in {"unres", "lastCatch"}
         /\ Keeps(TailThrown(rec), rec) /\ TailThrown(rec).pc \in {"catch", "unres", "lastCatch"}
         /\ Keeps(Returned(rec), rec) /\ Returned(rec).pc \in {"settle", "exit"}
<1>1. ASSUME NEW pc
      PROVE  /\ Keeps(Placed(rec, pc), rec)
             /\ Placed(rec, pc).pc = pc /\ Placed(rec, pc).why = rec.why
  BY DEF FlowState, Keeps, Placed
<1>2. ASSUME NEW why, NEW goal
      PROVE  LET x == ToMark(rec, why, goal) IN
             Keeps(x, rec) /\ x.pc = "mark" /\ x.why = why /\ x.goal = goal
  BY DEF FlowState, ToMark, Keeps
<1>3. Keeps(Rethrown(rec), rec) /\ Rethrown(rec).pc \in {"unres", "lastCatch"}
  <2>1. Rethrown(rec) \in {Placed(rec, "unres"), Placed(rec, "lastCatch")}
    BY DEF Rethrown, Placed
  <2> QED
    BY <1>1, <2>1
<1>4. Keeps(TailThrown(rec), rec) /\ TailThrown(rec).pc \in {"catch", "unres", "lastCatch"}
  <2>1. TailThrown(rec) \in {Placed(rec, "catch"), Rethrown(rec)}
    BY DEF TailThrown, Placed
  <2> QED
    BY <1>1, <1>3, <2>1
<1>5. Keeps(Returned(rec), rec) /\ Returned(rec).pc \in {"settle", "exit"}
  <2>1. Returned(rec) \in {Placed(rec, "settle"), Placed(rec, "exit")}
    BY DEF Returned, Placed
  <2> QED
    BY <1>1, <2>1
<1> QED
  BY <1>1, <1>2, <1>3, <1>4, <1>5

LEMMA GotoPlaces ==
  ASSUME flow \in [Flow -> FlowState], NEW f \in Flow
  PROVE  /\ \A pc : Goto(f, pc) => flow'[f] = Placed(flow[f], pc)
         /\ Done(f) => flow'[f] = Idle
         /\ Idle.pc = "idle"
  BY DEF Goto, Placed, Done, Idle

(* A step of one flow touches no other flow's record.                       *)
LEMMA OneFlowSteps ==
  ASSUME IInv, NEW f \in Flow, Advance(f)
  PROVE  /\ flow[f] \in FlowState /\ flow'[f] \in FlowState /\ ~At(f, "idle")
         /\ flow[f].run \in Run /\ RecInv(flow[f])
         /\ phase = "up" /\ UNCHANGED <<phase, todo>>
         /\ \A g \in Flow \ {f} : flow'[g] = flow[g]
<1>1. Advance(f) => ~At(f, "idle")
  BY DEF Advance, At, CreateRun, SaveUserMessage, Enter, Require, Acquire, AcquireFault,
         BuildContext, RunApprovedTools, PersistCheckpoint, LoopHead, TurnContinues,
         TurnAnswers, TurnAsksUser, TurnCheckpoint, TurnNeedsApproval, TurnFails, Finish,
         AskUser, FreezeBatch, RequestRead, RequestCommit, CatchError, MarkRead, MarkCommit,
         MarkFault, LastResort, Unresumable, CancelCheck, Settle, Exit, LinkRead, LinkWrite
<1>2. TypeOK /\ phase = "up" /\ flow[f] \in FlowState /\ flow[f].run \in Run /\ RecInv(flow[f])
  BY <1>1, Started
<1>3. flow \in [Flow -> FlowState]
  BY <1>2 DEF TypeOK
<1>4. flow' \in [Flow -> FlowState]
  <2>1. IInv'
    BY NextIInv DEF Next
  <2> QED
    BY <2>1 DEF IInv, TypeOK
<1> DEFINE Alone == UNCHANGED <<phase, todo>> /\ \A g \in Flow \ {f} : flow'[g] = flow[g]
<1>5. ASSUME \/ CreateRun(f) \/ SaveUserMessage(f) \/ Enter(f) \/ Require(f)
           \/ Acquire(f) \/ AcquireFault(f) \/ BuildContext(f) \/ RunApprovedTools(f)
      PROVE  Alone
  BY <1>3, <1>5 DEF CreateRun, SaveUserMessage, Enter, Require, Acquire, AcquireFault,
     BuildContext, RunApprovedTools, Goto, Done, daemon
<1>6. ASSUME \/ PersistCheckpoint(f) \/ LoopHead(f)
           \/ TurnContinues(f) \/ TurnAnswers(f) \/ TurnAsksUser(f)
           \/ (\E a \in Approval : TurnNeedsApproval(f, a)) \/ TurnFails(f)
      PROVE  Alone
  BY <1>3, <1>6 DEF PersistCheckpoint, LoopHead, TurnContinues, TurnAnswers, TurnAsksUser,
     TurnCheckpoint, TurnNeedsApproval, TurnFails, Goto, Done, daemon
<1>7. ASSUME \/ Finish(f) \/ AskUser(f) \/ FreezeBatch(f) \/ RequestRead(f) \/ RequestCommit(f)
           \/ CatchError(f)
      PROVE  Alone
  BY <1>3, <1>7 DEF Finish, AskUser, FreezeBatch, RequestRead, RequestCommit, CatchError, Goto,
     Done, daemon
<1>8. ASSUME MarkRead(f) \/ MarkCommit(f) \/ MarkFault(f)
      PROVE  Alone
  <2>1. AfterMark(f) => \A g \in Flow \ {f} : flow'[g] = flow[g]
    BY <1>3 DEF AfterMark, Goto, Done
  <2>2. MarkThrown(f) => \A g \in Flow \ {f} : flow'[g] = flow[g]
    BY <1>3 DEF MarkThrown
  <2>3. UNCHANGED <<phase, todo>>
    BY <1>8 DEF MarkRead, MarkCommit, MarkFault, daemon
  <2> QED
    BY <1>3, <1>8, <2>1, <2>2, <2>3 DEF MarkRead, MarkCommit, MarkFault
<1>9. ASSUME \/ LastResort(f) \/ Unresumable(f) \/ CancelCheck(f)
           \/ Settle(f) \/ Exit(f) \/ LinkRead(f) \/ LinkWrite(f)
      PROVE  Alone
  BY <1>3, <1>9 DEF LastResort, Unresumable, CancelCheck, Settle, Exit, LinkRead, LinkWrite,
     Goto, Done, daemon
<1>10. Alone
  BY <1>5, <1>6, <1>7, <1>8, <1>9 DEF Advance
<1> QED
  BY <1>1, <1>2, <1>3, <1>4, <1>10

(* What the flow's record becomes when its status write has returned.       *)
LEMMA MarkEnds ==
  ASSUME NEW f \in Flow, flow \in [Flow -> FlowState], AfterMark(f) \/ MarkThrown(f)
  PROVE  \/ flow'[f] = Idle
         \/ /\ Keeps(flow'[f], flow[f])
            /\ flow'[f].pc \in {"cancelCheck", "settle", "exit", "catch", "unres", "lastCatch"}
<1>1. flow[f] \in FlowState
  OBVIOUS
<1>2. /\ \A pc : Keeps(Placed(flow[f], pc), flow[f]) /\ Placed(flow[f], pc).pc = pc
      /\ Keeps(Rethrown(flow[f]), flow[f]) /\ Rethrown(flow[f]).pc \in {"unres", "lastCatch"}
      /\ Keeps(TailThrown(flow[f]), flow[f])
      /\ TailThrown(flow[f]).pc \in {"catch", "unres", "lastCatch"}
      /\ Keeps(Returned(flow[f]), flow[f]) /\ Returned(flow[f]).pc \in {"settle", "exit"}
  BY <1>1, RecordFields
<1>3. CASE AfterMark(f)
  <2>1. flow'[f] \in {Idle, Returned(flow[f]), Placed(flow[f], "cancelCheck"),
                      Placed(flow[f], "exit")}
    BY <1>3, GotoPlaces DEF AfterMark
  <2> QED
    BY <1>2, <2>1
<1>4. CASE MarkThrown(f)
  <2>1. flow'[f] \in {Idle, TailThrown(flow[f]), Rethrown(flow[f]), Placed(flow[f], "exit")}
    BY <1>4 DEF MarkThrown, Placed
  <2> QED
    BY <1>2, <2>1
<1> QED
  BY <1>3, <1>4
-----------------------------------------------------------------------------
(* BatchInv: a step that gives no flow a batch it did not have, and moves   *)
(* no batch that is frozen or approved.                                     *)
LEMMA BatchKept ==
  ASSUME TypeOK, BatchInv, UNCHANGED toolRuns,
         \A a \in Approval : apState[a] \in {"frozen", "approved"} => apState'[a] = apState[a],
         \A g \in Flow :
           /\ flow'[g].pc = "tools" => flow'[g].kind = "approve"
           /\ \A a \in Approval : /\ Requests(flow'[g], a) => Requests(flow[g], a)
                                  /\ Carries(flow'[g], a) => Carries(flow[g], a)
  PROVE  BatchInv'
<1>1. \A f \in Flow : At(f, "tools")' => flow'[f].kind = "approve"
  BY DEF At
<1>2. \A f \in Flow, a \in Approval :
        /\ Requests(flow'[f], a) => apState'[a] = "frozen"
        /\ Carries(flow'[f], a) => apState'[a] = "approved" /\ toolRuns'[a] = 0
  BY DEF BatchInv
<1>3. \A f, g \in Flow, a \in Approval :
        \/ Requests(flow'[f], a) /\ Requests(flow'[g], a)
        \/ Carries(flow'[f], a) /\ Carries(flow'[g], a)
        => f = g
  BY DEF BatchInv
<1>4. ToolsOnlyOnce'
  BY DEF BatchInv, ToolsOnlyOnce
<1>5. \A f \in Flow, a \in Approval : /\ Requests(flow[f], a)' <=> Requests(flow'[f], a)
                                      /\ Carries(flow[f], a)' <=> Carries(flow'[f], a)
  BY DEF Requests, Carries
<1> QED
  BY <1>1, <1>2, <1>3, <1>4, <1>5 DEF BatchInv

(* The places from which a batch reaches the user or the tools.             *)
WithBatch == {"freeze", "reqRead", "reqCommit", "enter", "require", "acquire", "build", "tools"}

LEMMA BatchAside ==
  ASSUME TypeOK, BatchInv, NEW f \in Flow, \A g \in Flow \ {f} : flow'[g] = flow[g],
         UNCHANGED <<apState, toolRuns>>,
         flow'[f].pc \notin WithBatch
  PROVE  BatchInv'
<1>1. \A g \in Flow :
           /\ flow'[g].pc = "tools" => flow'[g].kind = "approve"
           /\ \A a \in Approval : /\ Requests(flow'[g], a) => Requests(flow[g], a)
                                  /\ Carries(flow'[g], a) => Carries(flow[g], a)
  BY DEF WithBatch, Requests, Carries, BatchInv, At
<1> QED
  BY <1>1, BatchKept

(* A flow that takes its batch one place further.                           *)
LEMMA BatchFurther ==
  ASSUME TypeOK, BatchInv, NEW f \in Flow, \A g \in Flow \ {f} : flow'[g] = flow[g],
         UNCHANGED <<apState, toolRuns>>, flow'[f].kind = flow[f].kind, flow'[f].ap = flow[f].ap,
         \/ flow[f].pc = "freeze" /\ flow'[f].pc = "reqRead"
         \/ flow[f].pc = "reqRead" /\ flow'[f].pc = "reqCommit"
         \/ flow[f].pc = "enter" /\ flow'[f].pc = "require"
         \/ flow[f].pc = "require" /\ flow'[f].pc = "acquire"
         \/ flow[f].pc = "userMsg" /\ flow'[f].pc = "acquire" /\ flow[f].kind # "approve"
         \/ flow[f].pc = "acquire" /\ flow'[f].pc = "build"
         \/ flow[f].pc = "build" /\ flow'[f].pc = "tools" /\ flow[f].kind = "approve"
  PROVE  BatchInv'
<1>1. \A g \in Flow :
           /\ flow'[g].pc = "tools" => flow'[g].kind = "approve"
           /\ \A a \in Approval : /\ Requests(flow'[g], a) => Requests(flow[g], a)
                                  /\ Carries(flow'[g], a) => Carries(flow[g], a)
  BY DEF Requests, Carries, BatchInv, At
<1> QED
  BY <1>1, BatchKept

LEMMA BatchAdvances ==
  ASSUME IInv, BatchInv, NEW f \in Flow, Advance(f)
  PROVE  BatchInv'
<1>1. /\ flow[f] \in FlowState /\ RecInv(flow[f]) /\ \A g \in Flow \ {f} : flow'[g] = flow[g]
      /\ TypeOK /\ flow \in [Flow -> FlowState] /\ apState \in [Approval -> {"absent", "frozen",
           "pending", "due", "approved", "rejected", "expired"}] /\ toolRuns \in [Approval -> Nat]
  BY OneFlowSteps DEF IInv, TypeOK
<1>2. /\ \A pc : Keeps(Placed(flow[f], pc), flow[f]) /\ Placed(flow[f], pc).pc = pc
      /\ \A why, goal : ToMark(flow[f], why, goal).pc = "mark"
      /\ Rethrown(flow[f]).pc \in {"unres", "lastCatch"}
      /\ TailThrown(flow[f]).pc \in {"catch", "unres", "lastCatch"}
      /\ Returned(flow[f]).pc \in {"settle", "exit"}
  BY <1>1, RecordFields
<1>3. /\ \A pc : Goto(f, pc) => flow'[f] = Placed(flow[f], pc)
      /\ Done(f) => flow'[f] = Idle
      /\ Idle.pc = "idle"
  BY <1>1, GotoPlaces
<1>a. ASSUME flow'[f].pc \notin WithBatch, UNCHANGED <<apState, toolRuns>>
      PROVE  BatchInv'
  BY <1>1, <1>a, BatchAside
<1>b. ASSUME UNCHANGED <<apState, toolRuns>>, flow'[f].kind = flow[f].kind,
             flow'[f].ap = flow[f].ap,
         \/ flow[f].pc = "freeze" /\ flow'[f].pc = "reqRead"
         \/ flow[f].pc = "reqRead" /\ flow'[f].pc = "reqCommit"
         \/ flow[f].pc = "enter" /\ flow'[f].pc = "require"
         \/ flow[f].pc = "require" /\ flow'[f].pc = "acquire"
         \/ flow[f].pc = "userMsg" /\ flow'[f].pc = "acquire" /\ flow[f].kind # "approve"
         \/ flow[f].pc = "acquire" /\ flow'[f].pc = "build"
         \/ flow[f].pc = "build" /\ flow'[f].pc = "tools" /\ flow[f].kind = "approve"
      PROVE  BatchInv'
  BY <1>1, <1>b, BatchFurther
<1>4. CASE CreateRun(f)
  BY <1>1, <1>2, <1>3, <1>4, <1>a DEF CreateRun, WithBatch, seenV
<1>5. CASE SaveUserMessage(f)
  <2>1. flow[f].pc = "userMsg" /\ flow[f].kind # "approve" /\ UNCHANGED <<apState, toolRuns>>
    BY <1>1, <1>5 DEF SaveUserMessage, RecInv, At, Sync, db, seenV
  <2>2. \/ flow'[f] = Placed(flow[f], "acquire")
        \/ flow'[f].pc \notin WithBatch
    BY <1>1, <1>2, <1>3, <1>5 DEF SaveUserMessage, WithBatch
  <2> QED
    BY <1>2, <1>a, <1>b, <2>1, <2>2 DEF Keeps
<1>6. CASE Enter(f)
  BY <1>1, <1>2, <1>3, <1>6, <1>a, <1>b DEF Enter, WithBatch, At, Keeps, db, seenV
<1>7. CASE Require(f)
  <2>1. flow[f].pc = "require" /\ UNCHANGED <<apState, toolRuns>>
    BY <1>7 DEF Require, At, db, seenV
  <2>2. \/ flow'[f] = [flow[f] EXCEPT !.pc = "acquire", !.ck = ckpt[flow[f].run]]
        \/ flow'[f].pc \notin WithBatch
    BY <1>1, <1>2, <1>7 DEF Require, WithBatch
  <2>3. LET x == [flow[f] EXCEPT !.pc = "acquire", !.ck = ckpt[flow[f].run]] IN
        x.pc = "acquire" /\ x.kind = flow[f].kind /\ x.ap = flow[f].ap
    BY <1>1 DEF FlowState
  <2> QED
    BY <1>a, <1>b, <2>1, <2>2, <2>3
<1>8. CASE Acquire(f)
  BY <1>1, <1>2, <1>3, <1>8, <1>a, <1>b DEF Acquire, WithBatch, At, Keeps, seenV
<1>9. CASE AcquireFault(f)
  BY <1>1, <1>2, <1>9, <1>a DEF AcquireFault, WithBatch, seenV
<1>10. CASE BuildContext(f)
  BY <1>1, <1>2, <1>3, <1>10, <1>a, <1>b DEF BuildContext, WithBatch, At, Keeps, db, seenV
<1>11. CASE RunApprovedTools(f)
  <2> DEFINE a == flow[f].ap
  <2>1. At(f, "tools") /\ flow[f].kind = "approve" /\ UNCHANGED apState
    BY <1>11 DEF RunApprovedTools, BatchInv, db
  <2>2. flow'[f].pc \in {"catch", "persist"}
    BY <1>1, <1>2, <1>3, <1>11 DEF RunApprovedTools
  <2>3. CASE UNCHANGED toolRuns
    BY <1>a, <2>1, <2>2, <2>3 DEF WithBatch
  <2>4. CASE flow[f].ck = a /\ toolRuns' = [toolRuns EXCEPT ![a] = @ + 1]
    <3>1. a \in Approval \/ UNCHANGED toolRuns
      BY <1>1, <2>4
    <3> HIDE DEF a
    <3>2. SUFFICES ASSUME a \in Approval PROVE BatchInv'
      BY <2>3, <3>1
    <3>3. Carries(flow[f], a)
      BY <2>1 DEF Carries, At, a
    <3>4. apState[a] = "approved" /\ toolRuns[a] = 0
      BY <3>2, <3>3 DEF BatchInv
    <3>5. toolRuns'[a] = 1 /\ \A b \in Approval \ {a} : toolRuns'[b] = toolRuns[b]
      BY <1>1, <2>4, <3>2, <3>4
    <3>6. \A g \in Flow, b \in Approval :
            /\ Requests(flow'[g], b) => Requests(flow[g], b) /\ g # f
            /\ Carries(flow'[g], b) => Carries(flow[g], b) /\ g # f
      BY <1>1, <2>2 DEF Requests, Carries
    <3>7. \A g \in Flow, b \in Approval : Carries(flow'[g], b) => b # a
      BY <3>3, <3>6 DEF BatchInv
    <3>8. \A g \in Flow : At(g, "tools")' => flow'[g].kind = "approve"
      BY <1>1, <2>2 DEF BatchInv, At
    <3>9. \A g \in Flow, b \in Approval :
        /\ Requests(flow'[g], b) => apState'[b] = "frozen"
        /\ Carries(flow'[g], b) => apState'[b] = "approved" /\ toolRuns'[b] = 0
      BY <2>1, <3>5, <3>6, <3>7 DEF BatchInv
    <3>10. \A g, h \in Flow, b \in Approval :
        \/ Requests(flow'[g], b) /\ Requests(flow'[h], b)
        \/ Carries(flow'[g], b) /\ Carries(flow'[h], b)
        => g = h
      BY <3>6 DEF BatchInv
    <3>11. ToolsOnlyOnce'
      BY <2>1, <3>4, <3>5 DEF BatchInv, ToolsOnlyOnce
    <3>12. \A g \in Flow, b \in Approval : /\ Requests(flow[g], b)' <=> Requests(flow'[g], b)
                                          /\ Carries(flow[g], b)' <=> Carries(flow'[g], b)
      BY DEF Requests, Carries
    <3> QED
      BY <3>8, <3>9, <3>10, <3>11, <3>12 DEF BatchInv
  <2> QED
    BY <1>11, <2>3, <2>4 DEF RunApprovedTools
<1>12. CASE PersistCheckpoint(f) \/ LoopHead(f) \/ TurnFails(f) \/ Finish(f) \/ AskUser(f)
  BY <1>1, <1>2, <1>3, <1>12, <1>a DEF PersistCheckpoint, LoopHead, TurnFails, Finish, AskUser,
     WithBatch, db, seenV
<1>13. CASE TurnContinues(f) \/ TurnAnswers(f) \/ TurnAsksUser(f)
  <2>1. UNCHANGED <<apState, toolRuns>> /\ \E pc \in {"top", "finish", "ask"} : TurnCheckpoint(f, pc)
    BY <1>13 DEF TurnContinues, TurnAnswers, TurnAsksUser, TurnCheckpoint, seenV
  <2>2. flow'[f].pc \in {"top", "finish", "ask"}
    BY <1>1, <2>1 DEF TurnCheckpoint, FlowState
  <2> QED
    BY <1>a, <2>1, <2>2 DEF WithBatch
<1>14. ASSUME NEW a \in Approval, TurnNeedsApproval(f, a) PROVE BatchInv'
  <2>1. /\ apState[a] = "absent" /\ apState' = [apState EXCEPT ![a] = "frozen"]
        /\ flow[f].pc = "turn" /\ UNCHANGED toolRuns
    BY <1>14 DEF TurnNeedsApproval, At, seenV
  <2>2. flow'[f].pc = "freeze" /\ flow'[f].ap = a
    BY <1>1, <1>14 DEF TurnNeedsApproval, FlowState
  <2>3. apState'[a] = "frozen" /\ \A b \in Approval \ {a} : apState'[b] = apState[b]
    BY <1>1, <2>1
  <2>4. \A g \in Flow : ~Requests(flow[g], a) /\ ~Carries(flow[g], a)
    BY <2>1 DEF BatchInv
  <2>5. \A g \in Flow, b \in Approval :
            /\ Requests(flow'[g], b) => IF g = f THEN b = a ELSE Requests(flow[g], b) /\ b # a
            /\ Carries(flow'[g], b) => Carries(flow[g], b) /\ b # a
    BY <1>1, <2>2, <2>4 DEF Requests, Carries
  <2>6. \A g \in Flow : At(g, "tools")' => flow'[g].kind = "approve"
    BY <1>1, <2>2 DEF BatchInv, At
  <2>7. \A g \in Flow, b \in Approval :
        /\ Requests(flow'[g], b) => apState'[b] = "frozen"
        /\ Carries(flow'[g], b) => apState'[b] = "approved" /\ toolRuns'[b] = 0
    BY <2>1, <2>3, <2>5 DEF BatchInv
  <2>8. \A g, h \in Flow, b \in Approval :
        \/ Requests(flow'[g], b) /\ Requests(flow'[h], b)
        \/ Carries(flow'[g], b) /\ Carries(flow'[h], b)
        => g = h
    BY <2>5 DEF BatchInv
  <2>9. ToolsOnlyOnce'
    BY <2>1, <2>3 DEF BatchInv, ToolsOnlyOnce
  <2>10. \A g \in Flow, b \in Approval : /\ Requests(flow[g], b)' <=> Requests(flow'[g], b)
                                        /\ Carries(flow[g], b)' <=> Carries(flow'[g], b)
    BY DEF Requests, Carries
  <2> QED
    BY <2>6, <2>7, <2>8, <2>9, <2>10 DEF BatchInv
<1>15. CASE FreezeBatch(f)
  BY <1>1, <1>2, <1>3, <1>15, <1>a, <1>b DEF FreezeBatch, WithBatch, At, Keeps, seenV
<1>16. CASE RequestRead(f)
  <2>1. flow[f].pc = "reqRead" /\ UNCHANGED <<apState, toolRuns>>
    BY <1>16 DEF RequestRead, At, db, seenV
  <2>2. \/ flow'[f] = [flow[f] EXCEPT !.pc = "reqCommit", !.seen = status[flow[f].run]]
        \/ flow'[f].pc \notin WithBatch
    BY <1>1, <1>2, <1>16 DEF RequestRead, WithBatch
  <2>3. LET x == [flow[f] EXCEPT !.pc = "reqCommit", !.seen = status[flow[f].run]] IN
        x.pc = "reqCommit" /\ x.kind = flow[f].kind /\ x.ap = flow[f].ap
    BY <1>1 DEF FlowState
  <2> QED
    BY <1>a, <1>b, <2>1, <2>2, <2>3
<1>17. CASE RequestCommit(f)
  <2>1. flow[f].pc = "reqCommit" /\ flow'[f].pc \notin WithBatch /\ UNCHANGED toolRuns
    BY <1>1, <1>2, <1>17 DEF RequestCommit, At, WithBatch, seenV
  <2>2. UNCHANGED apState \/ apState' = [apState EXCEPT ![flow[f].ap] = "pending"]
    BY <1>17 DEF RequestCommit
  <2>3. CASE UNCHANGED apState
    BY <1>a, <2>1, <2>3
  <2>4. CASE apState' = [apState EXCEPT ![flow[f].ap] = "pending"]
    <3> DEFINE a == flow[f].ap
    <3>1. a \in Approval /\ Requests(flow[f], a)
      BY <1>1, <2>1 DEF RecInv, Requests
    <3> HIDE DEF a
    <3>2. apState[a] = "frozen" /\ \A g \in Flow : Requests(flow[g], a) => g = f
      BY <3>1 DEF BatchInv
    <3>3. apState'[a] = "pending" /\ \A b \in Approval \ {a} : apState'[b] = apState[b]
      BY <1>1, <2>4, <3>1 DEF a
    <3>4. \A g \in Flow, b \in Approval :
            /\ Requests(flow'[g], b) => Requests(flow[g], b) /\ g # f
            /\ Carries(flow'[g], b) => Carries(flow[g], b) /\ g # f
      BY <1>1, <2>1 DEF Requests, Carries, WithBatch
    <3>6. \A g \in Flow : At(g, "tools")' => flow'[g].kind = "approve"
      BY <1>1, <2>1 DEF BatchInv, At, WithBatch
    <3>7. \A g \in Flow, b \in Approval :
        /\ Requests(flow'[g], b) => apState'[b] = "frozen"
        /\ Carries(flow'[g], b) => apState'[b] = "approved" /\ toolRuns'[b] = 0
      BY <2>1, <3>2, <3>3, <3>4 DEF BatchInv
    <3>8. \A g, h \in Flow, b \in Approval :
        \/ Requests(flow'[g], b) /\ Requests(flow'[h], b)
        \/ Carries(flow'[g], b) /\ Carries(flow'[h], b)
        => g = h
      BY <3>4 DEF BatchInv
    <3>9. ToolsOnlyOnce'
      BY <2>1, <3>2, <3>3 DEF BatchInv, ToolsOnlyOnce
    <3>10. \A g \in Flow, b \in Approval : /\ Requests(flow[g], b)' <=> Requests(flow'[g], b)
                                          /\ Carries(flow[g], b)' <=> Carries(flow'[g], b)
      BY DEF Requests, Carries
    <3> QED
      BY <3>6, <3>7, <3>8, <3>9, <3>10 DEF BatchInv
  <2> QED
    BY <2>2, <2>3, <2>4
<1>18. CASE MarkRead(f) \/ MarkCommit(f) \/ MarkFault(f)
  <2>1. UNCHANGED <<apState, toolRuns>>
    BY <1>18 DEF MarkRead, MarkCommit, MarkFault, AfterMark, MarkThrown, db
  <2>2. \/ AfterMark(f) \/ MarkThrown(f)
        \/ flow' = [flow EXCEPT ![f].pc = "commit", ![f].seen = status[flow[f].run]]
    BY <1>18 DEF MarkRead, MarkCommit, MarkFault
  <2>3. flow' = [flow EXCEPT ![f].pc = "commit", ![f].seen = status[flow[f].run]]
        => flow'[f].pc = "commit"
    BY <1>1 DEF FlowState
  <2>4. flow'[f].pc \notin WithBatch
    BY <1>1, <1>3, <2>2, <2>3, MarkEnds DEF WithBatch
  <2> QED
    BY <1>a, <2>1, <2>4
<1>19. CASE CatchError(f) \/ LastResort(f) \/ Unresumable(f)
  <2>1. UNCHANGED <<apState, toolRuns>>
    BY <1>19 DEF CatchError, LastResort, Unresumable, db, seenV
  <2>2. Unresumable(f) => flow'[f] \in {ToMark(flow[f], "unresumable", "failed"),
                                        Placed(flow[f], "exit")}
    BY <1>1 DEF Unresumable, Placed
  <2>3. flow'[f].pc \in {"mark", "exit", "idle"}
    BY <1>1, <1>2, <1>3, <1>19, <2>2 DEF CatchError, LastResort
  <2> QED
    BY <1>a, <2>1, <2>3 DEF WithBatch
<1>20. CASE CancelCheck(f) \/ Settle(f) \/ Exit(f)
  BY <1>1, <1>2, <1>3, <1>20, <1>a DEF CancelCheck, Settle, Exit,
     WithBatch, db, seenV
<1>21. CASE LinkRead(f) \/ LinkWrite(f)
  <2>1. UNCHANGED <<apState, toolRuns>>
    BY <1>21 DEF LinkRead, LinkWrite, db, seenV
  <2>2. flow'[f].pc \in {"linkWrite", "idle"}
    BY <1>1, <1>3, <1>21 DEF LinkRead, LinkWrite, FlowState
  <2> QED
    BY <1>a, <2>1, <2>2 DEF WithBatch
<1> QED
  BY <1>4, <1>5, <1>6, <1>7, <1>8, <1>9, <1>10, <1>11, <1>12, <1>13, <1>14, <1>15, <1>16,
     <1>17, <1>18, <1>19, <1>20, <1>21 DEF Advance

(* A human decision: the row turns and a flow starts to carry it.           *)
LEMMA DecisionStarts ==
  ASSUME IInv, NEW f \in Flow, NEW a \in Approval, Approve(f, a) \/ Reject(f, a)
  PROVE  /\ phase = "up" /\ At(f, "idle") /\ apState[a] = "pending"
         /\ UNCHANGED <<status, ckpt, apRun, aborted, registry, resumes, seenV, daemon,
                        faults, crashes>>
         /\ \A g \in Flow \ {f} : flow'[g] = flow[g]
         /\ flow'[f].run = apRun[a] /\ flow'[f].ap = a
         /\ \E verdict \in {"approved", "rejected"} :
              /\ apState' = [apState EXCEPT ![a] = verdict]
              /\ flow'[f].kind = "approve" => verdict = "approved"
         /\ \/ flow'[f].pc = "enter" /\ flow'[f].kind \in {"approve", "rejCont"}
            \/ /\ flow'[f].pc = "mark" /\ flow'[f].kind = "rejEnd"
               /\ flow'[f].why \in {"rejCancel", "rejInterrupt"}
<1>1. flow \in [Flow -> FlowState] /\ apRun[a] \in Run \cup {NoRun}
  BY DEF IInv, TypeOK
<1> DEFINE Turned(verdict, rec) ==
             /\ apState' = [apState EXCEPT ![a] = verdict]
             /\ flow' = [flow EXCEPT ![f] = [rec EXCEPT !.run = apRun[a], !.ap = a]]
<1>2. ASSUME NEW verdict, NEW rec \in FlowState, Turned(verdict, rec)
      PROVE  /\ \A g \in Flow \ {f} : flow'[g] = flow[g]
             /\ flow'[f].run = apRun[a] /\ flow'[f].ap = a
             /\ flow'[f].kind = rec.kind /\ flow'[f].pc = rec.pc /\ flow'[f].why = rec.why
             /\ apState' = [apState EXCEPT ![a] = verdict]
  BY <1>1, <1>2 DEF FlowState
<1> HIDE DEF Turned
<1> DEFINE toUser == [Idle EXCEPT !.pc = "enter", !.kind = "approve", !.seen = "waiting_approval"]
           onward == [Idle EXCEPT !.pc = "enter", !.kind = "rejCont", !.seen = "waiting_approval"]
           ended == [Idle EXCEPT !.kind = "rejEnd"]
<1>3. /\ toUser \in FlowState /\ toUser.pc = "enter" /\ toUser.kind = "approve"
      /\ onward \in FlowState /\ onward.pc = "enter" /\ onward.kind = "rejCont"
      /\ ended \in FlowState /\ ended.kind = "rejEnd"
  BY IdleType DEF FlowState, PC, Kind, Status, Idle
<1> DEFINE Shared == /\ phase = "up" /\ At(f, "idle") /\ apState[a] = "pending"
                     /\ UNCHANGED <<status, ckpt, apRun, aborted, registry, resumes, seenV,
                                    daemon, faults, crashes>>
<1>4. /\ Shared
      /\ \/ Turned("approved", toUser)
         \/ Turned("rejected", onward)
         \/ Turned("rejected", ToMark(ended, "rejCancel", "cancelled"))
         \/ Turned("rejected", ToMark(ended, "rejInterrupt", "interrupted"))
  BY DEF Approve, Reject, Decide, Turned
<1> HIDE DEF toUser, onward, ended
<1>5. \A why \in {"rejCancel", "rejInterrupt"}, goal \in {"cancelled", "interrupted"} :
        LET x == ToMark(ended, why, goal) IN
        x \in FlowState /\ x.pc = "mark" /\ x.kind = "rejEnd" /\ x.why = why
  <2>1. ASSUME NEW why \in {"rejCancel", "rejInterrupt"}, NEW goal \in {"cancelled", "interrupted"}
        PROVE  ToMark(ended, why, goal) \in FlowState
    BY <1>3, RecordTypes DEF Why, Status
  <2>2. ASSUME NEW why, NEW goal
        PROVE  LET x == ToMark(ended, why, goal) IN
               x.pc = "mark" /\ x.kind = "rejEnd" /\ x.why = why
    BY <1>3, RecordFields DEF Keeps
  <2> QED
    BY <2>1, <2>2
<1>6. CASE Turned("approved", toUser)
  BY <1>2, <1>3, <1>4, <1>6
<1>7. CASE Turned("rejected", onward)
  BY <1>2, <1>3, <1>4, <1>7
<1>8. ASSUME NEW why \in {"rejCancel", "rejInterrupt"}, NEW goal \in {"cancelled", "interrupted"},
             Turned("rejected", ToMark(ended, why, goal))
      PROVE  /\ \A g \in Flow \ {f} : flow'[g] = flow[g]
             /\ flow'[f].run = apRun[a] /\ flow'[f].ap = a
             /\ apState' = [apState EXCEPT ![a] = "rejected"]
             /\ flow'[f].pc = "mark" /\ flow'[f].kind = "rejEnd" /\ flow'[f].why = why
  BY <1>2, <1>5, <1>8
<1>9. CASE \/ Turned("rejected", ToMark(ended, "rejCancel", "cancelled"))
           \/ Turned("rejected", ToMark(ended, "rejInterrupt", "interrupted"))
  BY <1>4, <1>8, <1>9
<1> QED
  BY <1>4, <1>6, <1>7, <1>9

(* A decision hands its batch to one flow; a rejected one is handed to none. *)
LEMMA BatchDecides ==
  ASSUME IInv, BatchInv, NEW f \in Flow, NEW a \in Approval, Approve(f, a) \/ Reject(f, a)
  PROVE  BatchInv'
<1>1. /\ TypeOK /\ flow \in [Flow -> FlowState] /\ apState \in [Approval -> {"absent", "frozen",
           "pending", "due", "approved", "rejected", "expired"}] /\ apRun[a] \in Run \cup {NoRun}
  BY DEF IInv, TypeOK
<1>2. /\ UNCHANGED toolRuns /\ apState[a] = "pending"
      /\ \E verdict \in {"approved", "rejected"} :
           /\ apState' = [apState EXCEPT ![a] = verdict]
           /\ flow'[f].ap = a /\ (flow'[f].kind = "approve" => verdict = "approved")
           /\ flow'[f].pc \in {"enter", "mark"}
           /\ \A g \in Flow \ {f} : flow'[g] = flow[g]
  BY DecisionStarts DEF seenV
<1>3. PICK verdict \in {"approved", "rejected"} :
           /\ apState' = [apState EXCEPT ![a] = verdict]
           /\ flow'[f].ap = a /\ (flow'[f].kind = "approve" => verdict = "approved")
           /\ flow'[f].pc \in {"enter", "mark"}
           /\ \A g \in Flow \ {f} : flow'[g] = flow[g]
  BY <1>2
<1>4. apState'[a] = verdict /\ \A b \in Approval \ {a} : apState'[b] = apState[b]
  BY <1>1, <1>3
<1>5. \A g \in Flow : ~Requests(flow[g], a) /\ ~Carries(flow[g], a)
  BY <1>2 DEF BatchInv
<1>6. toolRuns[a] = 0
  <2>1. toolRuns[a] \in Nat /\ toolRuns[a] <= 1 /\ toolRuns[a] # 1
    BY <1>1, <1>2 DEF TypeOK, BatchInv, ToolsOnlyOnce
  <2> QED
    BY <2>1
<1>7. \A g \in Flow, b \in Approval :
            /\ Requests(flow'[g], b) => Requests(flow[g], b) /\ b # a
            /\ Carries(flow'[g], b) => IF g = f THEN b = a /\ verdict = "approved"
                                       ELSE Carries(flow[g], b) /\ b # a
  BY <1>3, <1>5 DEF Requests, Carries
<1>8. \A g \in Flow : At(g, "tools")' => flow'[g].kind = "approve"
  BY <1>3 DEF BatchInv, At
<1>9. \A g \in Flow, b \in Approval :
        /\ Requests(flow'[g], b) => apState'[b] = "frozen"
        /\ Carries(flow'[g], b) => apState'[b] = "approved" /\ toolRuns'[b] = 0
  BY <1>2, <1>4, <1>6, <1>7 DEF BatchInv
<1>10. \A g, h \in Flow, b \in Approval :
        \/ Requests(flow'[g], b) /\ Requests(flow'[h], b)
        \/ Carries(flow'[g], b) /\ Carries(flow'[h], b)
        => g = h
  BY <1>7 DEF BatchInv
<1>11. ToolsOnlyOnce'
  BY <1>2, <1>4, <1>6 DEF BatchInv, ToolsOnlyOnce
<1>12. \A g \in Flow, b \in Approval : /\ Requests(flow[g], b)' <=> Requests(flow'[g], b)
                                      /\ Carries(flow[g], b)' <=> Carries(flow'[g], b)
  BY DEF Requests, Carries
<1> QED
  BY <1>8, <1>9, <1>10, <1>11, <1>12 DEF BatchInv

(* A command that begins at a place where no batch is carried.              *)
LEMMA BatchCommands ==
  ASSUME IInv, BatchInv, NEW f \in Flow, NEW r \in Run,
         \/ \E kind \in {"chat"} \cup Sync : NewRun(f, r, kind)
         \/ ResumeRun(f, r) \/ CancelRun(f, r)
  PROVE  BatchInv'
<1>1. /\ TypeOK /\ flow \in [Flow -> FlowState]
      /\ UNCHANGED <<apState, toolRuns>>
  BY DEF IInv, TypeOK, NewRun, ResumeRun, CancelRun, db, seenV
<1>2. \A g \in Flow \ {f} : flow'[g] = flow[g]
  BY <1>1 DEF NewRun, ResumeRun, CancelRun
<1>3. /\ flow'[f].pc \in {"newRun", "require", "unres", "mark"}
      /\ flow'[f].pc = "require" => flow'[f].kind = "resume"
  <2>1. ASSUME NEW kind, NewRun(f, r, kind) PROVE flow'[f].pc = "newRun"
    BY <1>1, <2>1 DEF NewRun, Idle
  <2>2. CASE ResumeRun(f, r)
    BY <1>1, <2>2 DEF ResumeRun, Idle
  <2>3. CASE CancelRun(f, r)
    BY <1>1, <2>3 DEF CancelRun, ToMark, Idle
  <2> QED
    BY <2>1, <2>2, <2>3
<1>4. \A g \in Flow :
           /\ flow'[g].pc = "tools" => flow'[g].kind = "approve"
           /\ \A a \in Approval : /\ Requests(flow'[g], a) => Requests(flow[g], a)
                                  /\ Carries(flow'[g], a) => Carries(flow[g], a)
  BY <1>2, <1>3 DEF Requests, Carries, BatchInv, At
<1> QED
  BY <1>1, <1>4, BatchKept

LEMMA BatchDaemon ==
  ASSUME IInv, BatchInv, Daemon \/ UNCHANGED vars
  PROVE  BatchInv'
<1>1. TypeOK /\ apState \in [Approval -> {"absent", "frozen",
           "pending", "due", "approved", "rejected", "expired"}]
  BY DEF IInv, TypeOK
<1>2. /\ UNCHANGED toolRuns /\ (UNCHANGED flow \/ flow' = [f \in Flow |-> Idle])
      /\ \A a \in Approval : apState[a] \in {"frozen", "approved"} => apState'[a] = apState[a]
  <2>1. ASSUME NEW a \in Approval, Overdue(a) \/ Expire(a)
        PROVE  /\ UNCHANGED <<toolRuns, flow>>
               /\ \A b \in Approval : apState[b] \in {"frozen", "approved"} => apState'[b] = apState[b]
    BY <1>1, <2>1 DEF Overdue, Expire, mem, seenV
  <2>2. ASSUME NEW r \in Run, StopChat(r) \/ Recover(r)
        PROVE  UNCHANGED <<toolRuns, flow, apState>>
    BY <2>2 DEF StopChat, Recover, mem, seenV, db
  <2>3. CASE Crash \/ ExpireScanDone \/ RecoveryDone \/ UNCHANGED vars
    BY <2>3 DEF Crash, ExpireScanDone, RecoveryDone, vars, mem, seenV, db
  <2> QED
    BY <2>1, <2>2, <2>3 DEF Daemon
<1>3. \A g \in Flow :
           /\ flow'[g].pc = "tools" => flow'[g].kind = "approve"
           /\ \A a \in Approval : /\ Requests(flow'[g], a) => Requests(flow[g], a)
                                  /\ Carries(flow'[g], a) => Carries(flow[g], a)
  <2>1. Idle.pc = "idle"
    BY DEF Idle
  <2> QED
    BY <1>2, <2>1 DEF Requests, Carries, BatchInv, At
<1> QED
  BY <1>1, <1>2, <1>3, BatchKept

LEMMA NextBatchInv == IInv /\ BatchInv /\ [Next]_vars => BatchInv'
  BY BatchAdvances, BatchDecides, BatchCommands, BatchDaemon
     DEF Next, Command, StartChat, RetryRun, Sync

(* A frozen batch reaches the tools at most once and only approved: decide  *)
(* (approval.repository.ts), the freeze, the request and the continuation   *)
(* never give one batch two carriers, whatever is retried, resumed, raced,  *)
(* failed or restarted.                                                     *)
THEOREM ToolsRunOnlyOnce == Spec => []ToolsOnlyOnce
<1>1. Init => BatchInv
  <2>1. Idle.pc = "idle"
    BY DEF Idle
  <2> QED
    BY <2>1 DEF Init, BatchInv, ToolsOnlyOnce, Requests, Carries, At
<1>2. BatchInv => ToolsOnlyOnce
  BY DEF BatchInv
<1> QED
  BY <1>1, <1>2, NextBatchInv, InvariantHolds, PTL DEF Spec
-----------------------------------------------------------------------------
(* MakerInv: a flow that stays what it is, or is done, on a legal way.      *)
LEMMA MakerMoves ==
  ASSUME IInv, MakerInv, NEW f \in Flow, \A g \in Flow \ {f} : flow'[g] = flow[g],
         flow'[f] = Idle \/ (flow'[f].kind = flow[f].kind /\ flow'[f].run = flow[f].run),
         \/ flow'[f].pc \notin {"enter", "require", "acquire", "linkRead", "linkWrite"}
         \/ flow[f].pc = "enter" /\ flow'[f].pc = "require"
         \/ flow[f].pc = "require" /\ flow'[f].pc = "acquire"
         \/ flow[f].pc = "userMsg" /\ flow'[f].pc = "acquire"
         \/ flow[f].pc = "exit" /\ flow'[f].pc = "linkRead" /\ flow[f].kind = "attempt"
         \/ flow[f].pc = "linkRead" /\ flow'[f].pc = "linkWrite"
  PROVE  MakerInv'
<1>1. Idle.pc = "idle" /\ Idle.kind = "none"
  BY DEF Idle
<1>2. flow[f].pc = "userMsg" => Creates(flow[f])
  BY DEF IInv, FlowInv, RecInv, Creates
<1>3. \A g \in Flow : Creates(flow'[g]) => Creates(flow[g]) /\ flow'[g].run = flow[g].run
  BY <1>1 DEF Creates, Sync
<1>4. \A g, h \in Flow :
        Creates(flow'[g]) /\ Creates(flow'[h]) /\ flow'[g].run = flow'[h].run => g = h
  BY <1>3 DEF MakerInv
<1>5. \A g \in Flow :
       /\ flow'[g].pc = "enter" => flow'[g].kind \in {"approve", "rejCont"}
       /\ flow'[g].pc = "require" => flow'[g].kind \in {"approve", "rejCont", "resume"}
       /\ flow'[g].pc = "acquire" => \/ Creates(flow'[g])
                                     \/ flow'[g].kind \in {"approve", "rejCont", "resume"}
       /\ flow'[g].pc \in {"linkRead", "linkWrite"} => flow'[g].kind = "attempt"
  BY <1>1, <1>2 DEF MakerInv, At, Creates
<1> QED
  BY <1>4, <1>5 DEF MakerInv, At, Creates

LEMMA MakerAdvances ==
  ASSUME IInv, MakerInv, NEW f \in Flow, Advance(f)
  PROVE  MakerInv'
<1>1. /\ flow[f] \in FlowState /\ RecInv(flow[f]) /\ \A g \in Flow \ {f} : flow'[g] = flow[g]
      /\ flow \in [Flow -> FlowState]
  BY OneFlowSteps DEF IInv, TypeOK
<1>2. /\ \A pc : Keeps(Placed(flow[f], pc), flow[f]) /\ Placed(flow[f], pc).pc = pc
      /\ \A why, goal : LET x == ToMark(flow[f], why, goal) IN
                           Keeps(x, flow[f]) /\ x.pc = "mark"
      /\ Keeps(Rethrown(flow[f]), flow[f]) /\ Rethrown(flow[f]).pc \in {"unres", "lastCatch"}
      /\ Keeps(TailThrown(flow[f]), flow[f])
      /\ TailThrown(flow[f]).pc \in {"catch", "unres", "lastCatch"}
      /\ Keeps(Returned(flow[f]), flow[f]) /\ Returned(flow[f]).pc \in {"settle", "exit"}
  BY <1>1, RecordFields
<1>3. /\ \A pc : Goto(f, pc) => flow'[f] = Placed(flow[f], pc)
      /\ Done(f) => flow'[f] = Idle
      /\ Idle.pc = "idle"
  BY <1>1, GotoPlaces
<1> DEFINE old == flow[f]  new == flow'[f]
           Aside == new.pc \notin {"enter", "require", "acquire", "linkRead", "linkWrite"}
<1>a. ASSUME new = Idle \/ (Keeps(new, old) /\ Aside) PROVE MakerInv'
  <2>1. new = Idle \/ (new.kind = old.kind /\ new.run = old.run)
    BY <1>a DEF Keeps
  <2>2. Aside
    BY <1>3, <1>a
  <2> QED
    BY <1>1, <2>1, <2>2, MakerMoves
<1>b. ASSUME new.kind = old.kind, new.run = old.run,
         \/ Aside
         \/ flow[f].pc = "enter" /\ flow'[f].pc = "require"
         \/ flow[f].pc = "require" /\ flow'[f].pc = "acquire"
         \/ flow[f].pc = "userMsg" /\ flow'[f].pc = "acquire"
         \/ flow[f].pc = "exit" /\ flow'[f].pc = "linkRead" /\ flow[f].kind = "attempt"
         \/ flow[f].pc = "linkRead" /\ flow'[f].pc = "linkWrite"
      PROVE  MakerInv'
  BY <1>1, <1>b, MakerMoves
<1>4. CASE CreateRun(f)
  BY <1>1, <1>2, <1>3, <1>4, <1>a DEF CreateRun
<1>5. CASE SaveUserMessage(f)
  BY <1>1, <1>2, <1>3, <1>5, <1>a, <1>b DEF SaveUserMessage, At, Keeps
<1>6. CASE Enter(f)
  BY <1>1, <1>2, <1>3, <1>6, <1>a, <1>b DEF Enter, At, Keeps
<1>7. CASE Require(f)
  <2>1. LET x == [old EXCEPT !.pc = "acquire", !.ck = ckpt[old.run]] IN
          x.run = old.run /\ x.pc = "acquire" /\ x.kind = old.kind
    BY <1>1 DEF FlowState
  <2>2. new \in {[old EXCEPT !.pc = "acquire", !.ck = ckpt[old.run]], Rethrown(old)}
        /\ old.pc = "require"
    BY <1>1, <1>7 DEF Require, At
  <2> QED
    BY <1>2, <1>a, <1>b, <2>1, <2>2
<1>8. CASE Acquire(f) \/ AcquireFault(f)
  BY <1>1, <1>2, <1>3, <1>8, <1>a DEF Acquire, AcquireFault
<1>10. CASE BuildContext(f) \/ RunApprovedTools(f) \/ PersistCheckpoint(f) \/ LoopHead(f)
            \/ TurnFails(f)
  BY <1>1, <1>2, <1>3, <1>10, <1>a DEF BuildContext, RunApprovedTools,
     PersistCheckpoint, LoopHead, TurnFails
<1>11. CASE TurnContinues(f) \/ TurnAnswers(f) \/ TurnAsksUser(f)
  <2>1. \E pc \in {"top", "finish", "ask"} : TurnCheckpoint(f, pc)
    BY <1>11 DEF TurnContinues, TurnAnswers, TurnAsksUser
  <2>2. new.pc \in {"top", "finish", "ask"} /\ new.run = old.run /\ new.kind = old.kind
    BY <1>1, <2>1 DEF TurnCheckpoint, FlowState
  <2> QED
    BY <1>b, <2>2
<1>12. ASSUME NEW a \in Approval, TurnNeedsApproval(f, a) PROVE MakerInv'
  <2>1. new.pc = "freeze" /\ new.run = old.run /\ new.kind = old.kind
    BY <1>1, <1>12 DEF TurnNeedsApproval, FlowState
  <2> QED
    BY <1>b, <2>1
<1>13. CASE Finish(f) \/ AskUser(f) \/ FreezeBatch(f) \/ RequestCommit(f)
  BY <1>1, <1>2, <1>3, <1>13, <1>a DEF Finish, AskUser, FreezeBatch, RequestCommit
<1>14. CASE RequestRead(f)
  <2>1. LET x == [old EXCEPT !.pc = "reqCommit", !.seen = status[old.run]] IN
          x.run = old.run /\ x.pc = "reqCommit" /\ x.kind = old.kind
    BY <1>1 DEF FlowState
  <2>2. new \in {[old EXCEPT !.pc = "reqCommit", !.seen = status[old.run]], TailThrown(old)}
    BY <1>1, <1>14 DEF RequestRead
  <2> QED
    BY <1>2, <1>a, <1>b, <2>1, <2>2
<1>16. CASE MarkRead(f) \/ MarkCommit(f) \/ MarkFault(f)
  <2>1. ASSUME AfterMark(f) \/ MarkThrown(f) PROVE MakerInv'
    BY <1>1, <1>a, <2>1, MarkEnds
  <2>2. CASE flow' = [flow EXCEPT ![f].pc = "commit", ![f].seen = status[old.run]]
    <3>1. new.pc = "commit" /\ new.run = old.run /\ new.kind = old.kind
      BY <1>1, <2>2 DEF FlowState
    <3> QED
      BY <1>b, <3>1
  <2> QED
    BY <1>16, <2>1, <2>2 DEF MarkRead, MarkCommit, MarkFault
<1>17. CASE CatchError(f) \/ Unresumable(f)
  <2>2. Unresumable(f) => new \in {ToMark(old, "unresumable", "failed"), Placed(old, "exit")}
    BY <1>1 DEF Unresumable, Placed
  <2>3. CatchError(f) => new = ToMark(old, "error", IF f \in aborted THEN "cancelled" ELSE "failed")
    BY <1>1 DEF CatchError
  <2> QED
    BY <1>1, <1>2, <1>a, <1>17, <2>2, <2>3
<1>18. CASE LastResort(f) \/ CancelCheck(f) \/ Settle(f)
  BY <1>1, <1>2, <1>3, <1>18, <1>a DEF LastResort, CancelCheck, Settle
<1>21. CASE Exit(f)
  BY <1>1, <1>2, <1>3, <1>21, <1>a, <1>b DEF Exit, At, Keeps
<1>22. CASE LinkRead(f) \/ LinkWrite(f)
  <2>1. LinkRead(f) => /\ old.pc = "linkRead" /\ new.pc = "linkWrite"
                       /\ new.kind = old.kind /\ new.run = old.run
    BY <1>1 DEF LinkRead, At, FlowState
  <2> QED
    BY <1>3, <1>22, <1>a, <1>b, <2>1 DEF LinkWrite
<1> QED
  BY <1>4, <1>5, <1>6, <1>7, <1>8, <1>10, <1>11, <1>12, <1>13, <1>14, <1>16,
     <1>17, <1>18, <1>21, <1>22 DEF Advance

(* A flow that begins: it makes a run nobody has, or works for a made one.  *)
LEMMA CommandBegins ==
  ASSUME IInv, NEW f \in Flow, Command(f)
  PROVE  /\ \A g \in Flow \ {f} : flow'[g] = flow[g]
         /\ At(f, "idle") /\ phase = "up"
         /\ \/ /\ flow'[f].pc = "newRun" /\ Creates(flow'[f])
               /\ \A g \in Flow \ {f} : flow[g].run # flow'[f].run
            \/ flow'[f].pc = "enter" /\ flow'[f].kind \in {"approve", "rejCont"}
            \/ flow'[f].pc \in {"require", "unres"} /\ flow'[f].kind = "resume"
            \/ flow'[f].pc = "mark" /\ flow'[f].kind = "rejEnd"
               /\ flow'[f].why \in {"rejCancel", "rejInterrupt"}
            \/ flow'[f].pc = "mark" /\ flow'[f].kind = "cancel" /\ flow'[f].why = "cancel"
<1>1. flow \in [Flow -> FlowState]
  BY DEF IInv, TypeOK
<1>2. ASSUME NEW r \in Run, NEW kind \in {"chat"} \cup Sync, NewRun(f, r, kind)
      PROVE  /\ \A g \in Flow \ {f} : flow'[g] = flow[g] /\ flow[g].run # flow'[f].run
             /\ At(f, "idle") /\ phase = "up" /\ flow'[f].pc = "newRun" /\ Creates(flow'[f])
  BY <1>1, <1>2 DEF NewRun, Idle, Creates
<1>3. ASSUME NEW r \in Run, ResumeRun(f, r)
      PROVE  /\ \A g \in Flow \ {f} : flow'[g] = flow[g]
             /\ At(f, "idle") /\ phase = "up"
             /\ flow'[f].pc \in {"require", "unres"} /\ flow'[f].kind = "resume"
  BY <1>1, <1>3 DEF ResumeRun, Idle
<1>4. ASSUME NEW r \in Run, CancelRun(f, r)
      PROVE  /\ \A g \in Flow \ {f} : flow'[g] = flow[g]
             /\ At(f, "idle") /\ phase = "up"
             /\ flow'[f].pc = "mark" /\ flow'[f].kind = "cancel" /\ flow'[f].why = "cancel"
  BY <1>1, <1>4 DEF CancelRun, ToMark, Idle
<1>5. ASSUME NEW a \in Approval, Approve(f, a) \/ Reject(f, a)
      PROVE  /\ \A g \in Flow \ {f} : flow'[g] = flow[g]
             /\ At(f, "idle") /\ phase = "up"
             /\ \/ flow'[f].pc = "enter" /\ flow'[f].kind \in {"approve", "rejCont"}
                \/ flow'[f].pc = "mark" /\ flow'[f].kind = "rejEnd"
                    /\ flow'[f].why \in {"rejCancel", "rejInterrupt"}
  BY <1>5, DecisionStarts
<1> QED
  BY <1>2, <1>3, <1>4, <1>5 DEF Command, StartChat, RetryRun, Sync

LEMMA NextMakerInv == IInv /\ MakerInv /\ [Next]_vars => MakerInv'
<1> SUFFICES ASSUME IInv, MakerInv, [Next]_vars PROVE MakerInv'
  OBVIOUS
<1>1. ASSUME NEW f \in Flow, Command(f) PROVE MakerInv'
  <2> USE <1>1
  <2> DEFINE new == flow'[f]
  <2>1. /\ \A g \in Flow \ {f} : flow'[g] = flow[g]
        /\ \/ /\ new.pc = "newRun" /\ Creates(new)
              /\ \A g \in Flow \ {f} : flow[g].run # new.run
           \/ new.pc = "enter" /\ new.kind \in {"approve", "rejCont"}
           \/ new.pc \in {"require", "unres"} /\ new.kind = "resume"
           \/ new.pc = "mark" /\ new.kind \in {"rejEnd", "cancel"}
    BY CommandBegins
  <2>2. \A g, h \in Flow :
          Creates(flow'[g]) /\ Creates(flow'[h]) /\ flow'[g].run = flow'[h].run => g = h
    <3>1. Creates(new) => new.pc = "newRun"
      BY <2>1 DEF Creates, Sync
    <3> QED
      BY <2>1, <3>1 DEF MakerInv
  <2>3. \A g \in Flow :
       /\ flow'[g].pc = "enter" => flow'[g].kind \in {"approve", "rejCont"}
       /\ flow'[g].pc = "require" => flow'[g].kind \in {"approve", "rejCont", "resume"}
       /\ flow'[g].pc = "acquire" => \/ Creates(flow'[g])
                                     \/ flow'[g].kind \in {"approve", "rejCont", "resume"}
       /\ flow'[g].pc \in {"linkRead", "linkWrite"} => flow'[g].kind = "attempt"
    BY <2>1 DEF MakerInv, At
  <2> QED
    BY <2>2, <2>3 DEF MakerInv, At, Creates
<1>2. CASE Crash
  BY <1>2 DEF Crash, MakerInv, At, Idle, Creates, Sync
<1>3. CASE (Daemon /\ ~Crash) \/ UNCHANGED vars
  <2>1. UNCHANGED flow
    BY <1>3 DEF Daemon, Overdue, Expire, StopChat, Recover, ExpireScanDone, RecoveryDone, vars, mem
  <2> QED
    BY <2>1 DEF MakerInv, At, Creates
<1> QED
  BY <1>1, <1>2, <1>3, MakerAdvances DEF Next

LEMMA InitMakerInv == Init => MakerInv
  BY DEF Init, MakerInv, At, Idle, Creates, Sync
-----------------------------------------------------------------------------
(* RegistryInv: controllers only go, and the flow keeps its own or has none. *)
LEMMA RegistryMoves ==
  ASSUME IInv, RegistryInv, NEW f \in Flow, \A g \in Flow \ {f} : flow'[g] = flow[g],
         \A q \in Run : registry'[q] \in {registry[q], NoFlow},
         \/ ~Holds(flow[f])
         \/ flow'[f].run = flow[f].run /\ Holds(flow'[f])
         \/ flow[f].run \in Run /\ registry'[flow[f].run] = NoFlow
  PROVE  RegistryInv'
<1> SUFFICES ASSUME NEW q \in Run, registry'[q] # NoFlow
             PROVE  flow'[registry'[q]].run = q /\ Holds(flow'[registry'[q]])
  BY DEF RegistryInv, Holds
<1>1. registry'[q] = registry[q] /\ registry[q] \in Flow
  BY DEF IInv, TypeOK
<1>2. flow[registry[q]].run = q /\ Holds(flow[registry[q]])
  BY <1>1 DEF RegistryInv
<1> QED
  BY <1>1, <1>2

(* A flow that had no controller registers its own.                         *)
LEMMA RegistryTakes ==
  ASSUME IInv, RegistryInv, NEW f \in Flow, NEW r \in Run,
         \A g \in Flow \ {f} : flow'[g] = flow[g],
         ~Holds(flow[f]), RegistryCreate(f, r), flow'[f].run = r, Holds(flow'[f])
  PROVE  RegistryInv'
<1>1. registry \in [Run -> Flow \cup {NoFlow}]
  BY DEF IInv, TypeOK
<1>2. registry'[r] = f /\ \A q \in Run \ {r} : registry'[q] = registry[q]
  BY <1>1 DEF RegistryCreate
<1> SUFFICES ASSUME NEW q \in Run, registry'[q] # NoFlow
             PROVE  flow'[registry'[q]].run = q /\ Holds(flow'[registry'[q]])
  BY DEF RegistryInv, Holds
<1>3. CASE q = r
  BY <1>2, <1>3
<1>4. CASE q # r
  <2>1. registry'[q] = registry[q] /\ registry[q] \in Flow
    BY <1>1, <1>2, <1>4
  <2>2. flow[registry[q]].run = q /\ Holds(flow[registry[q]])
    BY <2>1 DEF RegistryInv
  <2> QED
    BY <2>1, <2>2
<1> QED
  BY <1>3, <1>4

LEMMA RegistryAdvances ==
  ASSUME IInv, RegistryInv, NEW f \in Flow, Advance(f)
  PROVE  RegistryInv'
<1>1. /\ flow[f] \in FlowState /\ RecInv(flow[f]) /\ \A g \in Flow \ {f} : flow'[g] = flow[g]
      /\ flow \in [Flow -> FlowState] /\ flow[f].run \in Run
      /\ registry \in [Run -> Flow \cup {NoFlow}]
  BY OneFlowSteps DEF IInv, TypeOK
<1>2. /\ \A pc : /\ Keeps(Placed(flow[f], pc), flow[f])
                 /\ Placed(flow[f], pc).pc = pc /\ Placed(flow[f], pc).why = flow[f].why
      /\ \A why, goal : LET x == ToMark(flow[f], why, goal) IN
                           Keeps(x, flow[f]) /\ x.pc = "mark" /\ x.why = why
      /\ Keeps(Rethrown(flow[f]), flow[f]) /\ Rethrown(flow[f]).pc \in {"unres", "lastCatch"}
      /\ Keeps(TailThrown(flow[f]), flow[f])
      /\ TailThrown(flow[f]).pc \in {"catch", "unres", "lastCatch"}
      /\ Keeps(Returned(flow[f]), flow[f]) /\ Returned(flow[f]).pc \in {"settle", "exit"}
  BY <1>1, RecordFields
<1>3. /\ \A pc : Goto(f, pc) => flow'[f] = Placed(flow[f], pc)
      /\ Done(f) => flow'[f] = Idle
  BY <1>1, GotoPlaces
<1> DEFINE old == flow[f]  new == flow'[f]
           InPlace == UNCHANGED registry /\ new.run = old.run /\ Holds(new)
           Free == /\ \A q \in Run : registry'[q] \in {registry[q], NoFlow}
                   /\ registry'[old.run] = NoFlow
           Apart == UNCHANGED registry /\ ~Holds(old)
<1>a. ASSUME InPlace \/ Free \/ Apart PROVE RegistryInv'
  BY <1>1, <1>a, RegistryMoves
<1>r. RegistryRemove(old.run) => Free
  BY <1>1 DEF RegistryRemove
<1>b. RegistryAbort(old.run) => Free
  BY <1>1 DEF RegistryAbort
<1>i. /\ \A x \in {"userMsg", "require", "acquire", "build", "tools", "persist", "top", "turn",
                   "finish", "ask", "freeze", "reqRead", "reqCommit", "catch", "lastCatch",
                   "unres", "exit"} : new.pc = x => Holds(new)
      /\ new.pc = "settle" /\ new.kind = "chat" => Holds(new)
      /\ new.pc = "mark" /\ new.why \in {"finish", "ask", "error", "acqError", "unresumable"}
         => Holds(new)
      /\ new.pc = "mark" /\ new.why = "lastResort" /\ new.kind \notin Sync => Holds(new)
  BY DEF Holds
<1>s. Returned(old).pc = "settle" => old.kind = "chat"
  BY <1>1, <1>2 DEF Returned
<1> HIDE DEF InPlace, Free, Apart
<1>p. ASSUME UNCHANGED registry, Keeps(new, old), Holds(new) PROVE InPlace
  BY <1>p DEF InPlace, Keeps
<1>4. CASE CreateRun(f)
  BY <1>2, <1>3, <1>4, <1>a, <1>r, <1>i, <1>p, <1>1 DEF CreateRun
<1>5. CASE SaveUserMessage(f)
  BY <1>2, <1>3, <1>5, <1>a, <1>r, <1>i, <1>p, <1>1 DEF SaveUserMessage
<1>6. CASE Enter(f)
  <2>1. ~Holds(old)
    BY <1>6 DEF Enter, At, Holds
  <2>2. CASE RegistryCreate(f, old.run) /\ Goto(f, "require")
    BY <1>1, <1>2, <1>3, <1>i, <2>1, <2>2, RegistryTakes DEF Keeps
  <2> QED
    BY <1>6, <1>a, <2>1, <2>2 DEF Enter, Apart
<1>7. CASE Require(f)
  <2>1. UNCHANGED registry /\ new.run = old.run /\ new.pc \in {"acquire", "unres", "lastCatch"}
    <3>1. LET x == [old EXCEPT !.pc = "acquire", !.ck = ckpt[old.run]] IN
          x.run = old.run /\ x.pc = "acquire"
      BY <1>1 DEF FlowState
    <3>2. new \in {[old EXCEPT !.pc = "acquire", !.ck = ckpt[old.run]], Rethrown(old)}
      BY <1>1, <1>7 DEF Require
    <3> QED
      BY <1>2, <1>7, <3>1, <3>2 DEF Require, Keeps
  <2> QED
    BY <1>a, <1>i, <2>1 DEF InPlace
<1>8. CASE Acquire(f)
  BY <1>1, <1>2, <1>3, <1>8, <1>a, <1>i, <1>s, <1>p DEF Acquire, Keeps
<1>9. CASE AcquireFault(f)
  BY <1>1, <1>2, <1>3, <1>9, <1>a, <1>i, <1>p DEF AcquireFault
<1>10. CASE BuildContext(f) \/ RunApprovedTools(f) \/ PersistCheckpoint(f) \/ LoopHead(f)
            \/ TurnFails(f)
  BY <1>1, <1>2, <1>3, <1>10, <1>a, <1>i, <1>p DEF BuildContext, RunApprovedTools,
     PersistCheckpoint, LoopHead, TurnFails
<1>11. CASE TurnContinues(f) \/ TurnAnswers(f) \/ TurnAsksUser(f)
  <2>1. UNCHANGED registry /\ \E pc \in {"top", "finish", "ask"} : TurnCheckpoint(f, pc)
    BY <1>11 DEF TurnContinues, TurnAnswers, TurnAsksUser, TurnCheckpoint
  <2>2. new.pc \in {"top", "finish", "ask"} /\ new.run = old.run
    BY <1>1, <2>1 DEF TurnCheckpoint, FlowState
  <2> QED
    BY <1>a, <1>i, <2>1, <2>2 DEF InPlace
<1>12. ASSUME NEW a \in Approval, TurnNeedsApproval(f, a) PROVE RegistryInv'
  <2>1. UNCHANGED registry /\ new.pc = "freeze" /\ new.run = old.run
    BY <1>1, <1>12 DEF TurnNeedsApproval, FlowState
  <2> QED
    BY <1>a, <1>i, <2>1 DEF InPlace
<1>13. CASE Finish(f) \/ AskUser(f) \/ FreezeBatch(f)
  BY <1>1, <1>2, <1>3, <1>13, <1>a, <1>i, <1>p DEF Finish, AskUser, FreezeBatch
<1>14. CASE RequestRead(f)
  <2>1. UNCHANGED registry /\ new.run = old.run /\ Holds(new)
    <3>1. LET x == [old EXCEPT !.pc = "reqCommit", !.seen = status[old.run]] IN
          x.run = old.run /\ x.pc = "reqCommit"
      BY <1>1 DEF FlowState
    <3>2. new \in {[old EXCEPT !.pc = "reqCommit", !.seen = status[old.run]], TailThrown(old)}
      BY <1>1, <1>14 DEF RequestRead
    <3> QED
      BY <1>2, <1>14, <1>i, <3>1, <3>2 DEF RequestRead, Keeps
  <2> QED
    BY <1>a, <2>1 DEF InPlace
<1>15. CASE RequestCommit(f)
  BY <1>1, <1>2, <1>3, <1>15, <1>a, <1>i, <1>s, <1>p DEF RequestCommit, Keeps
<1>16. CASE MarkRead(f) \/ MarkCommit(f) \/ MarkFault(f)
  <2> DEFINE Ends == \/ old.why \in {"cancel", "rejCancel", "rejInterrupt", "prep"}
                     \/ old.why = "lastResort" /\ old.kind \in Sync
  <2>1. old.pc \in {"mark", "commit"}
    BY <1>16 DEF MarkRead, MarkCommit, MarkFault, At
  <2>2. CASE AfterMark(f)
    <3>1. CASE Ends /\ old.why # "rejCancel"
      BY <1>a, <2>1, <2>2, <3>1 DEF AfterMark, Apart, Holds
    <3>2. CASE old.why = "rejCancel"
      BY <1>a, <1>b, <2>2, <3>2 DEF AfterMark
    <3>3. CASE ~Ends
      <4>1. UNCHANGED registry /\ (Goto(f, "exit") \/ flow' = [flow EXCEPT ![f] = Returned(@)])
        BY <2>2, <3>3 DEF AfterMark
      <4> QED
        BY <1>1, <1>2, <1>3, <1>a, <1>i, <1>s, <1>p, <4>1 DEF Keeps
    <3> QED
      BY <3>1, <3>2, <3>3
  <2>3. CASE MarkThrown(f)
    <3>1. UNCHANGED registry
      BY <2>3 DEF MarkThrown
    <3>2. CASE Ends
      BY <1>a, <2>1, <3>1, <3>2 DEF Apart, Holds
    <3>3. CASE ~Ends
      <4>1. new \in {TailThrown(old), Rethrown(old), Placed(old, "exit")}
        BY <1>1, <2>3, <3>3 DEF MarkThrown, Placed
      <4> QED
        BY <1>1, <1>2, <1>a, <1>i, <1>p, <3>1, <4>1
    <3> QED
      BY <3>2, <3>3
  <2>4. CASE /\ flow' = [flow EXCEPT ![f].pc = "commit", ![f].seen = status[old.run]]
             /\ UNCHANGED registry /\ At(f, "mark")
    <3>1. new.pc = "commit" /\ new.run = old.run /\ new.why = old.why /\ new.kind = old.kind
      BY <1>1, <2>4 DEF FlowState
    <3>3. Holds(old) => Holds(new)
      BY <2>4, <3>1 DEF Holds, At
    <3> QED
      BY <1>a, <2>4, <3>1, <3>3 DEF InPlace, Apart
  <2> QED
    BY <1>16, <2>2, <2>3, <2>4 DEF MarkRead, MarkCommit, MarkFault
<1>17. CASE CatchError(f) \/ Unresumable(f)
  <2>1. UNCHANGED registry
    BY <1>17 DEF CatchError, Unresumable
  <2>2. Unresumable(f) => new \in {ToMark(old, "unresumable", "failed"), Placed(old, "exit")}
    BY <1>1 DEF Unresumable, Placed
  <2>3. CatchError(f) => new = ToMark(old, "error", IF f \in aborted THEN "cancelled" ELSE "failed")
    BY <1>1 DEF CatchError
  <2> QED
    BY <1>1, <1>2, <1>a, <1>i, <1>p, <1>17, <2>1, <2>2, <2>3
<1>18. CASE LastResort(f)
  BY <1>1, <1>2, <1>3, <1>18, <1>a, <1>r, <1>i, <1>p DEF LastResort, Keeps, Sync
<1>19. CASE CancelCheck(f)
  BY <1>a, <1>r, <1>19 DEF CancelCheck, Apart, Holds, At
<1>20. CASE Settle(f)
  <2>1. CASE old.kind # "chat"
    BY <1>a, <1>20, <2>1 DEF Settle, Apart, Holds, At
  <2>2. CASE old.kind = "chat"
    <3>1. UNCHANGED registry
      BY <1>20 DEF Settle
    <3>2. Goto(f, "exit") \/ Goto(f, "lastCatch")
      BY <1>20, <2>2 DEF Settle
    <3> QED
      BY <1>1, <1>2, <1>3, <1>a, <1>i, <1>p, <3>1, <3>2
  <2> QED
    BY <2>1, <2>2
<1>21. CASE Exit(f)
  BY <1>a, <1>r, <1>21 DEF Exit
<1>22. CASE LinkRead(f) \/ LinkWrite(f)
  BY <1>a, <1>22 DEF LinkRead, LinkWrite, Apart, Holds, At
<1> QED
  BY <1>4, <1>5, <1>6, <1>7, <1>8, <1>9, <1>10, <1>11, <1>12, <1>13, <1>14, <1>15, <1>16,
     <1>17, <1>18, <1>19, <1>20, <1>21, <1>22 DEF Advance

(* The commands: what they abort is what the run's last pass left behind.   *)
LEMMA RegistryCommands ==
  ASSUME IInv, RegistryInv, NEW f \in Flow, Command(f)
  PROVE  RegistryInv'
<1>1. /\ flow \in [Flow -> FlowState] /\ registry \in [Run -> Flow \cup {NoFlow}]
  BY DEF IInv, TypeOK
<1>2. At(f, "idle") => ~Holds(flow[f])
  BY DEF At, Holds
<1>3. ASSUME NEW r \in Run, NEW kind, NewRun(f, r, kind) PROVE RegistryInv'
  <2>1. flow'[f].pc = "newRun" /\ flow'[f].run = r /\ \A g \in Flow \ {f} : flow'[g] = flow[g]
    BY <1>1, <1>3 DEF NewRun, Idle
  <2> QED
    BY <1>2, <1>3, <2>1, RegistryTakes DEF NewRun, Holds
<1>4. ASSUME NEW r \in Run, ResumeRun(f, r) PROVE RegistryInv'
  <2>1. /\ flow'[f].pc \in {"require", "unres"} /\ flow'[f].run = r
        /\ \A g \in Flow \ {f} : flow'[g] = flow[g]
    BY <1>1, <1>4 DEF ResumeRun, Idle
  <2> QED
    BY <1>2, <1>4, <2>1, RegistryTakes DEF ResumeRun, Holds
<1>5. ASSUME NEW r \in Run, CancelRun(f, r) PROVE RegistryInv'
  <2>1. \A g \in Flow \ {f} : flow'[g] = flow[g]
    BY <1>1, <1>5 DEF CancelRun
  <2>2. \A q \in Run : registry'[q] \in {registry[q], NoFlow}
    BY <1>1, <1>5 DEF CancelRun, RegistryAbort
  <2> QED
    BY <1>2, <1>5, <2>1, <2>2, RegistryMoves DEF CancelRun
<1>6. ASSUME NEW a \in Approval, Approve(f, a) \/ Reject(f, a) PROVE RegistryInv'
  <2>1. UNCHANGED registry /\ At(f, "idle") /\ \A g \in Flow \ {f} : flow'[g] = flow[g]
    BY <1>1, <1>6 DEF Approve, Reject, Decide
  <2> QED
    BY <1>2, <2>1, RegistryMoves
<1> QED
  BY <1>3, <1>4, <1>5, <1>6 DEF Command, StartChat, RetryRun

LEMMA RegistryDaemon ==
  ASSUME IInv, RegistryInv, Daemon \/ UNCHANGED vars
  PROVE  RegistryInv'
<1>1. registry \in [Run -> Flow \cup {NoFlow}]
  BY DEF IInv, TypeOK
<1>a. ASSUME UNCHANGED flow, \A q \in Run : registry'[q] \in {registry[q], NoFlow}
      PROVE  RegistryInv'
  BY <1>1, <1>a DEF RegistryInv, Holds
<1>2. ASSUME NEW a \in Approval, Overdue(a) \/ Expire(a) PROVE RegistryInv'
  BY <1>1, <1>2, <1>a DEF Overdue, Expire, mem
<1>3. ASSUME NEW r \in Run, StopChat(r) \/ Recover(r) PROVE RegistryInv'
  BY <1>1, <1>3, <1>a DEF StopChat, Recover, mem, RegistryAbort
<1>4. CASE Crash
  BY <1>4 DEF Crash, RegistryInv
<1>5. CASE ExpireScanDone \/ RecoveryDone \/ UNCHANGED vars
  BY <1>1, <1>5, <1>a DEF ExpireScanDone, RecoveryDone, vars, mem
<1> QED
  BY <1>2, <1>3, <1>4, <1>5 DEF Daemon

LEMMA NextRegistryInv == IInv /\ RegistryInv /\ [Next]_vars => RegistryInv'
  BY RegistryAdvances, RegistryCommands, RegistryDaemon DEF Next

(* What one step aborts.                                                    *)
Spared ==
  \A f \in Flow :
    f \in aborted' \ aborted /\ Executing(f) /\ status[flow[f].run] = "running"
      => registry'[flow[f].run] = NoFlow

LEMMA OnlyLeftoversAborted ==
  ASSUME IInv, MakerInv, RegistryInv, [Next]_vars
  PROVE  Spared
<1>1. /\ registry \in [Run -> Flow \cup {NoFlow}]
      /\ \A r \in Run : registry[r] # NoFlow => flow[registry[r]].run = r
  BY DEF IInv, TypeOK, RegistryInv
<1>a. ASSUME aborted' \subseteq aborted PROVE Spared
  BY <1>a DEF Spared
<1>b. ASSUME NEW r \in Run, RegistryAbort(r) PROVE Spared
  BY <1>1, <1>b DEF Spared, RegistryAbort, AbortOf
<1>c. ASSUME NEW f \in Flow, NEW r \in Run, RegistryCreate(f, r), status[r] # "running"
      PROVE  Spared
  BY <1>1, <1>c DEF Spared, RegistryCreate, AbortOf
<1>2. ASSUME NEW f \in Flow, Command(f) PROVE Spared
  BY <1>2, <1>a, <1>b, <1>c DEF Command, StartChat, RetryRun, NewRun, ResumeRun, CancelRun,
     Approve, Reject, Decide
<1>3. ASSUME NEW f \in Flow, Advance(f) PROVE Spared
  <2>1. flow[f].run \in Run
    BY <1>3, OneFlowSteps
  <2>2. CASE Enter(f)
    <3>1. f \in DecidersOf(flow[f].run)
      BY <2>2 DEF Enter, At, DecidersOf, Deciding, Decides, MakerInv
    <3>2. status[flow[f].run] # "running"
      BY <2>1, <3>1 DEF IInv, OneOpenDecision, Terminal
    <3> QED
      BY <2>1, <2>2, <3>2, <1>a, <1>c DEF Enter
  <2>3. CASE MarkRead(f) \/ MarkCommit(f) \/ MarkFault(f)
    <3>1. AfterMark(f) => RegistryAbort(flow[f].run) \/ UNCHANGED aborted
      BY DEF AfterMark
    <3>2. MarkThrown(f) => UNCHANGED aborted
      BY DEF MarkThrown
    <3> QED
      BY <1>a, <1>b, <2>1, <2>3, <3>1, <3>2 DEF MarkRead, MarkCommit, MarkFault
  <2>4. \/ Enter(f) \/ MarkRead(f) \/ MarkCommit(f) \/ MarkFault(f)
        \/ UNCHANGED aborted
    BY <1>3 DEF Advance, CreateRun, SaveUserMessage, Require, Acquire, AcquireFault,
         BuildContext, RunApprovedTools, PersistCheckpoint, LoopHead, TurnContinues,
         TurnAnswers, TurnAsksUser, TurnCheckpoint, TurnNeedsApproval, TurnFails, Finish,
         AskUser, FreezeBatch, RequestRead, RequestCommit, CatchError,
         LastResort, Unresumable, CancelCheck, Settle, Exit, LinkRead, LinkWrite
  <2> QED
    BY <1>a, <2>2, <2>3, <2>4
<1>4. CASE Daemon
  BY <1>4, <1>a, <1>b DEF Daemon, Overdue, Expire, StopChat, Recover, Crash, ExpireScanDone,
     RecoveryDone, mem
<1>5. CASE UNCHANGED vars
  BY <1>5, <1>a DEF vars, mem
<1> QED
  BY <1>2, <1>3, <1>4, <1>5 DEF Next

(* AbortRegistry.create and abort reach only the controller of a pass that  *)
(* is over, or drop the one they abort: no start, continuation or recovery  *)
(* stops the loop of a run that is still going behind its back.             *)
THEOREM OnlyLeftoversAreAborted == Spec => AbortOnlyLeftovers
<1>1. Init => RegistryInv
  BY DEF Init, RegistryInv
<1>2. IInv /\ MakerInv /\ RegistryInv /\ [Next]_vars =>
        [\A f \in Flow :
           f \in aborted' \ aborted /\ Executing(f) /\ status[flow[f].run] = "running"
             => registry'[flow[f].run] = NoFlow]_vars
  BY OnlyLeftoversAborted DEF Spared
<1> QED
  BY <1>1, <1>2, InitMakerInv, NextMakerInv, NextRegistryInv, InvariantHolds, PTL
     DEF Spec, AbortOnlyLeftovers
-----------------------------------------------------------------------------
(* MoverInv: what one flow's step must show of its own run, so that every   *)
(* other run and every other flow are as they were.                         *)
LEMMA RestingFlow ==
  ASSUME NEW rec, rec.pc = "idle"
  PROVE  ~Owns(rec) /\ ~Early(rec) /\ ~Decides(rec) /\ \A s, c : Passes(rec, s, c)
BY DEF Owns, Executes, Early, Decides, Saves, Passes

Stand(r) ==
  /\ \A q \in Run \ {r} : status'[q] = status[q] /\ ckpt'[q] = ckpt[q]
  /\ status[r] \in Terminal => status'[r] = status[r]
  /\ ckpt[r] # "none" => ckpt'[r] # "none" \/ status[r] \in Terminal
  /\ \A b \in Approval : Open(b) /\ apRun[b] # r => apState'[b] \in {"pending", "due"} /\ apRun'[b] = apRun[b]

LEMMA MoverStep ==
  ASSUME IInv, MoverInv, faults = 0, NEW f \in Flow, NEW r \in Run, UNCHANGED todo,
         \A g \in Flow \ {f} : flow'[g] = flow[g],
         Stand(r),
         \/ status'[r] \in {status[r]} \cup Terminal
         \/ \A g \in Flow \ {f} : flow[g].run = r => ~Owns(flow[g]) /\ ~Early(flow[g]),
         At(f, "idle") \/ flow[f].run = r,
         \/ flow'[f].pc = "idle"
         \/ flow'[f].run = r /\ Passes(flow'[f], status'[r], ckpt'[r]),
         Owns(flow'[f]) => \/ Owns(flow[f])
                           \/ \A g \in Flow \ {f} : flow[g].run = r => ~Owns(flow[g]),
         status'[r] \in {"waiting_approval", "waiting_user"} => ckpt'[r] # "none",
         r \in todo \/ HasMover(r)'
  PROVE  MoverInv'
<1>1. /\ \A g \in Flow : Passes(flow[g], status[flow[g].run], ckpt[flow[g].run])
      /\ \A g, h \in Flow :
           Owns(flow[g]) /\ Owns(flow[h]) /\ flow[g].run = flow[h].run => g = h
      /\ \A q \in Run : status[q] \in {"waiting_approval", "waiting_user"} => ckpt[q] # "none"
      /\ \A q \in Run \ todo : HasMover(q)
  BY DEF MoverInv
<1>2. ASSUME NEW g \in Flow
      PROVE  Passes(flow'[g], status'[flow'[g].run], ckpt'[flow'[g].run])
  <2>1. CASE g = f
    BY <2>1, RestingFlow
  <2>2. CASE g # f /\ flow[g].pc = "idle"
    BY <2>2, RestingFlow
  <2>3. CASE g # f /\ flow[g].pc # "idle" /\ flow[g].run # r
    <3>1. flow[g].run \in Run
      BY <2>3 DEF IInv, FlowInv, RecInv
    <3> QED
      BY <1>1, <2>3, <3>1 DEF Stand
  <2>4. CASE g # f /\ flow[g].run = r
    <3>1. Passes(flow[g], status[r], ckpt[r]) /\ flow'[g] = flow[g]
      BY <1>1, <2>4
    <3>2. CASE status'[r] \in {status[r]} \cup Terminal
      BY <2>4, <3>1, <3>2 DEF Passes, Stand
    <3>3. CASE ~Owns(flow[g]) /\ ~Early(flow[g])
      BY <2>4, <3>1, <3>3 DEF Passes, Stand
    <3> QED
      BY <2>4, <3>2, <3>3
  <2> QED
    BY <2>1, <2>2, <2>3, <2>4
<1>3. ASSUME NEW g \in Flow, NEW h \in Flow, Owns(flow'[g]), Owns(flow'[h]),
             flow'[g].run = flow'[h].run
      PROVE  g = h
  <2>1. flow'[f].pc # "idle" => flow'[f].run = r
    OBVIOUS
  <2>2. Owns(flow[f]) => flow[f].run = r
    BY RestingFlow DEF At
  <2>3. Owns(flow'[f]) => flow'[f].run = r
    BY RestingFlow
  <2> QED
    BY <1>1, <1>3, <2>2, <2>3
<1>4. ASSUME NEW q \in Run, status'[q] \in {"waiting_approval", "waiting_user"}
      PROVE  ckpt'[q] # "none"
  BY <1>1, <1>4 DEF Stand
<1>5. ASSUME NEW q \in Run \ todo, q # r
      PROVE  HasMover(q)'
  <2>1. HasMover(q) /\ status'[q] = status[q]
    BY <1>1, <1>5 DEF Stand
  <2>2. ASSUME NEW g \in Flow, Owns(flow[g]) \/ Early(flow[g]) \/ Decides(flow[g]), flow[g].run = q
        PROVE  flow'[g] = flow[g]
    BY <1>5, <2>2, RestingFlow DEF At
  <2>3. status[q] = "running" => \E g \in Flow : Owns(flow'[g]) /\ flow'[g].run = q
    BY <2>1, <2>2 DEF HasMover
  <2>4. status[q] = "created" => \E g \in Flow : Early(flow'[g]) /\ flow'[g].run = q
    BY <2>1, <2>2 DEF HasMover
  <2>5. status[q] = "waiting_approval" => (OpenOf(q) \cup DecidersOf(q) # {})'
    <3>1. SUFFICES ASSUME status[q] = "waiting_approval" PROVE (OpenOf(q) \cup DecidersOf(q) # {})'
      OBVIOUS
    <3>2. CASE \E b \in Approval : Open(b) /\ apRun[b] = q
      BY <1>5, <3>2 DEF OpenOf, Open, Stand
    <3>3. CASE \E g \in Flow : Deciding(g) /\ flow[g].run = q
      BY <2>2, <3>3 DEF DecidersOf, Deciding, Decides
    <3> QED
      BY <2>1, <3>1, <3>2, <3>3 DEF HasMover, OpenOf, DecidersOf
  <2> QED
    BY <2>1, <2>3, <2>4, <2>5 DEF HasMover, Owns, Early, Executes, Creates
<1> QED
  BY <1>2, <1>3, <1>4, <1>5 DEF MoverInv, Passes, Owns, Executes, Early, Creates, Decides, Saves

(* A step that writes no status: the run keeps its mover.                   *)
LEMMA MoverQuiet ==
  ASSUME IInv, MoverInv, faults = 0, NEW f \in Flow, NEW r \in Run, flow[f].run = r, UNCHANGED <<todo, status>>,
         \A g \in Flow \ {f} : flow'[g] = flow[g],
         \A q \in Run \ {r} : ckpt'[q] = ckpt[q],
         ckpt[r] # "none" => ckpt'[r] # "none" \/ status[r] \in Terminal,
         \A b \in Approval : Open(b) => apState'[b] \in {"pending", "due"} /\ apRun'[b] = apRun[b],
         \/ flow'[f].pc = "idle"
         \/ /\ flow'[f].run = r
            /\ Passes(flow'[f], status[r], ckpt'[r]),
         Owns(flow'[f]) => Owns(flow[f]),
         status[r] = "running" /\ Owns(flow[f]) => Owns(flow'[f]),
         status[r] = "created" /\ Early(flow[f]) => Early(flow'[f]),
         status[r] = "waiting_approval" /\ Decides(flow[f]) => Decides(flow'[f])
  PROVE  MoverInv'
<1>1. Stand(r)
  BY DEF Stand
<1>2. status'[r] \in {"waiting_approval", "waiting_user"} => ckpt'[r] # "none"
  <2>1. status[r] \in {"waiting_approval", "waiting_user"} => ckpt[r] # "none" /\ status[r] \notin Terminal
    BY DEF MoverInv, Terminal
  <2> QED
    BY <2>1
<1>3. Owns(flow'[f]) \/ Early(flow'[f]) \/ Decides(flow'[f]) => flow'[f].run = r
  BY RestingFlow
<1>4. r \in todo \/ HasMover(r)'
  <2>1. SUFFICES ASSUME r \notin todo PROVE HasMover(r)'
    OBVIOUS
  <2>2. HasMover(r)
    BY <2>1 DEF MoverInv
  <2>3. status[r] = "running" => \E g \in Flow : Owns(flow'[g]) /\ flow'[g].run = r
    BY <1>3, <2>2 DEF HasMover
  <2>4. status[r] = "created" => \E g \in Flow : Early(flow'[g]) /\ flow'[g].run = r
    BY <1>3, <2>2 DEF HasMover
  <2>5. status[r] = "waiting_approval" => (OpenOf(r) \cup DecidersOf(r) # {})'
    <3>1. SUFFICES ASSUME status[r] = "waiting_approval"
                   PROVE  \/ \E b \in Approval : Open(b)' /\ apRun'[b] = r
                          \/ \E g \in Flow : Decides(flow'[g]) /\ flow'[g].run = r
      BY DEF OpenOf, DecidersOf, Deciding, Decides
    <3>2. CASE \E b \in Approval : Open(b) /\ apRun[b] = r
      BY <3>2 DEF Open
    <3>3. CASE \E g \in Flow : Decides(flow[g]) /\ flow[g].run = r
      BY <1>3, <3>1, <3>3
    <3> QED
      BY <2>2, <3>1, <3>2, <3>3 DEF HasMover, OpenOf, DecidersOf, Deciding
  <2> QED
    BY <2>3, <2>4, <2>5 DEF HasMover, Owns, Early, Executes, Creates
<1> QED
  BY <1>1, <1>2, <1>4, MoverStep


(* How a flow's record may follow another while its run's status stands.    *)
Follows(x, rec, s, c) ==
  /\ x.pc = "idle" \/ (x.run = rec.run /\ Passes(x, s, c))
  /\ Owns(x) => Owns(rec)
  /\ s = "running" /\ Owns(rec) => Owns(x)
  /\ s = "created" /\ Early(rec) => Early(x)
  /\ s = "waiting_approval" /\ Decides(rec) => Decides(x)

LEMMA MoverFollows ==
  ASSUME IInv, MoverInv, faults = 0, NEW f \in Flow, Advance(f), UNCHANGED status,
         \/ UNCHANGED ckpt
         \/ \E c : /\ ckpt' = [ckpt EXCEPT ![flow[f].run] = c]
                   /\ c # "none" \/ status[flow[f].run] \in Terminal,
         \A b \in Approval : Open(b) => apState'[b] \in {"pending", "due"} /\ apRun'[b] = apRun[b],
         Follows(flow'[f], flow[f], status[flow[f].run], ckpt'[flow[f].run])
  PROVE  MoverInv'
<1>1. /\ flow[f].run \in Run /\ UNCHANGED todo /\ \A g \in Flow \ {f} : flow'[g] = flow[g]
      /\ ckpt \in [Run -> Approval \cup {"none", "plain"}]
  BY OneFlowSteps DEF IInv, TypeOK
<1>2. /\ \A q \in Run \ {flow[f].run} : ckpt'[q] = ckpt[q]
      /\ ckpt[flow[f].run] # "none" =>
           ckpt'[flow[f].run] # "none" \/ status[flow[f].run] \in Terminal
  <2>1. CASE UNCHANGED ckpt
    BY <2>1
  <2>2. CASE \E c : /\ ckpt' = [ckpt EXCEPT ![flow[f].run] = c]
                    /\ c # "none" \/ status[flow[f].run] \in Terminal
    <3>1. PICK c : /\ ckpt' = [ckpt EXCEPT ![flow[f].run] = c]
                   /\ c # "none" \/ status[flow[f].run] \in Terminal
      BY <2>2
    <3> QED
      BY <1>1, <3>1
  <2> QED
    BY <2>1, <2>2
<1>3. PICK r \in Run : flow[f].run = r
  BY <1>1
<1> QED
  BY <1>1, <1>2, <1>3, MoverQuiet DEF Follows

(* Within the loop: owner to owner, with a checkpoint where one is due.     *)
LEMMA LoopFollows ==
  ASSUME NEW rec \in FlowState, NEW x \in FlowState, NEW s, NEW c, NEW d, Passes(rec, s, c),
         x.kind = rec.kind, x.run = rec.run, Owns(rec), Owns(x), x.pc # "commit",
         d = c \/ d # "none", ~Saves(x) \/ Saves(rec) \/ d # "none"
  PROVE  Follows(x, rec, s, d)
BY DEF Follows, Passes, Owns, Executes, Early, Decides, Saves

(* Out of it: nobody is waiting for this flow.                              *)
LEMMA OutFollows ==
  ASSUME NEW rec \in FlowState, NEW x \in FlowState, NEW s, NEW c, Passes(rec, s, c),
         x.kind = rec.kind, x.run = rec.run, ~Owns(x), ~Early(x),
         x.pc \notin {"commit", "linkWrite"}, Saves(x) => s \in Terminal \/ c # "none",
         x.kind = "attempt" => /\ x.pc # "unres"
                               /\ x.pc = "mark" => x.why = "lastResort",
         Owns(rec) \/ Early(rec) => s \in Terminal,
         s = "waiting_approval" /\ Decides(rec) => Decides(x)
  PROVE  Follows(x, rec, s, c)
BY DEF Follows, Passes, Terminal

LEMMA MoverLoops ==
  ASSUME IInv, MakerInv, MoverInv, faults = 0, faults' = 0, NEW f \in Flow, Advance(f),
         \/ BuildContext(f) \/ RunApprovedTools(f) \/ PersistCheckpoint(f) \/ LoopHead(f)
         \/ TurnContinues(f) \/ TurnAnswers(f) \/ TurnAsksUser(f)
         \/ (\E a \in Approval : TurnNeedsApproval(f, a)) \/ TurnFails(f)
         \/ Finish(f) \/ AskUser(f) \/ FreezeBatch(f) \/ CatchError(f)
  PROVE  MoverInv'
<1>1. /\ flow[f] \in FlowState /\ flow'[f] \in FlowState /\ flow[f].run \in Run /\ RecInv(flow[f])
      /\ flow \in [Flow -> FlowState] /\ ckpt \in [Run -> Approval \cup {"none", "plain"}]
      /\ apState \in [Approval -> {"absent", "frozen", "pending", "due", "approved", "rejected", "expired"}]
      /\ apRun \in [Approval -> Run \cup {NoRun}]
  BY OneFlowSteps DEF IInv, TypeOK
<1>2. /\ \A pc : /\ Keeps(Placed(flow[f], pc), flow[f]) /\ Placed(flow[f], pc).pc = pc
                 /\ Placed(flow[f], pc).why = flow[f].why
      /\ \A why, goal : LET x == ToMark(flow[f], why, goal) IN
                        Keeps(x, flow[f]) /\ x.pc = "mark" /\ x.why = why
  BY <1>1, RecordFields
<1>3. /\ \A pc : Goto(f, pc) => flow'[f] = Placed(flow[f], pc)
      /\ ~Fault
  BY <1>1, GotoPlaces DEF Fault
<1> DEFINE old == flow[f]  new == flow'[f]
<1>4. Passes(old, status[old.run], ckpt[old.run])
  BY DEF MoverInv
<1>a. ASSUME UNCHANGED <<status, ckpt, apState, apRun>>, Keeps(new, old), Owns(old), Owns(new),
             new.pc # "commit", Saves(new) => Saves(old)
      PROVE  MoverInv'
  BY <1>1, <1>4, <1>a, LoopFollows, MoverFollows DEF Keeps, Open
<1>b. ASSUME NEW c, ckpt' = [ckpt EXCEPT ![old.run] = c], c # "none", UNCHANGED status,
             \A b \in Approval : Open(b) => apState'[b] = apState[b] /\ apRun'[b] = apRun[b],
             new.kind = old.kind, new.run = old.run, Owns(old), Owns(new), new.pc # "commit"
      PROVE  MoverInv'
  <2>1. ckpt'[old.run] = c
    BY <1>1, <1>b
  <2>2. Follows(new, old, status[old.run], ckpt'[old.run])
    BY <1>1, <1>4, <1>b, <2>1, LoopFollows
  <2>3. \A b \in Approval : Open(b) => apState'[b] \in {"pending", "due"} /\ apRun'[b] = apRun[b]
    BY <1>b DEF Open
  <2> QED
    BY <1>b, <2>2, <2>3, MoverFollows
<1>o. /\ \A x \in FlowState :
           /\ x.pc \in {"build", "tools", "persist", "top", "turn", "finish", "ask", "freeze",
                        "reqRead", "catch"} => Owns(x)
           /\ x.pc = "mark" /\ x.why \in {"finish", "ask", "error"} => Owns(x)
           /\ x.pc \in {"top", "turn", "finish", "ask", "freeze", "reqRead", "reqCommit"} => Saves(x)
           /\ x.pc \in {"build", "tools", "persist", "catch"} => ~Saves(x)
           /\ x.pc \in {"mark", "commit"} /\ x.why = "error" => ~Saves(x)
  BY DEF Owns, Executes, Saves
<1>5. CASE BuildContext(f) \/ RunApprovedTools(f) \/ LoopHead(f) \/ TurnFails(f)
  BY <1>1, <1>2, <1>3, <1>5, <1>a, <1>o DEF BuildContext, RunApprovedTools, LoopHead, TurnFails, db, At
<1>6. CASE Finish(f) \/ CatchError(f)
  BY <1>1, <1>2, <1>3, <1>6, <1>a, <1>o DEF Finish, CatchError, db, At
<1>7. CASE PersistCheckpoint(f)
  <2>1. /\ ckpt' = [ckpt EXCEPT ![old.run] = "plain"] /\ old.pc = "persist" /\ new.pc = "top"
        /\ Keeps(new, old) /\ UNCHANGED <<status, apState, apRun>>
    BY <1>1, <1>2, <1>3, <1>7 DEF PersistCheckpoint, At
  <2> QED
    BY <1>1, <1>b, <1>o, <2>1 DEF Keeps
<1>8. CASE TurnContinues(f) \/ TurnAnswers(f) \/ TurnAsksUser(f)
  <2>1. \E pc \in {"top", "finish", "ask"} : TurnCheckpoint(f, pc)
    BY <1>8 DEF TurnContinues, TurnAnswers, TurnAsksUser
  <2>2. /\ ckpt' = [ckpt EXCEPT ![old.run] = "plain"] /\ old.pc = "turn"
        /\ new.pc \in {"top", "finish", "ask"}
        /\ new.kind = old.kind /\ new.run = old.run /\ UNCHANGED <<status, apState, apRun>>
    BY <1>1, <2>1 DEF TurnCheckpoint, At, FlowState
  <2> QED
    BY <1>1, <1>b, <1>o, <2>2
<1>9. ASSUME NEW a \in Approval, TurnNeedsApproval(f, a) PROVE MoverInv'
  <2>1. /\ ckpt' = [ckpt EXCEPT ![old.run] = a] /\ old.pc = "turn" /\ new.pc = "freeze"
        /\ new.kind = old.kind /\ new.run = old.run /\ UNCHANGED status
    BY <1>1, <1>9 DEF TurnNeedsApproval, At, FlowState
  <2>2. \A b \in Approval : Open(b) => apState'[b] = apState[b] /\ apRun'[b] = apRun[b]
    BY <1>1, <1>9 DEF TurnNeedsApproval, Open
  <2>3. a # "none"
    BY IdAssumption
  <2> QED
    BY <1>1, <1>b, <1>o, <2>1, <2>2, <2>3
<1>10. CASE AskUser(f)
  <2>1. /\ ckpt' = [ckpt EXCEPT ![old.run] = "plain"] /\ old.pc = "ask"
        /\ new = ToMark(old, "ask", "waiting_user") /\ UNCHANGED <<status, apState, apRun>>
    BY <1>1, <1>3, <1>10 DEF AskUser, At
  <2>2. new.kind = old.kind /\ new.run = old.run /\ new.pc = "mark" /\ new.why = "ask"
    BY <1>2, <2>1 DEF Keeps
  <2> QED
    BY <1>1, <1>b, <1>o, <2>1, <2>2
<1>11. CASE FreezeBatch(f)
  <2>1. /\ ckpt' = [ckpt EXCEPT ![old.run] = old.ap] /\ old.pc = "freeze" /\ new.pc = "reqRead"
        /\ Keeps(new, old) /\ UNCHANGED <<status, apState, apRun>>
    BY <1>1, <1>2, <1>3, <1>11 DEF FreezeBatch, At
  <2>2. old.ap # "none"
    BY <1>1, <2>1, IdAssumption DEF RecInv
  <2> QED
    BY <1>1, <1>b, <1>o, <2>1, <2>2 DEF Keeps
<1> QED
  BY <1>5, <1>6, <1>7, <1>8, <1>9, <1>10, <1>11

(* Before the loop and after it.                                            *)
LEMMA MoverOutside ==
  ASSUME IInv, MakerInv, MoverInv, faults = 0, faults' = 0, NEW f \in Flow, Advance(f),
         \/ SaveUserMessage(f) \/ Enter(f) \/ Require(f) \/ LastResort(f) \/ Unresumable(f)
         \/ CancelCheck(f) \/ Settle(f) \/ Exit(f) \/ LinkRead(f) \/ LinkWrite(f)
  PROVE  MoverInv'
<1>1. /\ flow[f] \in FlowState /\ flow'[f] \in FlowState /\ flow[f].run \in Run /\ RecInv(flow[f])
      /\ flow \in [Flow -> FlowState] /\ ckpt \in [Run -> Approval \cup {"none", "plain"}]
  BY OneFlowSteps DEF IInv, TypeOK
<1>2. /\ \A pc : /\ Keeps(Placed(flow[f], pc), flow[f]) /\ Placed(flow[f], pc).pc = pc
                 /\ Placed(flow[f], pc).why = flow[f].why
      /\ \A why, goal : LET x == ToMark(flow[f], why, goal) IN
                        Keeps(x, flow[f]) /\ x.pc = "mark" /\ x.why = why
      /\ Keeps(Rethrown(flow[f]), flow[f]) /\ Rethrown(flow[f]).pc \in {"unres", "lastCatch"}
  BY <1>1, RecordFields
<1>3. /\ \A pc : Goto(f, pc) => flow'[f] = Placed(flow[f], pc)
      /\ Done(f) => flow'[f] = Idle /\ Idle.pc = "idle"
      /\ ~Fault
  BY <1>1, GotoPlaces DEF Fault
<1> DEFINE old == flow[f]  new == flow'[f]  s == status[old.run]  c == ckpt[old.run]
<1>4. Passes(old, s, c)
  BY DEF MoverInv
<1>a. ASSUME UNCHANGED <<status, ckpt, apState, apRun>>, Follows(new, old, s, c) PROVE MoverInv'
  BY <1>1, <1>a, MoverFollows DEF Open
<1>i. ASSUME new.pc = "idle", ~Owns(old), ~Early(old), ~Decides(old) PROVE Follows(new, old, s, c)
  BY <1>i, RestingFlow DEF Follows
<1>5. CASE SaveUserMessage(f)
  <2>1. /\ old.pc = "userMsg" /\ new.pc = "acquire" /\ new.kind = old.kind /\ new.run = old.run
        /\ UNCHANGED <<status, ckpt, apState, apRun>>
    BY <1>2, <1>3, <1>5 DEF SaveUserMessage, At, Keeps, db
  <2>2. Creates(old)
    BY <1>1, <2>1 DEF RecInv, Creates
  <2>3. ~Owns(new) /\ ~Owns(old) /\ ~Saves(new) /\ ~Decides(old) /\ Early(old) /\ Early(new)
    BY <2>1, <2>2 DEF Owns, Executes, Saves, Decides, Creates, Early, Sync
  <2>4. Passes(new, s, c)
    BY <1>4, <2>1, <2>3 DEF Passes
  <2> QED
    BY <1>a, <2>1, <2>3, <2>4 DEF Follows
<1>6. CASE Enter(f)
  <2>1. /\ old.pc = "enter" /\ new.pc = "require" /\ new.kind = old.kind /\ new.run = old.run
        /\ UNCHANGED <<status, ckpt, apState, apRun>> /\ old.kind \in {"approve", "rejCont"}
    BY <1>2, <1>3, <1>6 DEF Enter, At, Keeps, db, MakerInv
  <2>2. /\ ~Owns(new) /\ ~Owns(old) /\ ~Saves(new) /\ ~Early(old) /\ ~Early(new)
        /\ Decides(new)
    BY <2>1 DEF Owns, Executes, Saves, Decides, Early
  <2>3. Follows(new, old, s, c)
    BY <1>1, <1>4, <2>1, <2>2, OutFollows
  <2> QED
    BY <1>a, <2>1, <2>3
<1>7. CASE Require(f)
  <2>1. /\ old.pc = "require" /\ old.kind \in {"approve", "rejCont", "resume"}
        /\ UNCHANGED <<status, ckpt, apState, apRun>>
        /\ new = IF s = old.seen /\ c # "none"
                 THEN [old EXCEPT !.pc = "acquire", !.ck = c] ELSE Rethrown(old)
    BY <1>1, <1>3, <1>7 DEF Require, At, db, MakerInv
  <2>2. /\ new.kind = old.kind /\ new.run = old.run /\ new.pc \in {"acquire", "unres", "lastCatch"}
        /\ s = old.seen /\ c # "none" => new.pc = "acquire"
    <3>1. LET x == [old EXCEPT !.pc = "acquire", !.ck = c] IN
            x.run = old.run /\ x.pc = "acquire" /\ x.kind = old.kind
      BY <1>1 DEF FlowState
    <3>2. CASE s = old.seen /\ c # "none"
      BY <2>1, <3>1, <3>2
    <3>3. CASE ~(s = old.seen /\ c # "none")
      BY <1>2, <2>1, <3>3 DEF Keeps
    <3> QED
      BY <3>2, <3>3
  <2>3. /\ ~Owns(new) /\ ~Owns(old) /\ ~Saves(new) /\ ~Early(old) /\ ~Early(new)
    BY <2>1, <2>2 DEF Owns, Executes, Saves, Early, Creates, Sync
  <2>4. s = "waiting_approval" /\ Decides(old) => Decides(new)
    <3>1. Decides(old) => old.kind \in {"approve", "rejCont"} /\ old.seen = "waiting_approval"
      BY <1>1, <2>1 DEF Decides, RecInv, Expected
    <3>2. s = "waiting_approval" => c # "none"
      BY <1>1 DEF MoverInv
    <3> QED
      BY <2>2, <3>1, <3>2 DEF Decides
  <2>5. Follows(new, old, s, c)
    BY <1>1, <1>4, <2>1, <2>2, <2>3, <2>4, OutFollows
  <2> QED
    BY <1>a, <2>1, <2>5
<1>8. CASE LastResort(f) \/ Unresumable(f)
  <2>1. /\ old.pc \in {"lastCatch", "unres"} /\ new.kind = old.kind /\ new.run = old.run
        /\ UNCHANGED <<status, ckpt, apState, apRun>>
        /\ \/ new.pc = "mark" /\ new.why = "lastResort"
           \/ old.pc = "unres" /\ new.pc = "mark" /\ new.why = "unresumable"
           \/ old.pc = "unres" /\ new.pc = "exit"
    <3>1. Unresumable(f) => new \in {ToMark(old, "unresumable", "failed"), Placed(old, "exit")}
      BY <1>1 DEF Unresumable, Placed
    <3>2. LastResort(f) => new = ToMark(old, "lastResort", "failed")
      BY <1>1, <1>3 DEF LastResort
    <3> QED
      BY <1>2, <1>8, <3>1, <3>2 DEF LastResort, Unresumable, At, Keeps, db
  <2>2. old.pc = "unres" => old.kind # "attempt"
    BY <1>4 DEF Passes
  <2>3. /\ ~Owns(new) /\ ~Owns(old) /\ ~Saves(new) /\ ~Early(old) /\ ~Early(new) /\ ~Decides(old)
    BY <2>1, <2>2 DEF Owns, Executes, Saves, Early, Decides
  <2>4. Follows(new, old, s, c)
    BY <1>1, <1>4, <2>1, <2>2, <2>3, OutFollows
  <2> QED
    BY <1>a, <2>1, <2>4
<1>9. CASE CancelCheck(f) \/ Settle(f)
  <2>1. /\ old.pc \in {"cancelCheck", "settle"} /\ UNCHANGED <<status, ckpt, apState, apRun>>
        /\ \/ new.pc = "idle"
           \/ new.pc = "exit" /\ new.kind = old.kind /\ new.run = old.run /\ new.kind = "chat"
    BY <1>2, <1>3, <1>9 DEF CancelCheck, Settle, At, Keeps, db
  <2>2. /\ ~Owns(old) /\ ~Early(old) /\ ~Decides(old)
        /\ new.pc # "idle" => ~Owns(new) /\ ~Saves(new) /\ ~Early(new)
    BY <2>1 DEF Owns, Executes, Saves, Early, Decides
  <2>3. Follows(new, old, s, c)
    <3>1. CASE new.pc = "idle"
      BY <1>i, <2>2, <3>1
    <3>2. CASE new.pc # "idle"
      BY <1>1, <1>4, <2>1, <2>2, <3>2, OutFollows
    <3> QED
      BY <3>1, <3>2
  <2> QED
    BY <1>a, <2>1, <2>3
<1>10. CASE Exit(f)
  <2>1. /\ old.pc = "exit" /\ UNCHANGED <<status, ckpt, apState, apRun>>
        /\ \/ new.pc = "idle"
           \/ new.pc = "settle" /\ new.kind = old.kind /\ new.run = old.run /\ new.kind = "sync"
           \/ new.pc = "linkRead" /\ new.kind = old.kind /\ new.run = old.run /\ new.kind = "attempt"
    BY <1>2, <1>3, <1>10 DEF Exit, At, Keeps, db
  <2>2. /\ ~Owns(old) /\ ~Early(old) /\ ~Decides(old)
        /\ new.pc # "idle" => ~Owns(new) /\ ~Early(new)
        /\ new.pc # "idle" /\ Saves(new) => Saves(old)
    BY <2>1 DEF Owns, Executes, Saves, Early, Decides
  <2>3. Follows(new, old, s, c)
    <3>1. CASE new.pc = "idle"
      BY <1>i, <2>2, <3>1
    <3>2. CASE new.pc # "idle"
      <4>1. Saves(new) => s \in Terminal \/ c # "none"
        BY <1>4, <2>2, <3>2 DEF Passes
      <4> QED
        BY <1>1, <1>4, <2>1, <2>2, <3>2, <4>1, OutFollows
    <3> QED
      BY <3>1, <3>2
  <2> QED
    BY <1>a, <2>1, <2>3
<1>11. CASE LinkRead(f)
  <2>1. /\ old.pc = "linkRead" /\ UNCHANGED <<status, ckpt, apState, apRun>>
        /\ new.pc = "linkWrite" /\ new.kind = old.kind /\ new.run = old.run /\ new.ck = c
        /\ old.kind = "attempt"
    BY <1>1, <1>11 DEF LinkRead, At, db, MakerInv, FlowState
  <2>2. /\ ~Owns(old) /\ ~Early(old) /\ ~Decides(old) /\ Saves(old)
        /\ ~Owns(new) /\ ~Early(new) /\ ~Saves(new)
    BY <2>1 DEF Owns, Executes, Saves, Early, Decides
  <2>3. Passes(new, s, c)
    BY <1>4, <2>1, <2>2 DEF Passes
  <2> QED
    BY <1>a, <2>1, <2>2, <2>3 DEF Follows
<1>12. CASE LinkWrite(f)
  <2>1. /\ old.pc = "linkWrite" /\ UNCHANGED <<status, apState, apRun>> /\ new.pc = "idle"
        /\ ckpt' = [ckpt EXCEPT ![flow[f].run] = old.ck]
    BY <1>3, <1>12 DEF LinkWrite, At
  <2>2. old.ck # "none" \/ s \in Terminal
    BY <1>4, <2>1 DEF Passes
  <2>3. Follows(new, old, s, ckpt'[old.run])
    BY <2>1, RestingFlow DEF Follows, Owns, Executes, Early, Decides
  <2> QED
    BY <2>1, <2>2, <2>3, MoverFollows DEF Open
<1> QED
  BY <1>5, <1>6, <1>7, <1>8, <1>9, <1>10, <1>11, <1>12

(* The run row, and the acquisition: nobody else was moving the run.        *)
LEMMA MoverAcquires ==
  ASSUME IInv, MakerInv, MoverInv, faults = 0, faults' = 0, NEW f \in Flow, Advance(f),
         CreateRun(f) \/ Acquire(f) \/ AcquireFault(f)
  PROVE  MoverInv'
<1>1. /\ flow[f] \in FlowState /\ flow'[f] \in FlowState /\ flow[f].run \in Run /\ RecInv(flow[f])
      /\ flow \in [Flow -> FlowState] /\ status \in [Run -> Status \cup {"absent"}]
      /\ UNCHANGED todo /\ \A g \in Flow \ {f} : flow'[g] = flow[g]
  BY OneFlowSteps DEF IInv, TypeOK
<1>2. /\ \A pc : /\ Keeps(Placed(flow[f], pc), flow[f]) /\ Placed(flow[f], pc).pc = pc
                 /\ Placed(flow[f], pc).why = flow[f].why
      /\ Keeps(Returned(flow[f]), flow[f]) /\ Returned(flow[f]).pc \in {"settle", "exit"}
  BY <1>1, RecordFields
<1>3. /\ \A pc : Goto(f, pc) => flow'[f] = Placed(flow[f], pc)
      /\ ~Fault
  BY <1>1, GotoPlaces DEF Fault
<1>4. Passes(flow[f], status[flow[f].run], ckpt[flow[f].run])
  BY DEF MoverInv
<1>5. PICK r \in Run : flow[f].run = r
  BY <1>1
<1> DEFINE old == flow[f]  new == flow'[f]
(* What a new status asks of the step: MoverStep, with approvals untouched. *)
<1>a. ASSUME NEW t, status' = [status EXCEPT ![r] = t], UNCHANGED <<ckpt, apState, apRun>>,
             status[r] \notin Terminal, t \in {"created", "running"},
             \A g \in Flow \ {f} : flow[g].run = r => ~Owns(flow[g]) /\ ~Early(flow[g]),
             new.run = r, Passes(new, t, ckpt[r]),
             t = "running" => Owns(new), t = "created" => Early(new)
      PROVE  MoverInv'
  <2>1. status'[r] = t /\ \A q \in Run \ {r} : status'[q] = status[q]
    BY <1>1, <1>a
  <2>2. Stand(r)
    BY <1>a, <2>1 DEF Stand, Open
  <2>3. HasMover(r)'
    <3>1. \E g \in Flow : (t = "running" => Owns(flow'[g])) /\ (t = "created" => Early(flow'[g]))
                           /\ flow'[g].run = r
      BY <1>a
    <3> QED
      BY <1>a, <2>1, <3>1 DEF HasMover, Owns, Early, Executes, Creates
  <2> QED
    BY <1>1, <1>5, <1>a, <2>1, <2>2, <2>3, MoverStep
<1>6. CASE CreateRun(f)
  <2>1. /\ old.pc = "newRun" /\ new.pc = "userMsg" /\ Keeps(new, old)
        /\ status' = [status EXCEPT ![r] = "created"] /\ UNCHANGED <<ckpt, apState, apRun>>
    BY <1>2, <1>3, <1>5, <1>6 DEF CreateRun, At
  <2>2. status[r] = "absent" /\ Creates(old)
    BY <1>1, <1>5, <2>1 DEF RecInv, Creates
  <2>3. \A g \in Flow \ {f} : flow[g].run # r
    BY <1>5, <2>1 DEF IInv, FlowInv, At
  <2>4. Early(new) /\ ~Owns(new) /\ ~Saves(new) /\ new.run = r
    BY <1>5, <2>1, <2>2 DEF Early, Creates, Keeps, Owns, Executes, Saves
  <2>5. Passes(new, "created", ckpt[r])
    BY <2>1, <2>4 DEF Passes
  <2>6. "absent" \notin Terminal
    BY DEF Terminal
  <2> QED
    BY <1>a, <2>1, <2>2, <2>3, <2>4, <2>5, <2>6
<1>7. CASE Acquire(f)
  <2>1. old.pc = "acquire" /\ UNCHANGED <<ckpt, apState, apRun>>
    BY <1>7 DEF Acquire, At
  <2>2. /\ old.seen \in Expected(old)
        /\ Creates(old) \/ old.kind \in {"approve", "rejCont", "resume"}
    BY <1>1, <2>1 DEF RecInv, MakerInv, At
  <2>3. CASE status[r] = old.seen /\ status' = [status EXCEPT ![r] = "running"] /\ Goto(f, "build")
    <3>1. new.pc = "build" /\ Keeps(new, old)
      BY <1>2, <1>3, <2>3
    <3>2. status[r] \notin Terminal \cup {"running"}
      BY <2>2, <2>3 DEF Expected, Terminal
    <3>3. ASSUME NEW g \in Flow \ {f}, flow[g].run = r PROVE ~Owns(flow[g]) /\ ~Early(flow[g])
      <4>1. Passes(flow[g], status[r], ckpt[r])
        BY <3>3 DEF MoverInv
      <4>2. ~Owns(flow[g])
        BY <3>2, <4>1 DEF Passes
      <4>3. Early(flow[g]) => Creates(old) /\ Creates(flow[g])
        BY <2>2, <2>3, <3>2, <4>1 DEF Passes, Early, Expected
      <4> QED
        BY <1>5, <3>3, <4>2, <4>3 DEF MakerInv
    <3>4. Owns(new) /\ ~Saves(new) /\ ~Early(new) /\ new.run = r
      BY <1>5, <3>1 DEF Owns, Executes, Saves, Early, Keeps
    <3>5. Passes(new, "running", ckpt[r])
      BY <3>1, <3>4 DEF Passes
    <3> QED
      BY <1>a, <2>1, <2>3, <3>2, <3>3, <3>4, <3>5
  <2>4. CASE status[r] # old.seen /\ new = Returned(old) /\ UNCHANGED status
    <3>1. new.pc \in {"settle", "exit"} /\ new.kind = old.kind /\ new.run = old.run
      BY <1>2, <2>4 DEF Keeps
    <3>2. /\ ~Owns(old) /\ ~Owns(new) /\ ~Early(new)
          /\ Early(old) => status[r] \in Terminal
          /\ status[r] = "waiting_approval" => ~Decides(old)
      <4>1. Early(old) => old.seen = "created" /\ Creates(old)
        BY <2>1, <2>2 DEF Early, Creates, Expected, Sync
      <4>2. Decides(old) => old.seen = "waiting_approval"
        BY <2>1, <2>2 DEF Decides, Expected
      <4>3. ~Owns(old) /\ ~Owns(new) /\ ~Early(new)
        BY <2>1, <3>1 DEF Owns, Executes, Early
      <4> QED
        BY <1>4, <1>5, <2>4, <4>1, <4>2, <4>3 DEF Passes
    <3>3. Saves(new) => status[r] \in Terminal
      BY <2>1, <3>1, <3>2 DEF Saves, Executes, Early, Creates, Sync
    <3>4. Follows(new, old, status[old.run], ckpt[old.run])
      BY <1>1, <1>4, <1>5, <3>1, <3>2, <3>3, OutFollows
    <3> QED
      BY <2>1, <2>4, <3>4, MoverFollows DEF Open
  <2> QED
    BY <1>1, <1>5, <1>7, <2>3, <2>4 DEF Acquire
<1> QED
  BY <1>3, <1>6, <1>7 DEF AcquireFault

(* Asking for an approval: the run waits from the commit that opens it.     *)
LEMMA MoverRequests ==
  ASSUME IInv, MakerInv, MoverInv, faults = 0, faults' = 0, NEW f \in Flow, Advance(f),
         RequestRead(f) \/ RequestCommit(f)
  PROVE  MoverInv'
<1>1. /\ flow[f] \in FlowState /\ flow'[f] \in FlowState /\ flow[f].run \in Run /\ RecInv(flow[f])
      /\ flow \in [Flow -> FlowState] /\ status \in [Run -> Status \cup {"absent"}]
      /\ apState \in [Approval -> {"absent", "frozen", "pending", "due", "approved", "rejected", "expired"}]
      /\ UNCHANGED todo /\ \A g \in Flow \ {f} : flow'[g] = flow[g]
  BY OneFlowSteps DEF IInv, TypeOK
<1>2. /\ Keeps(Returned(flow[f]), flow[f]) /\ Returned(flow[f]).pc \in {"settle", "exit"}
      /\ Keeps(TailThrown(flow[f]), flow[f]) /\ TailThrown(flow[f]).pc \in {"catch", "unres", "lastCatch"}
  BY <1>1, RecordFields
<1>3. flow[f].kind = "attempt" => TailThrown(flow[f]).pc = "catch"
  BY <1>1 DEF TailThrown, Sync, FlowState
<1>4. Passes(flow[f], status[flow[f].run], ckpt[flow[f].run])
  BY DEF MoverInv
<1>5. PICK r \in Run : flow[f].run = r
  BY <1>1
<1>f. ~Fault
  BY DEF Fault
<1> DEFINE old == flow[f]  new == flow'[f]
<1>6. old.pc \in {"reqRead", "reqCommit"} /\ Owns(old) /\ Saves(old) /\ ~Early(old) /\ ~Decides(old)
  BY DEF RequestRead, RequestCommit, At, Owns, Executes, Saves, Early, Decides
<1>7. status[r] \in {"running"} \cup Terminal /\ (status[r] \in Terminal \/ ckpt[r] # "none")
  BY <1>4, <1>5, <1>6 DEF Passes
<1>8. CASE RequestRead(f)
  <2>1. UNCHANGED <<status, ckpt, apState, apRun>>
    BY <1>8 DEF RequestRead, db
  <2>2. "waiting_approval" \in Legal("running")
    BY DEF Legal
  <2>3. new.pc = "reqCommit" /\ new.kind = old.kind /\ new.run = old.run
    BY <1>1, <1>5, <1>7, <1>8, <2>2 DEF RequestRead, FlowState
  <2>4. Owns(new)
    BY <2>3 DEF Owns, Executes
  <2>5. Follows(new, old, status[old.run], ckpt[old.run])
    BY <1>1, <1>4, <1>6, <2>3, <2>4, LoopFollows
  <2> QED
    BY <2>1, <2>5, MoverFollows DEF Open
<1>9. CASE RequestCommit(f)
  <2> DEFINE s == old.seen  a == old.ap
  <2>1. /\ old.pc = "reqCommit" /\ UNCHANGED <<ckpt, apRun>>
    BY <1>9 DEF RequestCommit, At
  <2>2. /\ a \in Approval /\ apRun[a] = r
        /\ s = "running" \/ (s \in Terminal /\ status[r] \in Terminal)
    BY <1>1, <1>5, <2>1 DEF RecInv
  <2>3. CASE /\ s \in Terminal \cup {"waiting_approval"} /\ UNCHANGED status
             /\ apState' = [apState EXCEPT ![a] = "pending"] /\ new = Returned(old)
    <3>1. new.pc \in {"settle", "exit"} /\ new.kind = old.kind /\ new.run = old.run
      BY <1>2, <2>3 DEF Keeps
    <3>2. status[r] \in Terminal
      BY <2>2, <2>3 DEF Terminal
    <3>3. ~Owns(new) /\ ~Early(new)
      BY <3>1 DEF Owns, Executes, Early
    <3>4. Follows(new, old, status[old.run], ckpt[old.run])
      BY <1>1, <1>4, <1>5, <1>6, <3>1, <3>2, <3>3, OutFollows
    <3>5. \A b \in Approval : Open(b) => apState'[b] \in {"pending", "due"} /\ apRun'[b] = apRun[b]
      BY <1>1, <2>1, <2>2, <2>3 DEF Open
    <3> QED
      BY <2>1, <2>3, <3>4, <3>5, MoverFollows
  <2>4. CASE /\ s \notin Terminal \cup {"waiting_approval"} /\ status[r] = s
             /\ status' = [status EXCEPT ![r] = "waiting_approval"]
             /\ apState' = [apState EXCEPT ![a] = "pending"] /\ new = Returned(old)
    <3>1. new.pc \in {"settle", "exit"} /\ new.kind = old.kind /\ new.run = r
      BY <1>2, <1>5, <2>4 DEF Keeps
    <3>2. /\ status[r] = "running" /\ ckpt[r] # "none" /\ status[r] \notin Terminal
          /\ status'[r] = "waiting_approval" /\ \A q \in Run \ {r} : status'[q] = status[q]
      BY <1>1, <1>7, <2>2, <2>4 DEF Terminal
    <3>3. ASSUME NEW g \in Flow \ {f}, flow[g].run = r PROVE ~Owns(flow[g]) /\ ~Early(flow[g])
      <4>1. Passes(flow[g], status[r], ckpt[r])
        BY <3>3 DEF MoverInv
      <4>2. ~Early(flow[g])
        BY <3>2, <4>1 DEF Passes, Terminal
      <4>3. ~Owns(flow[g])
        BY <1>5, <1>6, <3>3 DEF MoverInv
      <4> QED
        BY <4>2, <4>3
    <3>4. ~Owns(new) /\ ~Early(new) /\ ~Decides(new) /\ new.pc \notin {"commit", "linkWrite", "mark", "unres"}
      BY <3>1 DEF Owns, Executes, Early, Decides
    <3>5. Passes(new, status'[r], ckpt'[r])
      BY <2>1, <3>2, <3>4 DEF Passes
    <3>6. apState'[a] = "pending" /\ \A b \in Approval \ {a} : apState'[b] = apState[b]
      BY <1>1, <2>2, <2>4
    <3>7. Stand(r)
      BY <2>1, <2>2, <3>2, <3>6 DEF Stand, Open
    <3>8. HasMover(r)'
      <4>1. a \in OpenOf(r)'
        BY <2>1, <2>2, <3>6 DEF OpenOf, Open
      <4> QED
        BY <3>2, <4>1 DEF HasMover
    <3> QED
      BY <1>1, <1>5, <2>1, <3>1, <3>2, <3>3, <3>4, <3>5, <3>7, <3>8, MoverStep
  <2>5. CASE /\ s \notin Terminal \cup {"waiting_approval"} /\ status[r] # s
             /\ new = TailThrown(old) /\ UNCHANGED <<status, apState>>
    <3>1. /\ new.pc \in {"catch", "unres", "lastCatch"} /\ new.kind = old.kind /\ new.run = old.run
          /\ new.kind = "attempt" => new.pc = "catch"
      BY <1>2, <1>3, <2>5 DEF Keeps
    <3>2. status[r] \in Terminal
      BY <1>7, <2>2, <2>5
    <3>3. ~Saves(new) /\ ~Early(new) /\ (new.pc = "catch" => Owns(new)) /\ (new.pc # "catch" => ~Owns(new))
      BY <3>1 DEF Owns, Executes, Early, Saves
    <3>4. Follows(new, old, status[old.run], ckpt[old.run])
      <4>1. CASE new.pc = "catch"
        BY <1>1, <1>4, <1>6, <3>1, <3>3, <4>1, LoopFollows
      <4>2. CASE new.pc # "catch"
        BY <1>1, <1>4, <1>5, <1>6, <3>1, <3>2, <3>3, <4>2, OutFollows
      <4> QED
        BY <4>1, <4>2
    <3> QED
      BY <2>1, <2>5, <3>4, MoverFollows DEF Open
  <2> QED
    BY <1>1, <1>5, <1>9, <1>f, <2>3, <2>4, <2>5 DEF RequestCommit
<1> QED
  BY <1>8, <1>9

(* Where a status write leaves its flow.                                    *)
LEMMA MarkLeaves ==
  ASSUME NEW f \in Flow, flow \in [Flow -> FlowState]
  PROVE  /\ AfterMark(f) =>
              \/ flow'[f].pc = "idle"
              \/ /\ flow'[f].kind = flow[f].kind /\ flow'[f].run = flow[f].run
                 /\ flow'[f].pc \in {"cancelCheck", "settle", "exit"}
                 /\ ~(flow[f].kind = "attempt" /\ flow[f].why = "lastResort")
         /\ MarkThrown(f) =>
              \/ flow'[f].pc = "idle"
              \/ /\ flow'[f].kind = flow[f].kind /\ flow'[f].run = flow[f].run
                 /\ \/ /\ flow'[f].pc \in {"catch", "unres", "lastCatch"}
                       /\ flow'[f].pc = "catch" => flow[f].why \in {"finish", "ask"}
                       /\ flow[f].kind = "attempt" => flow'[f].pc # "unres"
                    \/ /\ flow'[f].pc = "exit"
                       /\ flow[f].why \notin {"finish", "ask", "error"}
                       /\ ~(flow[f].kind = "attempt" /\ flow[f].why = "lastResort")
<1>1. flow[f] \in FlowState
  OBVIOUS
<1>2. /\ \A pc : Keeps(Placed(flow[f], pc), flow[f]) /\ Placed(flow[f], pc).pc = pc
      /\ Keeps(Rethrown(flow[f]), flow[f]) /\ Rethrown(flow[f]).pc \in {"unres", "lastCatch"}
      /\ Keeps(TailThrown(flow[f]), flow[f])
      /\ TailThrown(flow[f]).pc \in {"catch", "unres", "lastCatch"}
      /\ Keeps(Returned(flow[f]), flow[f]) /\ Returned(flow[f]).pc \in {"settle", "exit"}
  BY <1>1, RecordFields
<1>3. flow[f].kind = "attempt" =>
        TailThrown(flow[f]).pc # "unres" /\ Rethrown(flow[f]).pc # "unres"
  BY <1>1 DEF TailThrown, Rethrown, Sync, FlowState
<1>4. ASSUME AfterMark(f)
      PROVE  \/ flow'[f] = Idle
             \/ /\ flow'[f] \in {Returned(flow[f]), Placed(flow[f], "cancelCheck"), Placed(flow[f], "exit")}
                /\ ~(flow[f].kind = "attempt" /\ flow[f].why = "lastResort")
  <2>1. flow'[f] \in {Idle, Returned(flow[f]), Placed(flow[f], "cancelCheck"),
                      Placed(flow[f], "exit")}
    BY <1>4, GotoPlaces DEF AfterMark
  <2>2. ASSUME flow[f].kind = "attempt", flow[f].why = "lastResort" PROVE Done(f)
    <3>1. flow[f].kind \in Sync
      BY <2>2 DEF Sync
    <3> QED
      BY <1>4, <2>2, <3>1 DEF AfterMark
  <2> QED
    BY <2>1, <2>2, GotoPlaces
<1>5. ASSUME MarkThrown(f)
      PROVE  \/ flow'[f] = Idle
             \/ flow'[f] = TailThrown(flow[f]) /\ flow[f].why \in {"finish", "ask"}
             \/ flow'[f] = Rethrown(flow[f])
             \/ /\ flow'[f] = Placed(flow[f], "exit") /\ flow[f].why \notin {"finish", "ask", "error"}
                /\ ~(flow[f].kind = "attempt" /\ flow[f].why = "lastResort")
  BY <1>5 DEF MarkThrown, Placed, Sync
<1>6. Idle.pc = "idle"
  BY DEF Idle
<1> QED
  BY <1>2, <1>3, <1>4, <1>5, <1>6 DEF Keeps

(* A status write that returns, or throws because the run moved.            *)
LEMMA MoverMarks ==
  ASSUME IInv, MakerInv, MoverInv, faults = 0, faults' = 0, NEW f \in Flow, Advance(f),
         MarkRead(f) \/ MarkCommit(f) \/ MarkFault(f)
  PROVE  MoverInv'
<1>1. /\ flow[f] \in FlowState /\ flow'[f] \in FlowState /\ flow[f].run \in Run /\ RecInv(flow[f])
      /\ flow \in [Flow -> FlowState] /\ status \in [Run -> Status \cup {"absent"}]
      /\ UNCHANGED todo /\ \A g \in Flow \ {f} : flow'[g] = flow[g]
  BY OneFlowSteps DEF IInv, TypeOK
<1>4. Passes(flow[f], status[flow[f].run], ckpt[flow[f].run])
  BY DEF MoverInv
<1>5. PICK r \in Run : flow[f].run = r
  BY <1>1
<1>f. ~Fault
  BY DEF Fault
<1> DEFINE old == flow[f]  new == flow'[f]  s == status[r]  goal == old.goal
<1>6. /\ old.pc \in {"mark", "commit"} /\ ~Early(old) /\ s # "absent"
      /\ UNCHANGED <<ckpt, apState, apRun>> /\ goal \in GoalsOf(old.why)
      /\ Owns(old) <=> old.why \in {"finish", "ask", "error"}
      /\ Decides(old) <=> old.why \in {"rejCancel", "rejInterrupt"}
      /\ Saves(old) <=> old.why \in {"finish", "ask"}
  <2>1. old.pc \in {"mark", "commit"} /\ UNCHANGED <<ckpt, apState, apRun>>
    BY DEF MarkRead, MarkCommit, MarkFault, At, db
  <2> QED
    BY <1>1, <1>5, <2>1 DEF Owns, Executes, Saves, Early, Decides, RecInv
<1>7. Owns(old) => s \in {"running"} \cup Terminal
  BY <1>4, <1>5 DEF Passes
<1>8. Decides(old) /\ s \notin Terminal => s = "waiting_approval"
  <2>1. Decides(old) => f \in DecidersOf(r)
    BY <1>5 DEF DecidersOf, Deciding
  <2>2. s \notin Terminal /\ DecidersOf(r) # {} => s = "waiting_approval"
    BY DEF IInv, OneOpenDecision
  <2> QED
    BY <2>1, <2>2
<1>a. ASSUME UNCHANGED status, Follows(new, old, s, ckpt[r]) PROVE MoverInv'
  BY <1>1, <1>5, <1>6, <1>a, MoverFollows DEF Open
(* A flow that leaves without a write: its run has moved on.                *)
<1>9. ASSUME \/ new.pc = "idle"
             \/ /\ new.kind = old.kind /\ new.run = old.run
                /\ new.pc \in {"cancelCheck", "settle", "exit", "catch", "unres", "lastCatch"}
                /\ new.pc = "catch" => Owns(old)
                /\ new.kind = "attempt" => new.pc # "unres"
                /\ new.kind = "attempt" /\ new.pc = "exit" => s \in Terminal \/ ckpt[r] # "none",
             Owns(old) => s \in Terminal, ~(Decides(old) /\ s = "waiting_approval")
      PROVE  Follows(new, old, s, ckpt[r])
  <2>1. CASE new.pc = "idle"
    BY <1>6, <1>9, <2>1, RestingFlow DEF Follows, Terminal
  <2>2. CASE new.pc # "idle"
    <3>1. /\ ~Early(new) /\ (new.pc = "catch" => Owns(new)) /\ (new.pc # "catch" => ~Owns(new))
          /\ Saves(new) => new.kind = "attempt" /\ new.pc = "exit"
      BY <1>9, <2>2 DEF Owns, Executes, Early, Saves
    <3>2. CASE new.pc = "catch"
      BY <1>1, <1>4, <1>5, <1>9, <3>1, <3>2, LoopFollows
    <3>3. CASE new.pc # "catch"
      BY <1>1, <1>4, <1>5, <1>6, <1>9, <2>2, <3>1, <3>3, OutFollows
    <3> QED
      BY <3>2, <3>3
  <2> QED
    BY <2>1, <2>2
<1>t. old.kind = "attempt" => old.why \in {"finish", "ask", "error", "lastResort"}
  BY <1>4, <1>6 DEF Passes
<1>10. CASE MarkRead(f)
  <2>1. old.pc = "mark" /\ UNCHANGED status
    BY <1>10 DEF MarkRead, At, db
  <2>2. CASE s \in Terminal \cup {goal} /\ AfterMark(f)
    <3>1. goal \notin {"running", "waiting_approval"}
      BY <1>6 DEF GoalsOf
    <3>2. (Owns(old) => s \in Terminal) /\ ~(Decides(old) /\ s = "waiting_approval")
      BY <1>7, <2>2, <3>1 DEF Terminal
    <3>3. \/ new.pc = "idle"
          \/ /\ new.kind = old.kind /\ new.run = old.run /\ new.pc \in {"cancelCheck", "settle", "exit"}
             /\ ~(old.kind = "attempt" /\ old.why = "lastResort")
      BY <1>1, <2>2, MarkLeaves
    <3>4. Follows(new, old, s, ckpt[r])
      BY <1>6, <1>9, <1>t, <3>2, <3>3
    <3> QED
      BY <1>a, <2>1, <3>4
  <2>3. CASE /\ s \notin Terminal \cup {goal} /\ goal \in Legal(s)
             /\ flow' = [flow EXCEPT ![f].pc = "commit", ![f].seen = s]
    <3>1. new.pc = "commit" /\ new.seen = s /\ new.kind = old.kind /\ new.run = old.run /\ new.why = old.why
      BY <1>1, <2>3 DEF FlowState
    <3>2. /\ Owns(new) <=> Owns(old)
          /\ Saves(new) <=> Saves(old)
          /\ Decides(new) <=> Decides(old)
          /\ ~Early(new)
      BY <1>6, <3>1 DEF Owns, Executes, Saves, Early, Decides
    <3>3. Passes(new, s, ckpt[r])
      BY <1>4, <1>5, <1>6, <1>7, <1>8, <1>t, <2>3, <3>1, <3>2 DEF Passes
    <3>4. Follows(new, old, s, ckpt[r])
      BY <1>6, <3>1, <3>2, <3>3 DEF Follows
    <3> QED
      BY <1>a, <2>1, <3>4
  <2>4. CASE s \notin Terminal \cup {goal} /\ goal \notin Legal(s) /\ MarkThrown(f)
    <3>1. ~Owns(old) /\ ~Decides(old)
      <4>1. Owns(old) => s = "running"
        BY <1>7, <2>4
      <4>2. Decides(old) => s = "waiting_approval"
        BY <1>8, <2>4
      <4> QED
        BY <1>6, <2>4, <4>1, <4>2 DEF GoalsOf, Legal
    <3>2. Follows(new, old, s, ckpt[r])
      BY <1>1, <1>6, <1>9, <1>t, <2>4, <3>1, MarkLeaves
    <3> QED
      BY <1>a, <2>1, <3>2
  <2> QED
    BY <1>5, <1>10, <2>2, <2>3, <2>4 DEF MarkRead
<1>11. CASE MarkCommit(f)
  <2>1. old.pc = "commit" /\ goal \in Legal(old.seen)
    BY <1>1, <1>11 DEF MarkCommit, At, RecInv
  <2>2. /\ Owns(old) => old.seen = "running"
        /\ Decides(old) => old.seen = "waiting_approval"
    BY <1>4, <1>6, <2>1 DEF Passes
  <2>3. CASE s = old.seen /\ status' = [status EXCEPT ![r] = goal] /\ AfterMark(f)
    <3>1. status'[r] = goal /\ \A q \in Run \ {r} : status'[q] = status[q]
      BY <1>1, <2>3
    <3>2. s \notin Terminal
      BY <2>1, <2>3 DEF Legal, Terminal
    <3>3. Stand(r)
      BY <1>6, <3>1, <3>2 DEF Stand, Open
    <3>4. /\ goal \in Terminal \cup {"waiting_user", "interrupted"}
          /\ goal = "waiting_user" => old.why = "ask"
          /\ goal = "interrupted" => old.why = "rejInterrupt"
      BY <1>6 DEF GoalsOf, Terminal
    <3>5. \/ goal \in Terminal
          \/ \A g \in Flow \ {f} : flow[g].run = r => ~Owns(flow[g]) /\ ~Early(flow[g])
      <4>1. SUFFICES ASSUME goal \notin Terminal, NEW g \in Flow \ {f}, flow[g].run = r
                     PROVE  ~Owns(flow[g]) /\ ~Early(flow[g])
        OBVIOUS
      <4>2. Passes(flow[g], s, ckpt[r])
        BY <4>1 DEF MoverInv
      <4>3. CASE old.why = "ask"
        <5>1. s = "running" /\ Owns(old)
          BY <1>6, <2>2, <2>3, <4>3
        <5>2. ~Owns(flow[g])
          BY <1>5, <4>1, <5>1 DEF MoverInv
        <5> QED
          BY <3>2, <4>2, <5>1, <5>2 DEF Passes
      <4>4. CASE old.why = "rejInterrupt"
        <5>1. s = "waiting_approval"
          BY <1>6, <2>2, <2>3, <4>4
        <5> QED
          BY <3>2, <4>2, <5>1 DEF Passes
      <4> QED
        BY <3>4, <4>1, <4>3, <4>4
    <3>6. goal = "waiting_user" => ckpt[r] # "none"
      BY <1>4, <1>5, <1>6, <3>2, <3>4 DEF Passes
    <3>7. \/ new.pc = "idle"
          \/ /\ new.kind = old.kind /\ new.run = old.run /\ new.pc \in {"cancelCheck", "settle", "exit"}
             /\ ~(old.kind = "attempt" /\ old.why = "lastResort")
      BY <1>1, <2>3, MarkLeaves
    <3>8. new.pc = "idle" \/ Passes(new, goal, ckpt[r])
      <4>1. SUFFICES ASSUME new.pc # "idle" PROVE Passes(new, goal, ckpt[r])
        OBVIOUS
      <4>2. ~Owns(new) /\ ~Early(new) /\ ~Decides(new) /\ (Saves(new) => old.kind = "attempt")
        BY <3>7, <4>1 DEF Owns, Executes, Early, Decides, Saves
      <4>3. old.kind = "attempt" => goal \in Terminal \/ goal = "waiting_user"
        BY <1>t, <3>4
      <4> QED
        BY <3>6, <3>7, <4>1, <4>2, <4>3 DEF Passes
    <3>9. ~Owns(new)
      BY <3>7, RestingFlow DEF Owns, Executes
    <3>10. HasMover(r)'
      BY <3>1, <3>4 DEF HasMover, Terminal
    <3>11. goal \in {"waiting_approval", "waiting_user"} => ckpt'[r] # "none"
      BY <1>6, <3>4, <3>6 DEF Terminal
    <3> QED
      BY <1>1, <1>5, <1>6, <3>1, <3>3, <3>5, <3>7, <3>8, <3>9, <3>10, <3>11, MoverStep
  <2>4. CASE s # old.seen /\ MarkThrown(f) /\ UNCHANGED status
    <3>1. (Owns(old) => s \in Terminal) /\ ~(Decides(old) /\ s = "waiting_approval")
      BY <1>7, <2>2, <2>4
    <3>2. Follows(new, old, s, ckpt[r])
      BY <1>1, <1>6, <1>9, <1>t, <2>4, <3>1, MarkLeaves
    <3> QED
      BY <1>a, <2>4, <3>2
  <2> QED
    BY <1>5, <1>11, <2>3, <2>4 DEF MarkCommit
<1> QED
  BY <1>f, <1>10, <1>11 DEF MarkFault

LEMMA MoverAdvances ==
  ASSUME IInv, MakerInv, MoverInv, faults = 0, faults' = 0, NEW f \in Flow, Advance(f)
  PROVE  MoverInv'
BY MoverLoops, MoverOutside, MoverAcquires, MoverRequests, MoverMarks DEF Advance

(* A command: the flow that begins was nobody's mover, and a decision has   *)
(* one from the moment the approval is closed.                              *)
LEMMA MoverCommands ==
  ASSUME IInv, MoverInv, faults = 0, NEW f \in Flow, Command(f)
  PROVE  MoverInv'
<1>1. /\ flow \in [Flow -> FlowState]
      /\ apState \in [Approval -> {"absent", "frozen", "pending", "due", "approved", "rejected", "expired"}]
      /\ apRun \in [Approval -> Run \cup {NoRun}]
  BY DEF IInv, TypeOK
<1>2. At(f, "idle") /\ \A g \in Flow \ {f} : flow'[g] = flow[g]
  BY CommandBegins
<1>3. ~Owns(flow[f]) /\ ~Early(flow[f]) /\ ~Decides(flow[f])
  BY <1>2, RestingFlow DEF At
<1>4. /\ ~Owns(flow'[f])
      /\ \A s, c : Passes(flow'[f], s, c)
  <2>1. \/ flow'[f].pc = "newRun"
        \/ flow'[f].pc = "enter" /\ flow'[f].kind \in {"approve", "rejCont"}
        \/ flow'[f].pc \in {"require", "unres"} /\ flow'[f].kind = "resume"
        \/ flow'[f].pc = "mark" /\ flow'[f].kind = "rejEnd"
           /\ flow'[f].why \in {"rejCancel", "rejInterrupt"}
        \/ flow'[f].pc = "mark" /\ flow'[f].kind = "cancel" /\ flow'[f].why = "cancel"
    BY CommandBegins
  <2>2. ~Owns(flow'[f]) /\ ~Early(flow'[f]) /\ ~Saves(flow'[f])
    BY <2>1 DEF Owns, Executes, Early, Saves
  <2> QED
    BY <2>1, <2>2 DEF Passes
(* A command that decides nothing leaves every run where it was.            *)
<1>a. ASSUME NEW r \in Run, flow'[f].run = r, UNCHANGED <<status, ckpt, apState, apRun, todo>>
      PROVE  MoverInv'
  <2>1. Stand(r)
    BY <1>a DEF Stand, Open
  <2>2. status'[r] \in {"waiting_approval", "waiting_user"} => ckpt'[r] # "none"
    BY <1>a DEF MoverInv
  <2>3. r \in todo \/ HasMover(r)'
    <3>1. SUFFICES ASSUME r \notin todo PROVE HasMover(r)'
      OBVIOUS
    <3>2. HasMover(r)
      BY <3>1 DEF MoverInv
    <3>3. ASSUME NEW g \in Flow, Owns(flow[g]) \/ Early(flow[g]) \/ Decides(flow[g])
          PROVE  flow'[g] = flow[g]
      BY <1>2, <1>3, <3>3
    <3>4. status[r] = "running" => \E g \in Flow : Owns(flow'[g]) /\ flow'[g].run = r
      BY <3>2, <3>3 DEF HasMover
    <3>5. status[r] = "created" => \E g \in Flow : Early(flow'[g]) /\ flow'[g].run = r
      BY <3>2, <3>3 DEF HasMover
    <3>6. status[r] = "waiting_approval" => (OpenOf(r) \cup DecidersOf(r) # {})'
      <4>1. (\E b \in Approval : Open(b) /\ apRun[b] = r) => OpenOf(r)' # {}
        BY <1>a DEF OpenOf, Open
      <4>2. (\E g \in Flow : Decides(flow[g]) /\ flow[g].run = r) => DecidersOf(r)' # {}
        BY <3>3 DEF DecidersOf, Deciding, Decides
      <4> QED
        BY <3>2, <4>1, <4>2 DEF HasMover, OpenOf, DecidersOf, Deciding
    <3> QED
      BY <1>a, <3>4, <3>5, <3>6 DEF HasMover, Owns, Early, Executes, Creates
  <2> QED
    BY <1>2, <1>4, <1>a, <2>1, <2>2, <2>3, MoverStep
<1>5. ASSUME NEW r \in Run, NEW kind, NewRun(f, r, kind) PROVE MoverInv'
  <2>1. flow'[f].run = r
    BY <1>1, <1>5 DEF NewRun, Idle
  <2> QED
    BY <1>5, <1>a, <2>1 DEF NewRun, db, daemon
<1>6. ASSUME NEW r \in Run, ResumeRun(f, r) PROVE MoverInv'
  <2>1. flow'[f].run = r
    BY <1>1, <1>6 DEF ResumeRun, Idle
  <2> QED
    BY <1>6, <1>a, <2>1 DEF ResumeRun, db, daemon
<1>7. ASSUME NEW r \in Run, CancelRun(f, r) PROVE MoverInv'
  <2>1. flow'[f].run = r
    BY <1>1, <1>7 DEF CancelRun, ToMark, Idle
  <2> QED
    BY <1>7, <1>a, <2>1 DEF CancelRun, db, daemon
<1>8. ASSUME NEW a \in Approval, Approve(f, a) \/ Reject(f, a) PROVE MoverInv'
  <2>1. /\ apState[a] = "pending" /\ UNCHANGED <<status, ckpt, apRun, todo>>
        /\ flow'[f].run = apRun[a] /\ \E v : apState' = [apState EXCEPT ![a] = v]
        /\ Decides(flow'[f])
    <3>1. /\ apState[a] = "pending" /\ UNCHANGED <<status, ckpt, apRun, daemon>>
          /\ flow'[f].run = apRun[a] /\ \E v : apState' = [apState EXCEPT ![a] = v]
          /\ \/ flow'[f].pc = "enter" /\ flow'[f].kind \in {"approve", "rejCont"}
             \/ /\ flow'[f].pc = "mark" /\ flow'[f].kind = "rejEnd"
                /\ flow'[f].why \in {"rejCancel", "rejInterrupt"}
      BY <1>8, DecisionStarts
    <3> QED
      BY <3>1 DEF Decides, daemon
  <2>2. apRun[a] \in Run
    BY <2>1 DEF IInv, ApprovalInv
  <2>3. PICK r \in Run : r = apRun[a]
    BY <2>2
  <2>4. \A b \in Approval \ {a} : apState'[b] = apState[b]
    BY <1>1, <2>1
  <2>5. Stand(r)
    BY <2>1, <2>3, <2>4 DEF Stand, Open
  <2>6. status'[r] \in {"waiting_approval", "waiting_user"} => ckpt'[r] # "none"
    BY <2>1 DEF MoverInv
  <2>7. r \in todo \/ HasMover(r)'
    <3>1. SUFFICES ASSUME r \notin todo PROVE HasMover(r)'
      OBVIOUS
    <3>2. HasMover(r)
      BY <3>1 DEF MoverInv
    <3>3. status[r] = "running" => \E g \in Flow : Owns(flow'[g]) /\ flow'[g].run = r
      BY <1>2, <1>3, <3>2 DEF HasMover
    <3>4. status[r] = "created" => \E g \in Flow : Early(flow'[g]) /\ flow'[g].run = r
      BY <1>2, <1>3, <3>2 DEF HasMover
    <3>5. f \in DecidersOf(r)'
      BY <2>1, <2>3 DEF DecidersOf, Deciding, Decides
    <3> QED
      BY <2>1, <3>3, <3>4, <3>5 DEF HasMover, Owns, Early, Executes, Creates
  <2> QED
    BY <1>2, <1>4, <2>1, <2>3, <2>5, <2>6, <2>7, MoverStep
<1> QED
  BY <1>5, <1>6, <1>7, <1>8 DEF Command, StartChat, RetryRun

(* The daemon: a timer, a crash, and the scan that gives every run it finds *)
(* an end or leaves it to somebody.                                         *)
LEMMA MoverDaemon ==
  ASSUME IInv, MoverInv, faults = 0, faults' = 0, Daemon \/ UNCHANGED vars
  PROVE  MoverInv'
<1>1. /\ flow \in [Flow -> FlowState] /\ status \in [Run -> Status \cup {"absent"}]
      /\ apState \in [Approval -> {"absent", "frozen", "pending", "due", "approved", "rejected", "expired"}]
      /\ todo \subseteq Run
  BY DEF IInv, TypeOK
<1>2. /\ \A g \in Flow : Passes(flow[g], status[flow[g].run], ckpt[flow[g].run])
      /\ \A g, h \in Flow :
           Owns(flow[g]) /\ Owns(flow[h]) /\ flow[g].run = flow[h].run => g = h
      /\ \A q \in Run : status[q] \in {"waiting_approval", "waiting_user"} => ckpt[q] # "none"
      /\ \A q \in Run \ todo : HasMover(q)
  BY DEF MoverInv
(* No flow moves, and statuses only end.                                    *)
<1>a. ASSUME UNCHANGED <<flow, ckpt, apRun>>, todo \ todo' \subseteq {q \in Run : HasMover(q)'},
             \A q \in Run : status'[q] = status[q] \/ status'[q] \in Terminal
                             \/ (phase # "up" /\ status'[q] = "interrupted"),
             \A b \in Approval : Open(b) =>
                 apState'[b] \in {"pending", "due"} \/ status'[apRun[b]] # "waiting_approval"
      PROVE  MoverInv'
  <2>1. ASSUME NEW g \in Flow PROVE Passes(flow[g], status'[flow[g].run], ckpt[flow[g].run])
    <3>1. CASE flow[g].pc = "idle"
      BY <3>1, RestingFlow
    <3>2. CASE flow[g].pc # "idle"
      <4>1. flow[g].run \in Run /\ phase = "up"
        BY <3>2 DEF IInv, FlowInv, RecInv, StartInv, At
      <4>2. status'[flow[g].run] \in {status[flow[g].run]} \cup Terminal
        BY <1>a, <4>1
      <4> QED
        BY <1>2, <4>2 DEF Passes
    <3> QED
      BY <3>1, <3>2
  <2>2. ASSUME NEW q \in Run, status'[q] \in {"waiting_approval", "waiting_user"} PROVE ckpt[q] # "none"
    <3>1. status'[q] = status[q]
      BY <1>a, <2>2 DEF Terminal
    <3> QED
      BY <1>2, <2>2, <3>1
  <2>3. ASSUME NEW q \in Run \ todo' PROVE HasMover(q)'
    <3>1. CASE q \in todo
      BY <1>a, <2>3, <3>1
    <3>2. CASE q \notin todo /\ status'[q] # status[q]
      BY <1>a, <3>2 DEF HasMover, Terminal
    <3>3. CASE q \notin todo /\ status'[q] = status[q]
      <4>1. HasMover(q)
        BY <1>2, <2>3, <3>3
      <4>2. status[q] = "waiting_approval" /\ OpenOf(q) # {} => OpenOf(q)' # {}
        BY <1>a, <3>3 DEF OpenOf, Open
      <4>3. DecidersOf(q) # {} => DecidersOf(q)' # {}
        BY <1>a DEF DecidersOf, Deciding, Decides
      <4>4. /\ status[q] = "running" => (\E g \in Flow : Owns(flow[g]) /\ flow[g].run = q)'
            /\ status[q] = "created" => (\E g \in Flow : Early(flow[g]) /\ flow[g].run = q)'
        BY <1>a, <4>1 DEF HasMover, Owns, Early, Executes, Creates
      <4> QED
        BY <3>3, <4>1, <4>2, <4>3, <4>4 DEF HasMover
    <3> QED
      BY <3>1, <3>2, <3>3
  <2>4. \A g \in Flow : Passes(flow[g], status[flow[g].run], ckpt[flow[g].run])'
    BY <1>a, <2>1 DEF Passes, Owns, Executes, Early, Creates, Decides, Saves
  <2>5. \A g, h \in Flow :
           (Owns(flow[g]) /\ Owns(flow[h]) /\ flow[g].run = flow[h].run)' => g = h
    BY <1>2, <1>a DEF Owns, Executes
  <2> QED
    BY <1>a, <2>2, <2>3, <2>4, <2>5 DEF MoverInv
<1>3. ASSUME NEW a \in Approval, Overdue(a) \/ Expire(a) PROVE MoverInv'
  <2>1. UNCHANGED <<flow, ckpt, apRun, todo>>
    BY <1>3 DEF Overdue, Expire, mem, daemon
  <2>2. CASE Overdue(a)
    BY <1>1, <1>a, <2>1, <2>2 DEF Overdue, Open
  <2>3. CASE Expire(a)
    <3>1. apRun[a] \in Run /\ apState[a] = "due"
      BY <2>3 DEF Expire, IInv, ApprovalInv
    <3>2. /\ \A b \in Approval \ {a} : apState'[b] = apState[b]
          /\ status'[apRun[a]] # "waiting_approval"
          /\ \A q \in Run : status'[q] = status[q] \/ status'[q] = "cancelled"
      BY <1>1, <2>3, <3>1 DEF Expire
    <3> QED
      BY <1>a, <2>1, <3>2 DEF Open, Terminal
  <2> QED
    BY <1>3, <2>2, <2>3
<1>4. ASSUME NEW r \in Run, Recover(r) PROVE MoverInv'
  <2>1. /\ UNCHANGED <<flow, ckpt, apRun, apState, phase>> /\ r \in todo /\ todo' = todo \ {r}
        /\ phase # "up" /\ \A q \in Run \ {r} : status'[q] = status[q]
    BY <1>1, <1>4 DEF Recover, mem, IInv, StartInv
  <2>2. \/ status'[r] \in {"failed", "interrupted"}
        \/ /\ status'[r] = status[r]
           /\ status[r] \in {"waiting_user", "interrupted"} \cup Terminal
              \/ \E a \in Approval : apRun[a] = r /\ apState[a] \in {"pending", "due"}
    BY <1>1, <1>4 DEF Recover
  <2>3. HasMover(r)'
    <3>1. CASE \E a \in Approval : apRun[a] = r /\ apState[a] \in {"pending", "due"}
      <4>1. OpenOf(r)' # {}
        BY <2>1, <3>1 DEF OpenOf, Open
      <4>2. status'[r] \notin {"running", "created"}
        BY <1>1, <1>4 DEF Recover, Terminal
      <4> QED
        BY <4>1, <4>2 DEF HasMover
    <3>2. CASE status'[r] \in {"failed", "interrupted", "waiting_user"} \cup Terminal
      BY <3>2 DEF HasMover, Terminal
    <3> QED
      BY <2>2, <3>1, <3>2
  <2>4. status'[r] = status[r] \/ status'[r] \in {"failed", "interrupted"}
    BY <2>2
  <2>5. todo \ todo' \subseteq {q \in Run : HasMover(q)'}
    <3>1. todo \ todo' = {r}
      BY <2>1
    <3> QED
      BY <2>3, <3>1
  <2> QED
    BY <1>a, <2>1, <2>4, <2>5 DEF Open, Terminal
<1>5. CASE Crash
  <2>1. /\ flow' = [g \in Flow |-> Idle] /\ UNCHANGED <<status, ckpt, apState, apRun>>
        /\ todo' = {r \in Run : status[r] # "absent"}
    BY <1>5 DEF Crash, db
  <2>2. \A g \in Flow : flow'[g].pc = "idle"
    BY <2>1 DEF Idle
  <2>3. \A g \in Flow : ~Owns(flow'[g]) /\ \A s, c : Passes(flow'[g], s, c)
    BY <2>2, RestingFlow
  <2>4. ASSUME NEW q \in Run \ todo' PROVE HasMover(q)'
    BY <2>1, <2>4 DEF HasMover
  <2>5. \A g \in Flow : Passes(flow[g], status[flow[g].run], ckpt[flow[g].run])'
    BY <2>3 DEF Passes, Owns, Executes, Early, Creates, Decides, Saves
  <2>6. \A g \in Flow : ~Owns(flow[g])'
    BY <2>3 DEF Owns, Executes
  <2> QED
    BY <1>2, <2>1, <2>4, <2>5, <2>6 DEF MoverInv
<1>6. ASSUME UNCHANGED <<flow, ckpt, apRun, apState, status, todo>> PROVE MoverInv'
  BY <1>6, <1>a DEF Open
<1>7. CASE ExpireScanDone \/ RecoveryDone \/ (\E r \in Run : StopChat(r)) \/ UNCHANGED vars
  BY <1>6, <1>7 DEF ExpireScanDone, RecoveryDone, StopChat, vars, db, mem, daemon
<1> QED
  BY <1>3, <1>4, <1>5, <1>7 DEF Daemon

LEMMA NextMoverInv == IInv /\ MakerInv /\ MoverInv /\ [Next]_vars => MoverInv'
<1> SUFFICES ASSUME IInv, MakerInv, MoverInv, [Next]_vars, faults' = 0 PROVE MoverInv'
  BY DEF MoverInv
<1>1. faults = 0
  <2>1. faults \in Nat /\ faults' \in {faults, faults + 1}
    <3>1. faults \in 0 .. MaxFault
      BY DEF IInv, TypeOK
    <3>2. ASSUME NEW f \in Flow, Command(f) PROVE UNCHANGED faults
      <4>1. ASSUME NEW a \in Approval, Approve(f, a) \/ Reject(f, a) PROVE UNCHANGED faults
        BY <4>1, DecisionStarts
      <4> QED
        BY <3>2, <4>1 DEF Command, StartChat, RetryRun, NewRun, ResumeRun, CancelRun
    <3>3. ASSUME NEW f \in Flow, Advance(f) PROVE faults' \in {faults, faults + 1}
      BY <3>3 DEF Advance, CreateRun, SaveUserMessage, Enter, Require, Acquire, AcquireFault,
         BuildContext, RunApprovedTools, PersistCheckpoint, LoopHead, TurnContinues,
         TurnAnswers, TurnAsksUser, TurnCheckpoint, TurnNeedsApproval, TurnFails, Finish,
         AskUser, FreezeBatch, RequestRead, RequestCommit, CatchError, MarkRead, MarkCommit,
         MarkFault, LastResort, Unresumable, CancelCheck, Settle, Exit, LinkRead, LinkWrite, Fault
    <3>4. Daemon \/ UNCHANGED vars => faults' \in {faults, faults + 1}
      BY DEF Daemon, Overdue, Expire, StopChat, Recover, Crash, ExpireScanDone, RecoveryDone, Fault, vars
    <3> QED
      BY <3>1, <3>2, <3>3, <3>4 DEF Next
  <2> QED
    BY <2>1
<1> QED
  BY <1>1, MoverAdvances, MoverCommands, MoverDaemon DEF Next

LEMMA InitMoverInv == Init => MoverInv
<1> SUFFICES ASSUME Init PROVE MoverInv
  OBVIOUS
<1>1. \A f \in Flow : flow[f].pc = "idle"
  BY DEF Init, Idle
<1>2. \A f \in Flow : ~Owns(flow[f]) /\ \A s, c : Passes(flow[f], s, c)
  BY <1>1, RestingFlow
<1> QED
  BY <1>2 DEF Init, MoverInv, HasMover

(* While the daemon serves and no call has failed, whatever was raced,      *)
(* stopped, retried or cut off by a crash: a running run has a flow that    *)
(* executes it or is about to fail it, a created one its chat, a waiting    *)
(* one an open approval or a decision on its way.                           *)
THEOREM NoRunIsStranded == Spec => []NoRunStranded
<1>1. IInv /\ MoverInv => NoRunStranded
  <2> SUFFICES ASSUME IInv, MoverInv, phase = "up", faults = 0, NEW r \in Run
               PROVE  /\ status[r] = "running" =>
                           \E f \in Flow : (Executing(f) \/ Failing(f)) /\ flow[f].run = r
                      /\ status[r] = "created" => \E f \in Flow : flow[f].run = r
                      /\ status[r] = "waiting_approval" => OpenOf(r) \cup DecidersOf(r) # {}
    BY DEF NoRunStranded
  <2>1. HasMover(r)
    BY DEF MoverInv, IInv, StartInv
  <2> QED
    BY <2>1 DEF HasMover, Owns, Executing, Failing
<1> QED
  BY <1>1, InvariantHolds, NextMakerInv, InitMakerInv, NextMoverInv, InitMoverInv, PTL DEF Spec
=============================================================================
