-------------------------- MODULE ReactLoopProofs --------------------------
(***************************************************************************)
(* Theorems about ReactLoop, for every set of actions and risks, every      *)
(* length of a turn, every budget and every number of faults and crashes.   *)
(* The inductive invariant is LoopInv: for each action what was started and *)
(* what may still start (Begun) stays within what the guard has seen, the   *)
(* transcript asked for and the checkpoint kept; the calls without an       *)
(* answer are those of the turn at hand; the model calls made are those the *)
(* transcript counts, but for one under way and those a crash cut off.      *)
(*                                                                         *)
(* The proof groups the steps by their shape: the pass fails (Fails), one   *)
(* call of the turn moves on (CallMoves), the pass goes on (PassGoes), or a *)
(* command or the daemon acts.                                             *)
(*                                                                         *)
(* The last part is about TextualCalls, for every text over every alphabet: *)
(* the filter of the streamed text knows where it is (MarkersInv).         *)
(***************************************************************************)
EXTENDS ReactLoop, TextualCalls, WellFoundedInduction, FiniteSetTheorems,
        SequenceTheorems, TLAPS

(* Every nonempty set of positions has a last one.                         *)
LEMMA LeastOf ==
  ASSUME NEW T, T \subseteq Nat, T # {}
  PROVE  \E x \in T : \A y \in T : x <= y
<1> DEFINE R == OpToRel(<, Nat)
<1>1. IsWellFoundedOn(R, Nat)
  BY NatLessThanWellFounded
<1>2. \A x, y \in Nat : x < y => <<x, y>> \in R
  BY DEF OpToRel
<1> HIDE DEF R
<1>3. PICK x \in T : \A y \in T : ~(<<y, x>> \in R)
  BY <1>1, WFMin
<1>4. ASSUME NEW y \in T PROVE x <= y
  <2>1. x \in Nat /\ y \in Nat /\ ~(<<y, x>> \in R)
    BY <1>3
  <2>2. ~(y < x)
    BY <2>1, <1>2
  <2> QED
    BY <2>1, <2>2
<1> QED
  BY <1>4

LEMMA LastOf ==
  ASSUME NEW n \in Nat, NEW T, T \subseteq 1 .. n, T # {}
  PROVE  \E x \in T : \A y \in T : y <= x
<1> DEFINE U == {n - x : x \in T}
<1>1. U \subseteq Nat
  <2>1. ASSUME NEW x \in T PROVE n - x \in Nat
    <3>1. x \in 1 .. n
      OBVIOUS
    <3> QED
      BY <3>1
  <2> QED
    BY <2>1
<1>2. U # {}
  OBVIOUS
<1> HIDE DEF U
<1>3. PICK u \in U : \A v \in U : u <= v
  BY <1>1, <1>2, LeastOf
<1>4. PICK x \in T : u = n - x
  BY DEF U
<1>5. ASSUME NEW y \in T PROVE y <= x
  <2>1. n - y \in U
    BY DEF U
  <2>2. x \in 1 .. n /\ y \in 1 .. n
    OBVIOUS
  <2> QED
    BY <2>1, <2>2, <1>3, <1>4
<1> QED
  BY <1>5

(* The least and the greatest of two numbers.                              *)
LEMMA MinOfTwo ==
  ASSUME NEW x \in Nat, NEW y \in Nat
  PROVE  Min({x, y}) \in Nat /\ Min({x, y}) <= x
<1>1. \E z \in {x, y} : \A w \in {x, y} : z <= w
  <2>1. CASE x <= y
    BY <2>1
  <2>2. CASE ~(x <= y)
    BY <2>2
  <2> QED
    BY <2>1, <2>2
<1>2. Min({x, y}) \in {x, y} /\ \A w \in {x, y} : Min({x, y}) <= w
  BY <1>1 DEF Min
<1> QED
  BY <1>2

LEMMA MaxWithZero ==
  ASSUME NEW x \in Int
  PROVE  Max({x, 0}) \in Nat
<1>1. \E z \in {x, 0} : \A w \in {x, 0} : z >= w
  <2>1. CASE x >= 0
    BY <2>1
  <2>2. CASE ~(x >= 0)
    BY <2>2
  <2> QED
    BY <2>1, <2>2
<1>2. Max({x, 0}) \in {x, 0} /\ \A w \in {x, 0} : Max({x, 0}) >= w
  BY <1>1 DEF Max
<1> QED
  BY <1>2

(* The calls of a turn: a sequence no longer than a batch.                 *)
LEMMA BatchShape ==
  ASSUME NEW calls \in Batch
  PROVE  /\ Len(calls) \in 0 .. MaxBatch
         /\ DOMAIN calls = 1 .. Len(calls)
         /\ \A i \in DOMAIN calls : calls[i] \in Call
         /\ DOMAIN calls \subseteq Slot
         /\ IsFiniteSet(DOMAIN calls)
<1>1. PICK n \in 0 .. MaxBatch : calls \in [1 .. n -> Call]
  BY DEF Batch
<1>2. MaxBatch \in Nat /\ n \in Nat
  BY LoopAssumption
<1>3. Len(calls) = n /\ DOMAIN calls = 1 .. n
  BY <1>1, <1>2
<1>4. IsFiniteSet(1 .. n)
  BY <1>2, FS_Interval
<1> QED
  BY <1>1, <1>2, <1>3, <1>4 DEF Slot

(* The calls of one action are finitely many.                              *)
LEMMA TimesType ==
  ASSUME NEW calls \in Batch, NEW a \in Action
  PROVE  /\ Times(calls, a) \in Nat
         /\ IsFiniteSet({i \in DOMAIN calls : calls[i] = a})
         /\ Times(calls, a) = 0 <=> \A i \in DOMAIN calls : calls[i] # a
<1> DEFINE S == {i \in DOMAIN calls : calls[i] = a}
<1>1. IsFiniteSet(S)
  BY BatchShape, FS_Subset
<1>2. Cardinality(S) \in Nat /\ (Cardinality(S) = 0 <=> S = {})
  BY <1>1, FS_CardinalityType, FS_EmptySet
<1> QED
  BY <1>1, <1>2 DEF Times

(* An empty batch asks for nothing.                                        *)
LEMMA NoCalls == <<>> \in Batch /\ IdsOf(<<>>) = {} /\ \A a \in Action : Times(<<>>, a) = 0
<1>1. <<>> \in [1 .. 0 -> Call] /\ 0 \in 0 .. MaxBatch
  BY LoopAssumption
<1>2. <<>> \in Batch
  BY <1>1 DEF Batch
<1>3. DOMAIN <<>> = {}
  OBVIOUS
<1> QED
  BY <1>2, <1>3, TimesType DEF IdsOf

(* A batch the guard accepts asks for no action more often than allowed.   *)
LEMMA GuardCounts ==
  ASSUME seen \in [Action -> Nat], NEW calls \in Batch, BatchValid(calls), NEW a \in Action,
         Times(calls, a) # 0
  PROVE  seen[a] + Times(calls, a) <= MaxRepeated
<1> DEFINE S == {i \in DOMAIN calls : calls[i] = a}
           Early(i) == {j \in 1 .. i - 1 : calls[j] = a}
<1>1. S # {} /\ S \subseteq 1 .. Len(calls) /\ Len(calls) \in Nat /\ IsFiniteSet(S)
  BY BatchShape, TimesType
<1>2. PICK last \in S : \A i \in S : i <= last
  BY <1>1, LastOf
<1>3. Early(last) = S \ {last}
  <2>1. last \in 1 .. Len(calls) /\ Len(calls) \in Nat
    BY <1>1
  <2>2. \A i \in S : i \in 1 .. Len(calls)
    BY <1>1
  <2>3. DOMAIN calls = 1 .. Len(calls)
    BY BatchShape
  <2> QED
    BY <2>1, <2>2, <2>3, <1>2
<1>4. Cardinality(S \ {last}) = Cardinality(S) - 1
  BY <1>1, FS_RemoveElement
<1>5. Before(calls, last, a) = Times(calls, a) - 1
  BY <1>3, <1>4 DEF Before, Times
<1>6. ~Repeats(calls, last) /\ calls[last] = a
  BY DEF BatchValid, Accepted
<1>7. ~(seen[a] + (Times(calls, a) - 1) >= MaxRepeated)
  BY <1>5, <1>6 DEF Repeats
<1>8. seen[a] \in Nat /\ Times(calls, a) \in Nat /\ MaxRepeated \in Nat
  BY TimesType, LoopAssumption
<1> QED
  BY <1>7, <1>8

LEMMA GuardRefuses ==
  ASSUME NEW calls \in Batch, BatchValid(calls)
  PROVE  \A i \in DOMAIN calls : calls[i] \in Action /\ ~Refused(calls[i])
  BY BatchShape DEF BatchValid, Accepted, Call

(* What the guard has seen after a batch: all of it if it accepts it, else *)
(* no more than was asked for.                                             *)
LEMMA SeenBounds ==
  ASSUME seen \in [Action -> Nat], NEW calls \in Batch
  PROVE  /\ SeenAfter(calls) \in [Action -> Nat]
         /\ \A a \in Action :
              /\ seen[a] <= SeenAfter(calls)[a]
              /\ SeenAfter(calls)[a] <= seen[a] + Times(calls, a)
              /\ BatchValid(calls) => SeenAfter(calls)[a] = seen[a] + Times(calls, a)
<1> SUFFICES ASSUME NEW a \in Action
             PROVE  /\ SeenAfter(calls)[a] \in Nat
                    /\ seen[a] <= SeenAfter(calls)[a]
                    /\ SeenAfter(calls)[a] <= seen[a] + Times(calls, a)
                    /\ BatchValid(calls) => SeenAfter(calls)[a] = seen[a] + Times(calls, a)
  BY DEF SeenAfter
<1> DEFINE room == Max({MaxRepeated - seen[a], 0})
           kept == Min({Times(calls, a), room})
<1>1. seen[a] \in Nat /\ Times(calls, a) \in Nat /\ MaxRepeated \in Nat
  BY TimesType, LoopAssumption
<1>2. room \in Nat
  BY <1>1, MaxWithZero
<1>3. kept \in Nat /\ kept <= Times(calls, a)
  BY <1>1, <1>2, MinOfTwo
<1>4. SeenAfter(calls)[a] =
        seen[a] + IF BatchValid(calls) THEN Times(calls, a)
                  ELSE IF Refused(a) THEN kept ELSE 0
  BY DEF SeenAfter
<1> HIDE DEF kept
<1> QED
  BY <1>1, <1>3, <1>4

(* What asking, answering and a round leave of the transcript.             *)
LEMMA AskingMakes ==
  ASSUME NEW m \in Memory, NEW calls \in Batch, made \in 0 .. MaxModelCalls + MaxCrash
  PROVE  /\ Asking(m, calls) \in Memory
         /\ \A a \in Action : Asking(m, calls).asked[a] = m.asked[a] + Times(calls, a)
         /\ Asking(m, calls).open = m.open \cup IdsOf(calls)
         /\ Asking(m, calls).twice = m.twice
         /\ Asking(m, calls).iteration = m.iteration
         /\ Asking(m, calls).modelCalls = m.modelCalls
<1>1. IdsOf(calls) \subseteq Id
  BY BatchShape DEF IdsOf, Id
<1>2. [a \in Action |-> m.asked[a] + Times(calls, a)] \in [Action -> Nat]
  <2>1. ASSUME NEW a \in Action PROVE m.asked[a] + Times(calls, a) \in Nat
    <3>1. Times(calls, a) \in Nat
      BY TimesType
    <3>2. m.asked[a] \in Nat
      BY DEF Memory
    <3> QED
      BY <3>1, <3>2
  <2> QED
    BY <2>1
<1> DEFINE asked == [a \in Action |-> m.asked[a] + Times(calls, a)]
           open == m.open \cup IdsOf(calls)
<1>3. Asking(m, calls) = [m EXCEPT !.asked = asked, !.open = open]
  BY DEF Asking
<1>4. open \subseteq Id
  BY <1>1 DEF Memory
<1>5. \A a \in Action : asked[a] = m.asked[a] + Times(calls, a)
  OBVIOUS
<1> HIDE DEF asked, open
<1>6. Asking(m, calls) \in Memory
  BY <1>2, <1>3, <1>4 DEF Memory, asked
<1>7. /\ Asking(m, calls).asked = asked
      /\ Asking(m, calls).open = open
      /\ Asking(m, calls).twice = m.twice
      /\ Asking(m, calls).iteration = m.iteration
      /\ Asking(m, calls).modelCalls = m.modelCalls
  BY <1>3 DEF Memory
<1> QED
  BY <1>5, <1>6, <1>7 DEF open

LEMMA AnsweringMakes ==
  ASSUME NEW m \in Memory, NEW ids
  PROVE  /\ Answering(m, ids) \in Memory
         /\ Answering(m, ids).asked = m.asked
         /\ Answering(m, ids).open = m.open \ ids
         /\ ids \subseteq m.open => Answering(m, ids).twice = m.twice
         /\ Answering(m, ids).iteration = m.iteration
         /\ Answering(m, ids).modelCalls = m.modelCalls
<1> DEFINE open == m.open \ ids
           twice == m.twice \/ ~(ids \subseteq m.open)
<1>1. Answering(m, ids) = [m EXCEPT !.open = open, !.twice = twice]
  BY DEF Answering
<1>2. open \subseteq Id /\ twice \in BOOLEAN /\ (ids \subseteq m.open => twice = m.twice)
  BY DEF Memory
<1> HIDE DEF open, twice
<1>3. Answering(m, ids) \in Memory
  BY <1>1, <1>2 DEF Memory
<1>4. /\ Answering(m, ids).asked = m.asked
      /\ Answering(m, ids).open = open
      /\ Answering(m, ids).twice = twice
      /\ Answering(m, ids).iteration = m.iteration
      /\ Answering(m, ids).modelCalls = m.modelCalls
  BY <1>1 DEF Memory
<1> QED
  BY <1>2, <1>3, <1>4 DEF open

LEMMA RoundMakes ==
  ASSUME NEW m \in Memory, NEW calls
  PROVE  /\ RoundDone(m, calls) \in Memory
         /\ RoundDone(m, calls).asked = m.asked
         /\ RoundDone(m, calls).open = m.open \ IdsOf(calls)
         /\ IdsOf(calls) \subseteq m.open => RoundDone(m, calls).twice = m.twice
         /\ RoundDone(m, calls).iteration = m.iteration + 1
         /\ RoundDone(m, calls).modelCalls = m.modelCalls
<1> DEFINE n == Answering(m, IdsOf(calls))
<1>1. /\ n \in Memory /\ n.asked = m.asked /\ n.open = m.open \ IdsOf(calls)
      /\ IdsOf(calls) \subseteq m.open => n.twice = m.twice
      /\ n.iteration = m.iteration /\ n.modelCalls = m.modelCalls
  BY AnsweringMakes
<1>2. RoundDone(m, calls) = [n EXCEPT !.iteration = n.iteration + 1]
  BY DEF RoundDone
<1> HIDE DEF n
<1> QED
  BY <1>1, <1>2 DEF Memory

(* No call on its way: no start to come.                                   *)
LEMMA BegunType ==
  ASSUME TypeOK, NEW a \in Action
  PROVE  /\ Begun(a) \in Nat /\ starts[a] \in Nat /\ starts[a] <= Begun(a)
         /\ IsFiniteSet(Left(a)) /\ Cardinality(Left(a)) \in Nat
         /\ Idle => Begun(a) = starts[a]
<1>1. turn.calls \in Batch
  BY DEF TypeOK, Turn
<1>2. IsFiniteSet(DOMAIN turn.calls) /\ DOMAIN turn.calls \subseteq Slot
  BY <1>1, BatchShape
<1>3. IsFiniteSet(Left(a))
  BY <1>2, FS_Subset DEF Left
<1>4. Cardinality(Left(a)) \in Nat /\ (Left(a) = {} => Cardinality(Left(a)) = 0)
  BY <1>3, FS_CardinalityType, FS_EmptySet
<1>5. starts[a] \in Nat
  BY DEF TypeOK
<1>6. Idle => Left(a) = {}
  BY <1>2 DEF Idle, Left
<1> QED
  BY <1>3, <1>4, <1>5, <1>6 DEF Begun

LEMMA BegunNext ==
  ASSUME TypeOK', NEW a \in Action
  PROVE  Idle' => Begun(a)' = starts'[a]
<1>1. turn'.calls \in Batch
  BY DEF TypeOK, Turn
<1>2. DOMAIN turn'.calls \subseteq Slot
  BY <1>1, BatchShape
<1>3. Idle' => Left(a)' = {}
  BY <1>2 DEF Idle, Left
<1>4. starts'[a] \in Nat
  BY DEF TypeOK
<1> QED
  BY <1>3, <1>4, FS_EmptySet DEF Begun

-----------------------------------------------------------------------------
(* The steps by their shape: the pass fails, one call moves on, or one of  *)
(* the steps that take the pass from place to place.                       *)
Fails ==
  /\ Throw /\ pc # "off"
  /\ \/ ckpt' = ckpt
     \/ pc = "turn" /\ Save(mem, <<>>)
  /\ UNCHANGED <<signal, mem, seen, turn, forced, job, openRows, steps, starts, userVars,
                 made, crashes>>
  /\ faults' \in faults .. MaxFault

CallMoves(i) ==
  /\ UNCHANGED jobFrame /\ ~JobAt(i, "done")
  /\ job' \in [Slot -> Job] /\ \A j \in Slot \ {i} : job'[j] = job[j]
  /\ faults' \in faults .. MaxFault
  /\ \/ UNCHANGED <<steps, starts>>
     \/ /\ IdOf(i) \notin steps /\ steps' = steps \cup {IdOf(i)}
        /\ starts' = [starts EXCEPT ![turn.calls[i]] = @ + 1]
  /\ \/ openRows' = openRows \cup {IdOf(i)} /\ HasRow(i)'
     \/ openRows' = openRows \ {IdOf(i)}
     \/ openRows' = openRows /\ (HasRow(i) => HasRow(i)')
     \/ openRows' = openRows /\ faults' > 0
  /\ \/ UNCHANGED grants
     \/ grants' = GrantsAfter(mode, grants, turn.calls[i], IdOf(i), turn.approved)

LEMMA FaultCounts ==
  ASSUME TypeOK, Fault
  PROVE  faults' \in faults .. MaxFault /\ faults' > 0
  BY LoopAssumption DEF TypeOK, Fault

LEMMA HealthyCounts ==
  ASSUME TypeOK, UNCHANGED faults
  PROVE  faults' \in faults .. MaxFault
  BY LoopAssumption DEF TypeOK

LEMMA Goes ==
  ASSUME TypeOK, NEW i \in Slot, NEW at, JobGoto(i, at),
         at \in {"wait", "denied", "gate", "row", "gate2", "step", "running",
                "stepEnd", "rowEnd", "cancel", "fail", "done", "thrown"}
  PROVE  /\ job' \in [Slot -> Job] /\ job'[i].pc = at
         /\ \A j \in Slot \ {i} : job'[j] = job[j]
<1>1. job \in [Slot -> Job]
  BY DEF TypeOK
<1> DEFINE r == [job[i] EXCEPT !.pc = at]
<1>2. r \in Job /\ r.pc = at
  BY <1>1 DEF Job
<1>3. job' = [job EXCEPT ![i] = r]
  BY DEF JobGoto
<1> HIDE DEF r
<1> QED
  BY <1>1, <1>2, <1>3

LEMMA FailedAttempt ==
  ASSUME TypeOK, NEW i \in Slot, AttemptFails(i)
  PROVE  /\ job' \in [Slot -> Job] /\ job'[i].pc \in {"gate2", "fail"}
         /\ \A j \in Slot \ {i} : job'[j] = job[j]
<1>1. CASE JobGoto(i, "fail")
  BY <1>1, Goes
<1>2. CASE /\ job[i].attempt + 1 < Attempts(i)
           /\ job' = [job EXCEPT ![i] = [pc |-> "gate2", attempt |-> @.attempt + 1]]
  <2> DEFINE r == [pc |-> "gate2", attempt |-> job[i].attempt + 1]
  <2>1. job \in [Slot -> Job]
    BY DEF TypeOK
  <2>2. job[i].attempt \in Nat /\ MaxAttempts \in Nat /\ MaxAttempts >= 1
    BY <2>1, LoopAssumption DEF Job
  <2>3. job[i].attempt + 1 \in 0 .. MaxAttempts
    BY <1>2, <2>2 DEF Attempts
  <2>4. r \in Job /\ r.pc = "gate2"
    BY <2>3 DEF Job
  <2>5. job' = [job EXCEPT ![i] = r]
    BY <1>2
  <2> HIDE DEF r
  <2> QED
    BY <2>1, <2>4, <2>5
<1> QED
  BY <1>1, <1>2 DEF AttemptFails

LEMMA JobShape ==
  ASSUME TypeOK, NEW i \in Slot, JobStep(i)
  PROVE  CallMoves(i)
<1>h. UNCHANGED faults => faults' \in faults .. MaxFault
  BY HealthyCounts
<1>f. Fault => faults' \in faults .. MaxFault /\ faults' > 0
  BY FaultCounts
<1>1. CASE PassOver(i)
  BY <1>1, <1>h, Goes DEF PassOver, Turned, CallMoves, JobAt, HasRow
<1>2. CASE Deny(i)
  BY <1>2, <1>h, Goes DEF Deny, Turned, CallMoves, JobAt, HasRow
<1>3. CASE Permit(i)
  BY <1>3, <1>h, Goes DEF Permit, Turned, CallMoves, JobAt, HasRow
<1>4. CASE DenyRow(i)
  BY <1>4, <1>h, <1>f, Goes DEF DenyRow, Healthy, CallMoves, JobAt, HasRow
<1>5. CASE Gate(i)
  BY <1>5, <1>h, <1>f, Goes DEF Gate, Healthy, CallMoves, JobAt, HasRow
<1>6. CASE OpenRow(i)
  BY <1>6, <1>h, <1>f, Goes DEF OpenRow, Healthy, CallMoves, JobAt, HasRow
<1>7. CASE Gate2(i)
  BY <1>7, <1>h, <1>f, Goes, FailedAttempt DEF Gate2, Healthy, CallMoves, JobAt, HasRow
<1>8. CASE Cancelled(i)
  BY <1>8, <1>h, <1>f, Goes, FailedAttempt DEF Cancelled, Healthy, CallMoves, JobAt, HasRow
<1>9. CASE Start(i)
  BY <1>9, <1>h, <1>f, Goes, FailedAttempt DEF Start, Healthy, CallMoves, JobAt, HasRow
<1>10. CASE ToolEnds(i)
  BY <1>10, <1>h, Goes DEF ToolEnds, CallMoves, JobAt, HasRow
<1>11. CASE EndStep(i)
  BY <1>11, <1>h, <1>f, Goes, FailedAttempt DEF EndStep, Healthy, CallMoves, JobAt, HasRow
<1>12. CASE CloseRow(i)
  BY <1>12, <1>h, <1>f, Goes, FailedAttempt DEF CloseRow, Healthy, CallMoves, JobAt, HasRow
<1>13. CASE FailRow(i)
  BY <1>13, <1>h, <1>f, Goes DEF FailRow, Healthy, CallMoves, JobAt, HasRow
<1> QED
  BY <1>1, <1>2, <1>3, <1>4, <1>5, <1>6, <1>7, <1>8, <1>9, <1>10, <1>11, <1>12, <1>13
     DEF JobStep

(* The steps of the pass that do not fail.                                 *)
PassFrame == UNCHANGED <<signal, mem, seen, turn, forced, job, openRows, steps, starts,
                         userVars, made, crashes, faults>>
TurnFrame == UNCHANGED <<signal, turn, forced, openRows, steps, starts, userVars, made,
                         crashes, faults>>

SaveOk == /\ pc = "save" /\ pc' = "head" /\ Save(mem, <<>>)
          /\ UNCHANGED <<status, grants>> /\ PassFrame
FreezeOk == /\ pc = "freeze" /\ pc' = "request" /\ Save(mem, turn.calls)
            /\ UNCHANGED <<status, grants>> /\ PassFrame
FinalOk == /\ pc = "final" /\ pc' = "complete" /\ Save(mem, <<>>)
           /\ UNCHANGED <<status, grants>> /\ PassFrame
AskOk == /\ pc = "ask" /\ pc' = "off" /\ Save(mem, <<>>) /\ WriteStatus("waiting_user")
         /\ UNCHANGED grants /\ PassFrame
RequestOk == /\ pc = "request" /\ pc' = "off" /\ WriteStatus("waiting_approval")
             /\ UNCHANGED <<ckpt, grants>> /\ PassFrame
CompleteOk == /\ pc = "complete" /\ pc' = "off" /\ WriteStatus("completed")
              /\ UNCHANGED ckpt /\ grants' = {} /\ PassFrame
HeadOk == LoopHead /\ signal = "quiet"

PassGoes ==
  \/ SaveOk \/ FreezeOk \/ FinalOk \/ AskOk \/ RequestOk \/ CompleteOk \/ HeadOk
  \/ \E t \in Turns : ModelReturns(t)
  \/ pc = "turn" /\ TurnFrame /\ (TurnIsText \/ Broken("invalid") \/ Broken("badAsk"))
  \/ pc = "turn" /\ TurnFrame /\ (TurnAsks \/ GuardSpoils \/ GuardFreezes \/ GuardPasses)
  \/ Settle

LEMMA PassShape ==
  ASSUME TypeOK, PassStep
  PROVE  Fails \/ PassGoes
<1>h. UNCHANGED faults => faults' \in faults .. MaxFault
  BY HealthyCounts
<1>f. Fault => faults' \in faults .. MaxFault
  BY FaultCounts
<1>1. CASE SavePass
  BY <1>1, <1>f DEF SavePass, Persist, Healthy, Fails, PassGoes, SaveOk, PassFrame
<1>2. CASE LoopHead
  BY <1>2, <1>h DEF LoopHead, Fails, PassGoes, HeadOk
<1>3. CASE ModelThrows
  BY <1>3, <1>h DEF ModelThrows, Fails
<1>4. CASE \E t \in Turns : ModelReturns(t)
  BY <1>4 DEF PassGoes
<1>5. CASE SaveTurn
  <2>1. CASE FinalTurnFails
    BY <1>5, <1>h, <2>1 DEF SaveTurn, FinalTurnFails, Healthy, Fails
  <2>2. CASE SaveTurnFails
    BY <1>5, <1>f, <2>2 DEF SaveTurn, SaveTurnFails, Fails
  <2>3. CASE TurnIsText
    BY <1>5, <2>3 DEF SaveTurn, TurnIsText, Handle, Healthy, PassGoes, TurnFrame
  <2>4. CASE TurnIsInvalid
    BY <1>5, <2>4 DEF SaveTurn, TurnIsInvalid, Broken, Handle, Healthy, PassGoes, TurnFrame
  <2>5. CASE TurnMisasks
    BY <1>5, <2>5 DEF SaveTurn, TurnMisasks, Broken, Handle, Healthy, PassGoes, TurnFrame
  <2>6. CASE TurnAsks
    BY <1>5, <2>6 DEF SaveTurn, TurnAsks, Handle, Healthy, PassGoes, TurnFrame
  <2>7. CASE GuardSpoils
    BY <1>5, <2>7 DEF SaveTurn, GuardSpoils, Handle, Healthy, PassGoes, TurnFrame
  <2>8. CASE GuardFreezes
    BY <1>5, <2>8 DEF SaveTurn, GuardFreezes, Handle, Healthy, PassGoes, TurnFrame
  <2>9. CASE GuardPasses
    BY <1>5, <2>9 DEF SaveTurn, GuardPasses, Healthy, PassGoes, TurnFrame
  <2> QED
    BY <1>5, <2>1, <2>2, <2>3, <2>4, <2>5, <2>6, <2>7, <2>8, <2>9 DEF SaveTurn
<1>6. CASE AskUser
  BY <1>6, <1>f DEF AskUser, Healthy, Fails, PassGoes, AskOk, PassFrame
<1>7. CASE Freeze
  BY <1>7, <1>f DEF Freeze, Persist, Healthy, Fails, PassGoes, FreezeOk, PassFrame
<1>8. CASE RequestApproval
  BY <1>8, <1>f DEF RequestApproval, Healthy, Fails, PassGoes, RequestOk, PassFrame
<1>9. CASE SaveFinal
  BY <1>9, <1>f DEF SaveFinal, Persist, Healthy, Fails, PassGoes, FinalOk, PassFrame
<1>10. CASE Complete
  BY <1>10, <1>f DEF Complete, Healthy, Fails, PassGoes, CompleteOk, PassFrame
<1>11. CASE Settle
  BY <1>11 DEF PassGoes
<1>12. CASE ExecutionThrows
  BY <1>12, <1>h DEF ExecutionThrows, Fails
<1> QED
  BY <1>1, <1>2, <1>3, <1>4, <1>5, <1>6, <1>7, <1>8, <1>9, <1>10, <1>11, <1>12 DEF PassStep

(* Every turn of the model is one.                                         *)
LEMMA TurnsAreTurns ==
  ASSUME NEW t \in Turns
  PROVE  /\ t \in Turn /\ t.calls \in Batch
         /\ t.kind = "ask" => t.calls = <<NoAction>>
<1>1. <<>> \in Batch
  BY NoCalls
<1>2. \A x \in Call : <<x>> \in Batch
  <2> SUFFICES ASSUME NEW x \in Call PROVE <<x>> \in Batch
    OBVIOUS
  <2>1. <<x>> \in [1 .. 1 -> Call] /\ 1 \in 0 .. MaxBatch
    BY LoopAssumption
  <2> QED
    BY <2>1 DEF Batch
<1>3. \A x, y \in Call : <<x, y>> \in Batch
  <2> SUFFICES ASSUME NEW x \in Call, NEW y \in Call PROVE <<x, y>> \in Batch
    OBVIOUS
  <2>1. <<x, y>> \in [1 .. 2 -> Call] /\ 2 \in 0 .. MaxBatch
    BY LoopAssumption
  <2> QED
    BY <2>1 DEF Batch
<1>4. NoAction \in Call /\ \A a \in Action : a \in Call
  BY DEF Call
<1>5. CASE t \in InputRequests
  BY <1>2, <1>3, <1>4, <1>5 DEF InputRequests, Turn
<1>6. CASE t \in [kind : {"text"}, calls : {<<>>}, approved : {FALSE}]
  BY <1>1, <1>6 DEF Turn
<1>7. CASE t \in [kind : {"invalid"}, calls : {<<>>} \cup {<<a>> : a \in Action}, approved : {FALSE}]
  BY <1>1, <1>2, <1>4, <1>7 DEF Turn
<1>8. CASE t \in [kind : {"calls"}, calls : {b \in Batch : b # <<>>}, approved : {FALSE}]
  BY <1>8 DEF Turn
<1> QED
  BY <1>5, <1>6, <1>7, <1>8 DEF Turns

(* The parts of the type that the leaves below look at.                    *)
LEMMA TypeFacts ==
  ASSUME TypeOK
  PROVE  /\ mem \in Memory /\ ckpt.mem \in Memory /\ ckpt.pending \in Batch
         /\ turn \in Turn /\ turn.calls \in Batch
         /\ seen \in [Action -> Nat] /\ starts \in [Action -> Nat]
         /\ \A a \in Action : mem.asked[a] \in Nat /\ ckpt.mem.asked[a] \in Nat
                              /\ seen[a] \in Nat
         /\ mem.iteration \in Nat /\ mem.modelCalls \in Nat
         /\ ckpt.mem.iteration \in Nat /\ ckpt.mem.modelCalls \in Nat
  BY DEF TypeOK, Turn, Memory

LEMMA NewMemoryType ==
  /\ NewMemory \in Memory /\ NewMemory.open = {} /\ NewMemory.twice = FALSE
  /\ NewMemory.iteration = 0 /\ NewMemory.modelCalls = 0
  /\ \A a \in Action : NewMemory.asked[a] = 0
  BY DEF NewMemory, Memory

LEMMA NoTurnType == NoTurn \in Turn /\ NoTurn.calls = <<>>
  BY NoCalls DEF NoTurn, Turn

LEMMA CloseMakes ==
  ASSUME NEW m \in Memory
  PROVE  LET closed == closeUnresolvedToolCalls(m)
         IN  /\ closed \in Memory /\ closed.asked = m.asked /\ closed.open = {}
             /\ closed.twice = m.twice /\ closed.iteration = m.iteration
             /\ closed.modelCalls = m.modelCalls
  BY DEF closeUnresolvedToolCalls, Memory

LEMMA SavedType ==
  ASSUME NEW m \in Memory, NEW pending \in Batch, Save(m, pending)
  PROVE  /\ ckpt' \in [saved : BOOLEAN, mem : Memory, pending : Batch]
         /\ ckpt'.mem = m /\ ckpt'.pending = pending
  BY DEF Save

LEMMA IdOfType ==
  ASSUME TypeOK, NEW i \in Slot
  PROVE  IdOf(i) \in Id
  BY DEF TypeOK, IdOf, Id

LEMMA GrantsType ==
  ASSUME TypeOK, NEW a \in Action, NEW i \in Slot
  PROVE  GrantsAfter(mode, grants, a, IdOf(i), turn.approved) \subseteq Grant(Id)
<1>1. IdOf(i) \in Id /\ grants \subseteq Grant(Id)
  BY IdOfType DEF TypeOK
<1> DEFINE scope == IF ~turn.approved /\ mode \in {"auto", "full"} THEN "this_run"
                    ELSE "this_tool_call_only"
           g == [action |-> a, id |-> IdOf(i), scope |-> scope]
<1>2. g \in Grant(Id)
  BY <1>1 DEF Grant
<1> HIDE DEF g
<1>3. \/ GrantsAfter(mode, grants, a, IdOf(i), turn.approved) = grants
      \/ \E kept \in SUBSET grants :
           GrantsAfter(mode, grants, a, IdOf(i), turn.approved) = kept \cup {g}
  BY DEF GrantsAfter, g
<1> QED
  BY <1>1, <1>2, <1>3

LEMMA QueueType ==
  ASSUME NEW calls \in Batch, Queue(calls)
  PROVE  /\ job' \in [Slot -> Job]
         /\ \A i \in Slot : job'[i].pc = "done" <=> i \notin DOMAIN calls
  BY LoopAssumption DEF Queue, Job

LEMMA StartCounts ==
  ASSUME starts \in [Action -> Nat], NEW a \in Action
  PROVE  /\ [starts EXCEPT ![a] = @ + 1] \in [Action -> Nat]
         /\ [starts EXCEPT ![a] = @ + 1][a] = starts[a] + 1
         /\ \A b \in Action \ {a} : [starts EXCEPT ![a] = @ + 1][b] = starts[b]
  OBVIOUS

LEMMA MoreCalls ==
  ASSUME NEW m \in Memory
  PROVE  LET more == [m EXCEPT !.modelCalls = @ + 1]
         IN  /\ more \in Memory /\ more.asked = m.asked /\ more.open = m.open
             /\ more.twice = m.twice /\ more.iteration = m.iteration
             /\ more.modelCalls = m.modelCalls + 1
  BY DEF Memory

(* A pass that begins with a transcript and a turn of the right type.      *)
LEMMA BeginType ==
  ASSUME TypeOK, NEW m \in Memory, NEW t \in Turn, NEW next \in {"save", "exec"},
         Begin(m, t, next), job' \in [Slot -> Job],
         approved' \subseteq Action, rejected' \subseteq Action
  PROVE  TypeOK'
<1>1. m.asked \in [Action -> Nat]
  BY DEF Memory
<1> QED
  BY <1>1 DEF Begin, collectSeenSignatures, TypeOK

(* Every step keeps every variable in its type.                            *)
LEMMA TypeStep ==
  ASSUME TypeOK, CallsSanctioned, made' \in 0 .. MaxModelCalls + MaxCrash, Next
  PROVE  TypeOK'
<1> USE TypeFacts, NoCalls
<1>1. CASE Fails
  BY <1>1, SavedType DEF Fails, Throw, TypeOK, userVars
<1>2. ASSUME NEW i \in Slot, CallMoves(i) PROVE TypeOK'
  <2>1. IdOf(i) \in Id /\ turn.calls[i] \in Action
    BY <1>2, IdOfType DEF CallMoves, CallsSanctioned
  <2>2. grants' \subseteq Grant(Id)
    BY <1>2, <2>1, GrantsType DEF CallMoves, TypeOK
  <2>3. starts' \in [Action -> Nat]
    BY <1>2, <2>1, StartCounts DEF CallMoves
  <2>5. steps' \subseteq Id /\ openRows' \subseteq Id
    BY <1>2, <2>1 DEF CallMoves, TypeOK
  <2>4. faults' \in 0 .. MaxFault
    BY <1>2 DEF CallMoves, TypeOK
  <2> QED
    BY <1>2, <2>2, <2>3, <2>4, <2>5 DEF CallMoves, jobFrame, passVars, userVars, TypeOK
<1>3. CASE SaveOk \/ FreezeOk \/ FinalOk
  BY <1>3, SavedType DEF SaveOk, FreezeOk, FinalOk, PassFrame, userVars, TypeOK
<1>4. CASE AskOk \/ RequestOk \/ CompleteOk
  BY <1>4, SavedType DEF AskOk, RequestOk, CompleteOk, WriteStatus, PassFrame, userVars, TypeOK
<1>5. CASE HeadOk
  BY <1>5 DEF HeadOk, LoopHead, userVars, TypeOK
<1>6. ASSUME NEW t \in Turns, ModelReturns(t) PROVE TypeOK'
  <2> DEFINE m == [mem EXCEPT !.modelCalls = @ + 1]
  <2>1. m \in Memory
    BY MoreCalls
  <2>2. made \in 0 .. MaxModelCalls + MaxCrash
    BY DEF TypeOK
  <2>3. t \in Turn /\ t.calls \in Batch
    BY TurnsAreTurns
  <2>4. mem' \in Memory
    BY <1>6, <2>1, <2>2, <2>3, AskingMakes DEF ModelReturns
  <2> QED
    BY <1>6, <2>3, <2>4 DEF ModelReturns, execVars, userVars, TypeOK
<1>7. ASSUME pc = "turn", TurnFrame, TurnIsText \/ TurnAsks PROVE TypeOK'
  BY <1>7, SavedType DEF TurnIsText, TurnAsks, Handle, Healthy, TurnFrame, userVars, TypeOK
<1>8. ASSUME pc = "turn", TurnFrame, Broken("invalid") \/ Broken("badAsk") PROVE TypeOK'
  BY <1>8, SavedType, RoundMakes DEF Broken, Handle, Healthy, TurnFrame, userVars, TypeOK
<1>9. ASSUME pc = "turn", TurnFrame, GuardSpoils \/ GuardFreezes PROVE TypeOK'
  BY <1>9, SavedType, RoundMakes, SeenBounds
     DEF GuardSpoils, GuardFreezes, Handle, Healthy, TurnFrame, userVars, TypeOK
<1>10. ASSUME pc = "turn", TurnFrame, GuardPasses PROVE TypeOK'
  BY <1>10, SavedType, SeenBounds, QueueType
     DEF GuardPasses, Healthy, TurnFrame, userVars, TypeOK
<1>11. CASE Settle
  BY <1>11, RoundMakes DEF Settle, execVars, userVars, TypeOK
<1>12. CASE Approve
  <2>1. job' \in [Slot -> Job]
    BY <1>12, QueueType DEF Approve
  <2>2. [kind |-> "calls", calls |-> ckpt.pending, approved |-> TRUE] \in Turn
    BY DEF Turn
  <2>3. approved' \subseteq Action /\ rejected' \subseteq Action
    BY <1>12, GuardRefuses DEF Approve, TypeOK, CallsSanctioned, MayStart
  <2> QED
    BY <1>12, <2>1, <2>2, <2>3, BeginType DEF Approve
<1>13. CASE Reject
  <2>1. approved' \subseteq Action /\ rejected' \subseteq Action /\ job' \in [Slot -> Job]
    BY <1>13 DEF Reject, TypeOK, CallsSanctioned, MayStart
  <2>2. RoundDone(ckpt.mem, ckpt.pending) \in Memory
    BY RoundMakes
  <2> QED
    BY <1>13, <2>1, <2>2, NoTurnType, BeginType DEF Reject
<1>14. CASE Reply
  <2>1. approved' \subseteq Action /\ rejected' \subseteq Action /\ job' \in [Slot -> Job]
    BY <1>14 DEF Reply, TypeOK
  <2>2. Answering(ckpt.mem, {<<made, 1>>}) \in Memory
    BY AnsweringMakes
  <2> QED
    BY <1>14, <2>1, <2>2, NoTurnType, BeginType DEF Reply
<1>15. CASE Resume
  <2>1. approved' \subseteq Action /\ rejected' \subseteq Action /\ job' \in [Slot -> Job]
    BY <1>15 DEF Resume, TypeOK
  <2>2. closeUnresolvedToolCalls(ckpt.mem) \in Memory
    BY CloseMakes
  <2> QED
    BY <1>15, <2>1, <2>2, NoTurnType, BeginType DEF Resume
<1>16. CASE Cancel \/ Abort("aborted") \/ Abort("deadline")
  BY <1>16 DEF Cancel, Abort, execVars, userVars, TypeOK
<1>17. CASE Crash
  <2>1. [i \in Slot |-> NoJob] \in [Slot -> Job]
    BY LoopAssumption DEF NoJob, Job
  <2>2. NewMemory.asked \in [Action -> Nat] /\ crashes' \in 0 .. MaxCrash
    BY <1>17, LoopAssumption DEF Crash, NewMemory, TypeOK
  <2> QED
    BY <1>17, <2>1, <2>2, NewMemoryType, NoTurnType DEF Crash, userVars, TypeOK
<1> QED
  BY <1>1, <1>2, <1>3, <1>4, <1>5, <1>6, <1>7, <1>8, <1>9, <1>10, <1>11, <1>12, <1>13, <1>14,
     <1>15, <1>16, <1>17, JobShape, PassShape DEF Next, PassGoes

(* The model calls stay within the budget.                                 *)
LEMMA BudgetStep ==
  ASSUME TypeOK, PassOwnsRun, BudgetCounted, Next
  PROVE  BudgetCounted' /\ made' \in 0 .. MaxModelCalls + MaxCrash
<1>a. /\ mem.iteration \in Nat /\ mem.modelCalls \in Nat
      /\ ckpt.mem.iteration \in Nat /\ ckpt.mem.modelCalls \in Nat
      /\ made \in Nat /\ crashes \in Nat /\ crashes \in 0 .. MaxCrash
      /\ MaxModelCalls \in Nat /\ MaxToolRounds \in Nat /\ MaxCrash \in Nat
      /\ mem \in Memory /\ ckpt.mem \in Memory /\ ckpt.pending \in Batch /\ turn.calls \in Batch
  BY TypeFacts, LoopAssumption DEF TypeOK
<1>b. \A m \in Memory, p \in Batch : Save(m, p) => ckpt'.mem = m
  BY SavedType
<1>c. <<>> \in Batch
  BY NoCalls
<1>d. pc # "off" => status \notin {"waiting_approval", "waiting_user", "interrupted"}
  BY DEF PassOwnsRun, Resumable
<1>e. CallsCounted /\ CallsLeft /\ RoundsLeft
  BY DEF BudgetCounted
<1>q. ASSUME CallsCounted', CallsLeft', RoundsLeft', made' \in Nat, crashes' \in 0 .. MaxCrash
      PROVE  BudgetCounted' /\ made' \in 0 .. MaxModelCalls + MaxCrash
  <2>1. made' <= MaxModelCalls + crashes'
    BY <1>q DEF CallsLeft
  <2> QED
    BY <1>a, <1>q, <2>1 DEF BudgetCounted
<1>1. CASE Fails
  <2>1. /\ pc' = "off" /\ pc # "off" /\ status' \notin {"waiting_approval", "waiting_user", "interrupted"}
        /\ made' = made /\ crashes' = crashes /\ mem' = mem
        /\ ckpt'.mem = ckpt.mem \/ (pc = "turn" /\ ckpt'.mem = mem)
    BY <1>1, <1>a, <1>b, <1>c, <1>d DEF Fails, Throw
  <2>2. CallsCounted'
    BY <1>a, <1>d, <1>e, <2>1 DEF CallsCounted, Lagging, Resumable
  <2>3. CallsLeft'
    BY <1>a, <1>d, <1>e, <2>1 DEF CallsLeft, CallsCounted, GoesOn, Resumable
  <2>4. RoundsLeft'
    BY <1>a, <1>d, <1>e, <2>1 DEF RoundsLeft, GoesOn
  <2> QED
    BY <1>a, <1>q, <2>1, <2>2, <2>3, <2>4
<1>2. ASSUME NEW i \in Slot, CallMoves(i)
      PROVE  BudgetCounted' /\ made' \in 0 .. MaxModelCalls + MaxCrash
  BY <1>2, <1>a, <1>e, <1>q
     DEF CallMoves, jobFrame, passVars, CallsCounted, Lagging, CallsLeft, GoesOn, RoundsLeft
<1>3. CASE SaveOk \/ FreezeOk \/ FinalOk
  <2>1. /\ ckpt'.mem = mem /\ mem' = mem /\ made' = made /\ crashes' = crashes /\ status' = status
        /\ \/ pc = "save" /\ pc' = "head"
           \/ pc = "freeze" /\ pc' = "request"
           \/ pc = "final" /\ pc' = "complete"
    BY <1>3, <1>a, <1>b, <1>c DEF SaveOk, FreezeOk, FinalOk, PassFrame
  <2>2. CallsCounted'
    BY <1>a, <1>d, <1>e, <2>1 DEF CallsCounted, Lagging, Resumable
  <2>3. CallsLeft'
    BY <1>a, <1>d, <1>e, <2>1 DEF CallsLeft, CallsCounted, GoesOn, Resumable
  <2>4. RoundsLeft'
    BY <1>a, <1>d, <1>e, <2>1 DEF RoundsLeft, GoesOn
  <2> QED
    BY <1>a, <1>q, <2>1, <2>2, <2>3, <2>4
<1>4. CASE AskOk \/ RequestOk \/ CompleteOk
  <2>1. /\ mem' = mem /\ made' = made /\ crashes' = crashes /\ pc' = "off"
        /\ \/ pc = "ask" /\ ckpt'.mem = mem /\ status' # "waiting_approval"
           \/ pc = "request" /\ ckpt' = ckpt
           \/ /\ pc = "complete" /\ ckpt' = ckpt
              /\ status' \notin {"waiting_approval", "waiting_user", "interrupted"}
    BY <1>4, <1>a, <1>b, <1>c, <1>d DEF AskOk, RequestOk, CompleteOk, WriteStatus, PassFrame
  <2>2. CallsCounted'
    BY <1>a, <1>d, <1>e, <2>1 DEF CallsCounted, Lagging, Resumable
  <2>3. CallsLeft'
    BY <1>a, <1>d, <1>e, <2>1 DEF CallsLeft, CallsCounted, GoesOn, Resumable
  <2>4. RoundsLeft'
    BY <1>a, <1>d, <1>e, <2>1 DEF RoundsLeft, GoesOn
  <2> QED
    BY <1>a, <1>q, <2>1, <2>2, <2>3, <2>4
<1>5. CASE HeadOk
  <2>1. /\ pc = "head" /\ pc' = "model" /\ made' = made + 1 /\ crashes' = crashes
        /\ mem' = mem /\ ckpt' = ckpt /\ status' = status
        /\ ~forced' => mem.iteration < MaxToolRounds /\ mem.modelCalls < MaxModelCalls - 1
    BY <1>5, <1>a DEF HeadOk, LoopHead
  <2>2. CallsCounted'
    BY <1>a, <1>d, <1>e, <2>1 DEF CallsCounted, Lagging, Resumable
  <2>3. CallsLeft'
    BY <1>a, <1>d, <1>e, <2>1 DEF CallsLeft, CallsCounted, GoesOn, Resumable
  <2>4. RoundsLeft'
    BY <1>a, <1>d, <1>e, <2>1 DEF RoundsLeft, GoesOn
  <2> QED
    BY <1>a, <1>q, <2>1, <2>2, <2>3, <2>4
<1>6. ASSUME NEW t \in Turns, ModelReturns(t)
      PROVE  BudgetCounted' /\ made' \in 0 .. MaxModelCalls + MaxCrash
  <2> DEFINE m == [mem EXCEPT !.modelCalls = @ + 1]
  <2>a. t.calls \in Batch /\ made \in 0 .. MaxModelCalls + MaxCrash
    BY TurnsAreTurns DEF TypeOK
  <2>b. m \in Memory /\ m.iteration = mem.iteration /\ m.modelCalls = mem.modelCalls + 1
    BY <1>a, MoreCalls
  <2>d. mem' = Asking(m, t.calls)
    BY <1>6 DEF ModelReturns
  <2> HIDE DEF m
  <2>c. mem'.iteration = mem.iteration /\ mem'.modelCalls = mem.modelCalls + 1
    BY <2>a, <2>b, <2>d, AskingMakes
  <2>1. /\ pc = "model" /\ pc' = "turn" /\ status' = status /\ forced' = forced
        /\ made' = made /\ crashes' = crashes /\ ckpt' = ckpt
        /\ mem'.iteration = mem.iteration /\ mem'.modelCalls = mem.modelCalls + 1
    BY <1>6, <2>c DEF ModelReturns
  <2>2. CallsCounted'
    BY <1>a, <1>d, <1>e, <2>1 DEF CallsCounted, Lagging, Resumable
  <2>3. CallsLeft'
    BY <1>a, <1>d, <1>e, <2>1 DEF CallsLeft, CallsCounted, GoesOn, Resumable
  <2>4. RoundsLeft'
    BY <1>a, <1>d, <1>e, <2>1 DEF RoundsLeft, GoesOn
  <2> QED
    BY <1>a, <1>q, <2>1, <2>2, <2>3, <2>4
<1>7. ASSUME pc = "turn", TurnFrame, TurnIsText \/ TurnAsks
      PROVE  BudgetCounted' /\ made' \in 0 .. MaxModelCalls + MaxCrash
  <2>1. /\ pc = "turn"
        /\ ckpt'.mem = mem /\ mem' = mem /\ made' = made /\ crashes' = crashes /\ status' = status
        /\ pc' = "final" \/ (pc' = "ask" /\ ~forced)
    BY <1>7, <1>a, <1>b, <1>c DEF TurnIsText, TurnAsks, Handle, TurnFrame
  <2>2. CallsCounted'
    BY <1>a, <1>d, <1>e, <2>1 DEF CallsCounted, Lagging, Resumable
  <2>3. CallsLeft'
    BY <1>a, <1>d, <1>e, <2>1 DEF CallsLeft, CallsCounted, GoesOn, Resumable
  <2>4. RoundsLeft'
    BY <1>a, <1>d, <1>e, <2>1 DEF RoundsLeft, GoesOn
  <2> QED
    BY <1>a, <1>q, <2>1, <2>2, <2>3, <2>4
<1>8. ASSUME pc = "turn", TurnFrame, Broken("invalid") \/ Broken("badAsk") \/ GuardSpoils
      PROVE  BudgetCounted' /\ made' \in 0 .. MaxModelCalls + MaxCrash
  <2>1. /\ pc = "turn"
        /\ ckpt'.mem = mem /\ made' = made /\ crashes' = crashes /\ status' = status
        /\ mem'.iteration = mem.iteration + 1 /\ mem'.modelCalls = mem.modelCalls
        /\ pc' = "save" /\ ~forced
    BY <1>8, <1>a, <1>b, <1>c, RoundMakes DEF Broken, GuardSpoils, Handle, TurnFrame
  <2>2. CallsCounted'
    BY <1>a, <1>d, <1>e, <2>1 DEF CallsCounted, Lagging, Resumable
  <2>3. CallsLeft'
    BY <1>a, <1>d, <1>e, <2>1 DEF CallsLeft, CallsCounted, GoesOn, Resumable
  <2>4. RoundsLeft'
    BY <1>a, <1>d, <1>e, <2>1 DEF RoundsLeft, GoesOn
  <2> QED
    BY <1>a, <1>q, <2>1, <2>2, <2>3, <2>4
<1>9. ASSUME pc = "turn", TurnFrame, GuardFreezes \/ GuardPasses
      PROVE  BudgetCounted' /\ made' \in 0 .. MaxModelCalls + MaxCrash
  <2>1. /\ pc = "turn"
        /\ ckpt'.mem = mem /\ mem' = mem /\ made' = made /\ crashes' = crashes /\ status' = status
        /\ pc' \in {"freeze", "exec"} /\ ~forced
    BY <1>9, <1>a, <1>b, <1>c DEF GuardFreezes, GuardPasses, Handle, TurnFrame
  <2>2. CallsCounted'
    BY <1>a, <1>d, <1>e, <2>1 DEF CallsCounted, Lagging, Resumable
  <2>3. CallsLeft'
    BY <1>a, <1>d, <1>e, <2>1 DEF CallsLeft, CallsCounted, GoesOn, Resumable
  <2>4. RoundsLeft'
    BY <1>a, <1>d, <1>e, <2>1 DEF RoundsLeft, GoesOn
  <2> QED
    BY <1>a, <1>q, <2>1, <2>2, <2>3, <2>4
<1>10. CASE Settle
  <2>1. /\ pc = "exec" /\ pc' = "save" /\ ckpt' = ckpt /\ status' = status
        /\ made' = made /\ crashes' = crashes
        /\ mem'.iteration = mem.iteration + 1 /\ mem'.modelCalls = mem.modelCalls
    BY <1>10, <1>a, RoundMakes DEF Settle
  <2>2. CallsCounted'
    BY <1>a, <1>d, <1>e, <2>1 DEF CallsCounted, Lagging, Resumable
  <2>3. CallsLeft'
    BY <1>a, <1>d, <1>e, <2>1 DEF CallsLeft, CallsCounted, GoesOn, Resumable
  <2>4. RoundsLeft'
    BY <1>a, <1>d, <1>e, <2>1 DEF RoundsLeft, GoesOn
  <2> QED
    BY <1>a, <1>q, <2>1, <2>2, <2>3, <2>4
<1>11. CASE Approve \/ Reject \/ Reply \/ Resume
  <2>1. /\ ckpt' = ckpt /\ status' = "running" /\ made' = made /\ crashes' = crashes
        /\ \/ /\ status = "waiting_approval"
              /\ \/ pc' = "exec" /\ mem'.iteration = ckpt.mem.iteration
                 \/ pc' = "save" /\ mem'.iteration = ckpt.mem.iteration + 1
           \/ /\ status \in {"waiting_user", "interrupted"}
              /\ pc' = "save" /\ mem'.iteration = ckpt.mem.iteration
        /\ pc = "off" /\ mem'.modelCalls = ckpt.mem.modelCalls
    BY <1>11, <1>a, RoundMakes, AnsweringMakes, CloseMakes
       DEF Approve, Reject, Reply, Resume, Begin
  <2>2. CallsCounted'
    BY <1>a, <1>d, <1>e, <2>1 DEF CallsCounted, Lagging, Resumable
  <2>3. CallsLeft'
    BY <1>a, <1>d, <1>e, <2>1 DEF CallsLeft, CallsCounted, GoesOn, Resumable
  <2>4. RoundsLeft'
    BY <1>a, <1>d, <1>e, <2>1 DEF RoundsLeft, GoesOn
  <2> QED
    BY <1>a, <1>q, <2>1, <2>2, <2>3, <2>4
<1>12. CASE Cancel \/ Abort("aborted") \/ Abort("deadline")
  <2>1. /\ ckpt' = ckpt /\ mem' = mem /\ pc' = pc /\ forced' = forced /\ made' = made /\ crashes' = crashes
        /\ status' = status \/ status' = "cancelled"
    BY <1>12 DEF Cancel, Abort
  <2>2. CallsCounted'
    BY <1>a, <1>d, <1>e, <2>1 DEF CallsCounted, Lagging, Resumable
  <2>3. CallsLeft'
    BY <1>a, <1>d, <1>e, <2>1 DEF CallsLeft, CallsCounted, GoesOn, Resumable
  <2>4. RoundsLeft'
    BY <1>a, <1>d, <1>e, <2>1 DEF RoundsLeft, GoesOn
  <2> QED
    BY <1>a, <1>q, <2>1, <2>2, <2>3, <2>4
<1>13. CASE Crash
  <2>1. /\ ckpt' = ckpt /\ made' = made /\ crashes' = crashes + 1 /\ crashes' \in 0 .. MaxCrash
        /\ mem'.iteration = 0 /\ pc' = "off"
        /\ status' = status \/ (pc # "off" /\ status' = "interrupted")
    BY <1>13, <1>a, NewMemoryType DEF Crash, PassOwnsRun
  <2>2. CallsCounted'
    BY <1>a, <1>d, <1>e, <2>1 DEF CallsCounted, Lagging, Resumable
  <2>3. CallsLeft'
    BY <1>a, <1>d, <1>e, <2>1 DEF CallsLeft, CallsCounted, GoesOn, Resumable
  <2>4. RoundsLeft'
    BY <1>a, <1>d, <1>e, <2>1 DEF RoundsLeft, GoesOn
  <2> QED
    BY <1>a, <1>q, <2>1, <2>2, <2>3, <2>4
<1> QED
  BY <1>1, <1>2, <1>3, <1>4, <1>5, <1>6, <1>7, <1>8, <1>9, <1>10, <1>11, <1>12, <1>13,
     JobShape, PassShape DEF Next, PassGoes

(* A pass that runs has its run, and one that waits no call on its way.     *)
LEMMA OwnsStep ==
  ASSUME TypeOK, PassOwnsRun, CallsSanctioned, Next
  PROVE  PassOwnsRun'
<1> USE DEF PassOwnsRun, Resumable
<1>1. CASE Fails
  BY <1>1 DEF Fails, Throw, Idle, JobAt
<1>2. ASSUME NEW i \in Slot, CallMoves(i) PROVE PassOwnsRun'
  BY <1>2 DEF CallMoves, jobFrame, passVars, Idle
<1>3. CASE SaveOk \/ FreezeOk \/ FinalOk
  BY <1>3 DEF SaveOk, FreezeOk, FinalOk, PassFrame, Idle, JobAt
<1>4. CASE AskOk \/ RequestOk \/ CompleteOk
  BY <1>4 DEF AskOk, RequestOk, CompleteOk, WriteStatus, PassFrame, Idle, JobAt
<1>5. CASE HeadOk
  BY <1>5 DEF HeadOk, LoopHead, Idle, JobAt
<1>6. ASSUME NEW t \in Turns, ModelReturns(t) PROVE PassOwnsRun'
  BY <1>6 DEF ModelReturns, execVars, Idle, JobAt
<1>7. ASSUME pc = "turn", TurnFrame, TurnIsText \/ TurnAsks PROVE PassOwnsRun'
  BY <1>7 DEF TurnIsText, TurnAsks, Handle, TurnFrame, Idle, JobAt
<1>8. ASSUME pc = "turn", TurnFrame, Broken("invalid") \/ Broken("badAsk") PROVE PassOwnsRun'
  BY <1>8 DEF Broken, Handle, TurnFrame, Idle, JobAt
<1>9. ASSUME pc = "turn", TurnFrame, GuardSpoils \/ GuardFreezes PROVE PassOwnsRun'
  BY <1>9 DEF GuardSpoils, GuardFreezes, Handle, TurnFrame, Idle, JobAt
<1>10. ASSUME pc = "turn", TurnFrame, GuardPasses PROVE PassOwnsRun'
  BY <1>10 DEF GuardPasses, TurnFrame
<1>11. CASE Settle
  <2>1. Idle
    <3>1. DOMAIN turn.calls = 1 .. Size
      BY TypeFacts, BatchShape DEF Size
    <3> QED
      BY <1>11, <3>1 DEF Settle, CallsSanctioned, Idle
  <2> QED
    BY <1>11, <2>1 DEF Settle, execVars, Idle, JobAt
<1>12. CASE Approve
  BY <1>12 DEF Approve, Begin
<1>13. CASE Reject \/ Reply \/ Resume
  BY <1>13 DEF Reject, Reply, Resume, Begin, Idle, JobAt
<1>14. CASE Cancel \/ Abort("aborted") \/ Abort("deadline")
  BY <1>14 DEF Cancel, Abort, execVars, Idle, JobAt
<1>15. CASE Crash
  BY <1>15 DEF Crash, NoJob, Idle, JobAt
<1> QED
  BY <1>1, <1>2, <1>3, <1>4, <1>5, <1>6, <1>7, <1>8, <1>9, <1>10, <1>11, <1>12, <1>13, <1>14,
     <1>15, JobShape, PassShape DEF Next, PassGoes

(* What a step does to the starts that are counted: nothing, as long as    *)
(* turn, calls and rows stay; a call that moves on never adds to them; a   *)
(* batch that is queued adds no more than it holds.                        *)
LEMMA BegunStays ==
  ASSUME UNCHANGED <<turn, job, steps, made, starts>>, NEW a \in Action
  PROVE  Begun(a)' = Begun(a)
  BY DEF Begun, Left, JobAt, IdOf

LEMMA BegunMoves ==
  ASSUME TypeOK, CallsSanctioned, NEW i \in Slot, CallMoves(i), NEW a \in Action
  PROVE  Begun(a)' \in Nat /\ Begun(a)' <= Begun(a)
<1>1. /\ IsFiniteSet(Left(a)) /\ Cardinality(Left(a)) \in Nat
      /\ starts[a] \in Nat /\ Begun(a) = starts[a] + Cardinality(Left(a))
  BY BegunType DEF Begun
<1>2. /\ i \in DOMAIN turn.calls /\ turn.calls[i] \in Action /\ ~JobAt(i, "done")
      /\ DOMAIN turn.calls \subseteq Slot
  BY TypeFacts, BatchShape DEF CallMoves, CallsSanctioned
<1>3. /\ turn' = turn /\ made' = made /\ steps \subseteq steps'
      /\ \A j \in Slot \ {i} : job'[j] = job[j]
  BY DEF CallMoves, jobFrame, passVars
<1>4. Left(a)' \subseteq Left(a)
  BY <1>2, <1>3 DEF Left, JobAt, IdOf
<1>5. CASE UNCHANGED <<steps, starts>>
  <2>1. Cardinality(Left(a)') \in Nat /\ Cardinality(Left(a)') <= Cardinality(Left(a))
    BY <1>1, <1>4, FS_Subset, FS_CardinalityType
  <2>2. Begun(a)' = starts[a] + Cardinality(Left(a)')
    BY <1>5 DEF Begun
  <2> QED
    BY <1>1, <2>1, <2>2
<1>6. CASE /\ IdOf(i) \notin steps /\ steps' = steps \cup {IdOf(i)}
           /\ starts' = [starts EXCEPT ![turn.calls[i]] = @ + 1]
  <2>1. CASE turn.calls[i] = a
    <3>1. i \in Left(a)
      BY <1>2, <1>6, <2>1 DEF Left
    <3>2. i \notin Left(a)'
      BY <1>3, <1>6 DEF Left, IdOf
    <3>3. Left(a)' \subseteq Left(a) \ {i}
      BY <1>4, <3>2
    <3>4. /\ IsFiniteSet(Left(a) \ {i})
          /\ Cardinality(Left(a) \ {i}) = Cardinality(Left(a)) - 1
      BY <1>1, <3>1, FS_RemoveElement
    <3>5. /\ Cardinality(Left(a)') \in Nat
          /\ Cardinality(Left(a)') <= Cardinality(Left(a)) - 1
      BY <3>3, <3>4, FS_Subset, FS_CardinalityType
    <3>6. starts'[a] = starts[a] + 1
      BY <1>6, <2>1, StartCounts, TypeFacts
    <3>7. Begun(a)' = starts[a] + 1 + Cardinality(Left(a)')
      BY <3>6 DEF Begun
    <3> QED
      BY <1>1, <3>5, <3>7
  <2>2. CASE turn.calls[i] # a
    <3>1. Cardinality(Left(a)') \in Nat /\ Cardinality(Left(a)') <= Cardinality(Left(a))
      BY <1>1, <1>4, FS_Subset, FS_CardinalityType
    <3>2. starts'[a] = starts[a]
      BY <1>2, <1>6, <2>2, StartCounts, TypeFacts
    <3>3. Begun(a)' = starts[a] + Cardinality(Left(a)')
      BY <3>2 DEF Begun
    <3> QED
      BY <1>1, <3>1, <3>3
  <2> QED
    BY <2>1, <2>2
<1> QED
  BY <1>5, <1>6 DEF CallMoves

LEMMA BegunQueued ==
  ASSUME TypeOK, NEW calls \in Batch, Queue(calls), turn'.calls = calls, UNCHANGED starts,
         NEW a \in Action
  PROVE  Begun(a)' \in Nat /\ Begun(a)' <= starts[a] + Times(calls, a)
<1> DEFINE S == {i \in DOMAIN calls : calls[i] = a}
<1>1. IsFiniteSet(S) /\ Cardinality(S) \in Nat
  BY TimesType, FS_CardinalityType
<1>2. Left(a)' \subseteq S
  BY DEF Left
<1>3. Cardinality(Left(a)') \in Nat /\ Cardinality(Left(a)') <= Cardinality(S)
  BY <1>1, <1>2, FS_Subset, FS_CardinalityType
<1>4. Begun(a)' = starts[a] + Cardinality(Left(a)')
  BY DEF Begun
<1>5. starts[a] \in Nat
  BY TypeFacts
<1> QED
  BY <1>1, <1>3, <1>4, <1>5 DEF Times

(* What was started was asked for and seen, no more often than allowed.     *)
LEMMA CountedStep ==
  ASSUME LoopInv, TypeOK', PassOwnsRun', Next
  PROVE  StartsCounted'
<1> SUFFICES ASSUME NEW a \in Action
    PROVE  /\ Begun(a)' <= MaxRepeated /\ Begun(a)' <= ckpt'.mem.asked[a]
           /\ pc' # "off" => Begun(a)' <= seen'[a] /\ seen'[a] <= mem'.asked[a]
           /\ pc' = "turn" => seen'[a] + Times(turn'.calls, a) <= mem'.asked[a]
           /\ MaxRepeated = 1 /\ a \in rejected' =>
                Begun(a)' = 0 /\ ckpt'.mem.asked[a] > 0 /\ (pc' # "off" => seen'[a] > 0)
  BY DEF StartsCounted
<1>a. /\ mem \in Memory /\ ckpt.mem \in Memory /\ ckpt.pending \in Batch /\ turn.calls \in Batch
      /\ seen \in [Action -> Nat] /\ starts \in [Action -> Nat]
      /\ mem.asked[a] \in Nat /\ ckpt.mem.asked[a] \in Nat /\ seen[a] \in Nat
      /\ MaxRepeated \in Nat
  BY TypeFacts, LoopAssumption DEF LoopInv
<1>b. \A m \in Memory, p \in Batch : Save(m, p) => ckpt'.mem = m
  BY SavedType
<1>c. <<>> \in Batch
  BY NoCalls
<1>d. /\ Begun(a) \in Nat /\ starts[a] \in Nat /\ starts[a] <= Begun(a)
      /\ Idle => Begun(a) = starts[a]
      /\ Idle' => Begun(a)' = starts'[a]
  BY BegunType, BegunNext DEF LoopInv
<1>e. /\ Begun(a) <= MaxRepeated /\ Begun(a) <= ckpt.mem.asked[a]
      /\ pc # "off" => Begun(a) <= seen[a] /\ seen[a] <= mem.asked[a]
      /\ pc = "turn" => seen[a] + Times(turn.calls, a) <= mem.asked[a]
      /\ MaxRepeated = 1 /\ a \in rejected =>
           Begun(a) = 0 /\ ckpt.mem.asked[a] > 0 /\ (pc # "off" => seen[a] > 0)
  BY DEF LoopInv, StartsCounted
<1>f. Times(turn.calls, a) \in Nat /\ Times(ckpt.pending, a) \in Nat
  BY <1>a, TimesType
<1>g. TypeOK /\ PassOwnsRun /\ CallsSanctioned
  BY DEF LoopInv
<1>1. CASE Fails
  <2>1. Begun(a)' = Begun(a)
    BY <1>1, BegunStays DEF Fails
  <2>2. pc # "off" /\ pc' = "off" /\ rejected' = rejected
        /\ (ckpt'.mem = ckpt.mem \/ ckpt'.mem = mem)
    BY <1>1, <1>a, <1>b, <1>c DEF Fails, Throw, userVars
  <2> QED
    BY <1>a, <1>d, <1>e, <2>1, <2>2
<1>2. ASSUME NEW i \in Slot, CallMoves(i)
      PROVE  /\ Begun(a)' <= MaxRepeated /\ Begun(a)' <= ckpt'.mem.asked[a]
             /\ pc' # "off" => Begun(a)' <= seen'[a] /\ seen'[a] <= mem'.asked[a]
             /\ pc' = "turn" => seen'[a] + Times(turn'.calls, a) <= mem'.asked[a]
             /\ MaxRepeated = 1 /\ a \in rejected' =>
                  Begun(a)' = 0 /\ ckpt'.mem.asked[a] > 0 /\ (pc' # "off" => seen'[a] > 0)
  <2>1. Begun(a)' \in Nat /\ Begun(a)' <= Begun(a)
    BY <1>2, <1>g, BegunMoves
  <2>2. /\ pc' = pc /\ seen' = seen /\ mem' = mem /\ ckpt' = ckpt /\ turn' = turn
        /\ rejected' = rejected
    BY <1>2 DEF CallMoves, jobFrame, passVars, userVars
  <2> QED
    BY <1>a, <1>d, <1>e, <2>1, <2>2
<1>3. CASE SaveOk \/ FreezeOk \/ FinalOk \/ AskOk
  <2>1. Begun(a)' = Begun(a)
    BY <1>3, BegunStays DEF SaveOk, FreezeOk, FinalOk, AskOk, PassFrame
  <2>2. /\ pc # "off" /\ pc' # "turn" /\ rejected' = rejected /\ ckpt'.mem = mem
        /\ seen' = seen /\ mem' = mem
    BY <1>3, <1>a, <1>b, <1>c DEF SaveOk, FreezeOk, FinalOk, AskOk, PassFrame, userVars
  <2> QED
    BY <1>a, <1>d, <1>e, <2>1, <2>2
<1>4. CASE RequestOk \/ CompleteOk
  <2>1. Begun(a)' = Begun(a)
    BY <1>4, BegunStays DEF RequestOk, CompleteOk, PassFrame
  <2>2. pc' = "off" /\ rejected' = rejected /\ ckpt' = ckpt
    BY <1>4 DEF RequestOk, CompleteOk, PassFrame, userVars
  <2> QED
    BY <1>a, <1>d, <1>e, <2>1, <2>2
<1>5. CASE HeadOk
  <2>1. Begun(a)' = starts[a]
    BY <1>5, <1>d DEF HeadOk, LoopHead, PassOwnsRun
  <2>2. /\ pc # "off" /\ pc' # "turn" /\ rejected' = rejected /\ ckpt' = ckpt
        /\ seen' = seen /\ mem' = mem
    BY <1>5 DEF HeadOk, LoopHead, userVars
  <2> QED
    BY <1>a, <1>d, <1>e, <2>1, <2>2
<1>6. ASSUME NEW t \in Turns, ModelReturns(t)
      PROVE  /\ Begun(a)' <= MaxRepeated /\ Begun(a)' <= ckpt'.mem.asked[a]
             /\ pc' # "off" => Begun(a)' <= seen'[a] /\ seen'[a] <= mem'.asked[a]
             /\ pc' = "turn" => seen'[a] + Times(turn'.calls, a) <= mem'.asked[a]
             /\ MaxRepeated = 1 /\ a \in rejected' =>
                  Begun(a)' = 0 /\ ckpt'.mem.asked[a] > 0 /\ (pc' # "off" => seen'[a] > 0)
  <2> DEFINE m == [mem EXCEPT !.modelCalls = @ + 1]
  <2>1. t.calls \in Batch /\ made \in 0 .. MaxModelCalls + MaxCrash
    BY <1>g, TurnsAreTurns DEF TypeOK
  <2>2. m \in Memory /\ m.asked = mem.asked
    BY <1>a, MoreCalls
  <2>3. mem' = Asking(m, t.calls)
    BY <1>6 DEF ModelReturns
  <2> HIDE DEF m
  <2>4. mem'.asked[a] = mem.asked[a] + Times(t.calls, a)
    BY <2>1, <2>2, <2>3, AskingMakes
  <2>5. Times(t.calls, a) \in Nat
    BY <2>1, TimesType
  <2>6. Begun(a)' = starts[a]
    BY <1>6, <1>d DEF ModelReturns, execVars, PassOwnsRun
  <2>7. /\ pc # "off" /\ pc' = "turn" /\ rejected' = rejected /\ ckpt' = ckpt
        /\ seen' = seen /\ turn' = t
    BY <1>6 DEF ModelReturns, userVars
  <2> QED
    BY <1>a, <1>d, <1>e, <2>4, <2>5, <2>6, <2>7
<1>7. ASSUME pc = "turn", TurnFrame,
             TurnIsText \/ TurnAsks \/ Broken("invalid") \/ Broken("badAsk")
               \/ GuardSpoils \/ GuardFreezes
      PROVE  /\ Begun(a)' <= MaxRepeated /\ Begun(a)' <= ckpt'.mem.asked[a]
             /\ pc' # "off" => Begun(a)' <= seen'[a] /\ seen'[a] <= mem'.asked[a]
             /\ pc' = "turn" => seen'[a] + Times(turn'.calls, a) <= mem'.asked[a]
             /\ MaxRepeated = 1 /\ a \in rejected' =>
                  Begun(a)' = 0 /\ ckpt'.mem.asked[a] > 0 /\ (pc' # "off" => seen'[a] > 0)
  <2>1. Begun(a)' = Begun(a)
    BY <1>7, BegunStays DEF TurnFrame, TurnIsText, TurnAsks, Broken, GuardSpoils, GuardFreezes,
         Handle
  <2>2. pc' \in {"final", "ask", "save", "freeze"} /\ rejected' = rejected /\ ckpt'.mem = mem
    BY <1>7, <1>a, <1>b, <1>c DEF TurnFrame, TurnIsText, TurnAsks, Broken, GuardSpoils,
         GuardFreezes, Handle, userVars
  <2>3. mem'.asked[a] = mem.asked[a]
    BY <1>7, <1>a, RoundMakes DEF TurnIsText, TurnAsks, Broken, GuardSpoils, GuardFreezes
  <2>4. seen[a] <= seen'[a] /\ seen'[a] <= seen[a] + Times(turn.calls, a) /\ seen'[a] \in Nat
    BY <1>7, <1>a, <1>f, SeenBounds DEF TurnIsText, TurnAsks, Broken, GuardSpoils, GuardFreezes
  <2> QED
    BY <1>7, <1>a, <1>d, <1>e, <1>f, <2>1, <2>2, <2>3, <2>4
<1>8. ASSUME pc = "turn", TurnFrame, GuardPasses
      PROVE  /\ Begun(a)' <= MaxRepeated /\ Begun(a)' <= ckpt'.mem.asked[a]
             /\ pc' # "off" => Begun(a)' <= seen'[a] /\ seen'[a] <= mem'.asked[a]
             /\ pc' = "turn" => seen'[a] + Times(turn'.calls, a) <= mem'.asked[a]
             /\ MaxRepeated = 1 /\ a \in rejected' =>
                  Begun(a)' = 0 /\ ckpt'.mem.asked[a] > 0 /\ (pc' # "off" => seen'[a] > 0)
  <2>1. Begun(a)' \in Nat /\ Begun(a)' <= starts[a] + Times(turn.calls, a)
    BY <1>8, <1>a, <1>g, BegunQueued DEF TurnFrame, GuardPasses
  <2>2. /\ pc' = "exec" /\ rejected' = rejected /\ ckpt'.mem = mem /\ mem' = mem
        /\ BatchValid(turn.calls)
    BY <1>8, <1>a, <1>b, <1>c DEF TurnFrame, GuardPasses, userVars
  <2>3. seen'[a] = seen[a] + Times(turn.calls, a)
    BY <1>8, <1>a, <2>2, SeenBounds DEF GuardPasses
  <2>4. Times(turn.calls, a) # 0 => seen[a] + Times(turn.calls, a) <= MaxRepeated
    BY <1>a, <2>2, GuardCounts
  <2> QED
    BY <1>8, <1>a, <1>d, <1>e, <1>f, <2>1, <2>2, <2>3, <2>4
<1>9. CASE Settle
  <2>1. Begun(a)' = Begun(a)
    BY <1>9, BegunStays DEF Settle, execVars
  <2>2. /\ pc = "exec" /\ pc' = "save" /\ rejected' = rejected /\ ckpt' = ckpt /\ seen' = seen
        /\ mem'.asked = mem.asked
    BY <1>9, <1>a, RoundMakes DEF Settle, userVars
  <2> QED
    BY <1>a, <1>d, <1>e, <2>1, <2>2
<1>10. CASE Approve
  <2>1. turn'.calls = ckpt.pending /\ Queue(ckpt.pending) /\ UNCHANGED starts
    BY <1>10 DEF Approve, Begin
  <2>2. Begun(a)' \in Nat /\ Begun(a)' <= starts[a] + Times(ckpt.pending, a)
    BY <1>a, <1>g, <2>1, BegunQueued
  <2>3. MayStart(ckpt.pending, ckpt.mem) /\ pc = "off"
    BY <1>10, <1>g DEF Approve, Begin, CallsSanctioned
  <2>4. /\ starts[a] + Times(ckpt.pending, a) <= MaxRepeated
        /\ starts[a] + Times(ckpt.pending, a) <= ckpt.mem.asked[a]
        /\ MaxRepeated = 1 /\ a \in rejected => \A i \in DOMAIN ckpt.pending : ckpt.pending[i] # a
    BY <2>3 DEF MayStart
  <2>5. MaxRepeated = 1 /\ a \in rejected => Times(ckpt.pending, a) = 0
    BY <1>a, <2>4, TimesType
  <2>6. /\ pc' = "exec" /\ rejected' = rejected /\ ckpt' = ckpt /\ mem' = ckpt.mem
        /\ seen' = ckpt.mem.asked
    BY <1>10 DEF Approve, Begin, collectSeenSignatures
  <2> QED
    BY <1>a, <1>d, <1>e, <1>f, <2>2, <2>4, <2>5, <2>6
<1>11. CASE Reject
  <2>1. Begun(a)' = starts[a]
    BY <1>11, <1>d, <1>g DEF Reject, Begin, PassOwnsRun, Resumable, Idle, JobAt
  <2>2. MayStart(ckpt.pending, ckpt.mem) /\ pc = "off"
    BY <1>11, <1>g DEF Reject, Begin, CallsSanctioned
  <2>3. /\ starts[a] + Times(ckpt.pending, a) <= MaxRepeated
        /\ starts[a] + Times(ckpt.pending, a) <= ckpt.mem.asked[a]
    BY <2>2 DEF MayStart
  <2>4. a \in rejected' => a \in rejected \/ Times(ckpt.pending, a) # 0
    BY <1>11, <1>a, TimesType DEF Reject
  <2>5. pc' = "save" /\ ckpt' = ckpt
    BY <1>11 DEF Reject, Begin
  <2>6. seen'[a] = ckpt.mem.asked[a] /\ mem'.asked[a] = ckpt.mem.asked[a]
    BY <1>11, <1>a, RoundMakes DEF Reject, Begin, collectSeenSignatures
  <2> QED
    BY <1>a, <1>d, <1>e, <1>f, <2>1, <2>3, <2>4, <2>5, <2>6
<1>12. CASE Reply \/ Resume
  <2>1. Begun(a)' = starts[a]
    BY <1>12, <1>d, <1>g DEF Reply, Resume, Begin, PassOwnsRun, Resumable, Idle, JobAt
  <2>2. pc' = "save" /\ ckpt' = ckpt /\ rejected' = rejected
    BY <1>12 DEF Reply, Resume, Begin
  <2>3. seen'[a] = ckpt.mem.asked[a] /\ mem'.asked[a] = ckpt.mem.asked[a]
    BY <1>12, <1>a, AnsweringMakes, CloseMakes DEF Reply, Resume, Begin, collectSeenSignatures
  <2> QED
    BY <1>a, <1>d, <1>e, <2>1, <2>2, <2>3
<1>13. CASE Cancel \/ Abort("aborted") \/ Abort("deadline")
  <2>1. Begun(a)' = Begun(a)
    BY <1>13, BegunStays DEF Cancel, Abort, execVars
  <2>2. /\ pc' = pc /\ seen' = seen /\ mem' = mem /\ ckpt' = ckpt /\ turn' = turn
        /\ rejected' = rejected
    BY <1>13 DEF Cancel, Abort, userVars
  <2> QED
    BY <1>a, <1>d, <1>e, <2>1, <2>2
<1>14. CASE Crash
  <2>1. Begun(a)' = starts[a]
    BY <1>14, <1>d DEF Crash, Idle, JobAt, NoJob
  <2>2. pc' = "off" /\ ckpt' = ckpt /\ rejected' = rejected
    BY <1>14 DEF Crash, userVars
  <2> QED
    BY <1>a, <1>d, <1>e, <2>1, <2>2
<1> QED
  BY <1>1, <1>2, <1>3, <1>4, <1>5, <1>6, <1>7, <1>8, <1>9, <1>10, <1>11, <1>12, <1>13, <1>14,
     <1>g, JobShape, PassShape DEF Next, PassGoes

(* What may be started stays so as long as nothing else is started or      *)
(* rejected.                                                               *)
LEMMA MayStartStays ==
  ASSUME UNCHANGED <<starts, rejected>>, NEW calls, NEW m, MayStart(calls, m)
  PROVE  MayStart(calls, m)'
  BY DEF MayStart

(* Calls on their way, and those that wait for a decision, are sanctioned.  *)
LEMMA SanctionedStep ==
  ASSUME LoopInv, PassOwnsRun', Next
  PROVE  CallsSanctioned'
<1>a. /\ ckpt.pending \in Batch /\ turn.calls \in Batch /\ mem \in Memory /\ ckpt.mem \in Memory
      /\ seen \in [Action -> Nat] /\ starts \in [Action -> Nat]
  BY TypeFacts DEF LoopInv
<1>b. \A m \in Memory, p \in Batch : Save(m, p) => ckpt'.mem = m /\ ckpt'.pending = p
  BY SavedType
<1>c. <<>> \in Batch
  BY NoCalls
<1>g. TypeOK /\ PassOwnsRun /\ CallsSanctioned /\ StartsCounted
  BY DEF LoopInv
<1>h. DOMAIN turn.calls \subseteq Slot /\ DOMAIN ckpt.pending \subseteq Slot
  BY <1>a, BatchShape
<1> DEFINE Calls == \A i \in Slot : ~JobAt(i, "done") =>
                      /\ i \in DOMAIN turn.calls /\ turn.calls[i] \in Action
                      /\ ~Refused(turn.calls[i])
                      /\ NeedsApproval(mode, turn.calls[i]) => turn.calls[i] \in approved
           Frozen == /\ pc = "freeze" => MayStart(turn.calls, mem)
                     /\ pc = "request" \/ status = "waiting_approval" =>
                          MayStart(ckpt.pending, ckpt.mem)
           Started == \A a \in Action : starts[a] > 0 =>
                        ~Refused(a) /\ (NeedsApproval(mode, a) => a \in approved)
<1>i. Calls /\ Frozen /\ Started
  BY <1>g DEF CallsSanctioned
<1>j. Calls' /\ Frozen' /\ Started' => CallsSanctioned'
  BY DEF CallsSanctioned
<1>k. Idle' => Calls'
  BY DEF Idle
<1>l. UNCHANGED <<turn, job, mode, approved>> => Calls'
  BY <1>i DEF JobAt
<1>m. UNCHANGED starts /\ mode' = mode /\ approved \subseteq approved' => Started'
  BY <1>i
<1> HIDE DEF Calls, Frozen, Started
<1>1. CASE Fails
  <2>1. Calls' /\ Started'
    BY <1>1, <1>l, <1>m DEF Fails, userVars
  <2>2. pc' = "off" /\ status' # "waiting_approval"
    BY <1>1, <1>g DEF Fails, Throw, PassOwnsRun
  <2> QED
    BY <1>j, <2>1, <2>2 DEF Frozen
<1>2. ASSUME NEW i \in Slot, CallMoves(i) PROVE CallsSanctioned'
  <2>1. /\ turn' = turn /\ mode' = mode /\ approved' = approved /\ rejected' = rejected
        /\ ckpt' = ckpt /\ pc' = pc /\ status' = status /\ mem' = mem
        /\ \A j \in Slot \ {i} : job'[j] = job[j]
        /\ ~JobAt(i, "done")
    BY <1>2 DEF CallMoves, jobFrame, passVars, userVars
  <2>2. Calls'
    BY <1>i, <2>1 DEF Calls, JobAt
  <2>3. ~Idle /\ pc' # "freeze" /\ pc' # "request" /\ status' # "waiting_approval"
    BY <1>g, <2>1 DEF Idle, PassOwnsRun, Resumable
  <2>4. Started'
    <3>1. CASE UNCHANGED starts
      BY <1>m, <2>1, <3>1
    <3>2. CASE starts' = [starts EXCEPT ![turn.calls[i]] = @ + 1]
      <4>1. /\ turn.calls[i] \in Action /\ ~Refused(turn.calls[i])
            /\ NeedsApproval(mode, turn.calls[i]) => turn.calls[i] \in approved
        BY <1>i, <2>1 DEF Calls
      <4>2. \A b \in Action \ {turn.calls[i]} : starts'[b] = starts[b]
        BY <1>a, <3>2, <4>1, StartCounts
      <4> QED
        BY <1>i, <2>1, <4>1, <4>2 DEF Started
    <3> QED
      BY <1>2, <3>1, <3>2 DEF CallMoves
  <2> QED
    BY <1>j, <2>2, <2>3, <2>4 DEF Frozen
<1>3. CASE SaveOk \/ FinalOk \/ CompleteOk \/ AskOk
  <2>1. Calls' /\ Started'
    BY <1>3, <1>l, <1>m DEF SaveOk, FinalOk, CompleteOk, AskOk, PassFrame, userVars
  <2>2. pc' # "freeze" /\ pc' # "request" /\ status' # "waiting_approval"
    BY <1>3, <1>g DEF SaveOk, FinalOk, CompleteOk, AskOk, WriteStatus, PassOwnsRun
  <2> QED
    BY <1>j, <2>1, <2>2 DEF Frozen
<1>4. CASE FreezeOk
  <2>1. Calls' /\ Started'
    BY <1>4, <1>l, <1>m DEF FreezeOk, PassFrame, userVars
  <2>2. MayStart(turn.calls, mem)'
    BY <1>4, <1>i, MayStartStays DEF FreezeOk, PassFrame, userVars, Frozen, MayStart
  <2>3. ckpt'.mem = mem' /\ ckpt'.pending = turn'.calls /\ pc' # "freeze"
    BY <1>4, <1>a, <1>b DEF FreezeOk, PassFrame
  <2>4. MayStart(ckpt.pending, ckpt.mem)'
    BY <2>2, <2>3 DEF MayStart
  <2> QED
    BY <1>j, <2>1, <2>3, <2>4 DEF Frozen
<1>5. CASE RequestOk
  <2>1. Calls' /\ Started'
    BY <1>5, <1>l, <1>m DEF RequestOk, PassFrame, userVars
  <2>2. MayStart(ckpt.pending, ckpt.mem)'
    BY <1>5, <1>i DEF RequestOk, PassFrame, userVars, Frozen, MayStart
  <2>3. pc' = "off"
    BY <1>5 DEF RequestOk
  <2> QED
    BY <1>j, <2>1, <2>2, <2>3 DEF Frozen
<1>6. CASE HeadOk \/ Settle \/ \E t \in Turns : ModelReturns(t)
  <2>1. Started'
    BY <1>6, <1>m DEF HeadOk, LoopHead, Settle, ModelReturns, execVars, userVars
  <2>2. Calls'
    <3>1. CASE HeadOk
      BY <1>l, <3>1 DEF HeadOk, LoopHead, userVars
    <3>2. CASE Settle
      BY <1>l, <3>2 DEF Settle, execVars, userVars
    <3>3. CASE \E t \in Turns : ModelReturns(t)
      BY <1>g, <1>k, <3>3 DEF ModelReturns, execVars, PassOwnsRun
    <3> QED
      BY <1>6, <3>1, <3>2, <3>3
  <2>3. pc' # "freeze" /\ pc' # "request" /\ status' # "waiting_approval"
    BY <1>6, <1>g DEF HeadOk, LoopHead, Settle, ModelReturns, PassOwnsRun
  <2> QED
    BY <1>j, <2>1, <2>2, <2>3 DEF Frozen
<1>7. ASSUME pc = "turn", TurnFrame,
             TurnIsText \/ TurnAsks \/ Broken("invalid") \/ Broken("badAsk") \/ GuardSpoils
      PROVE  CallsSanctioned'
  <2>1. Calls' /\ Started'
    BY <1>7, <1>l, <1>m DEF TurnFrame, TurnIsText, TurnAsks, Broken, GuardSpoils, Handle, userVars
  <2>2. pc' # "freeze" /\ pc' # "request" /\ status' # "waiting_approval"
    BY <1>7, <1>g DEF TurnIsText, TurnAsks, Broken, GuardSpoils, Handle, PassOwnsRun
  <2> QED
    BY <1>j, <2>1, <2>2 DEF Frozen
<1>s. ASSUME pc = "turn", BatchValid(turn.calls)
      PROVE  MayStart(turn.calls, mem)
  <2>1. \A i \in DOMAIN turn.calls : turn.calls[i] \in Action /\ ~Refused(turn.calls[i])
    BY <1>a, <1>s, GuardRefuses
  <2>2. ASSUME NEW a \in Action
        PROVE  /\ starts[a] + Times(turn.calls, a) <= MaxRepeated
               /\ starts[a] + Times(turn.calls, a) <= mem.asked[a]
               /\ MaxRepeated = 1 /\ a \in rejected => Times(turn.calls, a) = 0
    <3>1. /\ Begun(a) \in Nat /\ starts[a] \in Nat /\ starts[a] <= Begun(a)
          /\ Times(turn.calls, a) \in Nat /\ MaxRepeated \in Nat /\ seen[a] \in Nat
          /\ mem.asked[a] \in Nat
      BY <1>a, <1>g, BegunType, TimesType, TypeFacts, LoopAssumption
    <3>2. /\ Begun(a) <= MaxRepeated /\ Begun(a) <= seen[a]
          /\ seen[a] + Times(turn.calls, a) <= mem.asked[a]
          /\ MaxRepeated = 1 /\ a \in rejected => seen[a] > 0
      BY <1>g, <1>s DEF StartsCounted
    <3>3. Times(turn.calls, a) # 0 => seen[a] + Times(turn.calls, a) <= MaxRepeated
      BY <1>a, <1>s, GuardCounts
    <3> QED
      BY <3>1, <3>2, <3>3
  <2>3. MaxRepeated = 1 => \A i \in DOMAIN turn.calls : turn.calls[i] \notin rejected
    BY <1>a, <2>1, <2>2, TimesType
  <2> QED
    BY <2>1, <2>2, <2>3 DEF MayStart
<1>8. ASSUME pc = "turn", TurnFrame, GuardFreezes
      PROVE  CallsSanctioned'
  <2>1. Calls' /\ Started'
    BY <1>8, <1>l, <1>m DEF TurnFrame, GuardFreezes, Handle, userVars
  <2>2. MayStart(turn.calls, mem)
    BY <1>8, <1>s DEF GuardFreezes
  <2>3. MayStart(turn.calls, mem)'
    BY <1>8, <2>2 DEF TurnFrame, GuardFreezes, userVars, MayStart
  <2>4. pc' # "request" /\ status' # "waiting_approval"
    BY <1>8, <1>g DEF GuardFreezes, Handle, PassOwnsRun
  <2> QED
    BY <1>j, <2>1, <2>3, <2>4 DEF Frozen
<1>9. ASSUME pc = "turn", TurnFrame, GuardPasses
      PROVE  CallsSanctioned'
  <2>1. Started'
    BY <1>9, <1>m DEF TurnFrame, userVars
  <2>2. \A i \in DOMAIN turn.calls :
          /\ turn.calls[i] \in Action /\ ~Refused(turn.calls[i])
          /\ ~NeedsApproval(mode, turn.calls[i])
    BY <1>9, <1>a, GuardRefuses DEF GuardPasses, Risky
  <2>3. /\ turn' = turn /\ mode' = mode
        /\ \A i \in Slot : ~JobAt(i, "done")' => i \in DOMAIN turn.calls
    BY <1>9, <1>a, QueueType DEF TurnFrame, GuardPasses, userVars, JobAt
  <2>4. Calls'
    BY <2>2, <2>3 DEF Calls
  <2>5. pc' = "exec" /\ status' # "waiting_approval"
    BY <1>9, <1>g DEF GuardPasses, PassOwnsRun
  <2> QED
    BY <1>j, <2>1, <2>4, <2>5 DEF Frozen
<1>10. CASE Approve
  <2>1. /\ MayStart(ckpt.pending, ckpt.mem) /\ mode' = mode
        /\ turn'.calls = ckpt.pending /\ starts' = starts
        /\ approved' = approved \cup {ckpt.pending[i] : i \in DOMAIN ckpt.pending}
        /\ pc' = "exec" /\ status' = "running"
    BY <1>10, <1>i DEF Approve, Begin, Frozen
  <2>2. Started'
    BY <1>m, <2>1
  <2>3. \A i \in Slot : ~JobAt(i, "done")' => i \in DOMAIN ckpt.pending
    BY <1>10, <1>a, QueueType DEF Approve, JobAt
  <2>4. Calls'
    BY <2>1, <2>3 DEF Calls, MayStart
  <2> QED
    BY <1>j, <2>1, <2>2, <2>4 DEF Frozen
<1>11. CASE Reject \/ Reply \/ Resume
  <2>1. Idle'
    BY <1>11, <1>g DEF Reject, Reply, Resume, Begin, PassOwnsRun, Resumable, Idle, JobAt
  <2>2. Started'
    BY <1>11, <1>m DEF Reject, Reply, Resume, Begin
  <2>3. pc' = "save" /\ status' = "running"
    BY <1>11 DEF Reject, Reply, Resume, Begin
  <2> QED
    BY <1>j, <1>k, <2>1, <2>2, <2>3 DEF Frozen
<1>12. CASE Cancel \/ Abort("aborted") \/ Abort("deadline")
  <2>1. Calls' /\ Started'
    BY <1>12, <1>l, <1>m DEF Cancel, Abort, execVars, userVars
  <2>2. /\ pc' = pc /\ (status' = status \/ status' = "cancelled")
        /\ UNCHANGED <<turn, mem, ckpt, starts, rejected>>
    BY <1>12 DEF Cancel, Abort, execVars, userVars
  <2>3. Frozen'
    BY <1>i, <2>2 DEF Frozen, MayStart
  <2> QED
    BY <1>j, <2>1, <2>3
<1>13. CASE Crash
  <2>1. Idle' /\ Started'
    BY <1>13, <1>m DEF Crash, Idle, JobAt, NoJob, userVars
  <2>2. pc' = "off" /\ (status' = "waiting_approval" => status = "waiting_approval")
        /\ UNCHANGED <<ckpt, starts, rejected>>
    BY <1>13 DEF Crash, userVars
  <2>3. Frozen'
    BY <1>i, <2>2 DEF Frozen, MayStart
  <2> QED
    BY <1>j, <1>k, <2>1, <2>3
<1> QED
  BY <1>1, <1>2, <1>3, <1>4, <1>5, <1>6, <1>7, <1>8, <1>9, <1>10, <1>11, <1>12, <1>13,
     <1>g, JobShape, PassShape DEF Next, PassGoes

(* The calls without an answer are those of the turn being handled.        *)
LEMMA TrackedStep ==
  ASSUME LoopInv, Next
  PROVE  CallsTracked'
<1>a. /\ ckpt.pending \in Batch /\ turn.calls \in Batch /\ mem \in Memory /\ ckpt.mem \in Memory
      /\ made \in 0 .. MaxModelCalls + MaxCrash
  BY TypeFacts DEF LoopInv, TypeOK
<1>b. \A m \in Memory, p \in Batch : Save(m, p) => ckpt'.mem = m /\ ckpt'.pending = p
  BY SavedType
<1>c. <<>> \in Batch
  BY NoCalls
<1>g. TypeOK /\ PassOwnsRun /\ CallsTracked
  BY DEF LoopInv
<1>d. pc # "off" => status \notin {"waiting_approval", "waiting_user", "interrupted"}
  BY <1>g DEF PassOwnsRun, Resumable
<1> USE DEF CallsTracked
<1>1. CASE Fails
  <2>1. /\ pc' = "off" /\ pc # "off" /\ status' \notin {"waiting_approval", "waiting_user"}
        /\ mem' = mem /\ (ckpt'.mem = ckpt.mem \/ ckpt'.mem = mem)
    BY <1>1, <1>a, <1>b, <1>c, <1>d DEF Fails, Throw
  <2> QED
    BY <1>g, <2>1
<1>2. ASSUME NEW i \in Slot, CallMoves(i) PROVE CallsTracked'
  BY <1>2, <1>g DEF CallMoves, jobFrame, passVars, IdsOf
<1>3. CASE SaveOk \/ FinalOk
  <2>1. /\ ckpt'.mem = mem /\ mem' = mem /\ status' = status
        /\ \/ pc = "save" /\ pc' = "head"
           \/ pc = "final" /\ pc' = "complete"
    BY <1>3, <1>a, <1>b, <1>c DEF SaveOk, FinalOk, PassFrame
  <2> QED
    BY <1>d, <1>g, <2>1
<1>4. CASE FreezeOk
  <2>1. /\ ckpt'.mem = mem /\ ckpt'.pending = turn.calls /\ mem' = mem /\ status' = status
        /\ pc = "freeze" /\ pc' = "request" /\ turn' = turn /\ made' = made
    BY <1>4, <1>a, <1>b DEF FreezeOk, PassFrame
  <2>2. ckpt'.mem.open = IdsOf(ckpt.pending)' /\ mem'.open = IdsOf(turn.calls)'
    BY <1>g, <2>1 DEF IdsOf
  <2> QED
    BY <1>d, <1>g, <2>1, <2>2
<1>5. CASE AskOk
  <2>1. /\ ckpt'.mem = mem /\ mem' = mem /\ pc = "ask" /\ pc' = "off" /\ made' = made
        /\ status' \in {"waiting_user", status}
    BY <1>5, <1>a, <1>b, <1>c DEF AskOk, WriteStatus, PassFrame
  <2>2. turn.calls = <<NoAction>> /\ mem.open = IdsOf(turn.calls)
    BY <1>g, <2>1
  <2>3. DOMAIN <<NoAction>> = {1}
    OBVIOUS
  <2>4. mem.open = {<<made, 1>>}
    BY <2>2, <2>3 DEF IdsOf
  <2> QED
    BY <1>d, <1>g, <2>1, <2>4
<1>6. CASE RequestOk
  <2>1. /\ ckpt' = ckpt /\ mem' = mem /\ pc = "request" /\ pc' = "off" /\ made' = made
        /\ status' \in {"waiting_approval", status}
    BY <1>6 DEF RequestOk, WriteStatus, PassFrame
  <2>2. ckpt'.mem.open = IdsOf(ckpt.pending)'
    BY <1>g, <2>1 DEF IdsOf
  <2> QED
    BY <1>d, <1>g, <2>1, <2>2
<1>7. CASE CompleteOk
  <2>1. /\ ckpt' = ckpt /\ mem' = mem /\ pc = "complete" /\ pc' = "off"
        /\ status' \in {"completed", status}
    BY <1>7 DEF CompleteOk, WriteStatus, PassFrame
  <2> QED
    BY <1>d, <1>g, <2>1
<1>8. CASE HeadOk
  <2>1. ckpt' = ckpt /\ mem' = mem /\ pc = "head" /\ pc' = "model" /\ status' = status
    BY <1>8 DEF HeadOk, LoopHead
  <2> QED
    BY <1>d, <1>g, <2>1
<1>9. ASSUME NEW t \in Turns, ModelReturns(t) PROVE CallsTracked'
  <2> DEFINE m == [mem EXCEPT !.modelCalls = @ + 1]
  <2>1. t.calls \in Batch /\ (t.kind = "ask" => t.calls = <<NoAction>>)
    BY TurnsAreTurns
  <2>2. m \in Memory /\ m.open = mem.open /\ m.twice = mem.twice
    BY <1>a, MoreCalls
  <2>3. mem' = Asking(m, t.calls)
    BY <1>9 DEF ModelReturns
  <2> HIDE DEF m
  <2>4. mem'.open = mem.open \cup IdsOf(t.calls) /\ mem'.twice = mem.twice
    BY <1>a, <2>1, <2>2, <2>3, AskingMakes
  <2>5. /\ pc = "model" /\ pc' = "turn" /\ turn' = t /\ made' = made /\ ckpt' = ckpt
        /\ status' = status
    BY <1>9 DEF ModelReturns
  <2>6. mem'.open = IdsOf(turn.calls)'
    BY <1>g, <2>4, <2>5 DEF IdsOf
  <2> QED
    BY <1>d, <1>g, <2>1, <2>4, <2>5, <2>6
<1>10. ASSUME pc = "turn", TurnFrame, TurnIsText \/ TurnAsks \/ GuardFreezes \/ GuardPasses
       PROVE  CallsTracked'
  <2>1. /\ ckpt'.mem = mem /\ mem' = mem /\ turn' = turn /\ made' = made /\ status' = status
        /\ pc' \in {"final", "ask", "freeze", "exec"}
        /\ pc' = "ask" => turn.kind = "ask"
    BY <1>10, <1>a, <1>b, <1>c
       DEF TurnFrame, TurnIsText, TurnAsks, GuardFreezes, GuardPasses, Handle
  <2>2. mem'.open = IdsOf(turn.calls)'
    BY <1>10, <1>g, <2>1 DEF IdsOf
  <2> QED
    BY <1>10, <1>d, <1>g, <2>1, <2>2
<1>11. ASSUME pc = "turn", TurnFrame, Broken("invalid") \/ Broken("badAsk") \/ GuardSpoils
       PROVE  CallsTracked'
  <2>1. /\ ckpt'.mem = mem /\ status' = status /\ pc' = "save"
        /\ mem' = RoundDone(mem, turn.calls)
    BY <1>11, <1>a, <1>b, <1>c DEF TurnFrame, Broken, GuardSpoils, Handle
  <2>2. mem'.open = {} /\ mem'.twice = mem.twice
    BY <1>11, <1>a, <1>g, <2>1, RoundMakes
  <2> QED
    BY <1>11, <1>d, <1>g, <2>1, <2>2
<1>12. CASE Settle
  <2>1. /\ ckpt' = ckpt /\ status' = status /\ pc = "exec" /\ pc' = "save"
        /\ mem' = RoundDone(mem, turn.calls)
    BY <1>12 DEF Settle
  <2>2. mem'.open = {} /\ mem'.twice = mem.twice
    BY <1>a, <1>g, <2>1, RoundMakes
  <2> QED
    BY <1>d, <1>g, <2>1, <2>2
<1>13. CASE Approve
  <2>1. /\ ckpt' = ckpt /\ status' = "running" /\ status = "waiting_approval" /\ pc' = "exec"
        /\ mem' = ckpt.mem /\ turn'.calls = ckpt.pending /\ made' = made
    BY <1>13 DEF Approve, Begin
  <2>2. mem'.open = IdsOf(turn.calls)'
    BY <1>g, <2>1 DEF IdsOf
  <2> QED
    BY <1>g, <2>1, <2>2
<1>14. CASE Reject
  <2>1. /\ ckpt' = ckpt /\ status' = "running" /\ status = "waiting_approval" /\ pc' = "save"
        /\ mem' = RoundDone(ckpt.mem, ckpt.pending)
    BY <1>14 DEF Reject, Begin
  <2>2. mem'.open = {} /\ mem'.twice = ckpt.mem.twice
    BY <1>a, <1>g, <2>1, RoundMakes
  <2> QED
    BY <1>g, <2>1, <2>2
<1>15. CASE Reply
  <2>1. /\ ckpt' = ckpt /\ status' = "running" /\ status = "waiting_user" /\ pc' = "save"
        /\ mem' = Answering(ckpt.mem, {<<made, 1>>})
    BY <1>15 DEF Reply, Begin
  <2>2. mem'.open = {} /\ mem'.twice = ckpt.mem.twice
    BY <1>a, <1>g, <2>1, AnsweringMakes
  <2> QED
    BY <1>g, <2>1, <2>2
<1>16. CASE Resume
  <2>1. /\ ckpt' = ckpt /\ status' = "running" /\ pc' = "save"
        /\ mem' = closeUnresolvedToolCalls(ckpt.mem)
    BY <1>16 DEF Resume, Begin
  <2>2. mem'.open = {} /\ mem'.twice = ckpt.mem.twice
    BY <1>a, <2>1, CloseMakes
  <2> QED
    BY <1>g, <2>1, <2>2
<1>17. CASE Cancel \/ Abort("aborted") \/ Abort("deadline")
  <2>1. /\ UNCHANGED <<ckpt, mem, pc, turn, made>>
        /\ status' = status \/ status' = "cancelled"
    BY <1>17 DEF Cancel, Abort, execVars
  <2> QED
    BY <1>g, <2>1 DEF IdsOf
<1>18. CASE Crash
  <2>1. /\ UNCHANGED <<ckpt, made>> /\ pc' = "off" /\ mem' = NewMemory
        /\ status' = status \/ status' = "interrupted"
    BY <1>18 DEF Crash
  <2>2. ckpt'.mem.open = ckpt.mem.open /\ IdsOf(ckpt.pending)' = IdsOf(ckpt.pending)
    BY <2>1 DEF IdsOf
  <2> QED
    BY <1>g, <2>1, <2>2, NewMemoryType
<1> QED
  BY <1>1, <1>2, <1>3, <1>4, <1>5, <1>6, <1>7, <1>8, <1>9, <1>10, <1>11, <1>12, <1>13, <1>14,
     <1>15, <1>16, <1>17, <1>18, <1>g, JobShape, PassShape DEF Next, PassGoes

(* An open row is that of a call on its way, as long as nothing failed.     *)
LEMMA RowsStep ==
  ASSUME LoopInv, Next
  PROVE  RowsTracked'
<1>a. TypeOK /\ PassOwnsRun /\ CallsSanctioned /\ RowsTracked
  BY DEF LoopInv
<1>b. faults \in Nat /\ crashes \in Nat /\ MaxFault \in Nat
  BY <1>a, LoopAssumption DEF TypeOK
<1>c. Idle => \A i \in Slot : ~HasRow(i)
  BY DEF Idle, JobAt, HasRow
<1>d. UNCHANGED <<openRows, job, made, crashes>> /\ faults' \in faults .. MaxFault => RowsTracked'
  BY <1>a, <1>b DEF RowsTracked, IdOf, HasRow
<1>e. Idle /\ faults = 0 /\ crashes = 0 => openRows = {}
  BY <1>a, <1>c DEF RowsTracked
<1>f. UNCHANGED <<openRows, crashes, faults>> /\ Idle => RowsTracked'
  BY <1>e DEF RowsTracked
<1>g. UNCHANGED faults => faults' \in faults .. MaxFault
  BY <1>a, HealthyCounts
<1>1. CASE Fails
  BY <1>1, <1>d DEF Fails
<1>2. ASSUME NEW i \in Slot, CallMoves(i) PROVE RowsTracked'
  <2> SUFFICES ASSUME faults' = 0, crashes' = 0, NEW id \in openRows'
               PROVE  \E j \in Slot : id = IdOf(j)' /\ HasRow(j)'
    BY DEF RowsTracked
  <2>1. /\ faults = 0 /\ crashes = 0 /\ made' = made
        /\ \A j \in Slot \ {i} : job'[j] = job[j]
    BY <1>2, <1>b DEF CallMoves, jobFrame
  <2>2. \A j \in Slot : IdOf(j)' = IdOf(j)
    BY <2>1 DEF IdOf
  <2>3. \A j \in Slot : IdOf(j) = IdOf(i) => j = i
    BY DEF IdOf
  <2>4. \A j \in Slot \ {i} : HasRow(j) => HasRow(j)'
    BY <2>1 DEF HasRow
  <2>5. CASE id = IdOf(i)
    <3>1. HasRow(i)'
      <4>1. CASE openRows' = openRows \cup {IdOf(i)} /\ HasRow(i)'
        BY <4>1
      <4>2. CASE openRows' = openRows \ {IdOf(i)}
        BY <2>5, <4>2
      <4>3. CASE openRows' = openRows /\ (HasRow(i) => HasRow(i)')
        <5>1. PICK j \in Slot : id = IdOf(j) /\ HasRow(j)
          BY <1>a, <2>1, <4>3 DEF RowsTracked
        <5> QED
          BY <2>3, <2>5, <4>3, <5>1
      <4>4. CASE openRows' = openRows /\ faults' > 0
        BY <1>b, <4>4
      <4> QED
        BY <1>2, <4>1, <4>2, <4>3, <4>4 DEF CallMoves
    <3> QED
      BY <2>2, <2>5, <3>1
  <2>6. CASE id # IdOf(i)
    <3>1. id \in openRows
      BY <1>2, <2>6 DEF CallMoves
    <3>2. PICK j \in Slot : id = IdOf(j) /\ HasRow(j)
      BY <1>a, <2>1, <3>1 DEF RowsTracked
    <3> QED
      BY <2>2, <2>4, <2>6, <3>2
  <2> QED
    BY <2>5, <2>6
<1>3. CASE SaveOk \/ FreezeOk \/ FinalOk \/ AskOk \/ RequestOk \/ CompleteOk
  BY <1>3, <1>d, <1>g
     DEF SaveOk, FreezeOk, FinalOk, AskOk, RequestOk, CompleteOk, PassFrame
<1>4. CASE HeadOk
  BY <1>4, <1>a, <1>f DEF HeadOk, LoopHead, PassOwnsRun
<1>5. ASSUME NEW t \in Turns, ModelReturns(t) PROVE RowsTracked'
  BY <1>5, <1>d, <1>g DEF ModelReturns, execVars
<1>6. ASSUME pc = "turn", TurnFrame PROVE RowsTracked'
  BY <1>6, <1>a, <1>f DEF TurnFrame, PassOwnsRun
<1>7. CASE Settle
  BY <1>7, <1>d, <1>g DEF Settle, execVars
<1>8. CASE Approve \/ Reject \/ Reply \/ Resume
  BY <1>8, <1>a, <1>f DEF Approve, Reject, Reply, Resume, Begin, PassOwnsRun, Resumable
<1>9. CASE Cancel \/ Abort("aborted") \/ Abort("deadline")
  BY <1>9, <1>d, <1>g DEF Cancel, Abort, execVars
<1>10. CASE Crash
  BY <1>10, <1>b DEF Crash, RowsTracked
<1> QED
  BY <1>1, <1>2, <1>3, <1>4, <1>5, <1>6, <1>7, <1>8, <1>9, <1>10, <1>a, JobShape, PassShape
     DEF Next, PassGoes
-----------------------------------------------------------------------------
LEMMA InitLoopInv == Init => LoopInv
<1> SUFFICES ASSUME Init PROVE LoopInv
  OBVIOUS
<1>1. TypeOK
  <2>1. [i \in Slot |-> NoJob] \in [Slot -> Job]
    BY LoopAssumption DEF NoJob, Job
  <2>2. NewMemory.asked \in [Action -> Nat] /\ NewMemory \in Memory
    BY NewMemoryType DEF NewMemory
  <2>3. ckpt \in [saved : BOOLEAN, mem : Memory, pending : Batch]
    BY <2>2, NoCalls DEF Init
  <2>4. /\ made \in 0 .. MaxModelCalls + MaxCrash /\ faults \in 0 .. MaxFault
        /\ crashes \in 0 .. MaxCrash
    BY LoopAssumption DEF Init
  <2> QED
    BY <2>1, <2>2, <2>3, <2>4, NoTurnType DEF Init, TypeOK
<1>2. Idle /\ pc = "save" /\ status = "running" /\ mem = NewMemory /\ ckpt.mem = NewMemory
  BY DEF Init, Idle, JobAt, NoJob
<1>3. \A a \in Action : Begun(a) = 0 /\ starts[a] = 0 /\ seen[a] = 0
  BY <1>1, <1>2, BegunType, NewMemoryType DEF Init
<1>4. PassOwnsRun
  BY <1>2 DEF PassOwnsRun, Resumable
<1>5. StartsCounted
  BY <1>2, <1>3, NewMemoryType, LoopAssumption DEF StartsCounted, Init
<1>6. CallsSanctioned
  BY <1>2, <1>3 DEF CallsSanctioned, Idle
<1>7. BudgetCounted
  BY <1>2, NewMemoryType, LoopAssumption
     DEF Init, BudgetCounted, CallsCounted, Lagging, CallsLeft, GoesOn, RoundsLeft
<1>8. CallsTracked
  BY <1>2, NewMemoryType DEF CallsTracked
<1>9. RowsTracked
  BY DEF Init, RowsTracked
<1> QED
  BY <1>1, <1>4, <1>5, <1>6, <1>7, <1>8, <1>9 DEF LoopInv

LEMMA NextLoopInv == LoopInv /\ [Next]_vars => LoopInv'
<1> SUFFICES ASSUME LoopInv, [Next]_vars PROVE LoopInv'
  OBVIOUS
<1>1. CASE Next
  <2>1. BudgetCounted' /\ made' \in 0 .. MaxModelCalls + MaxCrash
    BY <1>1, BudgetStep DEF LoopInv
  <2>2. TypeOK'
    BY <1>1, <2>1, TypeStep DEF LoopInv
  <2>3. PassOwnsRun'
    BY <1>1, OwnsStep DEF LoopInv
  <2>4. StartsCounted'
    BY <1>1, <2>2, <2>3, CountedStep
  <2>5. CallsSanctioned'
    BY <1>1, <2>3, SanctionedStep
  <2>6. CallsTracked' /\ RowsTracked'
    BY <1>1, TrackedStep, RowsStep
  <2> QED
    BY <2>1, <2>2, <2>3, <2>4, <2>5, <2>6 DEF LoopInv
<1>2. CASE UNCHANGED vars
  <2>1. TypeOK' /\ PassOwnsRun'
    BY <1>2 DEF vars, passVars, execVars, userVars, LoopInv, TypeOK, PassOwnsRun, Idle, JobAt
  <2>2. StartsCounted'
    BY <1>2 DEF vars, passVars, execVars, userVars, LoopInv, StartsCounted, Begun, Left, JobAt,
         IdOf
  <2>3. CallsSanctioned'
    BY <1>2 DEF vars, passVars, execVars, userVars, LoopInv, CallsSanctioned, MayStart, JobAt
  <2>4. BudgetCounted'
    BY <1>2 DEF vars, passVars, execVars, userVars, LoopInv, BudgetCounted, CallsCounted,
         Lagging, CallsLeft, GoesOn, RoundsLeft
  <2>5. CallsTracked' /\ RowsTracked'
    BY <1>2 DEF vars, passVars, execVars, userVars, LoopInv, CallsTracked, RowsTracked, IdsOf,
         IdOf, HasRow
  <2> QED
    BY <2>1, <2>2, <2>3, <2>4, <2>5 DEF LoopInv
<1> QED
  BY <1>1, <1>2

(* The inductive invariant holds in every behaviour of the loop, whatever   *)
(* the sizes of turns, budgets and the numbers of faults and crashes.       *)
THEOREM LoopInvariant == Spec => []LoopInv
  BY InitLoopInv, NextLoopInv, PTL DEF Spec

(* ReactLoopRunner, ToolCallGuard and SkillToolExecutor together: an action *)
(* is started no more often than the guard allows, through repeated         *)
(* requests, retries, approvals and restarts.                               *)
THEOREM ActionsRunOnce == Spec => []ActionOnce
<1>1. LoopInv => ActionOnce
  <2> SUFFICES ASSUME LoopInv, NEW a \in Action PROVE starts[a] <= MaxRepeated
    BY DEF ActionOnce
  <2>1. Begun(a) \in Nat /\ starts[a] \in Nat /\ starts[a] <= Begun(a) /\ MaxRepeated \in Nat
    BY BegunType, LoopAssumption DEF LoopInv
  <2>2. Begun(a) <= MaxRepeated
    BY DEF LoopInv, StartsCounted
  <2> QED
    BY <2>1, <2>2
<1> QED
  BY <1>1, LoopInvariant, PTL

(* The budget of model calls and rounds is that of the run: approvals,      *)
(* answers and restarts do not refill it.                                   *)
THEOREM BudgetsLast == Spec => []BudgetKept
<1>1. LoopInv => BudgetKept
  BY DEF LoopInv, BudgetCounted, CallsLeft, RoundsLeft, BudgetKept
<1> QED
  BY <1>1, LoopInvariant, PTL

(* Every tool call has exactly one answer when the model is called, and     *)
(* every row of tool_calls is closed unless something failed.               *)
THEOREM EveryCallIsAccountedFor == Spec => []CallsAccounted
<1>1. LoopInv => CallsAnswered
  BY DEF LoopInv, CallsTracked, CallsAnswered
<1>2. LoopInv => RowsClosed
  BY DEF LoopInv, RowsTracked, RowsClosed, HasRow, JobActive
<1>3. LoopInv => CallsAccounted
  BY <1>1, <1>2 DEF CallsAccounted
<1> QED
  BY <1>3, LoopInvariant, PTL

(* With the limit the code sets, one request per action: nothing refused    *)
(* starts, nothing that needs an approval starts without it, and nothing    *)
(* the user rejected starts afterwards.                                     *)
THEOREM OnlySanctionedCallsStart == MaxRepeated = 1 /\ Spec => []OnlySanctioned
<1>1. MaxRepeated = 1 /\ LoopInv => OnlySanctioned
  <2> SUFFICES ASSUME MaxRepeated = 1, LoopInv, NEW a \in Action, starts[a] > 0
               PROVE  /\ ~Refused(a) /\ (NeedsApproval(mode, a) => a \in approved)
                      /\ a \notin rejected
    BY DEF OnlySanctioned
  <2>1. ~Refused(a) /\ (NeedsApproval(mode, a) => a \in approved)
    BY DEF LoopInv, CallsSanctioned
  <2>2. Begun(a) \in Nat /\ starts[a] \in Nat /\ starts[a] <= Begun(a)
    BY BegunType DEF LoopInv
  <2>3. a \in rejected => Begun(a) = 0
    BY DEF LoopInv, StartsCounted
  <2> QED
    BY <2>1, <2>2, <2>3
<1>2. ASSUME MaxRepeated = 1 PROVE Spec => []OnlySanctioned
  <2>1. LoopInv => OnlySanctioned
    BY <1>1, <1>2
  <2> QED
    BY <2>1, LoopInvariant, PTL
<1> QED
  BY <1>2

-----------------------------------------------------------------------------
(* Calls written as text. *)
(* A short part of a text, character by character.                        *)
LEMMA ShortSubSeq ==
  ASSUME NEW s \in Seq(Char), NEW i \in 1..Len(s)
  PROVE  /\ SubSeq(s, i, i) = <<s[i]>>
         /\ i + 1 <= Len(s) => SubSeq(s, i, i + 1) = <<s[i], s[i + 1]>>
         /\ i + 2 <= Len(s) => SubSeq(s, i, i + 2) = <<s[i], s[i + 1], s[i + 2]>>
<1>1. Len(s) \in Nat /\ i \in 1..Len(s) + 1
  OBVIOUS
<1>2. ASSUME NEW n \in 0..2, i + n <= Len(s)
      PROVE  /\ SubSeq(s, i, i + n) \in Seq(Char) /\ Len(SubSeq(s, i, i + n)) = n + 1
             /\ \A j \in 1..(n + 1) : SubSeq(s, i, i + n)[j] = s[i + j - 1]
  <2>1. i + n \in i - 1..Len(s) /\ (i + n) - i + 1 = n + 1
    BY <1>1, <1>2
  <2> QED
    BY <1>1, <2>1, SubSeqProperties
<1>3. SubSeq(s, i, i) = <<s[i]>>
  <2> DEFINE r == SubSeq(s, i, i)
  <2>1. i + 0 = i /\ 0 + 1 = 1 /\ i + 1 - 1 = i
    OBVIOUS
  <2>2. r \in Seq(Char) /\ Len(r) = 1 /\ r[1] = s[i]
    BY <1>1, <1>2, <2>1
  <2> HIDE DEF r
  <2>3. r = <<r[1]>>
    BY <2>2
  <2> QED
    BY <2>2, <2>3 DEF r
<1>4. ASSUME i + 1 <= Len(s) PROVE SubSeq(s, i, i + 1) = <<s[i], s[i + 1]>>
  <2> DEFINE r == SubSeq(s, i, i + 1)
  <2>1. i + 1 - 1 = i /\ i + 2 - 1 = i + 1 /\ 1 + 1 = 2
    OBVIOUS
  <2>2. r \in Seq(Char) /\ Len(r) = 2 /\ r[1] = s[i] /\ r[2] = s[i + 1]
    BY <1>1, <1>2, <1>4, <2>1
  <2> HIDE DEF r
  <2>3. r = <<r[1], r[2]>>
    BY <2>2
  <2> QED
    BY <2>2, <2>3 DEF r
<1>5. ASSUME i + 2 <= Len(s) PROVE SubSeq(s, i, i + 2) = <<s[i], s[i + 1], s[i + 2]>>
  <2> DEFINE r == SubSeq(s, i, i + 2)
  <2>1. i + 1 - 1 = i /\ i + 2 - 1 = i + 1 /\ i + 3 - 1 = i + 2 /\ 2 + 1 = 3
    OBVIOUS
  <2>2. r \in Seq(Char) /\ Len(r) = 3 /\ r[1] = s[i] /\ r[2] = s[i + 1] /\ r[3] = s[i + 2]
    BY <1>1, <1>2, <1>5, <2>1
  <2> HIDE DEF r
  <2>3. r = <<r[1], r[2], r[3]>>
    BY <2>2
  <2> QED
    BY <2>2, <2>3 DEF r
<1> QED
  BY <1>3, <1>4, <1>5

(* Where the markers stand, character by character.                        *)
LEMMA MarkersAre ==
  ASSUME text \in Seq(Char), NEW i \in 1..Len(text)
  PROVE  /\ Len(text) \in Nat
         /\ MarkerAt(BEGIN, i) <=> i + 2 <= Len(text) /\ text[i] = "<" /\ text[i + 1] = "F" /\ text[i + 2] = "B"
         /\ MarkerAt(END, i) <=> i + 2 <= Len(text) /\ text[i] = "<" /\ text[i + 1] = "F" /\ text[i + 2] = "E"
<1>1. Len(text) \in Nat
  OBVIOUS
<1>2. ASSUME i + 2 <= Len(text), NEW a, NEW b, NEW c
      PROVE  SubSeq(text, i, i + 2) = <<a, b, c>> <=> text[i] = a /\ text[i + 1] = b /\ text[i + 2] = c
  <2>1. SubSeq(text, i, i + 2) = <<text[i], text[i + 1], text[i + 2]>>
    BY <1>2, ShortSubSeq
  <2> QED
    BY <2>1
<1>3. MarkerAt(BEGIN, i) <=> i + 2 <= Len(text) /\ SubSeq(text, i, i + 2) = <<"<", "F", "B">>
  BY DEF MarkerAt, BEGIN
<1>4. MarkerAt(END, i) <=> i + 2 <= Len(text) /\ SubSeq(text, i, i + 2) = <<"<", "F", "E">>
  BY DEF MarkerAt, END
<1> QED
  BY <1>1, <1>2, <1>3, <1>4

(* Two markers do not overlap.                                             *)
LEMMA MarkersApart ==
  ASSUME text \in Seq(Char), NEW b \in 1..Len(text), MarkerAt(BEGIN, b),
         NEW e \in 1..Len(text), MarkerAt(END, e)
  PROVE  b + 3 <= e \/ e + 3 <= b
  BY MarkersAre

(* indexOf finds the first marker that is whole in the input, if there is one. *)
LEMMA IndexOfFinds ==
  ASSUME NEW marker, NEW lo \in Nat \ {0}, NEW hi \in Nat, NEW i, i = IndexOf(marker, lo, hi)
  PROVE  \/ i = 0 /\ \A j \in lo..(hi - 2) : ~MarkerAt(marker, j)
         \/ /\ i \in lo..(hi - 2) /\ MarkerAt(marker, i)
            /\ \A j \in lo..(i - 1) : ~MarkerAt(marker, j)
<1> DEFINE at == {j \in lo..(hi - 2) : MarkerAt(marker, j)}
<1>1. i = IF at = {} THEN 0 ELSE Min(at)
  BY DEF IndexOf
<1>2. CASE at = {}
  BY <1>1, <1>2
<1>3. CASE at # {}
  <2>1. PICK x \in at : \A y \in at : x <= y
    <3>1. at \subseteq Nat
      OBVIOUS
    <3> HIDE DEF at
    <3> QED
      BY <1>3, <3>1, LeastOf
  <2>2. Min(at) \in at /\ \A y \in at : Min(at) <= y
    BY <2>1 DEF Min
  <2>3. i \in at /\ \A y \in at : i <= y
    BY <1>1, <1>3, <2>2
  <2>4. \A j \in lo..(i - 1) : j \notin at
    BY <2>3
  <2> QED
    BY <2>3, <2>4
<1> QED
  BY <1>2, <1>3

(* The marker that begins a call, as a text.                               *)
LEMMA BeginIs == BEGIN \in Seq(Char) /\ Len(BEGIN) = 3 /\ BEGIN[1] = "<" /\ BEGIN[1 + 1] = "F"
<1>1. BEGIN \in Seq(Char)
  <2>1. "<" \in Char /\ "F" \in Char /\ "B" \in Char
    BY TextsAreTexts
  <2>2. ASSUME NEW a \in Char, NEW b \in Char, NEW c \in Char PROVE <<a, b, c>> \in Seq(Char)
    OBVIOUS
  <2> QED
    BY <2>1, <2>2 DEF BEGIN
<1>2. Len(BEGIN) = 3
  BY DEF BEGIN
<1>3. BEGIN[1] = "<" /\ BEGIN[2] = "F"
  BY DEF BEGIN
<1> QED
  BY <1>1, <1>2, <1>3

(* What is withheld reaches back to every BEGIN that may have begun.       *)
LEMMA WithheldReaches ==
  ASSUME text \in Seq(Char), NEW lo \in Nat \ {0}, NEW hi \in lo..Len(text),
         NEW w, w = Withheld(lo, hi)
  PROVE  /\ w \in 0..2 /\ w <= hi - lo + 1
         /\ \A b \in lo..hi : MarkerAt(BEGIN, b) /\ hi < b + 2 => hi - w < b
<1> DEFINE may == {n \in 1..2 : n <= hi - lo + 1
                                /\ SubSeq(text, hi - n + 1, hi) = SubSeq(BEGIN, 1, n)}
<1>1. w = IF may = {} THEN 0 ELSE Max(may)
  BY DEF Withheld
<1>2. Len(text) \in Nat /\ hi \in Nat /\ hi \in 1..Len(text)
  OBVIOUS
<1>3. may # {} => w \in may /\ \A n \in may : w >= n
  <2> SUFFICES ASSUME may # {} PROVE w \in may /\ \A n \in may : w >= n
    OBVIOUS
  <2>1. PICK x \in may : \A y \in may : x >= y
    <3>1. may \subseteq {1, 2}
      OBVIOUS
    <3> HIDE DEF may
    <3>2. CASE 2 \in may
      BY <3>1, <3>2
    <3>3. CASE 2 \notin may
      <4>1. \A y \in may : y = 1
        BY <3>1, <3>3
      <4> QED
        BY <4>1
    <3> QED
      BY <3>2, <3>3
  <2> HIDE DEF may
  <2>2. Max(may) \in may /\ \A y \in may : Max(may) >= y
    BY <2>1 DEF Max
  <2> QED
    BY <1>1, <2>2
<1>4. ASSUME NEW b \in lo..hi, MarkerAt(BEGIN, b), hi < b + 2
      PROVE  hi - b + 1 \in may
  <2>1. b \in 1..Len(text)
    BY <1>2
  <2>2. text[b] = "<" /\ text[b + 1] = "F" /\ b + 2 <= Len(text)
    BY <1>4, <2>1, MarkersAre
  <2>3. CASE hi = b
    <3>1. SubSeq(text, hi - 1 + 1, hi) = <<text[b]>>
      <4>1. hi - 1 + 1 = b /\ hi = b
        BY <1>2, <2>3
      <4> QED
        BY <2>1, <4>1, ShortSubSeq
    <3>2. SubSeq(BEGIN, 1, 1) = <<"<">>
      BY BeginIs, ShortSubSeq
    <3>3. 1 <= hi - lo + 1
      BY <1>2
    <3>5. SubSeq(text, hi - 1 + 1, hi) = SubSeq(BEGIN, 1, 1)
      BY <2>2, <3>1, <3>2
    <3>4. hi - b + 1 = 1
      BY <1>2, <2>3
    <3> QED
      BY <3>3, <3>4, <3>5
  <2>4. CASE hi = b + 1
    <3>1. SubSeq(text, hi - 2 + 1, hi) = <<text[b], text[b + 1]>>
      <4>1. hi - 2 + 1 = b /\ hi = b + 1 /\ b + 1 <= Len(text)
        BY <1>2, <2>2, <2>4
      <4> QED
        BY <2>1, <4>1, ShortSubSeq
    <3>2. SubSeq(BEGIN, 1, 2) = <<"<", "F">>
      <4>1. 1 \in 1..Len(BEGIN) /\ 1 + 1 <= Len(BEGIN)
        BY BeginIs
      <4> QED
        BY <4>1, BeginIs, ShortSubSeq
    <3>3. 2 <= hi - lo + 1
      BY <1>2, <2>4
    <3>5. SubSeq(text, hi - 2 + 1, hi) = SubSeq(BEGIN, 1, 2)
      BY <2>2, <3>1, <3>2
    <3>4. hi - b + 1 = 2
      BY <1>2, <2>4
    <3> QED
      BY <3>3, <3>4, <3>5
  <2> QED
    BY <1>2, <1>4, <2>3, <2>4
<1>5. w \in 0..2 /\ w <= hi - lo + 1
  <2>1. CASE may = {}
    <3>1. w = 0
      BY <1>1, <2>1
    <3> QED
      BY <1>2, <3>1
  <2>2. CASE may # {}
    <3>1. w \in may
      BY <1>3, <2>2
    <3> QED
      BY <3>1
  <2> QED
    BY <2>1, <2>2
<1>6. ASSUME NEW b \in lo..hi, MarkerAt(BEGIN, b), hi < b + 2 PROVE hi - w < b
  <2>1. w >= hi - b + 1
    BY <1>3, <1>4, <1>6
  <2> QED
    BY <2>1, <1>2, <1>5
<1> QED
  BY <1>5, <1>6

(* What is made of the input from position lo on, outside a call, when g    *)
(* is what is made of the rest after a call.                               *)
FromOutside(hi, g, lo) ==
  LET b == IndexOf(BEGIN, lo, hi)
      w == Withheld(lo, hi)
  IN  IF b = 0 THEN [visible |-> lo..(hi - w), buffering |-> FALSE, probe |-> w]
      ELSE [InsideCall(hi, g, b + 3) EXCEPT !.visible = @ \cup lo..(b - 1)]

(* What follows a call depends on what comes after its END only.           *)
LEMMA InsideLooksAhead ==
  ASSUME text \in Seq(Char), NEW hi \in Nat, hi <= Len(text), NEW g, NEW h, NEW lo \in Nat \ {0},
         \A l \in (lo + 1)..(Len(text) + 1) : g[l] = h[l]
  PROVE  InsideCall(hi, g, lo) = InsideCall(hi, h, lo)
<1> DEFINE e == IndexOf(END, lo, hi)
<1>1. Len(text) \in Nat
  OBVIOUS
<1>2. e # 0 => e \in lo..(hi - 2)
  BY IndexOfFinds
<1>3. e # 0 => g[e + 3] = h[e + 3]
  <2> HIDE DEF e
  <2>1. e # 0 => e + 3 \in (lo + 1)..(Len(text) + 1)
    BY <1>1, <1>2
  <2> QED
    BY <2>1
<1> QED
  BY <1>3 DEF InsideCall

LEMMA OutsideLooksAhead ==
  ASSUME text \in Seq(Char), NEW hi \in Nat, hi <= Len(text), NEW g, NEW h, NEW lo \in Nat \ {0},
         \A l \in (lo + 1)..(Len(text) + 1) : g[l] = h[l]
  PROVE  FromOutside(hi, g, lo) = FromOutside(hi, h, lo)
<1> DEFINE b == IndexOf(BEGIN, lo, hi)
<1>1. Len(text) \in Nat
  OBVIOUS
<1>2. b # 0 => b \in lo..(hi - 2)
  BY IndexOfFinds
<1>3. b # 0 => InsideCall(hi, g, b + 3) = InsideCall(hi, h, b + 3)
  <2> HIDE DEF b
  <2> SUFFICES ASSUME b # 0 PROVE InsideCall(hi, g, b + 3) = InsideCall(hi, h, b + 3)
    OBVIOUS
  <2>1. b + 3 \in Nat \ {0} /\ \A l \in (b + 3 + 1)..(Len(text) + 1) : l \in (lo + 1)..(Len(text) + 1)
    BY <1>1, <1>2
  <2>2. \A l \in (b + 3 + 1)..(Len(text) + 1) : g[l] = h[l]
    BY <2>1
  <2> QED
    BY <2>1, <2>2, InsideLooksAhead
<1> QED
  BY <1>3 DEF FromOutside

(* There is a function that says for every position what is made of the    *)
(* input from there on.                                                    *)
LEMMA OutsideExists ==
  ASSUME text \in Seq(Char), NEW hi \in Nat, hi <= Len(text)
  PROVE  \E g : g = [lo \in 1..(Len(text) + 1) |-> FromOutside(hi, g, lo)]
<1> DEFINE top == Len(text) + 1
           Has(n) == \E g : \A l \in (top - n)..top : g[l] = FromOutside(hi, g, l)
           T == {n \in 0..(top - 1) : ~Has(n)}
<1>1. Len(text) \in Nat /\ top \in Nat \ {0}
  OBVIOUS
<1> HIDE DEF top
<1>2. T = {}
  <2> SUFFICES ASSUME T # {} PROVE FALSE
    OBVIOUS
  <2>1. PICK n \in T : \A k \in T : n <= k
    <3>1. T \subseteq Nat
      BY <1>1
    <3> HIDE DEF T
    <3> QED
      BY <3>1, LeastOf
  <2>2. n \in 0..(top - 1) /\ ~Has(n)
    BY <2>1
  <2>3. PICK g : \A l \in (top - n + 1)..top : g[l] = FromOutside(hi, g, l)
    <3>1. CASE n = 0
      <4>1. (top - n + 1)..top = {}
        BY <1>1, <3>1
      <4> QED
        BY <4>1
    <3>2. CASE n # 0
      <4>1. n - 1 \in 0..(top - 1) /\ ~(n <= n - 1) /\ top - (n - 1) = top - n + 1
        BY <1>1, <2>2, <3>2
      <4>2. Has(n - 1)
        BY <4>1, <2>1
      <4> QED
        BY <4>1, <4>2
    <3> QED
      BY <3>1, <3>2
  <2> DEFINE h == [x \in 1..top |-> IF x = top - n THEN FromOutside(hi, g, x) ELSE g[x]]
  <2>4. \A l \in (top - n + 1)..top : h[l] = g[l]
    BY <1>1, <2>2
  <2>5. h[top - n] = FromOutside(hi, g, top - n)
    <3>1. top - n \in 1..top
      BY <1>1, <2>2
    <3> QED
      BY <3>1
  <2> HIDE DEF h
  <2>6. ASSUME NEW l \in (top - n)..top PROVE h[l] = FromOutside(hi, h, l)
    <3>1. l \in Nat \ {0} /\ (l + 1)..top \subseteq (top - n + 1)..top
      BY <1>1, <2>2
    <3>2. \A m \in (l + 1)..(Len(text) + 1) : h[m] = g[m]
      BY <2>4, <3>1 DEF top
    <3>3. FromOutside(hi, h, l) = FromOutside(hi, g, l)
      BY <3>1, <3>2, OutsideLooksAhead
    <3>4. CASE l = top - n
      BY <2>5, <3>3, <3>4
    <3>5. CASE l # top - n
      <4>1. l \in (top - n + 1)..top
        BY <1>1, <2>2, <3>5
      <4> QED
        BY <2>3, <2>4, <3>3, <4>1
    <3> QED
      BY <3>4, <3>5
  <2> QED
    BY <2>2, <2>6
<1>3. PICK g : \A l \in 1..top : g[l] = FromOutside(hi, g, l)
  <2>1. top - 1 \in 0..(top - 1) /\ top - (top - 1) = 1
    BY <1>1
  <2>2. Has(top - 1)
    BY <1>2, <2>1
  <2> QED
    BY <2>1, <2>2
<1> DEFINE h == [lo \in 1..top |-> g[lo]]
<1>4. ASSUME NEW l \in 1..top PROVE FromOutside(hi, h, l) = h[l]
  <2>1. l \in Nat \ {0} /\ \A m \in (l + 1)..top : h[m] = g[m]
    BY <1>1
  <2> HIDE DEF h
  <2>2. FromOutside(hi, h, l) = FromOutside(hi, g, l)
    BY <2>1, OutsideLooksAhead DEF top
  <2> QED
    BY <1>3, <2>2 DEF h
<1>5. h = [lo \in 1..top |-> FromOutside(hi, h, lo)]
  <2>1. h = [lo \in 1..top |-> h[lo]]
    OBVIOUS
  <2> HIDE DEF h
  <2> QED
    BY <1>4, <2>1
<1> HIDE DEF h
<1> QED
  BY <1>5 DEF top

(* What a delta makes of the input.                                        *)
LEMMA ConsumeIs ==
  ASSUME text \in Seq(Char), NEW hi \in Nat, hi <= Len(text), NEW first, NEW inCall \in BOOLEAN
  PROVE  \E g : /\ \A l \in 1..(Len(text) + 1) : g[l] = FromOutside(hi, g, l)
                /\ Consume(hi, first, inCall) = IF inCall THEN InsideCall(hi, g, first) ELSE g[first]
<1> DEFINE Is(g) == g = [lo \in 1..(Len(text) + 1) |-> FromOutside(hi, g, lo)]
           outside == CHOOSE g : Is(g)
<1>1. Consume(hi, first, inCall) = IF inCall THEN InsideCall(hi, outside, first) ELSE outside[first]
  BY DEF Consume, FromOutside
<1>2. \E g : Is(g)
  BY OutsideExists
<1>3. Is(outside)
  <2> HIDE DEF Is
  <2> QED
    BY <1>2
<1>4. \A l \in 1..(Len(text) + 1) : outside[l] = FromOutside(hi, outside, l)
  <2> HIDE DEF outside
  <2> QED
    BY <1>3
<1> QED
  BY <1>1, <1>4

(* Outside every call at position p: each call that began has ended.       *)
OutAt(p) ==
  \A b \in 1..(p - 1) : MarkerAt(BEGIN, b) => \E e \in (b + 3)..(p - 3) : MarkerAt(END, e)

(* A call is open at position p, and no END stands from its BEGIN to p.    *)
OpenAt(p) ==
  \E b \in 1..(p - 3) : MarkerAt(BEGIN, b) /\ \A e \in (b + 3)..(p - 1) : ~MarkerAt(END, e)

(* A chunk that ends at hi cuts an END.                                    *)
CutAt(hi) == \E i \in 1..hi : MarkerAt(END, i) /\ i <= hi /\ hi < i + 2

Result == [visible : SUBSET Nat, buffering : BOOLEAN, probe : 0..2]

(* A result of the input from lo to hi shows what is outside the calls and *)
(* leaves the filter in a state that knows where it is; ...                *)
Safe(hi, lo, r) ==
  /\ r \in Result /\ r.visible \subseteq lo..(hi - r.probe) /\ r.visible \subseteq Outside
  /\ r.probe <= hi - lo + 1
  /\ IF r.buffering THEN r.probe = 0 ELSE OutAt(hi - r.probe + 1)

(* ... and it shows all that is outside unless an END was cut.             *)
Whole(hi, lo, r) ==
  /\ \A i \in lo..(hi - r.probe) : i \in Outside => i \in r.visible
  /\ r.buffering => OpenAt(hi + 1)

(* A call over, what follows its END is outside.                           *)
LEMMA OutsideAfterEnd ==
  ASSUME text \in Seq(Char), NEW e \in 1..Len(text), MarkerAt(END, e)
  PROVE  OutAt(e + 3) /\ e + 2 <= Len(text)
<1>1. Len(text) \in Nat /\ e + 2 <= Len(text)
  BY MarkersAre
<1>2. ASSUME NEW b \in 1..(e + 3 - 1), MarkerAt(BEGIN, b)
      PROVE  e \in (b + 3)..(e + 3 - 3)
  <2>1. b \in 1..Len(text)
    BY <1>1
  <2>2. b + 3 <= e \/ e + 3 <= b
    BY <1>2, <2>1, MarkersApart
  <2> QED
    BY <1>1, <2>2
<1> QED
  BY <1>1, <1>2 DEF OutAt

(* In a call, nothing is outside up to the first END.                      *)
LEMMA OpenHides ==
  ASSUME NEW lo \in Nat, NEW e \in Nat, OpenAt(lo), \A j \in lo..(e - 1) : ~MarkerAt(END, j),
         NEW i \in lo..(e + 2)
  PROVE  i \notin Outside
<1>1. PICK b \in 1..(lo - 3) : MarkerAt(BEGIN, b) /\ \A j \in (b + 3)..(lo - 1) : ~MarkerAt(END, j)
  BY DEF OpenAt
<1>2. b \in 1..i
  OBVIOUS
<1>3. ASSUME NEW j \in (b + 3)..(i - 3) PROVE ~MarkerAt(END, j)
  <2>1. j \in (b + 3)..(lo - 1) \/ j \in lo..(e - 1)
    OBVIOUS
  <2> QED
    BY <1>1, <2>1
<1> QED
  BY <1>1, <1>2, <1>3 DEF Outside

(* What is made of the input inside a call is safe and whole when what     *)
(* follows its END is.                                                     *)
LEMMA InsideIs ==
  ASSUME text \in Seq(Char), NEW hi \in Nat, hi <= Len(text), NEW g, NEW lo \in 1..(hi + 1),
         \A l \in (lo + 1)..(hi + 1) : OutAt(l) => Safe(hi, l, g[l]) /\ (~CutAt(hi) => Whole(hi, l, g[l])),
         NEW r, r = InsideCall(hi, g, lo)
  PROVE  Safe(hi, lo, r) /\ (~CutAt(hi) /\ OpenAt(lo) => Whole(hi, lo, r))
<1> DEFINE e == IndexOf(END, lo, hi)
<1>1. Len(text) \in Nat /\ lo \in Nat \ {0}
  OBVIOUS
<1>2. \/ e = 0 /\ \A j \in lo..(hi - 2) : ~MarkerAt(END, j)
      \/ e \in lo..(hi - 2) /\ MarkerAt(END, e) /\ \A j \in lo..(e - 1) : ~MarkerAt(END, j)
  BY <1>1, IndexOfFinds
<1>3. r = IF e = 0 THEN [visible |-> {}, buffering |-> TRUE, probe |-> 0] ELSE g[e + 3]
  BY DEF InsideCall
<1> HIDE DEF e
<1>4. CASE e = 0
  <2>1. r \in Result /\ r.visible = {} /\ r.buffering = TRUE /\ r.probe = 0
    BY <1>3, <1>4 DEF Result
  <2>2. Safe(hi, lo, r)
    BY <2>1 DEF Safe
  <2>3. ASSUME ~CutAt(hi), OpenAt(lo) PROVE Whole(hi, lo, r)
    <3>1. \A j \in lo..hi : ~MarkerAt(END, j)
      <4> SUFFICES ASSUME NEW j \in lo..hi, MarkerAt(END, j) PROVE FALSE
        OBVIOUS
      <4>1. j \in 1..hi /\ hi < j + 2
        BY <1>1, <1>2, <1>4
      <4> QED
        BY <2>3, <4>1 DEF CutAt
    <3>2. \A i \in lo..hi : i \notin Outside
      <4> TAKE i \in lo..hi
      <4>1. lo \in Nat /\ hi + 1 \in Nat /\ i \in lo..(hi + 1 + 2) /\ \A j \in lo..(hi + 1 - 1) : ~MarkerAt(END, j)
        BY <3>1
      <4> QED
        BY <2>3, <4>1, OpenHides
    <3>3. OpenAt(hi + 1)
      <4>1. PICK b \in 1..(lo - 3) : MarkerAt(BEGIN, b) /\ \A j \in (b + 3)..(lo - 1) : ~MarkerAt(END, j)
        BY <2>3 DEF OpenAt
      <4>2. b \in 1..(hi + 1 - 3)
        OBVIOUS
      <4>3. \A j \in (b + 3)..(hi + 1 - 1) : ~MarkerAt(END, j)
        BY <3>1, <4>1
      <4> QED
        BY <4>1, <4>2, <4>3 DEF OpenAt
    <3> QED
      BY <2>1, <3>2, <3>3 DEF Whole
  <2> QED
    BY <2>2, <2>3
<1>5. CASE e # 0
  <2>1. e \in lo..(hi - 2) /\ MarkerAt(END, e) /\ \A j \in lo..(e - 1) : ~MarkerAt(END, j)
    BY <1>2, <1>5
  <2>2. e \in 1..Len(text) /\ e + 3 \in (lo + 1)..(hi + 1) /\ r = g[e + 3]
    BY <1>1, <1>3, <1>5, <2>1
  <2>3. OutAt(e + 3)
    BY <2>1, <2>2, OutsideAfterEnd
  <2>4. Safe(hi, e + 3, r) /\ (~CutAt(hi) => Whole(hi, e + 3, r))
    BY <2>2, <2>3
  <2>5. r.probe \in 0..2 /\ r.visible \subseteq (e + 3)..(hi - r.probe)
    BY <2>4 DEF Safe, Result
  <2>6. Safe(hi, lo, r)
    <3>1. r.visible \subseteq lo..(hi - r.probe) /\ r.probe <= hi - lo + 1
      BY <1>1, <2>1, <2>4, <2>5 DEF Safe
    <3> QED
      BY <2>4, <3>1 DEF Safe
  <2>7. ASSUME ~CutAt(hi), OpenAt(lo) PROVE Whole(hi, lo, r)
    <3>1. \A i \in lo..(e + 2) : i \notin Outside
      BY <1>1, <2>1, <2>7, OpenHides
    <3>2. Whole(hi, e + 3, r)
      BY <2>4, <2>7
    <3>3. ASSUME NEW i \in lo..(hi - r.probe), i \in Outside PROVE i \in r.visible
      <4>1. i \in (e + 3)..(hi - r.probe)
        BY <1>1, <2>1, <2>5, <3>1, <3>3
      <4> QED
        BY <3>2, <3>3, <4>1 DEF Whole
    <3> QED
      BY <3>2, <3>3 DEF Whole
  <2> QED
    BY <2>6, <2>7
<1> QED
  BY <1>4, <1>5

(* And so outside a call.                                                  *)
LEMMA OutsideIs ==
  ASSUME text \in Seq(Char), NEW hi \in Nat, hi <= Len(text), NEW g, NEW lo \in 1..(hi + 1),
         \A l \in (lo + 1)..(hi + 1) : OutAt(l) => Safe(hi, l, g[l]) /\ (~CutAt(hi) => Whole(hi, l, g[l])),
         OutAt(lo), NEW r, r = FromOutside(hi, g, lo)
  PROVE  Safe(hi, lo, r) /\ (~CutAt(hi) => Whole(hi, lo, r))
<1> DEFINE b == IndexOf(BEGIN, lo, hi)
           w == Withheld(lo, hi)
           q == InsideCall(hi, g, b + 3)
<1>1. Len(text) \in Nat /\ lo \in Nat \ {0}
  OBVIOUS
<1>2. \/ b = 0 /\ \A j \in lo..(hi - 2) : ~MarkerAt(BEGIN, j)
      \/ b \in lo..(hi - 2) /\ MarkerAt(BEGIN, b) /\ \A j \in lo..(b - 1) : ~MarkerAt(BEGIN, j)
  BY <1>1, IndexOfFinds
<1>3. r = IF b = 0 THEN [visible |-> lo..(hi - w), buffering |-> FALSE, probe |-> w]
          ELSE [q EXCEPT !.visible = q.visible \cup lo..(b - 1)]
  BY DEF FromOutside
<1>4. /\ w \in 0..2 /\ w <= hi - lo + 1
      /\ \A j \in lo..hi : MarkerAt(BEGIN, j) /\ hi < j + 2 => hi - w < j
  <2>1. CASE lo <= hi
    <3>1. hi \in lo..Len(text)
      BY <2>1
    <3> QED
      BY <1>1, <3>1, WithheldReaches
  <2>2. CASE lo = hi + 1
    <3>1. w = 0
      <4>1. {n \in 1..2 : n <= hi - lo + 1 /\ SubSeq(text, hi - n + 1, hi) = SubSeq(BEGIN, 1, n)} = {}
        BY <2>2
      <4> QED
        BY <4>1 DEF Withheld
    <3> QED
      BY <2>2, <3>1
  <2> QED
    BY <2>1, <2>2
<1>5. ASSUME NEW n \in Nat, n <= hi, lo <= n + 1, \A j \in lo..n : ~MarkerAt(BEGIN, j) PROVE lo..n \subseteq Outside /\ OutAt(n + 1)
  <2>1. ASSUME NEW i \in lo..(n + 1), NEW j \in 1..i, j <= n, MarkerAt(BEGIN, j)
        PROVE  \E e \in (j + 3)..(i - 3) : MarkerAt(END, e)
    <3>1. j \in 1..(lo - 1)
      BY <1>1, <1>5, <2>1
    <3>2. PICK e \in (j + 3)..(lo - 3) : MarkerAt(END, e)
      BY <2>1, <3>1 DEF OutAt
    <3>3. e \in (j + 3)..(i - 3)
      BY <1>1
    <3> QED
      BY <3>2, <3>3
  <2>2. ASSUME NEW i \in lo..n PROVE i \in Outside
    <3>1. i \in 1..Len(text) /\ i \in lo..(n + 1)
      BY <1>1, <1>5
    <3>2. \A j \in 1..i : MarkerAt(BEGIN, j) => \E e \in (j + 3)..(i - 3) : MarkerAt(END, e)
      BY <2>1, <3>1
    <3> QED
      BY <3>1, <3>2 DEF Outside
  <2>3. OutAt(n + 1)
    <3>1. n + 1 \in lo..(n + 1) /\ \A j \in 1..(n + 1 - 1) : j \in 1..(n + 1) /\ j <= n
      BY <1>1, <1>5
    <3> QED
      BY <2>1, <3>1 DEF OutAt
  <2> QED
    BY <2>2, <2>3
<1> HIDE DEF b, w, q
<1>6. CASE b = 0
  <2>1. r \in Result /\ r.visible = lo..(hi - w) /\ r.buffering = FALSE /\ r.probe = w
    BY <1>3, <1>4, <1>6, <1>1 DEF Result
  <2>2. hi - w \in Nat /\ hi - w <= hi /\ lo <= hi - w + 1
    BY <1>1, <1>4
  <2>3. \A j \in lo..(hi - w) : ~MarkerAt(BEGIN, j)
    BY <1>1, <1>2, <1>4, <1>6
  <2>4. lo..(hi - w) \subseteq Outside /\ OutAt(hi - w + 1)
    BY <1>5, <2>2, <2>3
  <2>5. Safe(hi, lo, r)
    BY <1>4, <2>1, <2>4 DEF Safe
  <2>6. Whole(hi, lo, r)
    BY <2>1 DEF Whole
  <2> QED
    BY <2>5, <2>6
<1>7. CASE b # 0
  <2>1. b \in lo..(hi - 2) /\ MarkerAt(BEGIN, b) /\ \A j \in lo..(b - 1) : ~MarkerAt(BEGIN, j)
    BY <1>2, <1>7
  <2>2. b \in Nat /\ b + 3 \in 1..(hi + 1) /\ b - 1 \in Nat /\ b - 1 <= hi /\ lo <= b - 1 + 1
    BY <1>1, <2>1
  <2>3. \A l \in (b + 3 + 1)..(hi + 1) : OutAt(l) => Safe(hi, l, g[l]) /\ (~CutAt(hi) => Whole(hi, l, g[l]))
    <3>1. \A l \in (b + 3 + 1)..(hi + 1) : l \in (lo + 1)..(hi + 1)
      BY <1>1, <2>1
    <3> QED
      BY <3>1
  <2>4. Safe(hi, b + 3, q) /\ (~CutAt(hi) /\ OpenAt(b + 3) => Whole(hi, b + 3, q))
    BY <2>2, <2>3, InsideIs DEF q
  <2>5. lo..(b - 1) \subseteq Outside
    BY <1>5, <2>1, <2>2
  <2>6. q \in Result /\ q.probe \in 0..2 /\ q.visible \subseteq (b + 3)..(hi - q.probe)
        /\ q.probe <= hi - (b + 3) + 1
    BY <2>4 DEF Safe, Result
  <2>7. r \in Result /\ r.visible = q.visible \cup lo..(b - 1) /\ r.buffering = q.buffering /\ r.probe = q.probe
    <3>1. lo..(b - 1) \subseteq Nat
      BY <1>1
    <3>2. q.visible \cup lo..(b - 1) \in SUBSET Nat
      BY <2>6, <3>1 DEF Result
    <3> QED
      BY <1>3, <1>7, <2>6, <3>2 DEF Result
  <2>8. Safe(hi, lo, r)
    <3>1. lo..(b - 1) \subseteq lo..(hi - q.probe) /\ (b + 3)..(hi - q.probe) \subseteq lo..(hi - q.probe)
          /\ q.probe <= hi - lo + 1
      BY <1>1, <2>1, <2>6
    <3>2. r.visible \subseteq lo..(hi - r.probe)
      BY <2>6, <2>7, <3>1
    <3>3. r.visible \subseteq Outside
      BY <2>4, <2>5, <2>7 DEF Safe
    <3> QED
      BY <2>4, <2>7, <3>1, <3>2, <3>3 DEF Safe
  <2>9. ASSUME ~CutAt(hi) PROVE Whole(hi, lo, r)
    <3>1. OpenAt(b + 3)
      <4>1. b \in 1..(b + 3 - 3) /\ (b + 3)..(b + 3 - 1) = {}
        BY <1>1, <2>1
      <4> QED
        BY <2>1, <4>1 DEF OpenAt
    <3>2. Whole(hi, b + 3, q)
      BY <2>4, <2>9, <3>1
    <3>3. ASSUME NEW i \in b..(b + 2) PROVE i \notin Outside
      <4>1. b \in 1..i /\ (b + 3)..(i - 3) = {}
        BY <1>1, <2>1
      <4> QED
        BY <2>1, <4>1 DEF Outside
    <3>4. ASSUME NEW i \in lo..(hi - r.probe), i \in Outside PROVE i \in r.visible
      <4>1. i \in lo..(b - 1) \/ i \in (b + 3)..(hi - q.probe)
        BY <1>1, <2>1, <2>6, <2>7, <3>3, <3>4
      <4> QED
        BY <2>7, <3>2, <3>4, <4>1 DEF Whole
    <3> QED
      BY <2>7, <3>2, <3>4 DEF Whole
  <2> QED
    BY <2>8, <2>9
<1> QED
  BY <1>6, <1>7

(* What is made of the input outside a call is safe and whole from every   *)
(* position.                                                               *)
LEMMA EveryOutside ==
  ASSUME text \in Seq(Char), NEW hi \in Nat, hi <= Len(text), NEW g,
         \A l \in 1..(Len(text) + 1) : g[l] = FromOutside(hi, g, l)
  PROVE  \A l \in 1..(hi + 1) : OutAt(l) => Safe(hi, l, g[l]) /\ (~CutAt(hi) => Whole(hi, l, g[l]))
<1> DEFINE Good(l) == OutAt(l) => Safe(hi, l, g[l]) /\ (~CutAt(hi) => Whole(hi, l, g[l]))
           T == {n \in 0..hi : ~Good(hi + 1 - n)}
<1>1. Len(text) \in Nat
  OBVIOUS
<1>2. T = {}
  <2> SUFFICES ASSUME T # {} PROVE FALSE
    OBVIOUS
  <2>1. PICK n \in T : \A k \in T : n <= k
    <3>1. T \subseteq Nat
      OBVIOUS
    <3> HIDE DEF T
    <3> QED
      BY <3>1, LeastOf
  <2>2. n \in 0..hi /\ ~Good(hi + 1 - n)
    BY <2>1
  <2>3. ASSUME NEW l \in (hi + 1 - n + 1)..(hi + 1) PROVE Good(l)
    <3>1. hi + 1 - l \in 0..hi /\ ~(n <= hi + 1 - l) /\ hi + 1 - (hi + 1 - l) = l
      BY <2>2
    <3>2. hi + 1 - l \notin T
      BY <2>1, <3>1
    <3> HIDE DEF Good
    <3>3. Good(hi + 1 - (hi + 1 - l))
      BY <3>1, <3>2
    <3> QED
      BY <3>1, <3>3
  <2> DEFINE lo == hi + 1 - n
  <2>4. lo \in 1..(hi + 1) /\ lo \in 1..(Len(text) + 1) /\ \A l \in (lo + 1)..(hi + 1) : Good(l)
    BY <1>1, <2>2, <2>3
  <2> HIDE DEF lo, T
  <2>5. g[lo] = FromOutside(hi, g, lo)
    BY <2>4
  <2>6. Good(lo)
    BY <2>4, <2>5, OutsideIs
  <2> QED
    BY <2>2, <2>6 DEF lo
<1> HIDE DEF Good
<1>3. ASSUME NEW l \in 1..(hi + 1) PROVE Good(l)
  <2>1. hi + 1 - l \in 0..hi /\ hi + 1 - (hi + 1 - l) = l
    OBVIOUS
  <2>2. Good(hi + 1 - (hi + 1 - l))
    BY <1>2, <2>1
  <2> QED
    BY <2>1, <2>2
<1> QED
  BY <1>3 DEF Good

(* What becomes of a delta is safe, and whole unless an END is cut.        *)
LEMMA ConsumeKeeps ==
  ASSUME text \in Seq(Char), NEW hi \in Nat, hi <= Len(text), NEW lo \in 1..(hi + 1), NEW b \in BOOLEAN,
         b \/ OutAt(lo), NEW r, r = Consume(hi, lo, b)
  PROVE  Safe(hi, lo, r) /\ (~CutAt(hi) /\ (b => OpenAt(lo)) => Whole(hi, lo, r))
<1>1. PICK g : /\ \A l \in 1..(Len(text) + 1) : g[l] = FromOutside(hi, g, l)
               /\ r = IF b THEN InsideCall(hi, g, lo) ELSE g[lo]
  BY ConsumeIs
<1>2. \A l \in 1..(hi + 1) : OutAt(l) => Safe(hi, l, g[l]) /\ (~CutAt(hi) => Whole(hi, l, g[l]))
  BY <1>1, EveryOutside
<1>3. \A l \in (lo + 1)..(hi + 1) : l \in 1..(hi + 1)
  OBVIOUS
<1>4. CASE b
  <2>1. \A l \in (lo + 1)..(hi + 1) : OutAt(l) => Safe(hi, l, g[l]) /\ (~CutAt(hi) => Whole(hi, l, g[l]))
    BY <1>2, <1>3
  <2>2. r = InsideCall(hi, g, lo)
    BY <1>1, <1>4
  <2> QED
    BY <1>4, <2>1, <2>2, InsideIs
<1>5. CASE ~b
  BY <1>1, <1>2, <1>5
<1> QED
  BY <1>4, <1>5

(* The filter knows whether it is outside every call, what it has shown is *)
(* outside and was taken before the characters it withholds, and unless an *)
(* END was cut it has shown all of that and knows which call is open.      *)
MarkersInv ==
  /\ text \in Seq(Char) /\ read \in 0..Len(text) /\ probe \in 0..2 /\ probe <= read
  /\ buffering \in BOOLEAN /\ cut \in BOOLEAN /\ finished \in BOOLEAN
  /\ shown \subseteq Outside /\ shown \subseteq 1..(read - probe)
  /\ ~finished => IF buffering THEN probe = 0 ELSE OutAt(read - probe + 1)
  /\ ~cut => /\ \A i \in 1..(read - probe) : i \in Outside => i \in shown
             /\ ~finished /\ buffering => OpenAt(read + 1)
  /\ finished => read = Len(text) /\ probe = 0

(* A new text is outside every call.                                       *)
LEMMA MarkersStart == MarkersInit => MarkersInv
<1> SUFFICES ASSUME MarkersInit PROVE MarkersInv
  OBVIOUS
<1>1. text \in Seq(Char) /\ Len(text) \in Nat
  BY TextsAreTexts DEF MarkersInit
<1>2. /\ read = 0 /\ probe = 0 /\ buffering = FALSE /\ shown = {} /\ cut = FALSE /\ finished = FALSE
      /\ read - probe = 0
  BY DEF MarkersInit
<1>3. OutAt(read - probe + 1)
  BY <1>2 DEF OutAt
<1>4. read \in 0..Len(text) /\ probe \in 0..2 /\ probe <= read /\ 1..(read - probe) = {}
  BY <1>1, <1>2
<1> QED
  BY <1>1, <1>2, <1>3, <1>4 DEF MarkersInv

(* A chunk keeps it, wherever it ends.                                     *)
LEMMA ChunkKeeps ==
  ASSUME MarkersInv, Chunk PROVE MarkersInv'
<1>1. PICK hi \in (read + 1)..Len(text) :
        LET r == Consume(hi, read - probe + 1, buffering)
        IN  /\ read' = hi /\ shown' = shown \cup r.visible
            /\ buffering' = r.buffering /\ probe' = r.probe
            /\ cut' = (cut \/ CutAt(hi))
  BY DEF Chunk, CutAt
<1> DEFINE lo == read - probe + 1
           r == Consume(hi, lo, buffering)
<1>2. /\ text \in Seq(Char) /\ Len(text) \in Nat /\ read \in 0..Len(text) /\ probe \in 0..2 /\ probe <= read
      /\ buffering \in BOOLEAN /\ cut \in BOOLEAN /\ ~finished /\ text' = text /\ finished' = finished
  BY DEF MarkersInv, Chunk
<1>3. hi \in Nat /\ hi <= Len(text) /\ lo \in 1..(hi + 1) /\ lo - 1 = read - probe
  BY <1>2
<1>4. (buffering \/ OutAt(lo)) /\ (buffering => lo = read + 1)
  BY <1>2 DEF MarkersInv
<1>5. read' = hi /\ shown' = shown \cup r.visible /\ buffering' = r.buffering /\ probe' = r.probe
      /\ cut' = (cut \/ CutAt(hi))
  BY <1>1
<1> HIDE DEF r
<1>6. Safe(hi, lo, r) /\ (~CutAt(hi) /\ (buffering => OpenAt(lo)) => Whole(hi, lo, r))
  <2> HIDE DEF lo
  <2> QED
    BY <1>2, <1>3, <1>4, ConsumeKeeps DEF r
<1>7. r.visible \subseteq lo..(hi - r.probe) /\ r.visible \subseteq Outside /\ r.probe \in 0..2 /\ r.buffering \in BOOLEAN
      /\ r.probe <= hi - lo + 1 /\ (IF r.buffering THEN r.probe = 0 ELSE OutAt(hi - r.probe + 1))
  BY <1>6 DEF Safe, Result
<1>8. Outside' = Outside
  BY <1>2 DEF Outside, MarkerAt
<1>14. PICK n \in 0..2 : n = r.probe /\ n <= hi - lo + 1
  BY <1>7
<1>9. shown' \subseteq Outside /\ shown' \subseteq 1..(read' - probe')
  <2>1. shown \subseteq Outside /\ shown \subseteq 1..(read - probe)
    BY DEF MarkersInv
  <2>2. lo..(hi - n) \subseteq 1..(hi - n) /\ 1..(read - probe) \subseteq 1..(hi - n)
    BY <1>2, <1>3, <1>14
  <2> QED
    BY <1>5, <1>7, <1>14, <2>1, <2>2
<1>10. ASSUME ~cut' PROVE /\ \A i \in 1..(read' - probe') : i \in Outside => i \in shown'
                          /\ buffering' => OpenAt(read' + 1)
  <2>1. ~cut /\ ~CutAt(hi)
    BY <1>2, <1>5, <1>10
  <2>2. (\A i \in 1..(read - probe) : i \in Outside => i \in shown) /\ (buffering => OpenAt(read + 1))
    BY <1>2, <2>1 DEF MarkersInv
  <2>3. Whole(hi, lo, r)
    BY <1>4, <1>6, <2>1, <2>2
  <2>4. ASSUME NEW i \in 1..(hi - r.probe), i \in Outside PROVE i \in shown'
    <3>1. i \in 1..(read - probe) \/ i \in lo..(hi - r.probe)
      BY <1>2, <1>3, <1>7
    <3> QED
      BY <1>5, <2>2, <2>3, <2>4, <3>1 DEF Whole
  <2>5. r.buffering => OpenAt(hi + 1)
    BY <2>3 DEF Whole
  <2> QED
    BY <1>5, <2>4, <2>5
<1>11. read' \in 0..Len(text') /\ probe' \in 0..2 /\ probe' <= read'
  BY <1>2, <1>3, <1>5, <1>14
<1>12. cut' \in BOOLEAN
  BY <1>2, <1>5
<1>13. IF buffering' THEN probe' = 0 ELSE OutAt(read' - probe' + 1)
  BY <1>5, <1>7
<1> HIDE DEF lo
<1> QED
  BY <1>2, <1>5, <1>7, <1>8, <1>9, <1>10, <1>11, <1>12, <1>13 DEF MarkersInv, OutAt, OpenAt, MarkerAt

(* At the end of the stream what is withheld is outside, as no marker can  *)
(* begin there.                                                            *)
LEMMA FinishStreamKeeps ==
  ASSUME MarkersInv, FinishStream PROVE MarkersInv'
<1>1. /\ text \in Seq(Char) /\ Len(text) \in Nat /\ read = Len(text) /\ probe \in 0..2 /\ probe <= read
      /\ buffering \in BOOLEAN /\ cut \in BOOLEAN /\ ~finished /\ finished' = TRUE /\ probe' = 0
      /\ UNCHANGED <<text, read, buffering, cut>>
      /\ shown' = IF buffering THEN shown ELSE shown \cup (read - probe + 1)..read
  BY DEF MarkersInv, FinishStream
<1>2. /\ shown \subseteq Outside /\ shown \subseteq 1..(read - probe)
      /\ IF buffering THEN probe = 0 ELSE OutAt(read - probe + 1)
      /\ ~cut => \A i \in 1..(read - probe) : i \in Outside => i \in shown
  BY <1>1 DEF MarkersInv
<1>3. Outside' = Outside
  BY <1>1 DEF Outside, MarkerAt
<1>4. ASSUME ~buffering, NEW i \in (read - probe + 1)..read PROVE i \in Outside
  <2>1. i \in 1..Len(text)
    BY <1>1
  <2>2. ASSUME NEW b \in 1..i, MarkerAt(BEGIN, b) PROVE \E e \in (b + 3)..(i - 3) : MarkerAt(END, e)
    <3>1. b + 2 <= Len(text)
      BY <2>2 DEF MarkerAt
    <3>2. b \in 1..(read - probe + 1 - 1)
      BY <1>1, <3>1
    <3>3. OutAt(read - probe + 1)
      BY <1>2, <1>4
    <3>5. PICK e \in (b + 3)..(read - probe + 1 - 3) : MarkerAt(END, e)
      BY <1>1, <2>2, <3>2, <3>3 DEF OutAt
    <3>4. e \in (b + 3)..(i - 3)
      BY <1>1
    <3> QED
      BY <3>4, <3>5
  <2> QED
    BY <2>1, <2>2 DEF Outside
<1>5. shown' \subseteq Outside
  BY <1>1, <1>2, <1>4
<1>6. shown' \subseteq 1..read
  <2>1. 1..(read - probe) \subseteq 1..read /\ (read - probe + 1)..read \subseteq 1..read
    BY <1>1
  <2> QED
    BY <1>1, <1>2, <2>1
<1>7. ASSUME ~cut, NEW i \in 1..read, i \in Outside PROVE i \in shown'
  <2>1. i \in 1..(read - probe) \/ (~buffering /\ i \in (read - probe + 1)..read)
    BY <1>1, <1>2
  <2> QED
    BY <1>1, <1>2, <1>7, <2>1
<1>8. read' - probe' = read /\ read' \in 0..Len(text') /\ probe' \in 0..2 /\ probe' <= read'
  BY <1>1
<1> QED
  BY <1>1, <1>3, <1>5, <1>6, <1>7, <1>8 DEF MarkersInv

(* The filter of the streamed text always knows where it is.               *)
THEOREM MarkersInvariant == MarkersSpec => []MarkersInv
<1>1. MarkersInit => MarkersInv
  BY MarkersStart
<1>2. MarkersInv /\ [MarkersNext]_markerVars => MarkersInv'
  <2> SUFFICES ASSUME MarkersInv, [MarkersNext]_markerVars PROVE MarkersInv'
    OBVIOUS
  <2>1. CASE Chunk
    BY <2>1, ChunkKeeps
  <2>2. CASE FinishStream
    BY <2>2, FinishStreamKeeps
  <2>3. CASE UNCHANGED markerVars
    BY <2>3 DEF markerVars, MarkersInv, Outside, OutAt, OpenAt, MarkerAt
  <2> QED
    BY <2>1, <2>2, <2>3 DEF MarkersNext
<1> QED
  BY <1>1, <1>2, PTL DEF MarkersSpec

(* However a stream cuts the text and its markers, no character of a call  *)
(* written as text reaches the reader (consumeTextualCallDelta in          *)
(* react-model-turn.ts), none is shown twice, and all the rest is shown    *)
(* unless a chunk ended inside an END marker.                              *)
THEOREM MarkersStayHidden == MarkersSpec => []MarkersHidden
<1>1. ASSUME MarkersInv PROVE MarkersHidden
  <2>1. shown \subseteq Outside
    BY <1>1 DEF MarkersInv
  <2>2. shown \cap (read - probe + 1)..Len(text) = {}
    BY <1>1 DEF MarkersInv
  <2>3. ASSUME finished, ~cut PROVE shown = Outside
    <3>1. \A i \in Outside : i \in 1..(read - probe)
      BY <1>1, <2>3 DEF MarkersInv, Outside
    <3>2. \A i \in 1..(read - probe) : i \in Outside => i \in shown
      BY <1>1, <2>3 DEF MarkersInv
    <3> QED
      BY <2>1, <3>1, <3>2
  <2> QED
    BY <2>1, <2>2, <2>3 DEF MarkersHidden
<1> QED
  BY <1>1, MarkersInvariant, PTL
=============================================================================
