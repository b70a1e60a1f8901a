------------------------ MODULE EventPipelineProofs ------------------------
(***************************************************************************)
(* Theorems about EventPipeline, for every number of clients, events,       *)
(* attempts, failing calls and crashes.  The inductive invariant is         *)
(* PipelineInv: an event that was handed to the queue is in one place at a  *)
(* time, its row comes before its publication, and those that can still be  *)
(* written in their order wait in that order.                               *)
(*                                                                         *)
(* The proof groups the steps by what they do to the worker's hand: it is   *)
(* kept, its first event leaves it, or it is given back (CallFailed).       *)
(***************************************************************************)
EXTENDS EventPipeline, FiniteSetTheorems, SequenceTheorems,
        WellFoundedInduction, TLAPS

(* Sequences and what they contain.                                         *)
LEMMA ContainsNothing == \A e : ~Contains(<<>>, e)
  BY DEF Contains

LEMMA ContainsOne == \A x, e : Contains(<<x>>, e) <=> e = x
  BY DEF Contains

LEMMA ContainsMember ==
  ASSUME NEW S, NEW s \in Seq(S), NEW e, Contains(s, e)
  PROVE  e \in S
  BY ElementOfSeq DEF Contains

LEMMA ContainsAppend ==
  ASSUME NEW S, NEW s \in Seq(S), NEW x \in S
  PROVE  /\ Append(s, x) \in Seq(S)
         /\ \A e : Contains(Append(s, x), e) <=> Contains(s, e) \/ e = x
<1>1. /\ Append(s, x) \in Seq(S)
      /\ Len(Append(s, x)) = Len(s) + 1 /\ Len(s) \in Nat
      /\ \A i \in 1 .. Len(s) : Append(s, x)[i] = s[i]
      /\ Append(s, x)[Len(s) + 1] = x
  BY AppendProperties, LenProperties
<1>2. ASSUME NEW e, Contains(Append(s, x), e) PROVE Contains(s, e) \/ e = x
  <2>1. PICK i \in 1 .. Len(s) + 1 : Append(s, x)[i] = e
    BY <1>1, <1>2 DEF Contains
  <2> QED
    BY <1>1, <2>1 DEF Contains
<1>3. ASSUME NEW e, Contains(s, e) PROVE Contains(Append(s, x), e)
  <2>1. PICK i \in 1 .. Len(s) : s[i] = e
    BY <1>3 DEF Contains
  <2>2. i \in 1 .. Len(s) + 1
    BY <1>1, <2>1
  <2> QED
    BY <1>1, <2>1, <2>2 DEF Contains
<1>4. Contains(Append(s, x), x)
  <2>1. Len(s) + 1 \in 1 .. Len(s) + 1
    BY <1>1
  <2> QED
    BY <1>1, <2>1 DEF Contains
<1> QED
  BY <1>1, <1>2, <1>3, <1>4

LEMMA ContainsTail ==
  ASSUME NEW S, NEW s \in Seq(S), s # <<>>
  PROVE  /\ Head(s) \in S /\ Tail(s) \in Seq(S)
         /\ Len(s) \in Nat \ {0} /\ Head(s) = s[1]
         /\ Len(Tail(s)) = Len(s) - 1
         /\ \A i \in 1 .. Len(s) - 1 : Tail(s)[i] = s[i + 1]
         /\ \A e : Contains(s, e) <=> e = Head(s) \/ Contains(Tail(s), e)
<1>1. /\ Head(s) \in S /\ Tail(s) \in Seq(S)
      /\ Len(Tail(s)) = Len(s) - 1 /\ Len(s) \in Nat \ {0}
      /\ \A i \in 1 .. Len(s) - 1 : Tail(s)[i] = s[i + 1]
  BY HeadTailProperties, EmptySeq
<1>2. Head(s) = s[1]
  OBVIOUS
<1>3. ASSUME NEW e, Contains(s, e) PROVE e = Head(s) \/ Contains(Tail(s), e)
  <2>1. PICK i \in 1 .. Len(s) : s[i] = e
    BY <1>3 DEF Contains
  <2>2. CASE i = 1
    BY <1>2, <2>1, <2>2
  <2>3. CASE i # 1
    <3>1. i - 1 \in 1 .. Len(s) - 1 /\ (i - 1) + 1 = i
      BY <1>1, <2>1, <2>3
    <3> QED
      BY <1>1, <2>1, <3>1 DEF Contains
  <2> QED
    BY <2>2, <2>3
<1>4. ASSUME NEW e, Contains(Tail(s), e) PROVE Contains(s, e)
  <2>1. PICK i \in 1 .. Len(s) - 1 : Tail(s)[i] = e
    BY <1>1, <1>4 DEF Contains
  <2>2. i + 1 \in 1 .. Len(s)
    BY <1>1, <2>1
  <2> QED
    BY <1>1, <2>1, <2>2 DEF Contains
<1>5. Contains(s, Head(s))
  BY <1>1, <1>2 DEF Contains
<1> QED
  BY <1>1, <1>2, <1>3, <1>4, <1>5

LEMMA ContainsConcat ==
  ASSUME NEW S, NEW s \in Seq(S), NEW t \in Seq(S)
  PROVE  /\ s \o t \in Seq(S)
         /\ \A e : Contains(s \o t, e) <=> Contains(s, e) \/ Contains(t, e)
<1>1. /\ s \o t \in Seq(S) /\ Len(s \o t) = Len(s) + Len(t)
      /\ Len(s) \in Nat /\ Len(t) \in Nat
      /\ \A i \in 1 .. Len(s) + Len(t) :
           (s \o t)[i] = IF i <= Len(s) THEN s[i] ELSE t[i - Len(s)]
  BY ConcatProperties, LenProperties
<1>2. ASSUME NEW e, Contains(s \o t, e) PROVE Contains(s, e) \/ Contains(t, e)
  <2>1. PICK i \in 1 .. Len(s) + Len(t) : (s \o t)[i] = e
    BY <1>1, <1>2 DEF Contains
  <2>2. CASE i <= Len(s)
    BY <1>1, <2>1, <2>2 DEF Contains
  <2>3. CASE ~(i <= Len(s))
    <3>1. i - Len(s) \in 1 .. Len(t)
      BY <1>1, <2>1, <2>3
    <3> QED
      BY <1>1, <2>1, <2>3, <3>1 DEF Contains
  <2> QED
    BY <2>2, <2>3
<1>3. ASSUME NEW e, Contains(s, e) PROVE Contains(s \o t, e)
  <2>1. PICK i \in 1 .. Len(s) : s[i] = e
    BY <1>3 DEF Contains
  <2>2. i \in 1 .. Len(s) + Len(t) /\ i <= Len(s)
    BY <1>1, <2>1
  <2> QED
    BY <1>1, <2>1, <2>2 DEF Contains
<1>4. ASSUME NEW e, Contains(t, e) PROVE Contains(s \o t, e)
  <2>1. PICK i \in 1 .. Len(t) : t[i] = e
    BY <1>4 DEF Contains
  <2>2. i + Len(s) \in 1 .. Len(s) + Len(t) /\ ~(i + Len(s) <= Len(s))
        /\ (i + Len(s)) - Len(s) = i
    BY <1>1, <2>1
  <2> QED
    BY <1>1, <2>1, <2>2 DEF Contains
<1> QED
  BY <1>1, <1>2, <1>3, <1>4

LEMMA DistinctTail ==
  ASSUME NEW S, NEW s \in Seq(S), s # <<>>, Distinct(s)
  PROVE  Distinct(Tail(s)) /\ ~Contains(Tail(s), Head(s))
<1>1. /\ Len(s) \in Nat \ {0} /\ Head(s) = s[1] /\ Len(Tail(s)) = Len(s) - 1
      /\ \A i \in 1 .. Len(s) - 1 : Tail(s)[i] = s[i + 1]
  BY ContainsTail
<1>2. ASSUME NEW i \in 1 .. Len(s) - 1, NEW j \in 1 .. Len(s) - 1, Tail(s)[i] = Tail(s)[j]
      PROVE  i = j
  <2>1. i + 1 \in 1 .. Len(s) /\ j + 1 \in 1 .. Len(s) /\ s[i + 1] = s[j + 1]
    BY <1>1, <1>2
  <2>2. i + 1 = j + 1
    BY <2>1 DEF Distinct
  <2> QED
    BY <2>2
<1>3. ASSUME NEW i \in 1 .. Len(s) - 1, Tail(s)[i] = s[1] PROVE FALSE
  <2>1. i + 1 \in 1 .. Len(s) /\ 1 \in 1 .. Len(s) /\ s[i + 1] = s[1]
    BY <1>1, <1>3
  <2>2. i + 1 = 1
    BY <2>1 DEF Distinct
  <2> QED
    BY <2>2
<1> QED
  BY <1>1, <1>2, <1>3 DEF Distinct, Contains

LEMMA DistinctConcat ==
  ASSUME NEW S, NEW s \in Seq(S), NEW t \in Seq(S), Distinct(s), Distinct(t),
         \A e : Contains(s, e) => ~Contains(t, e)
  PROVE  Distinct(s \o t)
<1>1. /\ Len(s \o t) = Len(s) + Len(t)
      /\ Len(s) \in Nat /\ Len(t) \in Nat
      /\ \A i \in 1 .. Len(s) + Len(t) :
           (s \o t)[i] = IF i <= Len(s) THEN s[i] ELSE t[i - Len(s)]
  BY ConcatProperties, LenProperties
<1>2. ASSUME NEW i \in 1 .. Len(s) + Len(t), NEW j \in 1 .. Len(s) + Len(t),
             i <= j, (s \o t)[i] = (s \o t)[j]
      PROVE  i = j
  <2>1. CASE j <= Len(s)
    <3>1. i \in 1 .. Len(s) /\ j \in 1 .. Len(s) /\ s[i] = s[j]
      BY <1>1, <1>2, <2>1
    <3> QED
      BY <3>1 DEF Distinct
  <2>2. CASE ~(j <= Len(s)) /\ i <= Len(s)
    <3>1. i \in 1 .. Len(s) /\ j - Len(s) \in 1 .. Len(t) /\ s[i] = t[j - Len(s)]
      BY <1>1, <1>2, <2>2
    <3> QED
      BY <3>1 DEF Contains
  <2>3. CASE ~(i <= Len(s))
    <3>1. /\ i - Len(s) \in 1 .. Len(t) /\ j - Len(s) \in 1 .. Len(t)
          /\ t[i - Len(s)] = t[j - Len(s)]
      BY <1>1, <1>2, <2>3
    <3>2. i - Len(s) = j - Len(s)
      BY <3>1 DEF Distinct
    <3> QED
      BY <1>1, <3>2
  <2> QED
    BY <2>1, <2>2, <2>3
<1>3. \A i, j \in 1 .. Len(s) + Len(t) : (s \o t)[i] = (s \o t)[j] => i = j
  <2> SUFFICES ASSUME NEW i \in 1 .. Len(s) + Len(t), NEW j \in 1 .. Len(s) + Len(t),
                      (s \o t)[i] = (s \o t)[j]
               PROVE  i = j
    OBVIOUS
  <2>1. i <= j \/ j <= i
    BY <1>1
  <2> QED
    BY <1>2, <2>1
<1> QED
  BY <1>1, <1>3 DEF Distinct

(* A sequence in order: it lists its set, each element once.                *)
LEMMA OrderedSequence ==
  ASSUME NEW S, S \subseteq Nat, IsFiniteSet(S), NEW s \in InOrder(S)
  PROVE  /\ s \in Seq(S) /\ ToSet(s) = S /\ DOMAIN s = 1 .. Len(s)
         /\ \A e : Contains(s, e) <=> e \in S
         /\ \A i, j \in 1 .. Len(s) : i < j => s[i] < s[j]
         /\ Distinct(s)
<1>1. /\ s \in [1 .. Cardinality(S) -> S] /\ ToSet(s) = S
      /\ \A i, j \in DOMAIN s : i < j => s[i] < s[j]
  BY DEF InOrder
<1>2. Cardinality(S) \in Nat
  BY FS_CardinalityType
<1>3. s \in Seq(S)
  BY <1>1, <1>2, SeqDef
<1>4. DOMAIN s = 1 .. Len(s) /\ Len(s) \in Nat
  BY <1>3, LenProperties
<1>5. \A e : Contains(s, e) <=> e \in S
  BY <1>1, <1>4 DEF Contains, ToSet
<1>6. \A i, j \in 1 .. Len(s) : i < j => s[i] < s[j]
  BY <1>1, <1>4
<1>7. Distinct(s)
  <2> SUFFICES ASSUME NEW i \in 1 .. Len(s), NEW j \in 1 .. Len(s), s[i] = s[j]
               PROVE  i = j
    BY DEF Distinct
  <2>1. s[i] \in Nat /\ s[j] \in Nat
    BY <1>3, ElementOfSeq
  <2>2. ~(i < j) /\ ~(j < i)
    BY <1>6, <2>1
  <2> QED
    BY <1>4, <2>2
<1> QED
  BY <1>1, <1>3, <1>4, <1>5, <1>6, <1>7

(* A finite set of numbers and one more have a greatest.                    *)
LEMMA LeastNumber ==
  ASSUME NEW T, T \subseteq Nat, T # {}
  PROVE  \E x \in T : \A y \in T : x <= y
<1> DEFINE R == OpToRel(<, Nat)
<1>1. IsWellFoundedOn(R, Nat)
  BY NatLessThanWellFounded
<1>2. \A x, y \in Nat : x < y => <<x, y>> \in R
  BY DEF OpToRel
<1> HIDE DEF R
<1>3. PICK x \in T : \A y \in T : ~(<<y, x>> \in R)
  BY <1>1, WFMin
<1>4. ASSUME NEW y \in T PROVE x <= y
  <2>1. x \in Nat /\ y \in Nat /\ ~(<<y, x>> \in R)
    BY <1>3
  <2>2. ~(y < x)
    BY <1>2, <2>1
  <2> QED
    BY <2>1, <2>2
<1> QED
  BY <1>4

LEMMA GreatestNumber ==
  ASSUME NEW T, T \subseteq Nat, T # {}, NEW bound \in Nat, \A x \in T : x <= bound
  PROVE  \E x \in T : \A y \in T : y <= x
<1> DEFINE Gap == {n \in Nat : bound - n \in T}
<1>1. PICK x \in T : TRUE
  OBVIOUS
<1>2. bound - x \in Nat /\ bound - (bound - x) = x
  BY <1>1
<1>3. Gap # {}
  BY <1>1, <1>2
<1>4. PICK n \in Gap : \A m \in Gap : n <= m
  BY <1>3, LeastNumber
<1>5. ASSUME NEW y \in T PROVE y <= bound - n
  <2>1. bound - y \in Nat /\ bound - (bound - y) = y /\ y \in Nat
    BY <1>5
  <2>2. bound - y \in Gap
    BY <1>5, <2>1
  <2>3. n <= bound - y /\ n \in Nat
    BY <1>4, <2>2
  <2> QED
    BY <2>1, <2>3
<1> QED
  BY <1>4, <1>5
-----------------------------------------------------------------------------
(* The worker: its record, and what it has in hand between two calls.       *)
LEMMA IdleFacts ==
  /\ Idle \in Worker /\ Idle.task = "none" /\ Idle.step = "list"
  /\ Idle.todo = <<>> /\ Idle.attempt = 1
<1>1. 1 \in 1 .. MaxAttempts /\ <<>> \in Seq(Event)
  BY PipelineAssumption, EmptySeq
<1> QED
  BY <1>1 DEF Idle, Worker

LEMMA StepFacts ==
  ASSUME NEW w \in Worker, NEW s \in {"enqueue", "append", "delete", "list"}
  PROVE  /\ [w EXCEPT !.step = s] \in Worker
         /\ [w EXCEPT !.step = s].task = w.task
         /\ [w EXCEPT !.step = s].step = s
         /\ [w EXCEPT !.step = s].todo = w.todo
         /\ [w EXCEPT !.step = s].attempt = w.attempt
  BY DEF Worker

LEMMA TodoFacts ==
  ASSUME NEW w \in Worker, NEW todo \in Seq(Event)
  PROVE  /\ [w EXCEPT !.step = "append", !.todo = todo] \in Worker
         /\ [w EXCEPT !.step = "append", !.todo = todo].task = w.task
         /\ [w EXCEPT !.step = "append", !.todo = todo].step = "append"
         /\ [w EXCEPT !.step = "append", !.todo = todo].todo = todo
<1> DEFINE v == [w EXCEPT !.step = "append"]
<1>1. /\ v \in Worker /\ v.task = w.task /\ v.step = "append"
      /\ [w EXCEPT !.step = "append", !.todo = todo] = [v EXCEPT !.todo = todo]
  BY StepFacts
<1> HIDE DEF v
<1>2. /\ [v EXCEPT !.todo = todo] \in Worker
      /\ [v EXCEPT !.todo = todo].task = v.task
      /\ [v EXCEPT !.todo = todo].step = v.step
      /\ [v EXCEPT !.todo = todo].todo = todo
  BY <1>1 DEF Worker
<1> QED
  BY <1>1, <1>2

LEMMA AttemptFacts ==
  ASSUME NEW w \in Worker, w.attempt < MaxAttempts
  PROVE  /\ [w EXCEPT !.step = "enqueue", !.attempt = @ + 1] \in Worker
         /\ [w EXCEPT !.step = "enqueue", !.attempt = @ + 1].task = w.task
         /\ [w EXCEPT !.step = "enqueue", !.attempt = @ + 1].step = "enqueue"
         /\ [w EXCEPT !.step = "enqueue", !.attempt = @ + 1].todo = w.todo
<1> DEFINE v == [w EXCEPT !.step = "enqueue"]
<1>1. /\ v \in Worker /\ v.task = w.task /\ v.step = "enqueue"
      /\ v.todo = w.todo /\ v.attempt = w.attempt
      /\ [w EXCEPT !.step = "enqueue", !.attempt = @ + 1] = [v EXCEPT !.attempt = w.attempt + 1]
  BY StepFacts
<1>2. w.attempt + 1 \in 1 .. MaxAttempts
  BY PipelineAssumption DEF Worker
<1> HIDE DEF v
<1>3. /\ [v EXCEPT !.attempt = w.attempt + 1] \in Worker
      /\ [v EXCEPT !.attempt = w.attempt + 1].task = v.task
      /\ [v EXCEPT !.attempt = w.attempt + 1].step = v.step
      /\ [v EXCEPT !.attempt = w.attempt + 1].todo = v.todo
  BY <1>1, <1>2 DEF Worker
<1> QED
  BY <1>1, <1>3

LEMMA AtWork ==
  ASSUME TypeOK, WorkerInv, AtStep("enqueue") \/ AtStep("append") \/ AtStep("delete")
  PROVE  /\ worker \in Worker /\ worker.todo \in Seq(Event) /\ worker.todo # <<>>
         /\ worker.task \in {"persist", "flush"}
         /\ Current \in Event /\ Contains(worker.todo, Current)
         /\ Tail(worker.todo) \in Seq(Event)
         /\ ~Restarting
<1>1. /\ worker \in Worker /\ worker.todo \in Seq(Event)
      /\ worker.task \in {"persist", "flush"} /\ worker.step # "list"
  BY DEF TypeOK, Worker, AtStep
<1>2. worker.todo # <<>>
  <2>1. Len(<<>>) # 1
    BY EmptySeq
  <2> QED
    BY <1>1, <2>1 DEF WorkerInv
<1>3. /\ Current \in Event /\ Contains(worker.todo, Current)
      /\ Tail(worker.todo) \in Seq(Event)
  BY <1>1, <1>2, ContainsTail DEF Current
<1> QED
  BY <1>1, <1>2, <1>3 DEF Restarting

(* What a step may do to the hand: keep it, give it back, drop its first.   *)
Kept == worker'.todo = worker.todo /\ failed' = failed /\ behind' = behind
GivenBack == /\ worker'.todo = <<>> /\ failed' = failed \o worker.todo
             /\ behind' = behind \cup ToSet(worker.todo)
Dropped == /\ worker'.todo = Tail(worker.todo) /\ failed' = failed /\ behind' = behind
           /\ seqOf[Current] # 0

LEMMA EmittedEvents ==
  ASSUME TypeOK
  PROVE  Emitted \subseteq Event /\ Len(kind) \in Nat /\ \A e \in Emitted : kind[e] \in Kinds
<1>1. kind \in Seq(Emits) /\ Len(kind) \in Nat /\ Len(kind) <= MaxEvent
  BY LenProperties DEF TypeOK
<1>2. \A e \in Emitted : kind[e] \in Emits
  BY <1>1, ElementOfSeq DEF Emitted
<1> QED
  BY <1>1, <1>2, PipelineAssumption DEF Emitted, Event

LEMMA HandMembers ==
  ASSUME TypeOK
  PROVE  \A e : e \in ToSet(worker.todo) <=> Contains(worker.todo, e)
<1>1. worker.todo \in Seq(Event)
  BY DEF TypeOK, Worker
<1>2. DOMAIN worker.todo = 1 .. Len(worker.todo)
  BY <1>1, LenProperties
<1> QED
  BY <1>2 DEF ToSet, Contains

(* A call that fails keeps the hand or gives it back.                       *)
LEMMA CallFails ==
  ASSUME TypeOK, WorkerInv, CallFailed,
         AtStep("enqueue") \/ AtStep("append") \/ AtStep("delete")
  PROVE  /\ worker' \in Worker /\ failed' \in Seq(Event)
         /\ behind' \subseteq Event /\ faults' \in 0 .. MaxFault
         /\ Kept \/ GivenBack
         /\ WorkerInv'
<1>1. /\ worker \in Worker /\ worker.todo \in Seq(Event) /\ worker.todo # <<>>
  BY AtWork
<1>2. faults' \in 0 .. MaxFault
  BY PipelineAssumption DEF TypeOK, CallFailed
<1>3. CASE worker.task = "persist" /\ worker.attempt < MaxAttempts
  <2>1. /\ worker' = [worker EXCEPT !.step = "enqueue", !.attempt = @ + 1]
        /\ failed' = failed /\ behind' = behind
    BY <1>3 DEF CallFailed
  <2>2. /\ worker' \in Worker /\ worker'.task = "persist" /\ worker'.step = "enqueue"
        /\ worker'.todo = worker.todo
    BY <1>1, <1>3, <2>1, AttemptFacts
  <2>3. Len(worker.todo) = 1
    BY <1>3 DEF WorkerInv
  <2>4. WorkerInv'
    BY <2>2, <2>3 DEF WorkerInv, AtStep
  <2> QED
    BY <1>2, <2>1, <2>2, <2>4 DEF Kept, TypeOK
<1>4. CASE ~(worker.task = "persist" /\ worker.attempt < MaxAttempts)
  <2>1. /\ worker' = Idle /\ failed' = failed \o worker.todo
        /\ behind' = behind \cup ToSet(worker.todo)
    BY <1>4 DEF CallFailed
  <2>2. /\ worker' \in Worker /\ worker'.task = "none" /\ worker'.todo = <<>>
    BY <2>1, IdleFacts
  <2>3. failed' \in Seq(Event)
    BY <1>1, <2>1, ContainsConcat DEF TypeOK
  <2>4. behind' \subseteq Event
    BY <1>1, <2>1, HandMembers, ContainsMember DEF TypeOK
  <2>5. WorkerInv'
    BY <2>2 DEF WorkerInv, AtStep
  <2> QED
    BY <1>2, <2>1, <2>2, <2>3, <2>4, <2>5 DEF GivenBack
<1> QED
  BY <1>3, <1>4

(* Where an event is found after a step of the worker.                      *)
LEMMA HandPlaces ==
  ASSUME TypeOK, PlaceInv, worker.todo # <<>>,
         UNCHANGED <<kind, queue>>, Kept \/ GivenBack \/ Dropped,
         outbox' \subseteq outbox \cup {Current}
  PROVE  /\ PlaceInv'
         /\ \A e \in Event : Pending(e)' => Pending(e)
         /\ \A e : Contains(worker'.todo, e) => Contains(worker.todo, e)
         /\ \A e : Contains(failed', e) => Contains(failed, e) \/ (Contains(worker.todo, e) /\ e \in behind')
         /\ \A e : Contains(failed, e) => Contains(failed', e)
         /\ \A e : Contains(worker.todo, e) =>
              Contains(worker'.todo, e) \/ Contains(failed', e) \/ (Dropped /\ e = Current)
         /\ Dropped => ~Contains(worker'.todo, Current)
<1>1. /\ worker.todo \in Seq(Event) /\ failed \in Seq(Event)
      /\ Distinct(worker.todo) /\ Distinct(failed)
  BY DEF TypeOK, Worker, PlaceInv
<1>2. /\ Current \in Event /\ Contains(worker.todo, Current)
      /\ \A e : Contains(worker.todo, e) <=> e = Current \/ Contains(Tail(worker.todo), e)
  BY <1>1, ContainsTail DEF Current
<1>3. /\ Distinct(Tail(worker.todo)) /\ ~Contains(Tail(worker.todo), Current)
  BY <1>1, DistinctTail DEF Current
<1>4. /\ \A e : Contains(failed \o worker.todo, e) <=> Contains(failed, e) \/ Contains(worker.todo, e)
  BY <1>1, ContainsConcat
<1>5. Distinct(failed \o worker.todo)
  <2>1. \A e : Contains(failed, e) => ~Contains(worker.todo, e)
    <3> SUFFICES ASSUME NEW e, Contains(failed, e) PROVE ~Contains(worker.todo, e)
      OBVIOUS
    <3>1. e \in Event
      BY <1>1, ContainsMember
    <3> QED
      BY <3>1 DEF PlaceInv
  <2> QED
    BY <1>1, <2>1, DistinctConcat
<1>6. Distinct(<<>>)
  BY EmptySeq DEF Distinct
<1>7. \A e : Contains(worker'.todo, e) => Contains(worker.todo, e)
  BY <1>2, ContainsNothing DEF Kept, GivenBack, Dropped
<1>8. \A e : Contains(failed', e) =>
               Contains(failed, e) \/ (Contains(worker.todo, e) /\ e \in behind')
  BY <1>4, HandMembers DEF Kept, GivenBack, Dropped
<1>9. \A e : Contains(failed, e) => Contains(failed', e)
  BY <1>4 DEF Kept, GivenBack, Dropped
<1>10. \A e : Contains(worker.todo, e) =>
                Contains(worker'.todo, e) \/ Contains(failed', e) \/ (Dropped /\ e = Current)
  BY <1>2, <1>4 DEF Kept, GivenBack, Dropped
<1>11. Dropped => ~Contains(worker'.todo, Current)
  BY <1>3 DEF Dropped
<1>12. Distinct(worker'.todo) /\ Distinct(failed')
  BY <1>1, <1>3, <1>5, <1>6 DEF Kept, GivenBack, Dropped
<1>13. \A e : Contains(worker'.todo, e) => ~Contains(failed', e)
  <2> SUFFICES ASSUME NEW e, Contains(worker'.todo, e), Contains(failed', e) PROVE FALSE
    OBVIOUS
  <2>1. e \in Event /\ Contains(worker.todo, e)
    BY <1>1, <1>7, ContainsMember
  <2>2. CASE GivenBack
    BY <2>2, ContainsNothing DEF GivenBack
  <2>3. CASE Kept \/ Dropped
    <3>1. Contains(failed, e)
      BY <2>3 DEF Kept, Dropped
    <3> QED
      BY <2>1, <3>1 DEF PlaceInv
  <2> QED
    BY <2>2, <2>3
<1>14. \A e \in Event : Pending(e)' => Pending(e)
  BY <1>2, <1>7, <1>8 DEF Pending
<1>15. ASSUME NEW e \in Event, Contains(queue', e)
       PROVE  ~Contains(worker'.todo, e) /\ ~Contains(failed', e) /\ e \notin outbox'
  BY <1>2, <1>7, <1>8, <1>15 DEF PlaceInv
<1>16. PlaceInv'
  BY <1>12, <1>13, <1>14, <1>15 DEF PlaceInv, Handed, Emitted
<1> QED
  BY <1>7, <1>8, <1>9, <1>10, <1>11, <1>14, <1>16
(* Rows, order and deliveries over such steps.                              *)
SameRow(e) == seqOf[e] # 0 => seqOf'[e] = seqOf[e]

LEMMA RowsStay ==
  ASSUME TypeOK, RowInv, UNCHANGED <<kind, tx, live>>,
         seqOf' \in [Event -> Nat], lastSeq' \in Nat,
         \A e \in Event : SameRow(e) /\ seqOf'[e] <= lastSeq'
                          /\ (e \notin Emitted => seqOf'[e] = 0)
                          /\ (Pending(e)' => Pending(e))
  PROVE  RowInv'
<1> SUFFICES ASSUME NEW e \in Event
             PROVE  /\ e \notin Emitted' => live'[e] = 0 /\ tx'[e] = "none" /\ seqOf'[e] = 0
                    /\ tx'[e] # "none" <=> e \in Emitted' /\ kind'[e] = "direct"
                    /\ tx'[e] \in {"open", "committed"} => seqOf'[e] # 0 /\ live'[e] = 0
                    /\ seqOf'[e] <= lastSeq'
                    /\ e \in Emitted' /\ kind'[e] # "start" /\ live'[e] > 0 =>
                         live'[e] = 1 /\ Visible(e)' /\ ~Pending(e)'
  BY DEF RowInv
<1>1. Emitted' = Emitted
  BY DEF Emitted
<1>2. /\ e \notin Emitted => live[e] = 0 /\ tx[e] = "none" /\ seqOf[e] = 0
      /\ tx[e] # "none" <=> e \in Emitted /\ kind[e] = "direct"
      /\ tx[e] \in {"open", "committed"} => seqOf[e] # 0 /\ live[e] = 0
      /\ e \in Emitted /\ kind[e] # "start" /\ live[e] > 0 =>
           live[e] = 1 /\ Visible(e) /\ ~Pending(e)
  BY DEF RowInv
<1>3. Visible(e) => Visible(e)'
  BY DEF Visible, SameRow
<1> QED
  BY <1>1, <1>2, <1>3 DEF SameRow

LEMMA RowsPublished ==
  ASSUME TypeOK, RowInv, NEW x \in Emitted, x \in Event, NEW s,
         UNCHANGED <<kind, seqOf, lastSeq>>, Publish(x, s),
         \A e \in Event : e # x => tx'[e] = tx[e],
         tx'[x] # "none" <=> tx[x] # "none",
         tx'[x] \notin {"open", "committed"},
         kind[x] # "start" => live[x] = 0 /\ seqOf[x] # 0 /\ ~Pending(x)',
         \A e \in Event : Pending(e)' => Pending(e)
  PROVE  RowInv'
<1> SUFFICES ASSUME NEW e \in Event
             PROVE  /\ e \notin Emitted' => live'[e] = 0 /\ tx'[e] = "none" /\ seqOf'[e] = 0
                    /\ tx'[e] # "none" <=> e \in Emitted' /\ kind'[e] = "direct"
                    /\ tx'[e] \in {"open", "committed"} => seqOf'[e] # 0 /\ live'[e] = 0
                    /\ seqOf'[e] <= lastSeq'
                    /\ e \in Emitted' /\ kind'[e] # "start" /\ live'[e] > 0 =>
                         live'[e] = 1 /\ Visible(e)' /\ ~Pending(e)'
  BY DEF RowInv
<1>1. /\ Emitted' = Emitted /\ kind' = kind /\ seqOf' = seqOf /\ lastSeq' = lastSeq
  BY DEF Emitted
<1>2. /\ e \notin Emitted => live[e] = 0 /\ tx[e] = "none" /\ seqOf[e] = 0
      /\ tx[e] # "none" <=> e \in Emitted /\ kind[e] = "direct"
      /\ tx[e] \in {"open", "committed"} => seqOf[e] # 0 /\ live[e] = 0
      /\ seqOf[e] <= lastSeq
      /\ e \in Emitted /\ kind[e] # "start" /\ live[e] > 0 =>
           live[e] = 1 /\ Visible(e) /\ ~Pending(e)
  BY DEF RowInv
<1>3. live \in [Event -> Nat] /\ live' = [live EXCEPT ![x] = @ + 1]
  BY DEF TypeOK, Publish
<1>4. CASE e = x
  BY <1>1, <1>2, <1>3, <1>4 DEF Visible
<1>5. CASE e # x
  <2>1. live'[e] = live[e] /\ tx'[e] = tx[e]
    BY <1>3, <1>5
  <2>2. Visible(e) => Visible(e)'
    BY <1>1, <2>1 DEF Visible
  <2> QED
    BY <1>1, <1>2, <1>5, <2>1, <2>2
<1> QED
  BY <1>4, <1>5

LEMMA OrderStays ==
  ASSUME TypeOK, PlaceInv, OrderInv, ~Restarting, worker.todo # <<>>,
         UNCHANGED <<kind, queue, lost>>, Kept \/ GivenBack \/ Dropped,
         outbox' \subseteq outbox \cup {Current},
         \A e \in Event : SameRow(e)
  PROVE  OrderInv'
<1>1. /\ worker.todo \in Seq(Event) /\ behind \subseteq behind'
  BY DEF TypeOK, Worker, Kept, GivenBack, Dropped
<1>2. \A e \in Event : Due(e)' => Due(e) /\ e \notin behind'
  BY <1>1 DEF Due, Handed, Emitted, SameRow
<1>3. /\ \A e : Contains(failed', e) => Contains(failed, e) \/ (Contains(worker.todo, e) /\ e \in behind')
      /\ \A e : Contains(worker.todo, e) =>
           Contains(worker'.todo, e) \/ Contains(failed', e) \/ (Dropped /\ e = Current)
  BY HandPlaces
<1>4. \A e \in Event : Contains(failed', e) => e \in behind'
  BY <1>1, <1>3 DEF OrderInv
<1>5. ASSUME NEW e \in Event, Due(e)'
      PROVE  Contains(queue', e) \/ Contains(worker'.todo, e)
  <2>1. Due(e) /\ e \notin behind'
    BY <1>2, <1>5
  <2>2. Contains(queue, e) \/ Contains(worker.todo, e)
    BY <2>1 DEF OrderInv
  <2>3. Dropped => e # Current
    BY <2>1 DEF Due, Dropped
  <2> QED
    BY <1>3, <1>4, <2>1, <2>2, <2>3
<1>6. ASSUME NEW i \in 1 .. Len(worker'.todo), NEW j \in 1 .. Len(worker'.todo),
             NEW e \in Event, i < j, worker'.todo[j] = e, Due(e)'
      PROVE  worker'.todo[i] < e
  <2>0. Due(e)
    BY <1>2, <1>6
  <2>1. CASE Kept
    <3>1. /\ i \in 1 .. Len(worker.todo) /\ j \in 1 .. Len(worker.todo)
          /\ worker'.todo[i] = worker.todo[i] /\ worker'.todo[j] = worker.todo[j]
      BY <1>6, <2>1 DEF Kept
    <3> QED
      BY <1>6, <2>0, <3>1 DEF OrderInv
  <2>2. CASE GivenBack
    <3>1. Len(worker'.todo) = 0
      BY <2>2, EmptySeq DEF GivenBack
    <3> QED
      BY <1>6, <3>1
  <2>3. CASE Dropped
    <3>1. /\ Len(worker.todo) \in Nat \ {0} /\ Len(worker'.todo) = Len(worker.todo) - 1
          /\ \A k \in 1 .. Len(worker.todo) - 1 : worker'.todo[k] = worker.todo[k + 1]
      BY <1>1, <2>3, ContainsTail DEF Dropped
    <3>2. /\ i + 1 \in 1 .. Len(worker.todo) /\ j + 1 \in 1 .. Len(worker.todo) /\ i + 1 < j + 1
          /\ worker'.todo[i] = worker.todo[i + 1] /\ worker'.todo[j] = worker.todo[j + 1]
      BY <1>6, <3>1
    <3> QED
      BY <1>6, <2>0, <3>2 DEF OrderInv
  <2> QED
    BY <2>1, <2>2, <2>3
<1>7. \A e, f \in Event : Handed(e)' /\ Contains(queue', f) /\ ~Contains(queue', e) => e < f
  BY DEF OrderInv, Handed, Emitted
<1>8. \A i, j \in 1 .. Len(queue') :
        i < j /\ queue'[i] # Flush /\ queue'[j] # Flush => queue'[i] < queue'[j]
  BY DEF OrderInv
<1> QED
  BY <1>4, <1>5, <1>6, <1>7, <1>8 DEF OrderInv

LEMMA NoneForgotten ==
  ASSUME TypeOK, PlaceInv, RowInv, NoEventForgotten, worker.todo # <<>>,
         UNCHANGED <<kind, queue, lost, tx>>, Kept \/ GivenBack \/ Dropped,
         outbox' \subseteq outbox \cup {Current}, outbox \ {Current} \subseteq outbox',
         \A e \in Event : SameRow(e)
  PROVE  NoEventForgotten'
<1> SUFFICES ASSUME NEW e \in Emitted, kind[e] # "direct", e \notin lost
             PROVE  Held(e)'
  BY DEF NoEventForgotten, Emitted
<1>1. Held(e) /\ e \in Event
  BY EmittedEvents DEF NoEventForgotten
<1>2. /\ \A x : Contains(failed, x) => Contains(failed', x)
      /\ \A x : Contains(worker.todo, x) =>
           Contains(worker'.todo, x) \/ Contains(failed', x) \/ (Dropped /\ x = Current)
  BY HandPlaces
<1>3. Contains(worker.todo, Current)
  <2>1. worker.todo \in Seq(Event)
    BY DEF TypeOK, Worker
  <2> QED
    BY <2>1, ContainsTail DEF Current
<1>4. Visible(e) => Visible(e)'
  BY <1>1 DEF Visible, SameRow
<1>5. Dropped /\ e = Current => Visible(e)
  BY <1>1 DEF Dropped, Visible, RowInv
<1> QED
  BY <1>1, <1>2, <1>3, <1>4, <1>5 DEF Held

LEMMA FollowsStays ==
  ASSUME SequenceFollowsEmission, UNCHANGED <<kind, seqOf>>,
         behind \subseteq behind', lost \subseteq lost'
  PROVE  SequenceFollowsEmission'
  BY DEF SequenceFollowsEmission, Emitted

LEMMA GapStays ==
  ASSUME TypeOK, RowInv, ReplayCoversGap, UNCHANGED <<kind, live, conn, from>>,
         \A c \in Client : got[c] \subseteq got'[c],
         \A e \in Event : SameRow(e)
  PROVE  ReplayCoversGap'
<1> SUFFICES ASSUME NEW c \in Client, conn[c] = "on", from[c] > 0,
                    NEW e \in Emitted, kind[e] # "start", live[e] > 0, seqOf'[e] > from[c]
             PROVE  e \in got'[c]
  BY DEF ReplayCoversGap, Emitted
<1>1. e \in Event /\ Visible(e)
  BY EmittedEvents DEF RowInv
<1>2. seqOf'[e] = seqOf[e]
  BY <1>1 DEF SameRow, Visible
<1> QED
  BY <1>2 DEF ReplayCoversGap

LEMMA GapPublished ==
  ASSUME TypeOK, ReplayCoversGap, NEW x \in Event, NEW s, UNCHANGED <<kind, seqOf>>, Publish(x, s)
  PROVE  ReplayCoversGap'
<1> SUFFICES ASSUME NEW c \in Client, conn[c] = "on", from[c] > 0,
                    NEW e \in Emitted, kind[e] # "start", live'[e] > 0, seqOf[e] > from[c]
             PROVE  e \in got'[c]
  BY DEF ReplayCoversGap, Emitted, Publish
<1>1. e \in Event
  BY EmittedEvents
<1>2. got'[c] = got[c] \cup {x}
  BY DEF Publish, Listening
<1>3. e # x => live'[e] = live[e]
  BY <1>1 DEF Publish, TypeOK
<1> QED
  BY <1>2, <1>3 DEF ReplayCoversGap

LEMMA PublishTypes ==
  ASSUME TypeOK, NEW x \in Event, NEW s \in Nat, Publish(x, s)
  PROVE  /\ live' \in [Event -> Nat] /\ seen' \in [Client -> Nat]
         /\ got' \in [Client -> SUBSET Event]
         /\ conn' \in [Client -> {"off", "asking", "on"}] /\ from' \in [Client -> Nat]
  BY DEF TypeOK, Publish
-----------------------------------------------------------------------------
(* The three calls of an attempt.                                           *)
LEMMA EnqueueStep == PipelineInv /\ Enqueue => PipelineInv'
<1> SUFFICES ASSUME PipelineInv, Enqueue
             PROVE  PipelineInv'
  OBVIOUS
<1>0. /\ TypeOK /\ WorkerInv /\ PlaceInv /\ RowInv /\ OrderInv
      /\ NoEventForgotten /\ SequenceFollowsEmission /\ ReplayCoversGap
  BY DEF PipelineInv, EventsKept
<1>1. /\ AtStep("enqueue") /\ worker \in Worker /\ worker.todo \in Seq(Event)
      /\ worker.todo # <<>> /\ worker.task \in {"persist", "flush"}
      /\ Current \in Event /\ Contains(worker.todo, Current) /\ ~Restarting
  BY <1>0, AtWork DEF Enqueue
<1>2. /\ worker' \in Worker /\ failed' \in Seq(Event)
      /\ behind' \subseteq Event /\ faults' \in 0 .. MaxFault
      /\ Kept \/ GivenBack
      /\ WorkerInv'
  <2>1. CASE CallFailed
    BY <1>0, <1>1, <2>1, CallFails
  <2>2. CASE ToStep("append") /\ UNCHANGED <<failed, behind, faults>>
    <3>1. /\ worker' \in Worker /\ worker'.task = worker.task /\ worker'.step = "append"
          /\ worker'.todo = worker.todo
      BY <1>1, <2>2, StepFacts DEF ToStep
    <3>2. WorkerInv'
      BY <1>0, <1>1, <3>1 DEF WorkerInv, AtStep
    <3> QED
      BY <1>0, <2>2, <3>1, <3>2 DEF Kept, TypeOK
  <2> QED
    BY <2>1, <2>2 DEF Enqueue
<1>3. /\ outbox \subseteq outbox' /\ outbox' \subseteq outbox \cup {Current}
      /\ UNCHANGED <<kind, tx, queue, seqOf, lastSeq, live, conn, from, seen, got, lost, crashes>>
  BY DEF Enqueue, emission, clients
<1>4. TypeOK'
  BY <1>0, <1>1, <1>2, <1>3 DEF TypeOK
<1>5. PlaceInv' /\ \A e \in Event : Pending(e)' => Pending(e)
  BY <1>0, <1>1, <1>2, <1>3, HandPlaces
<1>6. \A e \in Event : SameRow(e)
  BY <1>3 DEF SameRow
<1>7. RowInv'
  <2>1. \A e \in Event : seqOf'[e] <= lastSeq' /\ (e \notin Emitted => seqOf'[e] = 0)
    BY <1>0, <1>3 DEF RowInv
  <2>2. seqOf' \in [Event -> Nat] /\ lastSeq' \in Nat
    BY <1>4 DEF TypeOK
  <2> QED
    BY <1>0, <1>3, <1>5, <1>6, <2>1, <2>2, RowsStay
<1>8. OrderInv'
  BY <1>0, <1>1, <1>2, <1>3, <1>6, OrderStays
<1>9. NoEventForgotten'
  BY <1>0, <1>1, <1>2, <1>3, <1>6, NoneForgotten
<1>10. SequenceFollowsEmission'
  BY <1>0, <1>2, <1>3, FollowsStays DEF Kept, GivenBack
<1>11. ReplayCoversGap'
  BY <1>0, <1>3, <1>6, GapStays
<1> QED
  BY <1>2, <1>4, <1>5, <1>7, <1>8, <1>9, <1>10, <1>11 DEF PipelineInv, EventsKept

LEMMA AppendRowStep == PipelineInv /\ AppendRow => PipelineInv'
<1> SUFFICES ASSUME PipelineInv, AppendRow
             PROVE  PipelineInv'
  OBVIOUS
<1>0. /\ TypeOK /\ WorkerInv /\ PlaceInv /\ RowInv /\ OrderInv
      /\ NoEventForgotten /\ SequenceFollowsEmission /\ ReplayCoversGap
  BY DEF PipelineInv, EventsKept
<1>1. /\ AtStep("append") /\ worker \in Worker /\ worker.todo \in Seq(Event)
      /\ worker.todo # <<>> /\ worker.task \in {"persist", "flush"}
      /\ Current \in Event /\ Contains(worker.todo, Current) /\ ~Restarting
  BY <1>0, AtWork DEF AppendRow
<1>2. \/ ToStep("delete") /\ UNCHANGED <<failed, behind, faults>> /\ Insert(Current)
      \/ CallFailed /\ (Insert(Current) \/ UNCHANGED <<seqOf, lastSeq>>)
  BY DEF AppendRow
<1>3. UNCHANGED <<kind, tx, outbox, queue, live, conn, from, seen, got, lost, crashes>>
  BY DEF AppendRow, emission, clients
(* The row: the current one may get the next number.                        *)
<1>4. \/ UNCHANGED <<seqOf, lastSeq>>
      \/ /\ seqOf[Current] = 0
         /\ seqOf' = [seqOf EXCEPT ![Current] = lastSeq + 1] /\ lastSeq' = lastSeq + 1
  BY <1>2 DEF Insert
<1>5. /\ seqOf \in [Event -> Nat] /\ lastSeq \in Nat
      /\ \A e \in Event : seqOf[e] <= lastSeq
  BY <1>0 DEF TypeOK, RowInv
<1>6. /\ seqOf' \in [Event -> Nat] /\ lastSeq' \in Nat
      /\ \A e \in Event : SameRow(e) /\ seqOf'[e] <= lastSeq'
      /\ \A e \in Event : e # Current => seqOf'[e] = seqOf[e]
      /\ lastSeq <= lastSeq'
      /\ seqOf[Current] = 0 /\ seqOf'[Current] # 0 => seqOf'[Current] = lastSeq + 1
  BY <1>1, <1>4, <1>5 DEF SameRow
<1>7. Handed(Current) /\ ~Contains(queue, Current)
  BY <1>0, <1>1 DEF PlaceInv, Pending
<1>8. /\ worker' \in Worker /\ failed' \in Seq(Event)
      /\ behind' \subseteq Event /\ faults' \in 0 .. MaxFault
      /\ Kept \/ GivenBack
      /\ WorkerInv'
  <2>1. CASE CallFailed
    BY <1>0, <1>1, <2>1, CallFails
  <2>2. CASE ToStep("delete") /\ UNCHANGED <<failed, behind, faults>> /\ Insert(Current)
    <3>1. /\ worker' \in Worker /\ worker'.task = worker.task /\ worker'.step = "delete"
          /\ worker'.todo = worker.todo
      BY <1>1, <2>2, StepFacts DEF ToStep
    <3>2. seqOf'[Current] # 0
      BY <1>1, <1>5, <2>2 DEF Insert
    <3>3. Current' = Current
      BY <3>1 DEF Current
    <3>4. WorkerInv'
      BY <1>0, <1>1, <3>1, <3>2, <3>3 DEF WorkerInv, AtStep
    <3> QED
      BY <1>0, <2>2, <3>1, <3>4 DEF Kept, TypeOK
  <2> QED
    BY <1>2, <2>1, <2>2
<1>9. TypeOK'
  BY <1>0, <1>3, <1>6, <1>8 DEF TypeOK
<1>10. PlaceInv' /\ \A e \in Event : Pending(e)' => Pending(e)
  BY <1>0, <1>1, <1>3, <1>8, HandPlaces
<1>11. RowInv'
  <2>1. \A e \in Event : e \notin Emitted => seqOf'[e] = 0
    BY <1>0, <1>6, <1>7 DEF RowInv, Handed
  <2> QED
    BY <1>0, <1>3, <1>6, <1>10, <2>1, RowsStay
<1>12. OrderInv'
  BY <1>0, <1>1, <1>3, <1>6, <1>8, OrderStays
<1>13. NoEventForgotten'
  BY <1>0, <1>1, <1>3, <1>6, <1>8, NoneForgotten
<1>14. SequenceFollowsEmission'
  <2> SUFFICES ASSUME NEW e \in Emitted, NEW f \in Emitted, e < f,
                      kind[e] # "direct", kind[f] # "direct",
                      e \notin behind' \cup lost, seqOf'[f] # 0
               PROVE  seqOf'[e] # 0 /\ seqOf'[e] < seqOf'[f]
    BY <1>3 DEF SequenceFollowsEmission, Emitted
  <2>1. e \in Event /\ f \in Event /\ e \notin behind \cup lost
    BY <1>0, <1>8, EmittedEvents DEF Kept, GivenBack
  <2>2. CASE seqOf[f] # 0
    <3>1. seqOf[e] # 0 /\ seqOf[e] < seqOf[f]
      BY <2>1, <2>2, <1>0 DEF SequenceFollowsEmission
    <3> QED
      BY <1>6, <2>1, <2>2, <3>1 DEF SameRow
  <2>3. CASE seqOf[f] = 0
    <3>1. f = Current /\ seqOf'[f] = lastSeq + 1 /\ e # f
      <4>1. e \in Nat /\ f \in Nat
        BY <2>1 DEF Event
      <4>2. f = Current
        BY <1>6, <2>1, <2>3
      <4> QED
        BY <1>6, <2>3, <4>1, <4>2
    <3>2. seqOf[e] # 0
      <4> SUFFICES ASSUME seqOf[e] = 0
                   PROVE  FALSE
        OBVIOUS
      <4>1. Due(e) /\ e \in Nat /\ f \in Nat
        BY <2>1 DEF Due, Handed, Event
      <4>2. Contains(queue, e) \/ Contains(worker.todo, e)
        BY <1>0, <1>1, <2>1, <4>1 DEF OrderInv
      <4>3. CASE Contains(queue, e)
        <5>1. f < e
          BY <1>0, <1>7, <2>1, <3>1, <4>3 DEF OrderInv
        <5> QED
          BY <4>1, <5>1
      <4>4. CASE Contains(worker.todo, e)
        <5>1. PICK j \in 1 .. Len(worker.todo) : worker.todo[j] = e
          BY <4>4 DEF Contains
        <5>2. worker.todo[1] = f
          BY <1>1, <3>1, ContainsTail DEF Current
        <5>3. 1 \in 1 .. Len(worker.todo) /\ 1 < j
          BY <3>1, <5>1, <5>2
        <5>4. worker.todo[1] < worker.todo[j]
          BY <1>0, <2>1, <4>1, <5>1, <5>3 DEF OrderInv
        <5> QED
          BY <4>1, <5>1, <5>2, <5>4
      <4> QED
        BY <4>2, <4>3, <4>4
    <3> QED
      BY <1>5, <1>6, <2>1, <3>1, <3>2 DEF SameRow
  <2> QED
    BY <2>2, <2>3
<1>15. ReplayCoversGap'
  BY <1>0, <1>3, <1>6, GapStays
<1> QED
  BY <1>8, <1>9, <1>10, <1>11, <1>12, <1>13, <1>14, <1>15 DEF PipelineInv, EventsKept

LEMMA DeleteStep == PipelineInv /\ DeleteAndForward => PipelineInv'
<1> SUFFICES ASSUME PipelineInv, DeleteAndForward
             PROVE  PipelineInv'
  OBVIOUS
<1>0. /\ TypeOK /\ WorkerInv /\ PlaceInv /\ RowInv /\ OrderInv
      /\ NoEventForgotten /\ SequenceFollowsEmission /\ ReplayCoversGap
  BY DEF PipelineInv, EventsKept
<1>1. /\ AtStep("delete") /\ worker \in Worker /\ worker.todo \in Seq(Event)
      /\ worker.todo # <<>> /\ worker.task \in {"persist", "flush"}
      /\ Current \in Event /\ Contains(worker.todo, Current) /\ ~Restarting
  BY <1>0, AtWork DEF DeleteAndForward
<1>2. UNCHANGED <<kind, tx, seqOf, lastSeq, queue, lost, crashes>>
  BY DEF DeleteAndForward, emission
<1>3. /\ seqOf[Current] # 0 /\ Handed(Current) /\ ~Contains(queue, Current)
      /\ ~Contains(failed, Current)
  BY <1>0, <1>1 DEF WorkerInv, PlaceInv, Pending
<1>4. \A e \in Event : SameRow(e) /\ seqOf'[e] <= lastSeq' /\ (e \notin Emitted => seqOf'[e] = 0)
  BY <1>0, <1>2 DEF SameRow, RowInv
<1>5. seqOf' \in [Event -> Nat] /\ lastSeq' \in Nat
  BY <1>0, <1>2 DEF TypeOK
<1>6. CASE CallFailed /\ outbox' \in {outbox, outbox \ {Current}} /\ Silent
  <2>1. /\ worker' \in Worker /\ failed' \in Seq(Event)
        /\ behind' \subseteq Event /\ faults' \in 0 .. MaxFault
        /\ Kept \/ GivenBack
        /\ WorkerInv'
    BY <1>0, <1>1, <1>6, CallFails
  <2>2. /\ outbox' \subseteq outbox /\ outbox \ {Current} \subseteq outbox'
        /\ UNCHANGED <<live, conn, from, seen, got>>
    BY <1>6 DEF Silent, clients
  <2>3. TypeOK'
    BY <1>0, <1>2, <2>1, <2>2 DEF TypeOK
  <2>4. PlaceInv' /\ \A e \in Event : Pending(e)' => Pending(e)
    BY <1>0, <1>1, <1>2, <2>1, <2>2, HandPlaces
  <2>5. RowInv'
    BY <1>0, <1>2, <1>4, <1>5, <2>2, <2>4, RowsStay
  <2>6. OrderInv'
    BY <1>0, <1>1, <1>2, <1>4, <2>1, <2>2, OrderStays
  <2>7. NoEventForgotten'
    BY <1>0, <1>1, <1>2, <1>4, <2>1, <2>2, NoneForgotten
  <2>8. SequenceFollowsEmission'
    BY <1>0, <1>2, <2>1, FollowsStays DEF Kept, GivenBack
  <2>9. ReplayCoversGap'
    BY <1>0, <1>2, <1>4, <2>2, GapStays
  <2> QED
    BY <2>1, <2>3, <2>4, <2>5, <2>6, <2>7, <2>8, <2>9 DEF PipelineInv, EventsKept
<1>7. CASE /\ outbox' = outbox \ {Current} /\ worker' = NextOfTask
           /\ IF Forwards THEN Publish(Current, seqOf[Current]) ELSE Silent
           /\ UNCHANGED <<failed, behind, faults>>
  <2>1. Len(worker.todo) = 1 => Tail(worker.todo) = <<>>
    <3>1. Len(worker.todo) = 1 => Len(Tail(worker.todo)) = 0
      BY <1>1, ContainsTail
    <3>2. Tail(worker.todo) \in Seq(Event)
      BY <1>1, ContainsTail
    <3> QED
      BY <3>1, <3>2, EmptySeq
  <2>2. Tail(worker.todo) \in Seq(Event) /\ Len(Tail(worker.todo)) = Len(worker.todo) - 1
        /\ Len(worker.todo) \in Nat
    BY <1>1, ContainsTail
  <2>3. worker' \in Worker /\ worker'.todo = Tail(worker.todo) /\ WorkerInv'
    <3>1. CASE Len(worker.todo) = 1
      <4>1. worker' = Idle
        BY <1>7, <3>1 DEF NextOfTask
      <4>2. worker' \in Worker /\ worker'.task = "none" /\ worker'.todo = <<>>
        BY <4>1, IdleFacts
      <4> QED
        BY <2>1, <3>1, <4>2 DEF WorkerInv, AtStep
    <3>2. CASE Len(worker.todo) # 1
      <4>1. worker' = [worker EXCEPT !.step = "append", !.todo = Tail(worker.todo)]
        BY <1>7, <3>2 DEF NextOfTask
      <4>2. /\ worker' \in Worker /\ worker'.task = worker.task /\ worker'.step = "append"
            /\ worker'.todo = Tail(worker.todo)
        BY <1>1, <2>2, <4>1, TodoFacts
      <4>3. worker.task = "flush"
        BY <1>0, <1>1, <3>2 DEF WorkerInv
      <4>4. Tail(worker.todo) # <<>>
        <5>1. Len(Tail(worker.todo)) # 0
          BY <2>2, <3>2
        <5>2. Len(<<>>) = 0
          BY EmptySeq
        <5> QED
          BY <5>1, <5>2
      <4> QED
        BY <4>2, <4>3, <4>4 DEF WorkerInv, AtStep
    <3> QED
      BY <3>1, <3>2
  <2>4. Dropped
    BY <1>3, <1>7, <2>3 DEF Dropped
  <2>5. outbox' \subseteq outbox /\ outbox \ {Current} \subseteq outbox'
    BY <1>7
  <2>6. /\ PlaceInv' /\ \A e \in Event : Pending(e)' => Pending(e)
        /\ ~Contains(worker'.todo, Current)
    BY <1>0, <1>1, <1>2, <2>4, <2>5, HandPlaces
  <2> PICK x \in Event : x = Current
    BY <1>1
  <2>7. ~Pending(x)'
    BY <1>2, <1>3, <1>7, <2>6 DEF Pending
  <2>8. OrderInv'
    BY <1>0, <1>1, <1>2, <1>4, <2>4, <2>5, OrderStays
  <2>9. NoEventForgotten'
    BY <1>0, <1>1, <1>2, <1>4, <2>4, <2>5, NoneForgotten
  <2>10. SequenceFollowsEmission'
    BY <1>0, <1>2, <2>4, FollowsStays DEF Dropped
  <2>11. CASE Silent
    <3>1. UNCHANGED <<live, conn, from, seen, got>>
      BY <2>11 DEF Silent, clients
    <3>2. TypeOK'
      BY <1>0, <1>2, <1>7, <2>3, <2>5, <3>1 DEF TypeOK
    <3>3. RowInv'
      BY <1>0, <1>2, <1>4, <1>5, <2>6, <3>1, RowsStay
    <3>4. ReplayCoversGap'
      BY <1>0, <1>2, <1>4, <3>1, GapStays
    <3> QED
      BY <2>3, <2>6, <2>8, <2>9, <2>10, <3>2, <3>3, <3>4 DEF PipelineInv, EventsKept
  <2>12. CASE Publish(Current, seqOf[Current])
    <3>1. seqOf[Current] \in Nat
      BY <1>0, <1>1 DEF TypeOK
    <3>2. TypeOK'
      BY <1>0, <1>1, <1>2, <1>7, <2>3, <2>5, <2>12, <3>1, PublishTypes DEF TypeOK
    <3>3. Current \in Emitted /\ kind[Current] # "direct"
      BY <1>3 DEF Handed
    <3>4. Pending(Current)
      BY <1>1 DEF Pending
    <3>5. tx[Current] = "none"
      BY <1>0, <1>1, <3>3 DEF RowInv
    <3>6. kind[Current] # "start" => live[Current] = 0
      <4>1. live[Current] \in Nat
        BY <1>0, <1>1 DEF TypeOK
      <4> QED
        BY <1>0, <1>1, <3>3, <3>4, <4>1 DEF RowInv
    <3>7. RowInv'
      <4>1. /\ x \in Emitted /\ Publish(x, seqOf[x]) /\ tx' = tx /\ tx[x] = "none"
            /\ kind[x] # "start" => live[x] = 0 /\ seqOf[x] # 0 /\ ~Pending(x)'
        BY <1>2, <1>3, <2>7, <2>12, <3>3, <3>5, <3>6
      <4> QED
        BY <1>0, <1>2, <2>6, <4>1, RowsPublished
    <3>8. ReplayCoversGap'
      BY <1>0, <1>1, <1>2, <2>12, GapPublished
    <3> QED
      BY <2>3, <2>6, <2>8, <2>9, <2>10, <3>2, <3>7, <3>8 DEF PipelineInv, EventsKept
  <2> QED
    BY <1>7, <2>11, <2>12
<1> QED
  BY <1>6, <1>7 DEF DeleteAndForward
-----------------------------------------------------------------------------
(* A task is taken.                                                         *)
LEMMA TaskFacts ==
  /\ [Idle EXCEPT !.task = "flush"] \in Worker
  /\ [Idle EXCEPT !.task = "flush"].task = "flush"
  /\ [Idle EXCEPT !.task = "flush"].step = "list"
  /\ [Idle EXCEPT !.task = "flush"].todo = <<>>
  BY IdleFacts DEF Worker

LEMMA PersistFacts ==
  ASSUME NEW x \in Event
  PROVE  LET w == [Idle EXCEPT !.task = "persist", !.step = "enqueue", !.todo = <<x>>]
         IN  w \in Worker /\ w.task = "persist" /\ w.step = "enqueue" /\ w.todo = <<x>>
<1> DEFINE v == [Idle EXCEPT !.task = "persist"]
           u == [v EXCEPT !.step = "enqueue"]
<1>1. v \in Worker /\ v.task = "persist"
  BY IdleFacts DEF Worker
<1>2. [Idle EXCEPT !.task = "persist", !.step = "enqueue", !.todo = <<x>>]
        = [u EXCEPT !.todo = <<x>>]
  OBVIOUS
<1>3. <<x>> \in Seq(Event)
  OBVIOUS
<1> HIDE DEF v
<1>4. u \in Worker /\ u.task = "persist" /\ u.step = "enqueue"
  BY <1>1, StepFacts
<1> HIDE DEF u
<1>5. /\ [u EXCEPT !.todo = <<x>>] \in Worker
      /\ [u EXCEPT !.todo = <<x>>].task = "persist"
      /\ [u EXCEPT !.todo = <<x>>].step = "enqueue"
      /\ [u EXCEPT !.todo = <<x>>].todo = <<x>>
  BY <1>3, <1>4 DEF Worker
<1> QED
  BY <1>2, <1>5

LEMMA TakeStep == PipelineInv /\ Take => PipelineInv'
<1> SUFFICES ASSUME PipelineInv, Take
             PROVE  PipelineInv'
  OBVIOUS
<1>0. /\ TypeOK /\ WorkerInv /\ PlaceInv /\ RowInv /\ OrderInv
      /\ NoEventForgotten /\ SequenceFollowsEmission /\ ReplayCoversGap
  BY DEF PipelineInv, EventsKept
<1>1. /\ queue \in Seq(Event \cup {Flush}) /\ queue # <<>> /\ queue' = Tail(queue)
      /\ worker.task = "none" /\ worker.todo = <<>>
      /\ UNCHANGED <<kind, tx, outbox, seqOf, lastSeq, failed, live, conn, from, seen,
                     got, behind, lost, faults, crashes>>
  BY <1>0 DEF Take, TypeOK, WorkerInv, emission, store, clients, ghosts
<1>2. /\ Head(queue) \in Event \cup {Flush} /\ Tail(queue) \in Seq(Event \cup {Flush})
      /\ Len(queue) \in Nat \ {0} /\ Head(queue) = queue[1]
      /\ Len(Tail(queue)) = Len(queue) - 1
      /\ \A i \in 1 .. Len(queue) - 1 : Tail(queue)[i] = queue[i + 1]
      /\ \A e : Contains(queue, e) <=> e = Head(queue) \/ Contains(Tail(queue), e)
  BY <1>1, ContainsTail
<1>3. Flush \notin Event
  BY DEF Flush, Event
<1>4. /\ worker' \in Worker
      /\ \A e \in Event : Contains(worker'.todo, e) <=> e = Head(queue)
      /\ Len(worker'.todo) <= 1 /\ Distinct(worker'.todo)
      /\ Head(queue) = Flush => worker'.task = "flush" /\ worker'.step = "list"
      /\ WorkerInv'
  <2>1. CASE Head(queue) = Flush
    <3>1. /\ worker' \in Worker /\ worker'.task = "flush" /\ worker'.step = "list"
          /\ worker'.todo = <<>>
      BY <2>1, TaskFacts DEF Take
    <3>2. WorkerInv' /\ Len(worker'.todo) <= 1 /\ Distinct(worker'.todo)
      BY <3>1, EmptySeq DEF WorkerInv, AtStep, Distinct
    <3> QED
      BY <1>3, <2>1, <3>1, <3>2, ContainsNothing
  <2>2. CASE Head(queue) # Flush
    <3>1. worker' = [Idle EXCEPT !.task = "persist", !.step = "enqueue", !.todo = <<Head(queue)>>]
      BY <2>2 DEF Take
    <3>2. /\ worker' \in Worker /\ worker'.task = "persist" /\ worker'.step = "enqueue"
          /\ worker'.todo = <<Head(queue)>>
      BY <1>2, <2>2, <3>1, PersistFacts
    <3>3. Len(<<Head(queue)>>) = 1
      OBVIOUS
    <3>4. WorkerInv'
      BY <3>2, <3>3 DEF WorkerInv, AtStep
    <3> QED
      BY <2>2, <3>2, <3>3, <3>4, ContainsOne DEF Distinct
  <2> QED
    BY <2>1, <2>2
<1>5. ASSUME NEW e \in Event, Contains(Tail(queue), e)
      PROVE  Head(queue) = Flush \/ (Head(queue) < e /\ Head(queue) # e)
  <2>1. PICK k \in 1 .. Len(queue) - 1 : queue[k + 1] = e
    BY <1>2, <1>5 DEF Contains
  <2>2. 1 \in 1 .. Len(queue) /\ k + 1 \in 1 .. Len(queue) /\ 1 < k + 1
    BY <1>2, <2>1
  <2>3. Head(queue) # Flush => queue[1] < queue[k + 1]
    BY <1>0, <1>2, <1>3, <2>1, <2>2 DEF OrderInv
  <2> QED
    BY <1>2, <2>1, <2>3 DEF Event
<1>6. TypeOK'
  BY <1>0, <1>1, <1>2, <1>4 DEF TypeOK
<1>7. \A e \in Event : Pending(e)' => Pending(e)
  BY <1>1, <1>2, <1>4 DEF Pending
<1>8. PlaceInv'
  <2>1. Distinct(worker'.todo) /\ Distinct(failed')
    BY <1>0, <1>1, <1>4 DEF PlaceInv
  <2>2. ASSUME NEW e \in Event
        PROVE  /\ Pending(e)' => Handed(e)'
               /\ Contains(queue', e) =>
                    ~Contains(worker'.todo, e) /\ ~Contains(failed', e) /\ e \notin outbox'
               /\ Contains(worker'.todo, e) => ~Contains(failed', e)
    <3>1. Handed(e)' <=> Handed(e)
      BY <1>1 DEF Handed, Emitted
    <3> QED
      BY <1>0, <1>1, <1>2, <1>3, <1>4, <1>5, <1>7, <3>1 DEF PlaceInv
  <2> QED
    BY <2>1, <2>2 DEF PlaceInv
<1>9. RowInv'
  BY <1>0, <1>1, <1>6, <1>7, RowsStay DEF SameRow, RowInv, TypeOK
<1>10. OrderInv'
  <2>1. ASSUME NEW i \in 1 .. Len(queue'), NEW j \in 1 .. Len(queue'),
               i < j, queue'[i] # Flush, queue'[j] # Flush
        PROVE  queue'[i] < queue'[j]
    <3>1. /\ i + 1 \in 1 .. Len(queue) /\ j + 1 \in 1 .. Len(queue) /\ i + 1 < j + 1
          /\ queue'[i] = queue[i + 1] /\ queue'[j] = queue[j + 1]
      BY <1>1, <1>2, <2>1
    <3> QED
      BY <1>0, <2>1, <3>1 DEF OrderInv
  <2>2. ASSUME NEW e \in Event, NEW f \in Event, Handed(e)', Contains(queue', f),
               ~Contains(queue', e)
        PROVE  e < f
    <3>1. Handed(e) /\ Contains(Tail(queue), f)
      BY <1>1, <2>2 DEF Handed, Emitted
    <3>2. CASE Contains(queue, e)
      BY <1>1, <1>2, <1>3, <1>5, <2>2, <3>1, <3>2
    <3>3. CASE ~Contains(queue, e)
      BY <1>0, <1>2, <3>1, <3>3 DEF OrderInv
    <3> QED
      BY <3>2, <3>3
  <2>3. ASSUME NEW i \in 1 .. Len(worker'.todo), NEW j \in 1 .. Len(worker'.todo), i < j
        PROVE  FALSE
    <3>1. Len(worker'.todo) \in Nat
      BY <1>4, LenProperties DEF Worker
    <3> QED
      BY <1>4, <2>3, <3>1
  <2>4. \A e \in Event : Contains(failed', e) => e \in behind'
    BY <1>0, <1>1 DEF OrderInv
  <2>5. ASSUME NEW e \in Event, Due(e)'
        PROVE  Contains(queue', e) \/ Contains(worker'.todo, e) \/ (e \in outbox' /\ Restarting')
    <3>1. Due(e)
      BY <1>1, <2>5 DEF Due, Handed, Emitted
    <3>2. CASE Contains(queue, e)
      BY <1>1, <1>2, <1>4, <3>2
    <3>3. CASE e \in outbox /\ Restarting
      BY <1>1, <1>4, <3>3 DEF Restarting
    <3>4. ~Contains(worker.todo, e)
      BY <1>1, ContainsNothing
    <3> QED
      BY <1>0, <3>1, <3>2, <3>3, <3>4 DEF OrderInv
  <2> QED
    BY <2>1, <2>2, <2>3, <2>4, <2>5 DEF OrderInv
<1>11. NoEventForgotten'
  <2> SUFFICES ASSUME NEW e \in Emitted, kind[e] # "direct", e \notin lost
               PROVE  Held(e)'
    BY <1>1 DEF NoEventForgotten, Emitted
  <2>1. Held(e) /\ e \in Event
    BY <1>0, EmittedEvents DEF NoEventForgotten
  <2>2. Visible(e)' <=> Visible(e)
    BY <1>1 DEF Visible
  <2> QED
    BY <1>1, <1>2, <1>4, <2>1, <2>2, ContainsNothing DEF Held
<1>12. SequenceFollowsEmission'
  BY <1>0, <1>1, FollowsStays
<1>13. ReplayCoversGap'
  BY <1>0, <1>1, GapStays DEF SameRow
<1> QED
  BY <1>4, <1>6, <1>8, <1>9, <1>10, <1>11, <1>12, <1>13 DEF PipelineInv, EventsKept

LEMMA FlushTimerStep == PipelineInv /\ FlushTimer => PipelineInv'
<1> SUFFICES ASSUME PipelineInv, FlushTimer
             PROVE  PipelineInv'
  OBVIOUS
<1>0. /\ TypeOK /\ WorkerInv /\ PlaceInv /\ RowInv /\ OrderInv
      /\ NoEventForgotten /\ SequenceFollowsEmission /\ ReplayCoversGap
  BY DEF PipelineInv, EventsKept
<1>1. /\ queue \in Seq(Event \cup {Flush}) /\ queue' = Append(queue, Flush)
      /\ UNCHANGED <<kind, tx, outbox, seqOf, lastSeq, worker, failed, live, conn, from,
                     seen, got, behind, lost, faults, crashes>>
  BY <1>0 DEF FlushTimer, TypeOK, emission, store, clients, ghosts
<1>2. Flush \notin Event
  BY DEF Flush, Event
<1>3. /\ queue' \in Seq(Event \cup {Flush})
      /\ \A e \in Event : Contains(queue', e) <=> Contains(queue, e)
  BY <1>1, <1>2, ContainsAppend
<1>4. /\ Len(queue') = Len(queue) + 1 /\ Len(queue) \in Nat
      /\ \A i \in 1 .. Len(queue) : queue'[i] = queue[i]
      /\ queue'[Len(queue) + 1] = Flush
  BY <1>1, AppendProperties, LenProperties
<1>5. TypeOK' /\ WorkerInv'
  BY <1>0, <1>1, <1>3 DEF TypeOK, WorkerInv, AtStep, Current
<1>6. \A e \in Event : Pending(e)' <=> Pending(e)
  BY <1>1, <1>3 DEF Pending
<1>7. PlaceInv'
  <2>1. \A e \in Event : Handed(e)' <=> Handed(e)
    BY <1>1 DEF Handed, Emitted
  <2> QED
    BY <1>0, <1>1, <1>3, <1>6, <2>1 DEF PlaceInv
<1>8. RowInv'
  BY <1>0, <1>1, <1>5, <1>6, RowsStay DEF SameRow, RowInv, TypeOK
<1>9. OrderInv'
  <2>1. ASSUME NEW i \in 1 .. Len(queue'), NEW j \in 1 .. Len(queue'),
               i < j, queue'[i] # Flush, queue'[j] # Flush
        PROVE  queue'[i] < queue'[j]
    <3>1. i \in 1 .. Len(queue) /\ j \in 1 .. Len(queue)
      BY <1>4, <2>1
    <3> QED
      BY <1>0, <1>4, <2>1, <3>1 DEF OrderInv
  <2>2. \A e, f \in Event : Handed(e)' /\ Contains(queue', f) /\ ~Contains(queue', e) => e < f
    BY <1>0, <1>1, <1>3 DEF OrderInv, Handed, Emitted
  <2>3. Restarting => Restarting'
    <3>1. queue # <<>> => queue' # <<>> /\ Head(queue') = Head(queue)
      <4> SUFFICES ASSUME queue # <<>>
                   PROVE  queue' # <<>> /\ Head(queue') = Head(queue)
        OBVIOUS
      <4>1. 1 \in 1 .. Len(queue) /\ Len(queue') # 0
        BY <1>1, <1>4, EmptySeq
      <4>2. queue' # <<>>
        BY <4>1, EmptySeq
      <4> QED
        BY <1>1, <1>3, <1>4, <4>1, <4>2, ContainsTail
    <3> QED
      BY <1>1, <3>1 DEF Restarting
  <2>4. \A e \in Event : Due(e)' <=> Due(e)
    BY <1>1 DEF Due, Handed, Emitted
  <2>5. \A e \in Event : Due(e)' =>
          Contains(queue', e) \/ Contains(worker'.todo, e) \/ (e \in outbox' /\ Restarting')
    BY <1>0, <1>1, <1>3, <2>3, <2>4 DEF OrderInv
  <2>6. \A e \in Event : Due(e)' =>
          \A i, j \in 1 .. Len(worker'.todo) :
            i < j /\ worker'.todo[j] = e => worker'.todo[i] < e
    BY <1>0, <1>1, <2>4 DEF OrderInv
  <2>7. \A e \in Event : Contains(failed', e) => e \in behind'
    BY <1>0, <1>1 DEF OrderInv
  <2> QED
    BY <2>1, <2>2, <2>5, <2>6, <2>7 DEF OrderInv
<1>10. NoEventForgotten'
  <2>1. \A e \in Emitted : e \in Event
    BY <1>0, EmittedEvents
  <2> QED
    BY <1>0, <1>1, <1>3, <2>1 DEF NoEventForgotten, Held, Visible, Emitted
<1>11. SequenceFollowsEmission'
  BY <1>0, <1>1, FollowsStays
<1>12. ReplayCoversGap'
  BY <1>0, <1>1, GapStays DEF SameRow
<1> QED
  BY <1>5, <1>7, <1>8, <1>9, <1>10, <1>11, <1>12 DEF PipelineInv, EventsKept
(* flushFailedEvents.                                                       *)
LEMMA ListStep == PipelineInv /\ ListOutbox => PipelineInv'
<1> SUFFICES ASSUME PipelineInv, ListOutbox
             PROVE  PipelineInv'
  OBVIOUS
<1>0. /\ TypeOK /\ WorkerInv /\ PlaceInv /\ RowInv /\ OrderInv
      /\ NoEventForgotten /\ SequenceFollowsEmission /\ ReplayCoversGap
  BY DEF PipelineInv, EventsKept
<1>1. /\ worker \in Worker /\ worker.task = "flush" /\ worker.step = "list"
      /\ worker.todo = <<>> /\ failed \in Seq(Event) /\ outbox \subseteq Event
  BY <1>0 DEF ListOutbox, AtStep, TypeOK, WorkerInv, Worker
<1>2. PICK rows \in InOrder(outbox) \cup {<<>>} : \E rest \in InOrder(Unlisted(rows)) :
        LET batch == rows \o [i \in DOMAIN rest |-> failed[rest[i]]] IN
        /\ IF ToSet(rows) = outbox THEN UNCHANGED <<faults, behind>>
           ELSE faults < MaxFault /\ faults' = faults + 1 /\ behind' = behind \cup outbox
        /\ failed' = <<>>
        /\ worker' = IF batch = <<>> THEN Idle
                     ELSE [worker EXCEPT !.step = "append", !.todo = batch]
  BY DEF ListOutbox
<1>3. PICK rest \in InOrder(Unlisted(rows)) :
        LET batch == rows \o [i \in DOMAIN rest |-> failed[rest[i]]] IN
        /\ IF ToSet(rows) = outbox THEN UNCHANGED <<faults, behind>>
           ELSE faults < MaxFault /\ faults' = faults + 1 /\ behind' = behind \cup outbox
        /\ failed' = <<>>
        /\ worker' = IF batch = <<>> THEN Idle
                     ELSE [worker EXCEPT !.step = "append", !.todo = batch]
  BY <1>2
<1> DEFINE t == [i \in DOMAIN rest |-> failed[rest[i]]]
           batch == rows \o t
<1>4. /\ UNCHANGED <<kind, tx, outbox, seqOf, lastSeq, queue, live, conn, from, seen, got,
                     lost, crashes>>
      /\ IF ToSet(rows) = outbox THEN UNCHANGED <<faults, behind>>
         ELSE faults < MaxFault /\ faults' = faults + 1 /\ behind' = behind \cup outbox
      /\ failed' = <<>>
      /\ worker' = IF batch = <<>> THEN Idle
                   ELSE [worker EXCEPT !.step = "append", !.todo = batch]
  BY <1>3 DEF ListOutbox, emission, store, clients
(* The rows: the outbox in order, or nothing.                               *)
<1>5. /\ rows \in Seq(Event) /\ Distinct(rows)
      /\ \A e : Contains(rows, e) <=> e \in ToSet(rows)
      /\ \A i, j \in 1 .. Len(rows) : i < j => rows[i] < rows[j]
      /\ ToSet(rows) \subseteq outbox
  <2>1. CASE rows \in InOrder(outbox)
    <3>1. outbox \subseteq Nat /\ IsFiniteSet(outbox)
      <4>1. IsFiniteSet(Event) /\ Event \subseteq Nat
        BY FS_Interval, PipelineAssumption DEF Event
      <4> QED
        BY <1>1, <4>1, FS_Subset
    <3>2. /\ rows \in Seq(outbox) /\ ToSet(rows) = outbox /\ Distinct(rows)
          /\ \A e : Contains(rows, e) <=> e \in outbox
          /\ \A i, j \in 1 .. Len(rows) : i < j => rows[i] < rows[j]
      BY <2>1, <3>1, OrderedSequence
    <3>3. rows \in Seq(Event)
      BY <1>1, <3>2, SeqMonotonic
    <3> QED
      BY <3>2, <3>3
  <2>2. CASE rows = <<>>
    <3>1. rows \in Seq(Event) /\ Len(rows) = 0 /\ ToSet(rows) = {}
      BY <2>2, EmptySeq DEF ToSet
    <3> QED
      BY <2>2, <3>1, ContainsNothing DEF Distinct
  <2> QED
    BY <2>1, <2>2
(* What failed and is not among them.                                       *)
<1>6. /\ DOMAIN rest = 1 .. Len(rest) /\ Len(rest) \in Nat
      /\ \A i \in 1 .. Len(rest) : rest[i] \in Unlisted(rows)
      /\ \A k : Contains(rest, k) <=> k \in Unlisted(rows)
      /\ Distinct(rest)
      /\ Unlisted(rows) \subseteq 1 .. Len(failed)
  <2>1. Unlisted(rows) \subseteq 1 .. Len(failed) /\ Len(failed) \in Nat
    BY <1>1, LenProperties DEF Unlisted
  <2>2. IsFiniteSet(Unlisted(rows)) /\ Unlisted(rows) \subseteq Nat
    <3>1. IsFiniteSet(1 .. Len(failed))
      BY <2>1, FS_Interval
    <3> QED
      BY <2>1, <3>1, FS_Subset
  <2>3. /\ rest \in Seq(Unlisted(rows)) /\ DOMAIN rest = 1 .. Len(rest) /\ Distinct(rest)
        /\ \A k : Contains(rest, k) <=> k \in Unlisted(rows)
    BY <2>2, OrderedSequence
  <2> QED
    BY <2>1, <2>3, ElementOfSeq, LenProperties
<1>7. /\ t \in Seq(Event) /\ Len(t) = Len(rest)
      /\ \A i \in 1 .. Len(t) : t[i] = failed[rest[i]]
  <2>1. \A i \in 1 .. Len(rest) : failed[rest[i]] \in Event
    BY <1>1, <1>6, ElementOfSeq
  <2>2. t \in [1 .. Len(rest) -> Event]
    BY <1>6, <2>1
  <2>3. t \in Seq(Event)
    BY <1>6, <2>2, SeqDef
  <2>4. DOMAIN t = 1 .. Len(rest) /\ DOMAIN t = 1 .. Len(t) /\ Len(t) \in Nat
    BY <2>2, <2>3, LenProperties
  <2>5. Len(t) = Len(rest)
    BY <1>6, <2>4
  <2> QED
    BY <1>6, <2>3, <2>5
<1> HIDE DEF t
<1>8. \A e : Contains(t, e) <=> Contains(failed, e) /\ ~Contains(rows, e)
  <2>1. ASSUME NEW e, Contains(t, e) PROVE Contains(failed, e) /\ ~Contains(rows, e)
    <3>1. PICK i \in 1 .. Len(t) : failed[rest[i]] = e
      BY <1>7, <2>1 DEF Contains
    <3>2. rest[i] \in 1 .. Len(failed) /\ failed[rest[i]] \notin ToSet(rows)
      BY <1>6, <1>7, <3>1 DEF Unlisted
    <3> QED
      BY <1>5, <3>1, <3>2 DEF Contains
  <2>2. ASSUME NEW e, Contains(failed, e), ~Contains(rows, e) PROVE Contains(t, e)
    <3>1. PICK k \in 1 .. Len(failed) : failed[k] = e
      BY <2>2 DEF Contains
    <3>2. DOMAIN failed = 1 .. Len(failed)
      BY <1>1, LenProperties
    <3>3. k \in Unlisted(rows)
      BY <1>5, <2>2, <3>1, <3>2 DEF Unlisted
    <3>4. PICK i \in 1 .. Len(rest) : rest[i] = k
      BY <1>6, <3>3 DEF Contains
    <3> QED
      BY <1>7, <3>1, <3>4 DEF Contains
  <2> QED
    BY <2>1, <2>2
<1>9. Distinct(t)
  <2> SUFFICES ASSUME NEW i \in 1 .. Len(t), NEW j \in 1 .. Len(t), t[i] = t[j]
               PROVE  i = j
    BY DEF Distinct
  <2>1. /\ rest[i] \in 1 .. Len(failed) /\ rest[j] \in 1 .. Len(failed)
        /\ failed[rest[i]] = failed[rest[j]]
    BY <1>6, <1>7
  <2>2. rest[i] = rest[j]
    BY <1>0, <2>1 DEF PlaceInv, Distinct
  <2> QED
    BY <1>6, <1>7, <2>2 DEF Distinct
<1>10. /\ batch \in Seq(Event) /\ Distinct(batch)
       /\ \A e : Contains(batch, e) <=> Contains(rows, e) \/ Contains(failed, e)
  <2>1. /\ batch \in Seq(Event)
        /\ \A e : Contains(batch, e) <=> Contains(rows, e) \/ Contains(t, e)
    BY <1>5, <1>7, ContainsConcat
  <2>2. Distinct(batch)
    BY <1>5, <1>7, <1>8, <1>9, DistinctConcat
  <2> QED
    BY <1>8, <2>1, <2>2
<1>11. /\ Len(batch) = Len(rows) + Len(t) /\ Len(rows) \in Nat /\ Len(t) \in Nat
       /\ \A i \in 1 .. Len(rows) + Len(t) :
            batch[i] = IF i <= Len(rows) THEN rows[i] ELSE t[i - Len(rows)]
  <2>1. rows \in Seq(Event) /\ t \in Seq(Event)
    BY <1>5, <1>7
  <2>2. Len(rows) \in Nat /\ Len(t) \in Nat
    BY <2>1, LenProperties
  <2> QED
    BY <2>1, <2>2, ConcatProperties
<1> HIDE DEF batch
<1>12. /\ worker' \in Worker /\ worker'.todo = batch /\ WorkerInv'
  <2>1. CASE batch = <<>>
    BY <1>4, <2>1, IdleFacts DEF WorkerInv, AtStep
  <2>2. CASE batch # <<>>
    <3>1. /\ worker' \in Worker /\ worker'.task = "flush" /\ worker'.step = "append"
          /\ worker'.todo = batch
      BY <1>1, <1>4, <1>10, <2>2, TodoFacts
    <3> QED
      BY <2>2, <3>1 DEF WorkerInv, AtStep
  <2> QED
    BY <2>1, <2>2
<1>13. /\ behind \subseteq behind' /\ behind' \subseteq behind \cup outbox
       /\ faults' \in 0 .. MaxFault
       /\ \A e \in outbox : Contains(rows, e) \/ e \in behind'
  BY <1>0, <1>4, <1>5, PipelineAssumption DEF TypeOK
<1>14. TypeOK'
  <2>1. failed' \in Seq(Event) /\ behind' \subseteq Event
    BY <1>0, <1>1, <1>4, <1>13, EmptySeq DEF TypeOK
  <2> QED
    BY <1>0, <1>4, <1>12, <1>13, <2>1 DEF TypeOK
<1>15. \A e : Contains(worker'.todo, e) => e \in outbox \/ Contains(failed, e)
  BY <1>5, <1>10, <1>12
<1>16. \A e \in Event : Pending(e)' => Pending(e)
  BY <1>4, <1>15, ContainsNothing DEF Pending
<1>17. PlaceInv'
  <2>1. Distinct(worker'.todo) /\ Distinct(failed')
    BY <1>4, <1>10, <1>12, EmptySeq DEF Distinct
  <2>2. ASSUME NEW e \in Event
        PROVE  /\ Pending(e)' => Handed(e)'
               /\ Contains(queue', e) =>
                    ~Contains(worker'.todo, e) /\ ~Contains(failed', e) /\ e \notin outbox'
               /\ Contains(worker'.todo, e) => ~Contains(failed', e)
    <3>1. Handed(e)' <=> Handed(e)
      BY <1>4 DEF Handed, Emitted
    <3> QED
      BY <1>0, <1>4, <1>15, <1>16, <3>1, ContainsNothing DEF PlaceInv
  <2> QED
    BY <2>1, <2>2 DEF PlaceInv
<1>18. RowInv'
  BY <1>0, <1>4, <1>14, <1>16, RowsStay DEF SameRow, RowInv, TypeOK
<1>19. OrderInv'
  <2>1. \A i, j \in 1 .. Len(queue') :
          i < j /\ queue'[i] # Flush /\ queue'[j] # Flush => queue'[i] < queue'[j]
    BY <1>0, <1>4 DEF OrderInv
  <2>2. \A e, f \in Event : Handed(e)' /\ Contains(queue', f) /\ ~Contains(queue', e) => e < f
    BY <1>0, <1>4 DEF OrderInv, Handed, Emitted
  <2>3. \A e \in Event : Due(e)' => Due(e) /\ e \notin behind'
    BY <1>4, <1>13 DEF Due, Handed, Emitted
  <2>4. ASSUME NEW i \in 1 .. Len(batch), NEW j \in 1 .. Len(batch),
               NEW e \in Event, i < j, batch[j] = e, Due(e)'
        PROVE  batch[i] < e
    <3>2. Due(e) /\ e \notin behind
      BY <1>13, <2>3, <2>4
    <3>3. ~Contains(failed, e)
      BY <1>0, <3>2 DEF OrderInv
    <3>4. j <= Len(rows)
      <4> SUFFICES ASSUME ~(j <= Len(rows))
                   PROVE  FALSE
        OBVIOUS
      <4>1. j - Len(rows) \in 1 .. Len(t) /\ e = t[j - Len(rows)]
        BY <1>11, <2>4
      <4>2. Contains(t, e)
        BY <4>1 DEF Contains
      <4> QED
        BY <1>8, <3>3, <4>2
    <3>5. /\ i \in 1 .. Len(rows) /\ j \in 1 .. Len(rows)
          /\ batch[i] = rows[i] /\ batch[j] = rows[j]
      BY <1>11, <2>4, <3>4
    <3> QED
      BY <1>5, <2>4, <3>5
  <2>5. \A e \in Event : Contains(failed', e) => e \in behind'
    BY <1>4, ContainsNothing
  <2>6. ASSUME NEW e \in Event, Due(e)'
        PROVE  Contains(queue', e) \/ Contains(worker'.todo, e)
    <3>1. Due(e) /\ e \notin behind'
      BY <2>3, <2>6
    <3>2. Contains(queue, e) \/ e \in outbox
      BY <1>0, <1>1, <3>1, ContainsNothing DEF OrderInv
    <3> QED
      BY <1>4, <1>10, <1>12, <1>13, <3>1, <3>2
  <2> QED
    BY <1>12, <2>1, <2>2, <2>4, <2>5, <2>6 DEF OrderInv
<1>20. NoEventForgotten'
  <2> SUFFICES ASSUME NEW e \in Emitted, kind[e] # "direct", e \notin lost
               PROVE  Held(e)'
    BY <1>4 DEF NoEventForgotten, Emitted
  <2>1. Held(e)
    BY <1>0 DEF NoEventForgotten
  <2>2. Visible(e)' <=> Visible(e)
    BY <1>4 DEF Visible
  <2> QED
    BY <1>1, <1>4, <1>10, <1>12, <2>1, <2>2, ContainsNothing DEF Held
<1>21. SequenceFollowsEmission'
  BY <1>0, <1>4, <1>13, FollowsStays
<1>22. ReplayCoversGap'
  BY <1>0, <1>4, GapStays DEF SameRow
<1> QED
  BY <1>12, <1>14, <1>17, <1>18, <1>19, <1>20, <1>21, <1>22 DEF PipelineInv, EventsKept
-----------------------------------------------------------------------------
(* An event is emitted.                                                     *)
LEMMA EmitStep == ASSUME NEW k \in Emits PROVE PipelineInv /\ Emit(k) => PipelineInv'
<1> SUFFICES ASSUME PipelineInv, Emit(k)
             PROVE  PipelineInv'
  OBVIOUS
<1>0. /\ TypeOK /\ WorkerInv /\ PlaceInv /\ RowInv /\ OrderInv
      /\ NoEventForgotten /\ SequenceFollowsEmission /\ ReplayCoversGap
  BY DEF PipelineInv, EventsKept
<1> DEFINE n == Len(kind) + 1
<1>1. /\ kind \in Seq(Emits) /\ Len(kind) \in Nat /\ n \in Event /\ n \in Nat
      /\ Emitted = 1 .. Len(kind) /\ kind' = Append(kind, k)
      /\ UNCHANGED <<outbox, worker, failed, behind, lost, faults, crashes>>
  BY <1>0, LenProperties DEF Emit, TypeOK, Emitted, ghosts, Event
<1>2. /\ kind' \in Seq(Emits) /\ Len(kind') = n
      /\ \A e \in Emitted : kind'[e] = kind[e]
      /\ kind'[n] = k
  BY <1>1, AppendProperties
<1>3. /\ Emitted' = Emitted \cup {n} /\ n \notin Emitted
      /\ \A e \in Emitted : e < n
      /\ Emitted \subseteq Event /\ Event \subseteq Nat
  <2>1. Emitted' = 1 .. n
    BY <1>2 DEF Emitted
  <2> QED
    BY <1>0, <1>1, <2>1, EmittedEvents DEF Event
<1>4. CASE k = "direct"
  <2>1. /\ tx' = [tx EXCEPT ![n] = "open"]
        /\ seqOf' = [seqOf EXCEPT ![n] = lastSeq + 1] /\ lastSeq' = lastSeq + 1
        /\ UNCHANGED <<queue, live, conn, from, seen, got>>
    BY <1>4 DEF Emit, Silent, clients
  <2> QED
    <3> HIDE DEF n
    <3>1. /\ seqOf \in [Event -> Nat] /\ lastSeq \in Nat /\ live \in [Event -> Nat]
          /\ tx \in [Event -> {"none", "open", "committed", "closed"}]
      BY <1>0 DEF TypeOK
    <3>2. /\ tx'[n] = "open" /\ seqOf'[n] = lastSeq + 1
          /\ \A e \in Event : e # n => tx'[e] = tx[e] /\ seqOf'[e] = seqOf[e]
          /\ seqOf' \in [Event -> Nat] /\ lastSeq' \in Nat
          /\ tx' \in [Event -> {"none", "open", "committed", "closed"}]
      BY <1>1, <2>1, <3>1
    <3>3. TypeOK'
      <4>1. Len(kind') <= MaxEvent
        BY <1>1, <1>2 DEF Event
      <4> QED
        BY <1>0, <1>1, <1>2, <2>1, <3>2, <4>1 DEF TypeOK
    <3>4. live[n] = 0
      BY <1>0, <1>1, <1>3 DEF RowInv
    <3>5. \A e \in Event : Handed(e)' <=> Handed(e)
      BY <1>2, <1>3, <1>4 DEF Handed
    <3>6. \A e \in Event : Pending(e)' <=> Pending(e)
      BY <1>1, <2>1 DEF Pending
    <3>7. ~Handed(n)
      BY <1>3 DEF Handed
    <3>8. WorkerInv'
      <4>1. AtStep("delete") => Current \in Event /\ Current # n
        <5> SUFFICES ASSUME AtStep("delete")
                     PROVE  Current \in Event /\ Current # n
          OBVIOUS
        <5>1. Current \in Event /\ Contains(worker.todo, Current)
          BY <1>0, AtWork
        <5> QED
          BY <1>0, <3>7, <5>1 DEF PlaceInv, Pending
      <4> QED
        BY <1>0, <1>1, <3>2, <4>1 DEF WorkerInv, AtStep, Current
    <3>9. PlaceInv'
      BY <1>0, <1>1, <2>1, <3>5, <3>6 DEF PlaceInv
    <3>10. RowInv'
      <4> SUFFICES ASSUME NEW e \in Event
             PROVE  /\ e \notin Emitted' => live'[e] = 0 /\ tx'[e] = "none" /\ seqOf'[e] = 0
                    /\ tx'[e] # "none" <=> e \in Emitted' /\ kind'[e] = "direct"
                    /\ tx'[e] \in {"open", "committed"} => seqOf'[e] # 0 /\ live'[e] = 0
                    /\ seqOf'[e] <= lastSeq'
                    /\ e \in Emitted' /\ kind'[e] # "start" /\ live'[e] > 0 =>
                         live'[e] = 1 /\ Visible(e)' /\ ~Pending(e)'
        BY DEF RowInv
      <4>1. /\ e \notin Emitted => live[e] = 0 /\ tx[e] = "none" /\ seqOf[e] = 0
            /\ tx[e] # "none" <=> e \in Emitted /\ kind[e] = "direct"
            /\ tx[e] \in {"open", "committed"} => seqOf[e] # 0 /\ live[e] = 0
            /\ seqOf[e] <= lastSeq
            /\ e \in Emitted /\ kind[e] # "start" /\ live[e] > 0 =>
                 live[e] = 1 /\ Visible(e) /\ ~Pending(e)
        BY <1>0 DEF RowInv
      <4>2. CASE e = n
        BY <1>2, <1>3, <1>4, <2>1, <3>1, <3>2, <3>4, <4>2
      <4>3. CASE e # n
        <5>1. Visible(e)' <=> Visible(e)
          BY <3>2, <4>3 DEF Visible
        <5>2. seqOf[e] \in Nat
          BY <3>1
        <5> QED
          BY <1>2, <1>3, <2>1, <3>1, <3>2, <3>6, <4>1, <4>3, <5>1, <5>2
      <4> QED
        BY <4>2, <4>3
    <3>11. OrderInv'
      <4>1. \A e \in Event : Due(e)' <=> Due(e)
        BY <1>1, <3>2, <3>5, <3>7 DEF Due
      <4>2. Restarting' <=> Restarting
        BY <1>1, <2>1 DEF Restarting
      <4> QED
        BY <1>0, <1>1, <2>1, <3>5, <4>1, <4>2 DEF OrderInv
    <3>12. NoEventForgotten'
      <4> SUFFICES ASSUME NEW e \in Emitted', kind'[e] # "direct", e \notin lost
                   PROVE  Held(e)'
        BY <1>1 DEF NoEventForgotten
      <4>1. e \in Emitted /\ e # n /\ kind[e] # "direct" /\ e \in Event
        BY <1>2, <1>3, <1>4
      <4>2. Held(e)
        BY <1>0, <4>1 DEF NoEventForgotten
      <4>3. Visible(e)' <=> Visible(e)
        BY <3>2, <4>1 DEF Visible
      <4> QED
        BY <1>1, <2>1, <4>2, <4>3 DEF Held
    <3>13. SequenceFollowsEmission'
      <4> SUFFICES ASSUME NEW e \in Emitted', NEW f \in Emitted', e < f,
                          kind'[e] # "direct", kind'[f] # "direct",
                          e \notin behind \cup lost, seqOf'[f] # 0
                   PROVE  seqOf'[e] # 0 /\ seqOf'[e] < seqOf'[f]
        BY <1>1 DEF SequenceFollowsEmission
      <4>1. /\ e \in Emitted /\ e # n /\ kind[e] # "direct" /\ e \in Event
            /\ f \in Emitted /\ f # n /\ kind[f] # "direct" /\ f \in Event
        BY <1>2, <1>3, <1>4
      <4> QED
        BY <1>0, <3>2, <4>1 DEF SequenceFollowsEmission
    <3>14. ReplayCoversGap'
      <4> SUFFICES ASSUME NEW c \in Client, conn[c] = "on", from[c] > 0,
                          NEW e \in Emitted', kind'[e] # "start", live[e] > 0, seqOf'[e] > from[c]
                   PROVE  e \in got[c]
        BY <2>1 DEF ReplayCoversGap
      <4>1. e # n
        BY <3>4
      <4>2. e \in Emitted /\ e \in Event /\ kind[e] # "start" /\ seqOf'[e] = seqOf[e]
        BY <1>2, <1>3, <3>2, <4>1
      <4> QED
        BY <1>0, <4>2 DEF ReplayCoversGap
    <3> QED
      BY <3>3, <3>8, <3>9, <3>10, <3>11, <3>12, <3>13, <3>14 DEF PipelineInv, EventsKept
<1>5. CASE k # "direct"
  <2>1. /\ queue' = Append(queue, n) /\ UNCHANGED <<tx, seqOf, lastSeq>>
        /\ IF k = "start" THEN Publish(n, 0) ELSE Silent
    BY <1>5 DEF Emit
  <2> QED
    <3> HIDE DEF n
    <3>1. /\ seqOf \in [Event -> Nat] /\ lastSeq \in Nat /\ live \in [Event -> Nat]
          /\ queue \in Seq(Event \cup {Flush}) /\ Flush \notin Event
      BY <1>0 DEF TypeOK, Flush, Event
    <3>2. /\ queue' \in Seq(Event \cup {Flush})
          /\ \A e : Contains(queue', e) <=> Contains(queue, e) \/ e = n
      BY <1>1, <2>1, <3>1, ContainsAppend
    <3>3. /\ Len(queue') = Len(queue) + 1 /\ Len(queue) \in Nat
          /\ \A i \in 1 .. Len(queue) : queue'[i] = queue[i]
          /\ queue'[Len(queue) + 1] = n
      BY <1>1, <2>1, <3>1, AppendProperties, LenProperties
    <3>4. live[n] = 0 /\ tx[n] = "none" /\ seqOf[n] = 0
      BY <1>0, <1>1, <1>3 DEF RowInv
    <3>5. /\ \A e \in Event : e # n => live'[e] = live[e]
          /\ k # "start" => live'[n] = 0
          /\ live' \in [Event -> Nat] /\ seen' \in [Client -> Nat]
          /\ got' \in [Client -> SUBSET Event]
          /\ conn' = conn /\ from' = from
          /\ \A c \in Client : got[c] \subseteq got'[c]
      <4>1. CASE k = "start"
        <5>1. Publish(n, 0) /\ 0 \in Nat
          BY <2>1, <4>1
        <5>2. /\ live' \in [Event -> Nat] /\ seen' \in [Client -> Nat]
              /\ got' \in [Client -> SUBSET Event]
          BY <1>0, <1>1, <5>1, PublishTypes
        <5> QED
          BY <1>1, <3>1, <4>1, <5>1, <5>2 DEF Publish
      <4>2. CASE k # "start"
        BY <1>0, <2>1, <3>4, <4>2 DEF Silent, clients, TypeOK
      <4> QED
        BY <4>1, <4>2
    <3>6. TypeOK'
      <4>1. Len(kind') <= MaxEvent
        BY <1>1, <1>2 DEF Event
      <4> QED
        BY <1>0, <1>1, <1>2, <2>1, <3>2, <3>5, <4>1 DEF TypeOK
    <3>7. \A e \in Event : Handed(e)' <=> Handed(e) \/ e = n
      BY <1>2, <1>3, <1>5 DEF Handed
    <3>8. ~Handed(n) /\ ~Pending(n)
      BY <1>0, <1>1, <1>3 DEF Handed, PlaceInv
    <3>9. \A e \in Event : Pending(e)' <=> Pending(e) \/ e = n
      BY <1>1, <3>2 DEF Pending
    <3>10. WorkerInv'
      BY <1>0, <1>1, <2>1 DEF WorkerInv, AtStep, Current
    <3>11. PlaceInv'
      <4> SUFFICES ASSUME NEW e \in Event
                   PROVE  /\ Pending(e)' => Handed(e)'
                          /\ Contains(queue', e) =>
                               ~Contains(worker.todo, e) /\ ~Contains(failed, e) /\ e \notin outbox
                          /\ Contains(worker.todo, e) => ~Contains(failed, e)
        BY <1>0, <1>1 DEF PlaceInv
      <4>1. /\ Pending(e) => Handed(e)
            /\ Contains(queue, e) =>
                 ~Contains(worker.todo, e) /\ ~Contains(failed, e) /\ e \notin outbox
            /\ Contains(worker.todo, e) => ~Contains(failed, e)
        BY <1>0 DEF PlaceInv
      <4>2. ~Contains(worker.todo, n) /\ ~Contains(failed, n) /\ n \notin outbox
        BY <3>8 DEF Pending
      <4> QED
        BY <3>2, <3>7, <3>9, <4>1, <4>2
    <3>12. RowInv'
      <4> SUFFICES ASSUME NEW e \in Event
             PROVE  /\ e \notin Emitted' => live'[e] = 0 /\ tx'[e] = "none" /\ seqOf'[e] = 0
                    /\ tx'[e] # "none" <=> e \in Emitted' /\ kind'[e] = "direct"
                    /\ tx'[e] \in {"open", "committed"} => seqOf'[e] # 0 /\ live'[e] = 0
                    /\ seqOf'[e] <= lastSeq'
                    /\ e \in Emitted' /\ kind'[e] # "start" /\ live'[e] > 0 =>
                         live'[e] = 1 /\ Visible(e)' /\ ~Pending(e)'
        BY DEF RowInv
      <4>1. /\ e \notin Emitted => live[e] = 0 /\ tx[e] = "none" /\ seqOf[e] = 0
            /\ tx[e] # "none" <=> e \in Emitted /\ kind[e] = "direct"
            /\ tx[e] \in {"open", "committed"} => seqOf[e] # 0 /\ live[e] = 0
            /\ seqOf[e] <= lastSeq
            /\ e \in Emitted /\ kind[e] # "start" /\ live[e] > 0 =>
                 live[e] = 1 /\ Visible(e) /\ ~Pending(e)
        BY <1>0 DEF RowInv
      <4>2. CASE e = n
        BY <1>2, <1>3, <1>5, <2>1, <3>1, <3>4, <3>5, <4>1, <4>2
      <4>3. CASE e # n
        <5>1. Visible(e)' <=> Visible(e)
          BY <2>1 DEF Visible
        <5> QED
          BY <1>2, <1>3, <2>1, <3>5, <3>9, <4>1, <4>3, <5>1
      <4> QED
        BY <4>2, <4>3
    <3>13. OrderInv'
      <4>1. ASSUME NEW i \in 1 .. Len(queue'), NEW j \in 1 .. Len(queue'),
                   i < j, queue'[i] # Flush, queue'[j] # Flush
            PROVE  queue'[i] < queue'[j]
        <5>1. i \in 1 .. Len(queue) /\ queue'[i] = queue[i]
          BY <3>3, <4>1
        <5>2. CASE j \in 1 .. Len(queue)
          BY <1>0, <3>3, <4>1, <5>1, <5>2 DEF OrderInv
        <5>3. CASE j \notin 1 .. Len(queue)
          <6>1. queue'[j] = n
            BY <3>3, <4>1, <5>3
          <6>2. queue[i] \in Event /\ Contains(queue, queue[i])
            BY <3>1, <4>1, <5>1, ElementOfSeq DEF Contains
          <6>3. queue[i] \in Emitted
            BY <1>0, <6>2 DEF PlaceInv, Pending, Handed
          <6> QED
            BY <1>3, <5>1, <6>1, <6>3
        <5> QED
          BY <5>2, <5>3
      <4>2. ASSUME NEW e \in Event, NEW f \in Event,
                   Handed(e)', Contains(queue', f), ~Contains(queue', e)
            PROVE  e < f
        <5>1. e # n /\ Handed(e) /\ ~Contains(queue, e)
          BY <3>2, <3>7, <4>2
        <5>2. CASE f = n
          BY <1>3, <5>1, <5>2 DEF Handed
        <5>3. CASE f # n
          BY <1>0, <3>2, <4>2, <5>1, <5>3 DEF OrderInv
        <5> QED
          BY <5>2, <5>3
      <4>3. Restarting => Restarting'
        <5>1. queue # <<>> => queue' # <<>> /\ Head(queue') = Head(queue)
          <6> SUFFICES ASSUME queue # <<>>
                       PROVE  queue' # <<>> /\ Head(queue') = Head(queue)
            OBVIOUS
          <6>1. 1 \in 1 .. Len(queue) /\ Len(queue') # 0
            BY <3>1, <3>3, EmptySeq
          <6>2. queue' # <<>>
            BY <6>1, EmptySeq
          <6> QED
            BY <3>1, <3>2, <3>3, <6>1, <6>2, ContainsTail
        <5> QED
          BY <1>1, <5>1 DEF Restarting
      <4>4. \A e \in Event : Due(e)' => Due(e) \/ e = n
        BY <1>1, <2>1, <3>7 DEF Due
      <4>5. \A e \in Event : Due(e)' =>
              Contains(queue', e) \/ Contains(worker'.todo, e) \/ (e \in outbox' /\ Restarting')
        BY <1>0, <1>1, <3>2, <4>3, <4>4 DEF OrderInv
      <4>6. ASSUME NEW i \in 1 .. Len(worker.todo), NEW j \in 1 .. Len(worker.todo),
                   NEW e \in Event, i < j, worker.todo[j] = e, Due(e)'
            PROVE  worker.todo[i] < e
        <5>2. Contains(worker.todo, e)
          BY <4>6 DEF Contains
        <5>3. e # n
          BY <3>8, <5>2 DEF Pending
        <5>4. Due(e)
          BY <4>4, <4>6, <5>3
        <5> QED
          BY <1>0, <4>6, <5>4 DEF OrderInv
      <4>7. \A e \in Event : Contains(failed', e) => e \in behind'
        BY <1>0, <1>1 DEF OrderInv
      <4>8. \A e \in Event : Due(e)' =>
              \A i, j \in 1 .. Len(worker'.todo) :
                i < j /\ worker'.todo[j] = e => worker'.todo[i] < e
        BY <1>1, <4>6
      <4> QED
        BY <4>1, <4>2, <4>5, <4>7, <4>8 DEF OrderInv
    <3>14. NoEventForgotten'
      <4> SUFFICES ASSUME NEW e \in Emitted', kind'[e] # "direct", e \notin lost
                   PROVE  Held(e)'
        BY <1>1 DEF NoEventForgotten
      <4>1. CASE e = n
        BY <3>2, <4>1 DEF Held
      <4>2. CASE e # n
        <5>1. Held(e)
          BY <1>0, <1>2, <1>3, <4>2 DEF NoEventForgotten
        <5>2. Visible(e)' <=> Visible(e)
          BY <2>1 DEF Visible
        <5> QED
          BY <1>1, <3>2, <5>1, <5>2 DEF Held
      <4> QED
        BY <4>1, <4>2
    <3>15. SequenceFollowsEmission'
      <4> SUFFICES ASSUME NEW e \in Emitted', NEW f \in Emitted', e < f,
                          kind'[e] # "direct", kind'[f] # "direct",
                          e \notin behind \cup lost, seqOf[f] # 0
                   PROVE  seqOf[e] # 0 /\ seqOf[e] < seqOf[f]
        BY <1>1, <2>1 DEF SequenceFollowsEmission
      <4>1. f # n
        BY <3>4
      <4>2. f \in Emitted /\ e # n /\ e \in Emitted
        BY <1>1, <1>3, <4>1
      <4> QED
        BY <1>0, <1>2, <4>2 DEF SequenceFollowsEmission
    <3>16. ReplayCoversGap'
      <4> SUFFICES ASSUME NEW c \in Client, conn[c] = "on", from[c] > 0,
                          NEW e \in Emitted', kind'[e] # "start", live'[e] > 0, seqOf[e] > from[c]
                   PROVE  e \in got'[c]
        BY <2>1, <3>5 DEF ReplayCoversGap
      <4>1. e # n
        BY <1>2, <3>5
      <4>2. e \in Emitted /\ e \in Event /\ kind[e] # "start" /\ live'[e] = live[e]
        BY <1>2, <1>3, <3>5, <4>1
      <4> QED
        BY <1>0, <3>5, <4>2 DEF ReplayCoversGap
    <3> QED
      BY <3>6, <3>10, <3>11, <3>12, <3>13, <3>14, <3>15, <3>16 DEF PipelineInv, EventsKept
<1> QED
  BY <1>4, <1>5
-----------------------------------------------------------------------------
(* Steps that leave the queue, the worker, the outbox and the rows alone.   *)
Beside == UNCHANGED <<kind, outbox, seqOf, lastSeq, queue, worker, failed, behind, lost>>

LEMMA BesideStays ==
  ASSUME PipelineInv, Beside,
         \A e \in Event : Visible(e) => Visible(e)'
  PROVE  /\ WorkerInv' /\ PlaceInv' /\ OrderInv'
         /\ NoEventForgotten' /\ SequenceFollowsEmission'
         /\ \A e \in Event : Pending(e)' <=> Pending(e)
<1>0. /\ TypeOK /\ WorkerInv /\ PlaceInv /\ RowInv /\ OrderInv
      /\ NoEventForgotten /\ SequenceFollowsEmission /\ ReplayCoversGap
  BY DEF PipelineInv, EventsKept
<1>1. WorkerInv'
  BY <1>0 DEF WorkerInv, AtStep, Current, Beside
<1>2. \A e \in Event : (Pending(e)' <=> Pending(e)) /\ (Handed(e)' <=> Handed(e))
  BY DEF Pending, Handed, Emitted, Beside
<1>3. PlaceInv'
  BY <1>0, <1>2 DEF PlaceInv, Beside
<1>4. \A e : Due(e)' <=> Due(e)
  BY DEF Due, Handed, Emitted, Beside
<1>5. Restarting' <=> Restarting
  BY DEF Restarting, Beside
<1>6. OrderInv'
  BY <1>0, <1>2, <1>4, <1>5 DEF OrderInv, Beside
<1>7. NoEventForgotten'
  <2>1. \A e \in Emitted : e \in Event
    BY <1>0, EmittedEvents
  <2> QED
    BY <1>0, <2>1 DEF NoEventForgotten, Held, Emitted, Beside
<1>8. SequenceFollowsEmission'
  BY <1>0, FollowsStays DEF Beside
<1> QED
  BY <1>1, <1>2, <1>3, <1>6, <1>7, <1>8

(* A handler's own transaction.                                             *)
LEMMA DirectCommitStep ==
  ASSUME NEW x \in Event
  PROVE  PipelineInv /\ DirectCommit(x) => PipelineInv'
<1> SUFFICES ASSUME PipelineInv, DirectCommit(x)
             PROVE  PipelineInv'
  OBVIOUS
<1>0. /\ TypeOK /\ RowInv /\ ReplayCoversGap
  BY DEF PipelineInv
<1>1. /\ Beside /\ tx[x] = "open" /\ tx' = [tx EXCEPT ![x] = "committed"]
      /\ UNCHANGED <<live, conn, from, seen, got, faults, crashes>>
  BY DEF DirectCommit, Beside, store, memory, clients, ghosts
<1>2. /\ tx \in [Event -> {"none", "open", "committed", "closed"}]
      /\ tx'[x] = "committed" /\ \A e \in Event : e # x => tx'[e] = tx[e]
      /\ tx' \in [Event -> {"none", "open", "committed", "closed"}]
  BY <1>0, <1>1 DEF TypeOK
<1>3. \A e \in Event : Visible(e) => Visible(e)'
  BY <1>1, <1>2 DEF Visible, Beside
<1>4. /\ WorkerInv' /\ PlaceInv' /\ OrderInv'
      /\ NoEventForgotten' /\ SequenceFollowsEmission'
      /\ \A e \in Event : Pending(e)' <=> Pending(e)
  BY <1>1, <1>3, BesideStays
<1>5. TypeOK'
  BY <1>0, <1>1, <1>2 DEF TypeOK, Beside
<1>6. RowInv'
  <2> SUFFICES ASSUME NEW e \in Event
             PROVE  /\ e \notin Emitted' => live'[e] = 0 /\ tx'[e] = "none" /\ seqOf'[e] = 0
                    /\ tx'[e] # "none" <=> e \in Emitted' /\ kind'[e] = "direct"
                    /\ tx'[e] \in {"open", "committed"} => seqOf'[e] # 0 /\ live'[e] = 0
                    /\ seqOf'[e] <= lastSeq'
                    /\ e \in Emitted' /\ kind'[e] # "start" /\ live'[e] > 0 =>
                         live'[e] = 1 /\ Visible(e)' /\ ~Pending(e)'
    BY DEF RowInv
  <2>1. /\ e \notin Emitted => live[e] = 0 /\ tx[e] = "none" /\ seqOf[e] = 0
        /\ tx[e] # "none" <=> e \in Emitted /\ kind[e] = "direct"
        /\ tx[e] \in {"open", "committed"} => seqOf[e] # 0 /\ live[e] = 0
        /\ seqOf[e] <= lastSeq
        /\ e \in Emitted /\ kind[e] # "start" /\ live[e] > 0 =>
             live[e] = 1 /\ Visible(e) /\ ~Pending(e)
    BY <1>0 DEF RowInv
  <2>2. Emitted' = Emitted /\ kind' = kind /\ live' = live /\ seqOf' = seqOf /\ lastSeq' = lastSeq
    BY <1>1 DEF Emitted, Beside
  <2>3. CASE e = x
    BY <1>1, <1>2, <1>3, <1>4, <2>1, <2>2, <2>3
  <2>4. CASE e # x
    BY <1>2, <1>3, <1>4, <2>1, <2>2, <2>4
  <2> QED
    BY <2>3, <2>4
<1>7. ReplayCoversGap'
  BY <1>0, <1>1, GapStays DEF SameRow, Beside
<1> QED
  BY <1>4, <1>5, <1>6, <1>7 DEF PipelineInv, EventsKept

LEMMA DirectPublishStep ==
  ASSUME NEW x \in Event
  PROVE  PipelineInv /\ DirectPublish(x) => PipelineInv'
<1> SUFFICES ASSUME PipelineInv, DirectPublish(x)
             PROVE  PipelineInv'
  OBVIOUS
<1>0. /\ TypeOK /\ RowInv /\ PlaceInv /\ ReplayCoversGap
  BY DEF PipelineInv
<1>1. /\ Beside /\ tx[x] = "committed" /\ tx' = [tx EXCEPT ![x] = "closed"]
      /\ Publish(x, seqOf[x]) /\ UNCHANGED <<faults, crashes>>
  BY DEF DirectPublish, Beside, store, memory, ghosts
<1>2. /\ tx \in [Event -> {"none", "open", "committed", "closed"}]
      /\ tx'[x] = "closed" /\ \A e \in Event : e # x => tx'[e] = tx[e]
      /\ tx' \in [Event -> {"none", "open", "committed", "closed"}]
  BY <1>0, <1>1 DEF TypeOK
<1>3. \A e \in Event : Visible(e) => Visible(e)'
  BY <1>1, <1>2 DEF Visible, Beside
<1>4. /\ WorkerInv' /\ PlaceInv' /\ OrderInv'
      /\ NoEventForgotten' /\ SequenceFollowsEmission'
      /\ \A e \in Event : Pending(e)' <=> Pending(e)
  BY <1>1, <1>3, BesideStays
<1>5. seqOf[x] \in Nat
  BY <1>0 DEF TypeOK
<1>6. TypeOK'
  BY <1>0, <1>1, <1>2, <1>5, PublishTypes DEF TypeOK, Beside
<1>7. x \in Emitted /\ kind[x] = "direct" /\ live[x] = 0 /\ seqOf[x] # 0
  BY <1>0, <1>1 DEF RowInv
<1>8. ~Pending(x)'
  BY <1>0, <1>4, <1>7 DEF PlaceInv, Handed
<1>9. RowInv'
  BY <1>0, <1>1, <1>2, <1>4, <1>7, <1>8, RowsPublished DEF Beside
<1>10. ReplayCoversGap'
  BY <1>0, <1>1, GapPublished DEF Beside
<1> QED
  BY <1>4, <1>6, <1>9, <1>10 DEF PipelineInv, EventsKept

(* The process dies: what the outbox holds is due, in a daemon that starts. *)
LEMMA CrashStep == PipelineInv /\ Crash => PipelineInv'
<1> SUFFICES ASSUME PipelineInv, Crash
             PROVE  PipelineInv'
  OBVIOUS
<1>0. /\ TypeOK /\ WorkerInv /\ PlaceInv /\ RowInv /\ OrderInv
      /\ NoEventForgotten /\ SequenceFollowsEmission /\ ReplayCoversGap
  BY DEF PipelineInv, EventsKept
<1>1. /\ queue' = <<Flush>> /\ worker' = Idle /\ failed' = <<>>
      /\ UNCHANGED <<kind, outbox, lastSeq, seen, got, behind, faults>>
      /\ Emitted' = Emitted /\ crashes' \in 0 .. MaxCrash
  BY <1>0, PipelineAssumption DEF Crash, Emitted, TypeOK
<1>2. /\ \A e \in Event : tx'[e] = IF tx[e] = "none" THEN "none" ELSE "closed"
      /\ \A e \in Event : seqOf'[e] = IF tx[e] = "open" THEN 0 ELSE seqOf[e]
      /\ \A e \in Event : live'[e] = 0
      /\ \A c \in Client : conn'[c] = "off"
  BY DEF Crash
<1>3. /\ worker' \in Worker /\ worker'.task = "none" /\ worker'.todo = <<>>
      /\ worker'.step = "list"
  BY <1>1, IdleFacts
<1>4. /\ queue' \in Seq(Event \cup {Flush}) /\ Flush \notin Event
      /\ \A e \in Event : ~Contains(queue', e)
      /\ Len(queue') = 1 /\ queue'[1] = Flush /\ queue' # <<>> /\ Head(queue') = Flush
  <2>1. Flush \notin Event
    BY DEF Flush, Event
  <2> QED
    BY <1>1, <2>1, ContainsOne
<1>5. TypeOK'
  <2>1. /\ tx' \in [Event -> {"none", "open", "committed", "closed"}]
        /\ live' \in [Event -> Nat]
        /\ conn' \in [Client -> {"off", "asking", "on"}] /\ from' \in [Client -> Nat]
    BY DEF Crash
  <2>2. seqOf' \in [Event -> Nat]
    BY <1>0 DEF Crash, TypeOK
  <2>3. lost' \subseteq Event
    BY <1>0, EmittedEvents DEF Crash, TypeOK
  <2>4. failed' \in Seq(Event)
    BY <1>1, EmptySeq
  <2> QED
    BY <1>0, <1>1, <1>3, <1>4, <2>1, <2>2, <2>3, <2>4 DEF TypeOK
<1>6. WorkerInv'
  BY <1>3 DEF WorkerInv, AtStep
<1>7. \A e \in Event : (Pending(e)' <=> e \in outbox) /\ (Handed(e)' <=> Handed(e))
  BY <1>1, <1>3, <1>4, ContainsNothing DEF Pending, Handed
<1>8. PlaceInv'
  <2>1. Distinct(worker'.todo) /\ Distinct(failed')
    BY <1>1, <1>3, EmptySeq DEF Distinct
  <2>2. \A e \in Event : e \in outbox => Handed(e)
    BY <1>0 DEF PlaceInv, Pending
  <2> QED
    BY <1>1, <1>3, <1>4, <1>7, <2>1, <2>2, ContainsNothing DEF PlaceInv
<1>9. \A e \in Event : kind[e] # "direct" /\ e \in Emitted => seqOf'[e] = seqOf[e]
  BY <1>0, <1>2 DEF RowInv
<1>10. RowInv'
  <2> SUFFICES ASSUME NEW e \in Event
             PROVE  /\ e \notin Emitted' => live'[e] = 0 /\ tx'[e] = "none" /\ seqOf'[e] = 0
                    /\ tx'[e] # "none" <=> e \in Emitted' /\ kind'[e] = "direct"
                    /\ tx'[e] \in {"open", "committed"} => seqOf'[e] # 0 /\ live'[e] = 0
                    /\ seqOf'[e] <= lastSeq'
                    /\ e \in Emitted' /\ kind'[e] # "start" /\ live'[e] > 0 =>
                         live'[e] = 1 /\ Visible(e)' /\ ~Pending(e)'
    BY DEF RowInv
  <2>1. /\ e \notin Emitted => live[e] = 0 /\ tx[e] = "none" /\ seqOf[e] = 0
        /\ tx[e] # "none" <=> e \in Emitted /\ kind[e] = "direct"
        /\ seqOf[e] <= lastSeq /\ lastSeq \in Nat
    BY <1>0 DEF RowInv, TypeOK
  <2> QED
    BY <1>1, <1>2, <2>1
<1>11. OrderInv'
  <2>1. \A i, j \in 1 .. Len(queue') :
          i < j /\ queue'[i] # Flush /\ queue'[j] # Flush => queue'[i] < queue'[j]
    <3> SUFFICES ASSUME NEW i \in 1 .. Len(queue'), queue'[i] # Flush
                 PROVE  FALSE
      OBVIOUS
    <3> QED
      BY <1>4
  <2>2. Restarting'
    BY <1>3, <1>4 DEF Restarting
  <2>3. ASSUME NEW e \in Event, Due(e)' PROVE e \in outbox'
    <3>1. Handed(e) /\ seqOf[e] = 0 /\ e \notin lost'
      BY <1>7, <1>9, <2>3 DEF Due, Handed
    <3> QED
      BY <1>1, <3>1 DEF Crash, Visible, Handed
  <2>4. \A e \in Event, i, j \in 1 .. Len(worker'.todo) :
          i < j /\ worker'.todo[j] = e => worker'.todo[i] < e
    BY <1>3, EmptySeq
  <2>5. \A e \in Event : ~Contains(failed', e)
    BY <1>1, ContainsNothing
  <2> QED
    BY <1>4, <2>1, <2>2, <2>3, <2>4, <2>5 DEF OrderInv
<1>12. NoEventForgotten'
  <2> SUFFICES ASSUME NEW e \in Emitted, kind[e] # "direct", e \notin lost'
               PROVE  Held(e)'
    BY <1>1 DEF NoEventForgotten
  <2>1. e \in Event
    BY <1>0, EmittedEvents
  <2>2. e \in outbox \/ Visible(e)
    BY DEF Crash
  <2>3. Visible(e) => Visible(e)'
    BY <1>2, <1>9, <2>1 DEF Visible
  <2> QED
    BY <1>1, <2>2, <2>3 DEF Held
<1>13. SequenceFollowsEmission'
  <2> SUFFICES ASSUME NEW e \in Emitted, NEW f \in Emitted, e < f,
                      kind[e] # "direct", kind[f] # "direct",
                      e \notin behind \cup lost', seqOf'[f] # 0
               PROVE  seqOf'[e] # 0 /\ seqOf'[e] < seqOf'[f]
    BY <1>1 DEF SequenceFollowsEmission
  <2>1. /\ e \in Event /\ f \in Event /\ e \notin behind \cup lost
        /\ seqOf'[e] = seqOf[e] /\ seqOf'[f] = seqOf[f]
    BY <1>0, <1>9, EmittedEvents DEF Crash
  <2> QED
    BY <1>0, <2>1 DEF SequenceFollowsEmission
<1>14. ReplayCoversGap'
  BY <1>2 DEF ReplayCoversGap
<1> QED
  BY <1>5, <1>6, <1>8, <1>10, <1>11, <1>12, <1>13, <1>14 DEF PipelineInv, EventsKept
-----------------------------------------------------------------------------
(* The clients.                                                             *)
LEMMA ClientStays ==
  ASSUME PipelineInv, UNCHANGED <<emission, store, memory, live, ghosts, faults, crashes>>,
         conn' \in [Client -> {"off", "asking", "on"}], from' \in [Client -> Nat],
         seen' \in [Client -> Nat], got' \in [Client -> SUBSET Event],
         ReplayCoversGap'
  PROVE  PipelineInv'
<1>0. /\ TypeOK /\ RowInv
  BY DEF PipelineInv
<1>1. /\ Beside /\ UNCHANGED <<tx, live, faults, crashes>>
  BY DEF Beside, emission, store, memory, ghosts
<1>2. \A e \in Event : Visible(e) => Visible(e)'
  BY <1>1 DEF Visible, Beside
<1>3. /\ WorkerInv' /\ PlaceInv' /\ OrderInv'
      /\ NoEventForgotten' /\ SequenceFollowsEmission'
      /\ \A e \in Event : Pending(e)' <=> Pending(e)
  BY <1>1, <1>2, BesideStays
<1>4. TypeOK'
  BY <1>0, <1>1 DEF TypeOK, Beside
<1>5. RowInv'
  BY <1>0, <1>1, <1>3, <1>4, RowsStay DEF Beside, SameRow, RowInv, TypeOK
<1> QED
  BY <1>3, <1>4, <1>5 DEF PipelineInv, EventsKept

LEMMA SubscribeStep ==
  ASSUME NEW d \in Client
  PROVE  PipelineInv /\ Subscribe(d) => PipelineInv'
<1> SUFFICES ASSUME PipelineInv, Subscribe(d)
             PROVE  PipelineInv'
  OBVIOUS
<1>0. TypeOK /\ ReplayCoversGap
  BY DEF PipelineInv
<1>1. /\ UNCHANGED <<emission, store, memory, live, ghosts, faults, crashes>>
      /\ seen' = seen /\ got' = got /\ kind' = kind /\ seqOf' = seqOf /\ live' = live
      /\ from' = [from EXCEPT ![d] = seen[d]]
      /\ conn' = [conn EXCEPT ![d] = IF seen[d] > 0 THEN "asking" ELSE "on"]
  BY DEF Subscribe, emission, store
<1>2. /\ conn \in [Client -> {"off", "asking", "on"}] /\ from \in [Client -> Nat]
      /\ seen \in [Client -> Nat] /\ got \in [Client -> SUBSET Event]
  BY <1>0 DEF TypeOK
<1>3. /\ conn' \in [Client -> {"off", "asking", "on"}] /\ from' \in [Client -> Nat]
      /\ \A c \in Client : c # d => conn'[c] = conn[c] /\ from'[c] = from[c]
      /\ conn'[d] = "on" => from'[d] = 0
  BY <1>1, <1>2
<1>4. ReplayCoversGap'
  <2> SUFFICES ASSUME NEW c \in Client, conn'[c] = "on", from'[c] > 0,
                      NEW e \in Emitted, kind[e] # "start", live[e] > 0, seqOf[e] > from'[c]
               PROVE  e \in got[c]
    BY <1>1 DEF ReplayCoversGap, Emitted
  <2>1. c # d
    BY <1>3
  <2> QED
    BY <1>0, <1>3, <2>1 DEF ReplayCoversGap
<1> QED
  BY <1>1, <1>2, <1>3, <1>4, ClientStays

(* The replay is read after the subscription: what was published before it  *)
(* is in the table.                                                         *)
LEMMA ReplayStep ==
  ASSUME NEW d \in Client
  PROVE  PipelineInv /\ Replay(d) => PipelineInv'
<1> SUFFICES ASSUME PipelineInv, Replay(d)
             PROVE  PipelineInv'
  OBVIOUS
<1>0. TypeOK /\ RowInv /\ ReplayCoversGap
  BY DEF PipelineInv
<1> DEFINE T == {seen[d]} \cup {seqOf[e] : e \in Missed(d)}
           Highest(s) == s >= seen[d] /\ \A e \in Missed(d) : s >= seqOf[e]
<1>1. /\ UNCHANGED <<emission, store, memory, live, ghosts, faults, crashes>>
      /\ from' = from /\ kind' = kind /\ seqOf' = seqOf /\ live' = live
      /\ conn' = [conn EXCEPT ![d] = "on"]
      /\ got' = [got EXCEPT ![d] = got[d] \cup Missed(d)]
      /\ seen' = [seen EXCEPT ![d] = CHOOSE s \in T : Highest(s)]
  BY DEF Replay, emission, store
<1>2. /\ conn \in [Client -> {"off", "asking", "on"}] /\ from \in [Client -> Nat]
      /\ seen \in [Client -> Nat] /\ got \in [Client -> SUBSET Event]
      /\ seqOf \in [Event -> Nat] /\ lastSeq \in Nat
      /\ Missed(d) \subseteq Event
  BY <1>0 DEF TypeOK, Missed
<1>3. (CHOOSE s \in T : Highest(s)) \in Nat
  <2>1. T \subseteq Nat /\ T # {}
    BY <1>2
  <2>2. \A x \in T : x <= lastSeq + seen[d]
    BY <1>0, <1>2 DEF RowInv
  <2>3. lastSeq + seen[d] \in Nat
    BY <1>2
  <2>4. PICK x \in T : \A y \in T : y <= x
    BY <2>1, <2>2, <2>3, GreatestNumber
  <2>5. Highest(x)
    BY <1>2, <2>1, <2>4
  <2>6. (CHOOSE s \in T : Highest(s)) \in T
    <3> HIDE DEF T, Highest
    <3> QED
      BY <2>5
  <2> QED
    BY <2>1, <2>6
<1> HIDE DEF T, Highest
<1>4. /\ conn' \in [Client -> {"off", "asking", "on"}] /\ from' \in [Client -> Nat]
      /\ got' \in [Client -> SUBSET Event] /\ seen' \in [Client -> Nat]
      /\ \A c \in Client : c # d => conn'[c] = conn[c] /\ got'[c] = got[c]
      /\ got'[d] = got[d] \cup Missed(d)
  BY <1>1, <1>2, <1>3
<1>5. ReplayCoversGap'
  <2> SUFFICES ASSUME NEW c \in Client, conn'[c] = "on", from[c] > 0,
                      NEW e \in Emitted, kind[e] # "start", live[e] > 0, seqOf[e] > from[c]
               PROVE  e \in got'[c]
    BY <1>1 DEF ReplayCoversGap, Emitted
  <2>1. e \in Event /\ Visible(e)
    BY <1>0, EmittedEvents DEF RowInv
  <2>2. CASE c = d
    BY <1>4, <2>1, <2>2 DEF Missed
  <2>3. CASE c # d
    BY <1>0, <1>4, <2>3 DEF ReplayCoversGap
  <2> QED
    BY <2>2, <2>3
<1> QED
  BY <1>1, <1>4, <1>5, ClientStays

LEMMA DisconnectStep ==
  ASSUME NEW d \in Client
  PROVE  PipelineInv /\ Disconnect(d) => PipelineInv'
<1> SUFFICES ASSUME PipelineInv, Disconnect(d)
             PROVE  PipelineInv'
  OBVIOUS
<1>0. TypeOK /\ ReplayCoversGap
  BY DEF PipelineInv
<1>1. /\ UNCHANGED <<emission, store, memory, live, ghosts, faults, crashes>>
      /\ seen' = seen /\ got' = got /\ kind' = kind /\ seqOf' = seqOf /\ live' = live
      /\ from' = [from EXCEPT ![d] = 0]
      /\ conn' = [conn EXCEPT ![d] = "off"]
  BY DEF Disconnect, emission, store
<1>2. /\ conn \in [Client -> {"off", "asking", "on"}] /\ from \in [Client -> Nat]
      /\ seen \in [Client -> Nat] /\ got \in [Client -> SUBSET Event]
  BY <1>0 DEF TypeOK
<1>3. /\ conn' \in [Client -> {"off", "asking", "on"}] /\ from' \in [Client -> Nat]
      /\ \A c \in Client : c # d => conn'[c] = conn[c] /\ from'[c] = from[c]
      /\ conn'[d] = "off"
  BY <1>1, <1>2
<1>4. ReplayCoversGap'
  <2> SUFFICES ASSUME NEW c \in Client, conn'[c] = "on", from'[c] > 0,
                      NEW e \in Emitted, kind[e] # "start", live[e] > 0, seqOf[e] > from'[c]
               PROVE  e \in got[c]
    BY <1>1 DEF ReplayCoversGap, Emitted
  <2>1. c # d
    BY <1>3
  <2> QED
    BY <1>0, <1>3, <2>1 DEF ReplayCoversGap
<1> QED
  BY <1>1, <1>2, <1>3, <1>4, ClientStays
-----------------------------------------------------------------------------
LEMMA PipelineInit == Init => PipelineInv
<1> SUFFICES ASSUME Init
             PROVE  PipelineInv
  OBVIOUS
<1>1. /\ kind = <<>> /\ Len(kind) = 0 /\ Emitted = {} /\ <<>> \in Seq(Emits)
      /\ <<>> \in Seq(Event)
  BY EmptySeq DEF Init, Emitted
<1>2. /\ queue = <<Flush>> /\ worker = Idle /\ failed = <<>> /\ outbox = {}
      /\ worker \in Worker /\ worker.task = "none" /\ worker.todo = <<>>
      /\ Flush \notin Event
  BY IdleFacts DEF Init, Flush, Event
<1>3. TypeOK
  BY <1>1, <1>2, PipelineAssumption DEF Init, TypeOK
<1>4. WorkerInv
  BY <1>2 DEF WorkerInv, AtStep
<1>5. \A e \in Event : ~Pending(e)
  BY <1>2, ContainsOne, ContainsNothing DEF Pending
<1>6. PlaceInv
  <2>1. Distinct(worker.todo) /\ Distinct(failed)
    BY <1>2, EmptySeq DEF Distinct
  <2> QED
    BY <1>2, <1>5, <2>1 DEF PlaceInv, Pending
<1>7. RowInv
  BY <1>1 DEF RowInv, Init
<1>8. OrderInv
  <2>1. \A e \in Event : ~Handed(e) /\ ~Due(e)
    BY <1>1 DEF Handed, Due
  <2>2. \A i \in 1 .. Len(queue) : queue[i] = Flush
    BY <1>2
  <2>3. \A e \in Event, i, j \in 1 .. Len(worker.todo) :
          i < j /\ worker.todo[j] = e => worker.todo[i] < e
    BY <1>2, EmptySeq
  <2> QED
    BY <1>2, <2>1, <2>2, <2>3, ContainsNothing DEF OrderInv
<1>9. EventsKept
  BY <1>1 DEF EventsKept, NoEventForgotten, SequenceFollowsEmission
<1>10. ReplayCoversGap
  BY <1>1 DEF ReplayCoversGap
<1> QED
  BY <1>3, <1>4, <1>6, <1>7, <1>8, <1>9, <1>10 DEF PipelineInv

LEMMA StutterStep == PipelineInv /\ UNCHANGED vars => PipelineInv'
<1> SUFFICES ASSUME PipelineInv, UNCHANGED vars
             PROVE  PipelineInv'
  OBVIOUS
<1>0. TypeOK /\ RowInv /\ ReplayCoversGap
  BY DEF PipelineInv
<1>1. /\ UNCHANGED <<emission, store, memory, live, ghosts, faults, crashes>>
      /\ UNCHANGED <<kind, seqOf, conn, from, seen, got>>
  BY DEF vars, emission, store, clients
<1>2. ReplayCoversGap'
  BY <1>0, <1>1, GapStays DEF SameRow
<1> QED
  BY <1>0, <1>1, <1>2, ClientStays DEF TypeOK

LEMMA PipelineStep == PipelineInv /\ [Next]_vars => PipelineInv'
<1> SUFFICES ASSUME PipelineInv, [Next]_vars
             PROVE  PipelineInv'
  OBVIOUS
<1>1. CASE \E k \in Emits : Emit(k)
  BY <1>1, EmitStep
<1>2. CASE \E e \in Event : DirectCommit(e) \/ DirectPublish(e)
  BY <1>2, DirectCommitStep, DirectPublishStep
<1>3. CASE Work
  BY <1>3, TakeStep, EnqueueStep, AppendRowStep, DeleteStep, ListStep DEF Work
<1>4. CASE FlushTimer
  BY <1>4, FlushTimerStep
<1>5. CASE Crash
  BY <1>5, CrashStep
<1>6. CASE \E c \in Client : Subscribe(c) \/ Replay(c) \/ Disconnect(c)
  BY <1>6, SubscribeStep, ReplayStep, DisconnectStep
<1>7. CASE UNCHANGED vars
  BY <1>7, StutterStep
<1> QED
  BY <1>1, <1>2, <1>3, <1>4, <1>5, <1>6, <1>7 DEF Next
-----------------------------------------------------------------------------
(* Every reachable state has the inductive invariant: an event handed to    *)
(* the persistence queue is in one place at a time and those still due wait *)
(* in the order in which they were emitted.                                 *)
THEOREM PipelineInvariant == Spec => []PipelineInv
<1>1. Init => PipelineInv
  BY PipelineInit
<1>2. PipelineInv /\ [Next]_vars => PipelineInv'
  BY PipelineStep
<1> QED
  BY <1>1, <1>2, PTL DEF Spec

(* No retry, failed flush or restart drops an event of the queue, and none  *)
(* lets it overtake an earlier one that kept its place.                     *)
THEOREM EventsAlwaysKept == Spec => []EventsKept
<1>1. PipelineInv => EventsKept
  BY DEF PipelineInv
<1> QED
  BY <1>1, PipelineInvariant, PTL

(* What the live bus carries after persistence is committed in the events   *)
(* table, and is carried once per process, whatever failed or was retried.  *)
THEOREM BroadcastIsDurable == Spec => []DurableBeforeBroadcast
<1>1. PipelineInv => DurableBeforeBroadcast
  <2> SUFFICES ASSUME PipelineInv
               PROVE  DurableBeforeBroadcast
    OBVIOUS
  <2>1. Emitted \subseteq Event
    BY EmittedEvents DEF PipelineInv
  <2> QED
    BY <2>1 DEF PipelineInv, RowInv, DurableBeforeBroadcast
<1> QED
  BY <1>1, PipelineInvariant, PTL

(* A client that comes back with the last sequence it saw misses nothing    *)
(* that was published above it while its subscription was being handled.    *)
THEOREM ReplaysCoverGaps == Spec => []ReplayCoversGap
<1>1. PipelineInv => ReplayCoversGap
  BY DEF PipelineInv
<1> QED
  BY <1>1, PipelineInvariant, PTL
=============================================================================
