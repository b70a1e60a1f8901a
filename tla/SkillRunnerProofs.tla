------------------------- MODULE SkillRunnerProofs -------------------------
(***************************************************************************)
(* Theorems about SkillRunner and SkillRegistry, for every set of skills,   *)
(* executions and clients, every number of slots and of host calls.  The    *)
(* inductive invariant is RunnerInv: the counter of slots is the number of  *)
(* executions in one, whoever waits is queued and waits once, and a reload  *)
(* that ran alone has built its map from rows as they still are.            *)
(***************************************************************************)
EXTENDS SkillRunner, FiniteSetTheorems, SequenceTheorems, TLAPS

(* A reload finds the rows as they are.                                     *)
LEMMA RegInitHolds == RegInit => RegInv
  BY DEF RegInit, RegInv, RegTypeOK, FoundInStep, NoReload, NoToggle, Row

LEMMA RegStep ==
  ASSUME RegInv, RegNext
  PROVE  RegInv'
<1> USE DEF RegInv, RegTypeOK, FoundInStep
<1>r. /\ reload.todo \subseteq Skill /\ reload.next \in [Skill -> Row]
      /\ reload.at \subseteq Skill /\ reload.found \in Row
      /\ table \in [Skill -> Row] /\ catalogue \in [Skill -> Row]
  OBVIOUS
<1> DEFINE Reload == [pc : {"idle", "next", "upsert"}, todo : SUBSET Skill,
                      next : [Skill -> Row], at : SUBSET Skill, found : Row, alone : BOOLEAN]
<1>1. CASE StartReload
  <2> DEFINE alone == \A t \in Toggle : toggle[t].pc = "idle"
  <2>1. reload' = [pc |-> "next", todo |-> Skill, next |-> [s \in Skill |-> "absent"],
                   at |-> {}, found |-> "absent", alone |-> alone]
    BY <1>1 DEF StartReload, NoReload
  <2>2. alone \in BOOLEAN
    OBVIOUS
  <2> HIDE DEF alone
  <2>3. reload' \in Reload
    BY <2>1, <2>2 DEF Row
  <2>4. UNCHANGED <<table, catalogue, toggle>>
    BY <1>1 DEF StartReload
  <2> QED
    BY <2>1, <2>3, <2>4
<1>2. ASSUME NEW s \in Skill, LoadSkill(s) PROVE RegInv'
  <2>1. CASE reload' = [reload EXCEPT !.todo = @ \ {s}]
    BY <1>2, <2>1 DEF LoadSkill
  <2>2. CASE reload' = [reload EXCEPT !.pc = "upsert", !.todo = @ \ {s}, !.at = {s},
                                      !.found = table[s]]
    <3>1. /\ reload'.pc = "upsert" /\ reload'.todo = reload.todo \ {s} /\ reload'.at = {s}
          /\ reload'.found = table[s] /\ reload'.next = reload.next
          /\ reload'.alone = reload.alone
      BY <2>2
    <3>2. reload' \in Reload
      BY <1>r, <2>2
    <3>3. UNCHANGED <<table, catalogue, toggle>>
      BY <1>2 DEF LoadSkill
    <3> QED
      BY <3>1, <3>2, <3>3
  <2> QED
    BY <1>2, <2>1, <2>2 DEF LoadSkill
<1>3. ASSUME NEW s \in Skill, UpsertSkill(s) PROVE RegInv'
  <2> DEFINE row == Kept(reload.found)
             next == [reload.next EXCEPT ![s] = row]
  <2>1. row \in Row /\ (reload.alone => table[s] = "absent" \/ row = table[s])
    BY <1>3, <1>r DEF UpsertSkill, Kept, Row
  <2>2. /\ reload' = [reload EXCEPT !.pc = "next", !.next = next, !.at = {}, !.found = "absent"]
        /\ table' = [table EXCEPT ![s] = row]
        /\ UNCHANGED <<catalogue, toggle>>
    BY <1>3 DEF UpsertSkill
  <2> HIDE DEF row
  <2>3. next \in [Skill -> Row] /\ table' \in [Skill -> Row]
    BY <1>r, <2>1, <2>2
  <2>4. \A z \in Skill : next[z] = (IF z = s THEN row ELSE reload.next[z])
                         /\ table'[z] = (IF z = s THEN row ELSE table[z])
    BY <1>r, <2>2
  <2> HIDE DEF next
  <2>5. reload' \in Reload
    BY <2>2, <2>3 DEF Row
  <2>6. /\ reload'.pc = "next" /\ reload'.next = next /\ reload'.at = {}
        /\ reload'.alone = reload.alone
    BY <2>2
  <2> QED
    BY <2>2, <2>3, <2>4, <2>5, <2>6
<1>4. CASE SwapCatalogue
  BY <1>4, <1>r DEF SwapCatalogue, NoReload, Row
<1>5. ASSUME NEW t \in Toggle, NEW s \in Skill, NEW row \in {"on", "off"}, UpdateRow(t, s, row)
      PROVE  RegInv'
  <2>1. /\ reload' = [reload EXCEPT !.alone = FALSE] /\ UNCHANGED catalogue
        /\ table' \in [Skill -> Row]
    BY <1>5, <1>r DEF UpdateRow, Row
  <2>2. toggle' \in [Toggle -> [pc : {"idle", "applied"}, at : SUBSET Skill, row : Row]]
    BY <1>5 DEF UpdateRow, Row
  <2>3. reload' \in Reload /\ reload'.alone = FALSE /\ reload'.pc = reload.pc /\ reload'.at = reload.at
    BY <2>1
  <2> QED
    BY <1>r, <2>1, <2>2, <2>3
<1>6. ASSUME NEW t \in Toggle, UpdateMap(t) PROVE RegInv'
  <2>1. UNCHANGED <<table, reload>>
    BY <1>6 DEF UpdateMap
  <2>2. catalogue' \in [Skill -> Row]
    BY <1>6, <1>r DEF UpdateMap
  <2>3. toggle' \in [Toggle -> [pc : {"idle", "applied"}, at : SUBSET Skill, row : Row]]
    BY <1>6 DEF UpdateMap, NoToggle, Row
  <2> QED
    BY <2>1, <2>2, <2>3
<1> QED
  BY <1>1, <1>2, <1>3, <1>4, <1>5, <1>6 DEF RegNext, ReloadStep

(* What ReloadReconciles says of one step.                                  *)
LEMMA RegReconciles ==
  ASSUME RegInv, RegNext, reload.alone
  PROVE  /\ reload.pc # "idle" /\ reload'.pc = "idle" =>
              \A s \in Skill : catalogue'[s] # "absent" => catalogue'[s] = table'[s]
         /\ \A s \in Skill : table[s] # "absent" => table'[s] = table[s] \/ ~reload'.alone
<1> DEFINE InStep == reload.pc # "idle" /\ reload'.pc = "idle" =>
                       \A s \in Skill : catalogue'[s] # "absent" => catalogue'[s] = table'[s]
           NoFlip == \A s \in Skill :
                       table[s] # "absent" => table'[s] = table[s] \/ ~reload'.alone
<1> SUFFICES InStep /\ NoFlip
  OBVIOUS
<1> USE DEF RegInv, RegTypeOK, FoundInStep
<1>1. CASE StartReload
  BY <1>1 DEF StartReload
<1>2. ASSUME NEW s \in Skill, LoadSkill(s) PROVE InStep /\ NoFlip
  BY <1>2 DEF LoadSkill
<1>3. ASSUME NEW s \in Skill, UpsertSkill(s) PROVE InStep /\ NoFlip
  BY <1>3 DEF UpsertSkill, Kept, Row
<1>4. CASE SwapCatalogue
  BY <1>4 DEF SwapCatalogue
<1>5. ASSUME NEW t \in Toggle, NEW s \in Skill, NEW row \in {"on", "off"}, UpdateRow(t, s, row)
      PROVE  InStep /\ NoFlip
  BY <1>5 DEF UpdateRow
<1>6. ASSUME NEW t \in Toggle, UpdateMap(t) PROVE InStep /\ NoFlip
  BY <1>6 DEF UpdateMap
<1> HIDE DEF InStep, NoFlip
<1> QED
  BY <1>1, <1>2, <1>3, <1>4, <1>5, <1>6 DEF RegNext, ReloadStep
-----------------------------------------------------------------------------
(* A step that takes nobody into a slot or out of one, and nobody out of    *)
(* the queue.                                                               *)
LEMMA SlotsStay ==
  ASSUME RunnerInv, UNCHANGED <<active, waiters, maxConcurrency>>,
         \A e \in Exec : /\ InSlot(e)' <=> InSlot(e)
                         /\ At(e, "queued") => At(e, "queued")'
  PROVE  /\ IsFiniteSet(Users') /\ SlotsExact' /\ WaitersQueued'
         /\ active' \in 0 .. maxConcurrency' /\ maxConcurrency' \in 1 .. MaxSlots
         /\ waiters' \in Seq(Exec)
<1>1. Users' = Users
  BY DEF Users
<1>2. \A i \in 1 .. Len(waiters) : waiters[i] \in Exec
  BY ElementOfSeq DEF RunnerInv, TypeOK
<1> QED
  BY <1>1, <1>2 DEF RunnerInv, TypeOK, SlotsExact, WaitersQueued, Users

(* An execution that returns: the first waiter takes over its slot.         *)
LEMMA SlotsPassOn ==
  ASSUME RunnerInv, NEW e \in Exec, InSlot(e), Return(e), UNCHANGED maxConcurrency
  PROVE  /\ IsFiniteSet(Users') /\ SlotsExact' /\ WaitersQueued'
         /\ active' \in 0 .. maxConcurrency' /\ waiters' \in Seq(Exec)
         /\ job' \in [Exec -> Job]
         /\ \A f \in Exec : At(f, "running")' => At(f, "running") /\ f # e
<1>1. /\ job \in [Exec -> Job] /\ waiters \in Seq(Exec) /\ active \in Nat
      /\ maxConcurrency \in Nat /\ active <= maxConcurrency
      /\ IsFiniteSet(Users) /\ active = Cardinality(Users)
      /\ waiters # <<>> => active = maxConcurrency
  BY RunnerAssumption DEF RunnerInv, TypeOK, SlotsExact, Users
<1> DEFINE end == [NewJob EXCEPT !.pc = "done", !.late = job[e].late]
<1>a. job[e].late \in 0 .. MaxHostCalls /\ 0 \in 0 .. MaxHostCalls
  BY <1>1, RunnerAssumption DEF Job
<1>2. end \in Job /\ end.pc = "done"
  <2> DEFINE blank == [NewJob EXCEPT !.pc = "done"]
  <2>1. NewJob \in Job
    BY <1>a DEF NewJob, Job
  <2>2. end = [blank EXCEPT !.late = job[e].late]
    OBVIOUS
  <2>3. blank \in Job /\ blank.pc = "done"
    BY <2>1 DEF Job
  <2> HIDE DEF blank
  <2> QED
    BY <1>a, <2>2, <2>3 DEF Job
<1>3. Ended(e) = [job EXCEPT ![e] = end]
  BY DEF Ended
<1> HIDE DEF end
<1>4. /\ Ended(e) \in [Exec -> Job] /\ Ended(e)[e].pc = "done"
      /\ \A f \in Exec \ {e} : Ended(e)[f] = job[f]
  BY <1>1, <1>2, <1>3
<1>5. e \in Users
  BY DEF Users
<1>6. Cardinality(Users \ {e}) = Cardinality(Users) - 1 /\ IsFiniteSet(Users \ {e})
      /\ Cardinality(Users) \in Nat
  BY <1>1, <1>5, FS_RemoveElement, FS_CardinalityType
<1>7. CASE waiters = <<>>
  <2>1. job' = Ended(e) /\ active' = active - 1 /\ waiters' = <<>>
    BY <1>7 DEF Return, NextIn, ReleaseSlot
  <2>2. Users' = Users \ {e}
    BY <1>4, <2>1 DEF Users, InSlot
  <2>3. active' = Cardinality(Users') /\ active' \in Nat /\ active' <= maxConcurrency
    BY <1>1, <1>6, <2>1, <2>2, FS_CardinalityType
  <2>4. SlotsExact' /\ IsFiniteSet(Users')
    BY <1>6, <2>1, <2>2, <2>3 DEF SlotsExact, Users
  <2>5. WaitersQueued' /\ waiters' \in Seq(Exec)
    BY <1>1, <1>7, <2>1 DEF WaitersQueued
  <2>6. \A f \in Exec : At(f, "running")' => At(f, "running") /\ f # e
    BY <1>4, <2>1 DEF At
  <2> QED
    BY <1>4, <2>1, <2>3, <2>4, <2>5, <2>6
<1>8. CASE waiters # <<>>
  <2> DEFINE h == Head(waiters)
             taken == [job[h] EXCEPT !.pc = "check"]
  <2>1. /\ h \in Exec /\ Tail(waiters) \in Seq(Exec) /\ Len(waiters) \in Nat
        /\ h = waiters[1] /\ 1 \in 1 .. Len(waiters)
        /\ Len(Tail(waiters)) = Len(waiters) - 1
        /\ \A i \in 1 .. Len(Tail(waiters)) : Tail(waiters)[i] = waiters[i + 1]
    BY <1>1, <1>8, HeadTailProperties, LenProperties
  <2>2. At(h, "queued") /\ h # e /\ h \notin Users
    BY <2>1 DEF RunnerInv, WaitersQueued, At, InSlot, Users
  <2>3. taken \in Job /\ taken.pc = "check"
    <3>1. job[h] \in Job
      BY <1>1, <2>1
    <3> QED
      BY <3>1 DEF Job
  <2>4. job' = [Ended(e) EXCEPT ![h] = taken] /\ active' = active /\ waiters' = Tail(waiters)
    BY <1>4, <1>8, <2>1, <2>2 DEF Return, NextIn, ReleaseSlot
  <2> HIDE DEF taken
  <2>5. /\ job' \in [Exec -> Job] /\ job'[e].pc = "done" /\ job'[h].pc = "check"
        /\ \A f \in Exec \ {e, h} : job'[f] = job[f]
    BY <1>4, <2>1, <2>2, <2>3, <2>4
  <2>6. Users' = (Users \ {e}) \cup {h}
    BY <2>1, <2>2, <2>5 DEF Users, InSlot
  <2>7. Cardinality(Users') = Cardinality(Users) /\ IsFiniteSet(Users')
    BY <1>6, <2>2, <2>6, FS_AddElement
  <2>8. SlotsExact'
    BY <1>1, <1>8, <2>4, <2>7 DEF SlotsExact, Users
  <2>9. WaitersQueued'
    <3>1. ASSUME NEW i \in 1 .. Len(waiters') PROVE job'[waiters[i + 1]].pc = "queued"
      <4> DEFINE f == waiters[i + 1]
      <4>1. i + 1 \in 1 .. Len(waiters) /\ i + 1 # 1
        BY <2>1, <2>4
      <4>2. f # h /\ At(f, "queued") /\ f \in Exec
        BY <1>1, <2>1, <4>1, ElementOfSeq DEF RunnerInv, WaitersQueued
      <4>3. f # e
        BY <4>2 DEF At, InSlot
      <4> HIDE DEF f
      <4>4. job'[f] = job[f]
        BY <2>5, <4>2, <4>3
      <4>5. job'[f].pc = "queued"
        BY <4>2, <4>4 DEF At
      <4> QED
        BY <4>5 DEF f
    <3>2. \A i \in 1 .. Len(waiters') : waiters'[i] = waiters[i + 1] /\ i + 1 \in 1 .. Len(waiters)
      BY <2>1, <2>4
    <3>3. \A i, j \in 1 .. Len(waiters') : waiters'[i] = waiters'[j] => i = j
      <4> SUFFICES ASSUME NEW i \in 1 .. Len(waiters'), NEW j \in 1 .. Len(waiters'),
                          waiters'[i] = waiters'[j]
                   PROVE  i = j
        OBVIOUS
      <4>1. i + 1 = j + 1
        BY <3>2 DEF RunnerInv, WaitersQueued
      <4> QED
        BY <2>1, <2>4, <4>1
    <3>4. \A i \in 1 .. Len(waiters') : job'[waiters'[i]].pc = "queued"
      BY <3>1, <3>2
    <3> QED
      BY <3>3, <3>4 DEF WaitersQueued, At
  <2>10. \A f \in Exec : At(f, "running")' => At(f, "running") /\ f # e
    BY <2>1, <2>5 DEF At
  <2> QED
    BY <1>1, <2>1, <2>4, <2>5, <2>7, <2>8, <2>9, <2>10
<1> QED
  BY <1>7, <1>8
-----------------------------------------------------------------------------
(* The parts of the invariant that are not about slots.                     *)
LEMMA Whole ==
  ASSUME RegInv', IsFiniteSet(Users'), SlotsExact', WaitersQueued',
         active' \in 0 .. maxConcurrency', waiters' \in Seq(Exec),
         job' \in [Exec -> Job], maxConcurrency' \in 1 .. MaxSlots,
         worker' \in [Exec -> {"none", "up", "told", "gone"}],
         registered' \subseteq Exec, interrupted' \in BOOLEAN,
         \A e \in Exec : At(e, "running")' => e \in registered'
  PROVE  RunnerInv'
  BY DEF RunnerInv, TypeOK, RegInv, WorkersAreInterruptible

LEMMA RegStays ==
  ASSUME RunnerInv, UNCHANGED regVars
  PROVE  RegInv'
  BY DEF RunnerInv, TypeOK, RegInv, RegTypeOK, FoundInStep, regVars

LEMMA Facts ==
  ASSUME RunnerInv
  PROVE  /\ job \in [Exec -> Job] /\ worker \in [Exec -> {"none", "up", "told", "gone"}]
         /\ registered \subseteq Exec /\ interrupted \in BOOLEAN
         /\ active \in Nat /\ maxConcurrency \in Nat /\ maxConcurrency \in 1 .. MaxSlots
         /\ waiters \in Seq(Exec) /\ active <= maxConcurrency
         /\ \A e \in Exec : At(e, "running") => e \in registered
         /\ active = Cardinality(Users) /\ IsFiniteSet(Users)
         /\ waiters # <<>> => active = maxConcurrency
  BY RunnerAssumption DEF RunnerInv, TypeOK, SlotsExact, Users, WorkersAreInterruptible

(* An execution that moves on within its slot.                              *)
LEMMA GotoFacts ==
  ASSUME RunnerInv, NEW e \in Exec, InSlot(e),
         NEW pc \in {"check", "lookup", "audit", "running", "settling"}, Goto(e, pc)
  PROVE  /\ job' \in [Exec -> Job] /\ job'[e].pc = pc
         /\ \A f \in Exec \ {e} : job'[f] = job[f]
         /\ \A f \in Exec : (InSlot(f)' <=> InSlot(f)) /\ (At(f, "queued") => At(f, "queued")')
<1>1. job \in [Exec -> Job] /\ job[e] \in Job
  BY Facts
<1>2. [job[e] EXCEPT !.pc = pc] \in Job /\ [job[e] EXCEPT !.pc = pc].pc = pc
  BY <1>1 DEF Job
<1>3. job' = [job EXCEPT ![e] = [job[e] EXCEPT !.pc = pc]]
  BY DEF Goto
<1>4. /\ job' \in [Exec -> Job] /\ job'[e].pc = pc
      /\ \A f \in Exec \ {e} : job'[f] = job[f]
  BY <1>1, <1>2, <1>3
<1>5. ~At(e, "queued") /\ InSlot(e)'
  BY <1>4 DEF At, InSlot
<1> QED
  BY <1>4, <1>5 DEF At, InSlot

(* A step that changes the tallies and marks of executions, not their place. *)
LEMMA PlaceKept ==
  ASSUME RunnerInv, UNCHANGED regVars, UNCHANGED <<active, waiters, maxConcurrency>>,
         UNCHANGED <<registered, interrupted>>,
         job' \in [Exec -> Job], \A f \in Exec : job'[f].pc = job[f].pc,
         worker' \in [Exec -> {"none", "up", "told", "gone"}]
  PROVE  RunnerInv'
<1>1. \A f \in Exec : (InSlot(f)' <=> InSlot(f)) /\ (At(f, "queued") => At(f, "queued")')
                      /\ (At(f, "running")' <=> At(f, "running"))
  BY DEF InSlot, At
<1>2. RegInv'
  BY RegStays
<1>3. /\ IsFiniteSet(Users') /\ SlotsExact' /\ WaitersQueued'
      /\ active' \in 0 .. maxConcurrency' /\ maxConcurrency' \in 1 .. MaxSlots
      /\ waiters' \in Seq(Exec)
  BY <1>1, SlotsStay
<1>4. \A f \in Exec : At(f, "running")' => f \in registered'
  BY <1>1, Facts
<1> QED
  BY <1>2, <1>3, <1>4, Facts, Whole

LEMMA ReturnHolds ==
  ASSUME RunnerInv, NEW e \in Exec, InSlot(e), Return(e), UNCHANGED maxConcurrency,
         UNCHANGED regVars, UNCHANGED interrupted,
         worker' \in [Exec -> {"none", "up", "told", "gone"}],
         registered' \subseteq Exec, registered \ {e} \subseteq registered'
  PROVE  RunnerInv'
<1>1. RegInv'
  BY RegStays
<1>2. /\ IsFiniteSet(Users') /\ SlotsExact' /\ WaitersQueued'
      /\ active' \in 0 .. maxConcurrency' /\ waiters' \in Seq(Exec)
      /\ job' \in [Exec -> Job]
      /\ \A f \in Exec : At(f, "running")' => At(f, "running") /\ f # e
  BY SlotsPassOn
<1>3. \A f \in Exec : At(f, "running")' => f \in registered'
  BY <1>2, Facts
<1> QED
  BY <1>1, <1>2, <1>3, Facts, Whole
-----------------------------------------------------------------------------
LEMMA TellType ==
  ASSUME RunnerInv, NEW e \in Exec
  PROVE  Tell(e) \in [Exec -> {"none", "up", "told", "gone"}]
  BY Facts DEF Tell

(* A call takes a free slot, or waits when there is none.                   *)
LEMMA ExecuteHolds ==
  ASSUME RunnerInv, NEW e \in Exec, NEW s \in Skill, Execute(e, s)
  PROVE  RunnerInv'
<1> DEFINE queued == [job[e] EXCEPT !.pc = "queued", !.skill = {s}]
           begun == [job[e] EXCEPT !.pc = "check", !.skill = {s}]
<1>1. /\ UNCHANGED regVars /\ UNCHANGED <<maxConcurrency, worker, registered, interrupted>>
      /\ job[e].pc = "idle" /\ job[e] \in Job
  BY Facts DEF Execute, At
<1>2. RegInv'
  BY <1>1, RegStays
<1>3. queued \in Job /\ queued.pc = "queued" /\ begun \in Job /\ begun.pc = "check"
  <2>1. {s} \in SUBSET Skill
    OBVIOUS
  <2> QED
    BY <1>1, <2>1 DEF Job
<1>4. ~InSlot(e) /\ ~At(e, "queued") /\ e \notin Users
  BY <1>1 DEF InSlot, At, Users
<1>5. CASE active >= maxConcurrency
  <2>1. job' = [job EXCEPT ![e] = queued] /\ waiters' = Append(waiters, e) /\ active' = active
    BY <1>5 DEF Execute
  <2> HIDE DEF queued
  <2>2. /\ job' \in [Exec -> Job] /\ job'[e].pc = "queued"
        /\ \A f \in Exec \ {e} : job'[f] = job[f]
    BY <1>3, <2>1, Facts
  <2>3. Users' = Users
    BY <1>4, <2>2 DEF Users, InSlot
  <2>4. SlotsExact' /\ IsFiniteSet(Users')
    <3>1. active' = Cardinality(Users') /\ IsFiniteSet(Users')
      BY <2>1, <2>3, Facts
    <3>2. active' = maxConcurrency' /\ active' <= maxConcurrency'
      BY <1>1, <1>5, <2>1, Facts
    <3> QED
      BY <3>1, <3>2 DEF SlotsExact, Users
  <2>5. /\ waiters' \in Seq(Exec) /\ Len(waiters') = Len(waiters) + 1 /\ Len(waiters) \in Nat
        /\ \A i \in 1 .. Len(waiters) : waiters'[i] = waiters[i] /\ waiters[i] \in Exec
        /\ waiters'[Len(waiters) + 1] = e
    BY <2>1, Facts, AppendProperties, LenProperties, ElementOfSeq
  <2>6. \A i \in 1 .. Len(waiters) : waiters[i] # e /\ job[waiters[i]].pc = "queued"
    BY <1>4 DEF RunnerInv, WaitersQueued, At
  <2>7. \A i \in 1 .. Len(waiters) : job'[waiters'[i]].pc = "queued" /\ waiters'[i] # e
    BY <2>2, <2>5, <2>6
  <2>8. \A i \in 1 .. Len(waiters') : i \in 1 .. Len(waiters) \/ i = Len(waiters) + 1
    BY <2>5
  <2>9. WaitersQueued'
    <3>1. \A i \in 1 .. Len(waiters') : job'[waiters'[i]].pc = "queued"
      BY <2>2, <2>5, <2>7, <2>8
    <3>2. ASSUME NEW i \in 1 .. Len(waiters'), NEW j \in 1 .. Len(waiters'),
                 waiters'[i] = waiters'[j]
          PROVE  i = j
      <4>1. CASE i \in 1 .. Len(waiters) /\ j \in 1 .. Len(waiters)
        BY <2>5, <3>2, <4>1 DEF RunnerInv, WaitersQueued
      <4>2. CASE i = Len(waiters) + 1 \/ j = Len(waiters) + 1
        BY <2>5, <2>7, <2>8, <3>2, <4>2
      <4> QED
        BY <2>8, <4>1, <4>2
    <3> QED
      BY <3>1, <3>2 DEF WaitersQueued, At
  <2>10. \A f \in Exec : At(f, "running")' => f \in registered'
    BY <1>1, <2>2, Facts DEF At
  <2>11. active' \in 0 .. maxConcurrency'
    BY <1>1, <2>1, Facts
  <2> QED
    BY <1>1, <1>2, <2>2, <2>4, <2>5, <2>9, <2>10, <2>11, Facts, Whole
<1>6. CASE ~(active >= maxConcurrency)
  <2>1. job' = [job EXCEPT ![e] = begun] /\ waiters' = waiters /\ active' = active + 1
    BY <1>6 DEF Execute
  <2> HIDE DEF begun
  <2>2. /\ job' \in [Exec -> Job] /\ job'[e].pc = "check"
        /\ \A f \in Exec \ {e} : job'[f] = job[f]
    BY <1>3, <2>1, Facts
  <2>3. Users' = Users \cup {e}
    BY <1>4, <2>2 DEF Users, InSlot
  <2>4. IsFiniteSet(Users') /\ Cardinality(Users') = Cardinality(Users) + 1
    BY <1>4, <2>3, Facts, FS_AddElement
  <2>5. waiters = <<>>
    BY <1>6, Facts
  <2>6. active' \in 0 .. maxConcurrency' /\ active' = Cardinality(Users')
    BY <1>1, <1>6, <2>1, <2>4, Facts
  <2>7. SlotsExact'
    BY <1>1, <2>1, <2>5, <2>6, Facts DEF SlotsExact, Users
  <2>8. WaitersQueued' /\ waiters' \in Seq(Exec)
    BY <2>1, <2>5, Facts DEF WaitersQueued
  <2>9. \A f \in Exec : At(f, "running")' => f \in registered'
    BY <1>1, <2>2, Facts DEF At
  <2> QED
    BY <1>1, <1>2, <2>2, <2>4, <2>6, <2>7, <2>8, <2>9, Facts, Whole
<1> QED
  BY <1>5, <1>6

(* A step within the slot that starts no worker.                            *)
LEMMA MovesOn ==
  ASSUME RunnerInv, NEW e \in Exec, InSlot(e),
         NEW pc \in {"check", "lookup", "audit", "running", "settling"}, Goto(e, pc),
         UNCHANGED regVars, UNCHANGED <<active, waiters, maxConcurrency, interrupted>>,
         worker' \in [Exec -> {"none", "up", "told", "gone"}],
         registered' \subseteq Exec, registered \subseteq registered',
         pc = "running" => e \in registered'
  PROVE  RunnerInv'
<1>1. /\ job' \in [Exec -> Job] /\ job'[e].pc = pc
      /\ \A f \in Exec \ {e} : job'[f] = job[f]
      /\ \A f \in Exec : (InSlot(f)' <=> InSlot(f)) /\ (At(f, "queued") => At(f, "queued")')
  BY GotoFacts
<1>2. /\ IsFiniteSet(Users') /\ SlotsExact' /\ WaitersQueued'
      /\ active' \in 0 .. maxConcurrency' /\ maxConcurrency' \in 1 .. MaxSlots
      /\ waiters' \in Seq(Exec)
  BY <1>1, SlotsStay
<1>3. \A f \in Exec : At(f, "running")' => f \in registered'
  BY <1>1, Facts DEF At
<1>4. RegInv'
  BY RegStays
<1> QED
  BY <1>1, <1>2, <1>3, <1>4, Facts, Whole

LEMMA ProgressHolds ==
  ASSUME RunnerInv, NEW e \in Exec, Progress(e)
  PROVE  RunnerInv'
<1>1. CASE CheckRun(e)
  <2>1. InSlot(e) /\ UNCHANGED regVars /\ UNCHANGED <<maxConcurrency, worker, registered, interrupted>>
    BY <1>1 DEF CheckRun, InSlot, At
  <2>2. CASE Goto(e, "lookup") /\ UNCHANGED <<active, waiters>>
    BY <2>1, <2>2, Facts, MovesOn
  <2>3. CASE Return(e)
    BY <2>1, <2>3, Facts, ReturnHolds
  <2> QED
    BY <1>1, <2>2, <2>3 DEF CheckRun
<1>2. CASE LookupSkill(e)
  <2>1. InSlot(e) /\ UNCHANGED regVars /\ UNCHANGED <<maxConcurrency, worker, registered, interrupted>>
    BY <1>2 DEF LookupSkill, InSlot, At
  <2>2. CASE Goto(e, "audit") /\ UNCHANGED <<active, waiters>>
    BY <2>1, <2>2, Facts, MovesOn
  <2>3. CASE Return(e)
    BY <2>1, <2>3, Facts, ReturnHolds
  <2> QED
    BY <1>2, <2>2, <2>3 DEF LookupSkill
<1>3. CASE Fork(e)
  <2>1. InSlot(e) /\ UNCHANGED regVars /\ UNCHANGED <<maxConcurrency, interrupted>>
    BY <1>3 DEF Fork, InSlot, At
  <2>2. CASE /\ Goto(e, "running") /\ worker' = [worker EXCEPT ![e] = "up"]
             /\ registered' = registered \cup {e} /\ UNCHANGED <<active, waiters>>
    <3>1. /\ worker' \in [Exec -> {"none", "up", "told", "gone"}]
          /\ registered' \subseteq Exec /\ registered \subseteq registered' /\ e \in registered'
      BY <2>2, Facts
    <3> QED
      BY <2>1, <2>2, <3>1, MovesOn
  <2>3. CASE Return(e) /\ UNCHANGED <<worker, registered>>
    BY <2>1, <2>3, Facts, ReturnHolds
  <2> QED
    BY <1>3, <2>2, <2>3 DEF Fork
<1>4. CASE Cleanup(e)
  <2>1. /\ InSlot(e) /\ Return(e) /\ UNCHANGED regVars /\ UNCHANGED <<maxConcurrency, interrupted>>
        /\ registered' = registered \ {e} /\ worker' = Tell(e)
    BY <1>4 DEF Cleanup, InSlot, At
  <2>2. registered' \subseteq Exec /\ worker' \in [Exec -> {"none", "up", "told", "gone"}]
    BY <2>1, Facts, TellType
  <2> QED
    BY <2>1, <2>2, ReturnHolds
<1> QED
  BY <1>1, <1>2, <1>3, <1>4 DEF Progress

(* What the worker, its timers and its caller do.                           *)
LEMMA WorkerHolds ==
  ASSUME RunnerInv, NEW e \in Exec,
         \/ HostCall(e) \/ HostDone(e) \/ LateDone(e) \/ Answer(e) \/ WorkerExits(e)
         \/ Timeout(e) \/ ForceKill(e) \/ StopCaller(e)
  PROVE  RunnerInv'
<1>f. /\ job \in [Exec -> Job] /\ job[e] \in Job
      /\ worker \in [Exec -> {"none", "up", "told", "gone"}]
  BY Facts
<1>t. /\ job[e].host \in Nat /\ job[e].late \in Nat /\ MaxHostCalls \in Nat
      /\ job[e].host <= MaxHostCalls /\ job[e].late <= MaxHostCalls
  BY <1>f, RunnerAssumption DEF Job
<1>m. ASSUME NEW new \in Job, new.pc = job[e].pc, job' = [job EXCEPT ![e] = new],
             UNCHANGED regVars, UNCHANGED <<active, waiters, maxConcurrency>>,
             UNCHANGED <<registered, interrupted>>,
             worker' \in [Exec -> {"none", "up", "told", "gone"}]
      PROVE  RunnerInv'
  <2>1. job' \in [Exec -> Job] /\ \A f \in Exec : job'[f].pc = job[f].pc
    BY <1>f, <1>m
  <2> QED
    BY <1>m, <2>1, PlaceKept
<1>1. CASE HostCall(e)
  <2>1. /\ UNCHANGED regVars /\ UNCHANGED <<active, waiters, maxConcurrency>>
        /\ UNCHANGED <<registered, interrupted>> /\ UNCHANGED worker
        /\ job[e].host + job[e].late < MaxHostCalls
    BY <1>1 DEF HostCall
  <2>2. CASE job' = [job EXCEPT ![e].host = @ + 1]
    <3> DEFINE new == [job[e] EXCEPT !.host = job[e].host + 1]
    <3>1. job[e].host + 1 \in 0 .. MaxHostCalls
      BY <1>t, <2>1
    <3>2. new \in Job /\ new.pc = job[e].pc
      BY <1>f, <3>1 DEF Job
    <3>3. job' = [job EXCEPT ![e] = new]
      BY <2>2
    <3> HIDE DEF new
    <3> QED
      BY <1>f, <1>m, <2>1, <3>2, <3>3
  <2>3. CASE job' = [job EXCEPT ![e].late = @ + 1]
    <3> DEFINE new == [job[e] EXCEPT !.late = job[e].late + 1]
    <3>1. job[e].late + 1 \in 0 .. MaxHostCalls
      BY <1>t, <2>1
    <3>2. new \in Job /\ new.pc = job[e].pc
      BY <1>f, <3>1 DEF Job
    <3>3. job' = [job EXCEPT ![e] = new]
      BY <2>3
    <3> HIDE DEF new
    <3> QED
      BY <1>f, <1>m, <2>1, <3>2, <3>3
  <2> QED
    BY <1>1, <2>2, <2>3 DEF HostCall
<1>2. CASE HostDone(e)
  <2> DEFINE new == [job[e] EXCEPT !.host = job[e].host - 1]
  <2>1. job[e].host - 1 \in 0 .. MaxHostCalls
    BY <1>2, <1>t DEF HostDone
  <2>2. new \in Job /\ new.pc = job[e].pc
    BY <1>f, <2>1 DEF Job
  <2>3. /\ job' = [job EXCEPT ![e] = new] /\ UNCHANGED worker
        /\ UNCHANGED regVars /\ UNCHANGED <<active, waiters, maxConcurrency>>
        /\ UNCHANGED <<registered, interrupted>>
    BY <1>2 DEF HostDone
  <2> HIDE DEF new
  <2> QED
    BY <1>f, <1>m, <2>2, <2>3
<1>3. CASE LateDone(e)
  <2> DEFINE new == [job[e] EXCEPT !.late = job[e].late - 1]
  <2>1. job[e].late - 1 \in 0 .. MaxHostCalls
    BY <1>3, <1>t DEF LateDone
  <2>2. new \in Job /\ new.pc = job[e].pc
    BY <1>f, <2>1 DEF Job
  <2>3. /\ job' = [job EXCEPT ![e] = new] /\ UNCHANGED worker
        /\ UNCHANGED regVars /\ UNCHANGED <<active, waiters, maxConcurrency>>
        /\ UNCHANGED <<registered, interrupted>>
    BY <1>3 DEF LateDone
  <2> HIDE DEF new
  <2> QED
    BY <1>f, <1>m, <2>2, <2>3
<1>4. CASE Answer(e)
  <2>1. /\ InSlot(e) /\ Goto(e, "settling") /\ UNCHANGED regVars
        /\ UNCHANGED <<active, waiters, maxConcurrency, interrupted>>
        /\ UNCHANGED <<worker, registered>>
    BY <1>4 DEF Answer, InSlot, At
  <2> QED
    BY <1>f, <2>1, Facts, MovesOn
<1>5. CASE WorkerExits(e)
  <2>1. /\ worker' \in [Exec -> {"none", "up", "told", "gone"}] /\ UNCHANGED regVars
        /\ UNCHANGED <<active, waiters, maxConcurrency, interrupted>>
        /\ UNCHANGED registered
    BY <1>5, <1>f DEF WorkerExits
  <2>2. CASE At(e, "running")
    <3>1. InSlot(e) /\ Goto(e, "settling")
      BY <1>5, <2>2 DEF WorkerExits, InSlot, At
    <3> QED
      BY <2>1, <3>1, Facts, MovesOn
  <2>3. CASE ~At(e, "running")
    <3>1. UNCHANGED job
      BY <1>5, <2>3 DEF WorkerExits
    <3> QED
      BY <1>f, <2>1, <3>1, PlaceKept
  <2> QED
    BY <2>2, <2>3
<1>6. CASE Timeout(e)
  <2> DEFINE new == [job[e] EXCEPT !.reason = "timeout"]
  <2>2. new \in Job /\ new.pc = job[e].pc
    BY <1>f DEF Job
  <2>3. /\ job' = [job EXCEPT ![e] = new] /\ worker' = Tell(e)
        /\ UNCHANGED regVars /\ UNCHANGED <<active, waiters, maxConcurrency>>
        /\ UNCHANGED <<registered, interrupted>>
    BY <1>6 DEF Timeout
  <2> HIDE DEF new
  <2> QED
    BY <1>m, <2>2, <2>3, TellType
<1>7. CASE ForceKill(e)
  BY <1>7, <1>f, PlaceKept DEF ForceKill
<1>8. CASE StopCaller(e)
  <2> DEFINE new == [job[e] EXCEPT !.stop = TRUE]
  <2>2. new \in Job /\ new.pc = job[e].pc
    BY <1>f DEF Job
  <2>3. /\ job' = [job EXCEPT ![e] = new] /\ UNCHANGED worker
        /\ UNCHANGED regVars /\ UNCHANGED <<active, waiters, maxConcurrency>>
        /\ UNCHANGED <<registered, interrupted>>
    BY <1>8 DEF StopCaller
  <2> HIDE DEF new
  <2> QED
    BY <1>f, <1>m, <2>2, <2>3
<1> QED
  BY <1>1, <1>2, <1>3, <1>4, <1>5, <1>6, <1>7, <1>8

LEMMA InterruptHolds ==
  ASSUME RunnerInv, InterruptRun
  PROVE  RunnerInv'
<1>1. /\ UNCHANGED regVars /\ UNCHANGED <<active, waiters, maxConcurrency>>
      /\ UNCHANGED <<registered, interrupted>>
  BY DEF InterruptRun
<1> DEFINE found(e) == e \in registered /\ Terminable(e)
           new(e) == IF found(e) THEN [job[e] EXCEPT !.reason = "interrupt"] ELSE job[e]
           told(e) == IF found(e) THEN Tell(e)[e] ELSE worker[e]
<1>2. job' = [e \in Exec |-> new(e)] /\ worker' = [e \in Exec |-> told(e)]
  BY DEF InterruptRun
<1>3. ASSUME NEW e \in Exec
      PROVE  new(e) \in Job /\ new(e).pc = job[e].pc /\ told(e) \in {"none", "up", "told", "gone"}
  <2>1. job[e] \in Job /\ worker[e] \in {"none", "up", "told", "gone"}
    BY Facts
  <2>2. Tell(e)[e] \in {"none", "up", "told", "gone"}
    BY TellType
  <2>3. [job[e] EXCEPT !.reason = "interrupt"] \in Job
        /\ [job[e] EXCEPT !.reason = "interrupt"].pc = job[e].pc
    BY <2>1 DEF Job
  <2> QED
    BY <2>1, <2>2, <2>3
<1> HIDE DEF new, told
<1>4. /\ job' \in [Exec -> Job] /\ \A f \in Exec : job'[f].pc = job[f].pc
      /\ worker' \in [Exec -> {"none", "up", "told", "gone"}]
  BY <1>2, <1>3
<1> QED
  BY <1>1, <1>4, PlaceKept

LEMMA RunnerStep ==
  ASSUME RunnerInv, [Next]_allVars
  PROVE  RunnerInv'
<1>1. ASSUME NEW e \in Exec, NEW s \in Skill, Execute(e, s) PROVE RunnerInv'
  BY <1>1, ExecuteHolds
<1>2. ASSUME NEW e \in Exec, Progress(e) PROVE RunnerInv'
  BY <1>2, ProgressHolds
<1>3. ASSUME NEW e \in Exec,
             \/ HostCall(e) \/ HostDone(e) \/ LateDone(e) \/ Answer(e) \/ WorkerExits(e)
             \/ Timeout(e) \/ ForceKill(e) \/ StopCaller(e)
      PROVE  RunnerInv'
  BY <1>3, WorkerHolds
<1>4. CASE InterruptRun
  BY <1>4, InterruptHolds
<1>s. ASSUME RegInv', UNCHANGED runnerVars \/ MarkInterrupted PROVE RunnerInv'
  <2>1. /\ UNCHANGED <<active, waiters, maxConcurrency>> /\ UNCHANGED <<job, worker, registered>>
        /\ interrupted' \in BOOLEAN
    BY <1>s, Facts DEF runnerVars, MarkInterrupted
  <2>2. \A f \in Exec : (InSlot(f)' <=> InSlot(f)) /\ (At(f, "queued") => At(f, "queued")')
                        /\ (At(f, "running")' => At(f, "running"))
    BY <2>1 DEF InSlot, At
  <2>3. /\ IsFiniteSet(Users') /\ SlotsExact' /\ WaitersQueued'
        /\ active' \in 0 .. maxConcurrency' /\ maxConcurrency' \in 1 .. MaxSlots
        /\ waiters' \in Seq(Exec)
    BY <2>1, <2>2, SlotsStay
  <2>4. \A f \in Exec : At(f, "running")' => f \in registered'
    BY <2>1, <2>2, Facts
  <2> QED
    BY <1>s, <2>1, <2>3, <2>4, Facts, Whole
<1>5. CASE MarkInterrupted
  <2>1. UNCHANGED regVars
    BY <1>5 DEF MarkInterrupted
  <2> QED
    BY <1>5, <1>s, <2>1, RegStays
<1>6. CASE RegNext /\ UNCHANGED runnerVars
  <2>1. RegInv
    BY DEF RunnerInv, TypeOK, RegInv
  <2> QED
    BY <1>6, <1>s, <2>1, RegStep
<1>7. CASE UNCHANGED allVars
  <2>1. UNCHANGED regVars /\ UNCHANGED runnerVars
    BY <1>7 DEF allVars
  <2> QED
    BY <1>s, <2>1, RegStays
<1> QED
  BY <1>1, <1>2, <1>3, <1>4, <1>5, <1>6, <1>7 DEF Next

LEMMA RunnerInit == Init => RunnerInv
<1> SUFFICES ASSUME Init PROVE RunnerInv
  OBVIOUS
<1>1. RegInv
  BY RegInitHolds DEF Init
<1>2. 0 \in 0 .. MaxHostCalls /\ MaxSlots \in Nat
  BY RunnerAssumption
<1>3. NewJob \in Job
  BY <1>2 DEF NewJob, Job
<1>4. /\ job = [e \in Exec |-> NewJob] /\ worker = [e \in Exec |-> "none"]
      /\ active = 0 /\ waiters = <<>> /\ registered = {} /\ interrupted = FALSE
      /\ maxConcurrency \in 1 .. MaxSlots
  BY DEF Init
<1>5. \A e \in Exec : job[e].pc = "idle"
  BY <1>4 DEF NewJob
<1>6. job \in [Exec -> Job]
  BY <1>3, <1>4
<1>a. active \in 0 .. maxConcurrency /\ waiters \in Seq(Exec) /\ registered \subseteq Exec
  BY <1>2, <1>4
<1>b. worker \in [Exec -> {"none", "up", "told", "gone"}]
  BY <1>4
<1>7. TypeOK
  BY <1>1, <1>a, <1>b, <1>4, <1>6 DEF TypeOK, RegInv
<1>8. Users = {}
  BY <1>5 DEF Users, InSlot
<1>9. IsFiniteSet(Users) /\ Cardinality(Users) = 0
  BY <1>8, FS_EmptySet
<1>10. SlotsExact
  BY <1>2, <1>4, <1>9 DEF SlotsExact, Users
<1>11. WaitersQueued /\ WorkersAreInterruptible
  BY <1>4, <1>5 DEF WaitersQueued, WorkersAreInterruptible, At
<1> QED
  BY <1>1, <1>7, <1>9, <1>10, <1>11 DEF RunnerInv, RegInv
-----------------------------------------------------------------------------
(* The inductive invariant of the runner holds in every behaviour.          *)
THEOREM RunnerInvariant == Spec => []RunnerInv
  BY RunnerInit, RunnerStep, PTL DEF Spec

(* Execute, releaseSlot and settle() keep the pool exact on every path in   *)
(* and out of an execution: the counter is the number of executions in a    *)
(* slot, nobody waits while one is free, every working worker is registered *)
(* under its run.                                                           *)
THEOREM PoolStaysExact == Spec => []PoolIsExact
<1>1. RunnerInv => PoolIsExact
  BY DEF RunnerInv, PoolIsExact
<1> QED
  BY <1>1, RunnerInvariant, PTL

(* A reload no call of setEnabled overlaps puts the catalogue and the table *)
(* in step and flips no flag, whatever executions read meanwhile.           *)
THEOREM ReloadsReconcile == Spec => ReloadReconciles
<1> DEFINE InStep ==
      reload.alone =>
        /\ reload.pc # "idle" /\ reload'.pc = "idle" =>
             \A s \in Skill : catalogue'[s] # "absent" => catalogue'[s] = table'[s]
        /\ \A s \in Skill : table[s] # "absent" => table'[s] = table[s] \/ ~reload'.alone
<1>1. ASSUME RunnerInv, [Next]_allVars PROVE [InStep]_regVars
  <2>1. CASE UNCHANGED regVars
    BY <2>1
  <2>2. CASE RegNext
    <3>1. RegInv
      BY <1>1 DEF RunnerInv, TypeOK, RegInv
    <3> QED
      BY <2>2, <3>1, RegReconciles
  <2>3. UNCHANGED regVars \/ RegNext
    BY <1>1 DEF Next, Progress, Execute, CheckRun, LookupSkill, Fork, Cleanup, HostCall,
                HostDone, LateDone, Answer, WorkerExits, Timeout, ForceKill, StopCaller,
                InterruptRun, MarkInterrupted, allVars
  <2> QED
    BY <2>1, <2>2, <2>3
<1> QED
  BY <1>1, RunnerInvariant, PTL DEF Spec, ReloadReconciles
=============================================================================
