---------------------------- MODULE ServiceProofs ----------------------------
(***************************************************************************)
(* Proofs about the services of the daemon that keep a state of their own: *)
(* the model router, the conversation store, the life of the daemon, its   *)
(* workers, the trace writer, the run store, the keys of chat commands,    *)
(* and the ranking of tools.  Each has an inductive invariant.             *)
(***************************************************************************)
EXTENDS RunStateStore, ModelRouter, ConversationStore, DaemonLifecycle, DaemonWorkers,
        TraceWriter, Idempotency, ToolCatalog, SequenceTheorems, FiniteSetTheorems, TLAPS

-----------------------------------------------------------------------------
(* The model router: whoever the router hears, a caller hears one provider. *)

(* A request that is not refused has a provider to try, and only known ones. *)
LEMMA ProvidersExist ==
  ASSUME NEW modelId \in Models \cup {"any"}, seedReady \in BOOLEAN, fallback \in BOOLEAN,
         modelId = "seed" => seedReady
  PROVE  ProvidersToTry(modelId) \in Seq(Provider) /\ ProvidersToTry(modelId) # <<>>
<1> DEFINE first == IF seedReady /\ modelId \in {"any", "seed"} THEN <<"seed">> ELSE <<>>
           second == IF modelId \in {"any", "dp"} THEN <<"dp">> ELSE <<>>
           third == IF fallback THEN <<"fallback">> ELSE <<>>
<1>1. first \in Seq(Provider) /\ second \in Seq(Provider) /\ third \in Seq(Provider)
  <2>1. <<"seed">> \in Seq(Provider) /\ <<"dp">> \in Seq(Provider) /\ <<"fallback">> \in Seq(Provider)
    BY DEF Provider, Models
  <2>2. <<>> \in Seq(Provider)
    OBVIOUS
  <2> QED
    BY <2>1, <2>2
<1>2. Len(first) + Len(second) >= 1
  BY DEF Models
<1>3. /\ first \o second \in Seq(Provider) /\ Len(first \o second) = Len(first) + Len(second)
  BY <1>1, ConcatProperties
<1>4. /\ (first \o second) \o third \in Seq(Provider)
      /\ Len((first \o second) \o third) = Len(first \o second) + Len(third)
  <2> HIDE DEF first, second, third
  <2> QED BY <1>1, <1>3, ConcatProperties
<1>5. Len(third) >= 0
  BY <1>1
<1>6. ProvidersToTry(modelId) = (first \o second) \o third
  BY DEF ProvidersToTry
<1> HIDE DEF first, second, third
<1>7. Len((first \o second) \o third) >= 1
  BY <1>1, <1>2, <1>3, <1>4, <1>5
<1> QED
  BY <1>4, <1>6, <1>7, EmptySeq

(* While there is more than one provider to try, one remains after the next. *)
LEMMA LongIsNotEmpty ==
  ASSUME NEW S, NEW s \in Seq(S), Len(s) > 0
  PROVE  s # <<>>
OBVIOUS

LEMMA OthersRemain ==
  ASSUME NEW S, NEW s \in Seq(S), Len(s) > 1
  PROVE  Tail(s) \in Seq(S) /\ Tail(s) # <<>>
<1>1. s # <<>>
  OBVIOUS
<1>2. Tail(s) \in Seq(S) /\ Len(Tail(s)) = Len(s) - 1
  BY <1>1, HeadTailProperties
<1>3. Len(Tail(s)) > 0
  BY <1>2
<1> QED
  BY <1>2, <1>3, LongIsNotEmpty

(* What a delta, the end of the stream or an error finds when the generator *)
(* goes on: the same call, which has noticed what it gave.                  *)
LEMMA ResumedCall ==
  ASSUME NEW k \in RouterCall, CallInv(k)
  PROVE  /\ Resumed(k) \in RouterCall /\ CallInv(Resumed(k))
         /\ Resumed(k).emittedAny = k.given
         /\ Resumed(k).at = k.at /\ Resumed(k).todo = k.todo /\ Resumed(k).given = k.given
         /\ Resumed(k).voices = k.voices /\ Resumed(k).deltas = k.deltas
         /\ Resumed(k).terminal = k.terminal /\ Resumed(k).aborted = k.aborted
         /\ Resumed(k).request = k.request
  BY DEF Resumed, RouterCall, CallInv

LEMMA RestartedCall ==
  ASSUME NEW k \in RouterCall, k.todo # <<>>, k.voices = {}
  PROVE  /\ Restarted(k) \in RouterCall /\ CallInv(Restarted(k))
         /\ Restarted(k).at = "connecting"
<1>1. /\ Restarted(k).at = "connecting" /\ Restarted(k).request = k.request
      /\ Restarted(k).todo = k.todo /\ ~Restarted(k).emittedAny /\ ~Restarted(k).given
      /\ Restarted(k).deltas = 0 /\ ~Restarted(k).terminal
      /\ Restarted(k).aborted = k.aborted /\ Restarted(k).voices = {}
  BY DEF Restarted, RouterCall
<1>2. Restarted(k) \in RouterCall
  <2> DEFINE m == [k EXCEPT !.at = "connecting", !.emittedAny = FALSE, !.given = FALSE]
  <2>1. m \in RouterCall
    BY DEF RouterCall
  <2>2. [m EXCEPT !.deltas = 0, !.terminal = FALSE] \in RouterCall
    <3> HIDE DEF m
    <3>1. 0 \in 0 .. MaxDelta
      BY RouterLimits
    <3> QED
      BY <2>1, <3>1 DEF RouterCall
  <2>3. Restarted(k) = [m EXCEPT !.deltas = 0, !.terminal = FALSE]
    BY DEF Restarted
  <2> QED
    BY <2>2, <2>3
<1> QED
  BY <1>1, <1>2 DEF CallInv

LEMMA IdleCallOK == IdleCall \in RouterCall /\ CallInv(IdleCall)
<1>1. {} \subseteq Provider /\ <<>> \in Seq(Provider) /\ 0 \in 0 .. MaxDelta
  BY RouterLimits
<1>2. [modelId |-> "any", signal |-> FALSE] \in Requests
  BY DEF Requests
<1>3. IdleCall \in RouterCall
  BY <1>1, <1>2 DEF IdleCall, RouterCall
<1> QED
  BY <1>3 DEF IdleCall, CallInv

(* One step of one call keeps the call in order; whether it is one of the   *)
(* two recorded endings tells whether it was recorded.                      *)
LEMMA CallStepKeeps ==
  ASSUME RouterInv, NEW c \in Call, CallStep(c)
  PROVE  /\ calls' = [calls EXCEPT ![c] = calls'[c]]
         /\ calls'[c] \in RouterCall /\ CallInv(calls'[c])
         /\ \/ Unrecorded /\ calls[c].at \notin {"done", "failed"}
                          /\ calls'[c].at \notin {"done", "failed"}
            \/ Record(c) /\ calls[c].at \notin {"done", "failed"}
                         /\ calls'[c].at \in {"done", "failed"}
<1> DEFINE k == calls[c]
<1>t. k \in RouterCall /\ CallInv(k) /\ calls \in [Call -> RouterCall]
  BY DEF RouterInv, RouterTypeOK
<1>p. CASE StreamChat(c)
  <2>1. PICK r \in Requests : calls' = [calls EXCEPT ![c] =
         IF r.modelId = "seed" /\ ~seedReady
           THEN [IdleCall EXCEPT !.at = "refused", !.request = r]
           ELSE Restarted([IdleCall EXCEPT !.request = r, !.todo = ProvidersToTry(r.modelId)])]
    BY <1>p DEF StreamChat
  <2>2. CASE r.modelId = "seed" /\ ~seedReady
    <3>1. calls'[c] = [IdleCall EXCEPT !.at = "refused", !.request = r]
      BY <2>1, <2>2, <1>t
    <3>2. calls'[c] \in RouterCall /\ CallInv(calls'[c]) /\ calls'[c].at = "refused"
      <4>1. IdleCall \in RouterCall /\ CallInv(IdleCall)
        BY IdleCallOK
      <4> QED
        BY <3>1, <4>1, ZenonT(40) DEF RouterCall, CallInv, IdleCall
    <3> QED
      BY <1>p, <2>1, <2>2, <3>1, <3>2, <1>t DEF StreamChat
  <2>3. CASE ~(r.modelId = "seed" /\ ~seedReady)
    <3> DEFINE n == [IdleCall EXCEPT !.request = r, !.todo = ProvidersToTry(r.modelId)]
    <3>1. calls'[c] = Restarted(n)
      BY <2>1, <2>3, <1>t
    <3>2. ProvidersToTry(r.modelId) \in Seq(Provider) /\ ProvidersToTry(r.modelId) # <<>>
      BY <2>3, ProvidersExist DEF Requests, RouterInv, RouterTypeOK
    <3>3. n \in RouterCall /\ n.todo # <<>> /\ n.voices = {}
      <4>1. IdleCall \in RouterCall /\ IdleCall.voices = {}
        BY IdleCallOK DEF IdleCall
      <4> QED
        BY <3>2, <4>1 DEF RouterCall
    <3> HIDE DEF n
    <3>4. calls'[c] \in RouterCall /\ CallInv(calls'[c]) /\ calls'[c].at = "connecting"
      BY <3>1, <3>3, RestartedCall
    <3> QED
      BY <1>p, <2>1, <2>3, <3>4, <1>t DEF StreamChat
  <2> QED
    BY <2>2, <2>3
<1>c. CASE Connected(c)
  BY <1>c, <1>t DEF Connected, RouterCall, CallInv
<1>d. CASE Delta(c)
  <2> DEFINE n == Resumed(k)
  <2>1. /\ k.at = "reading" /\ k.deltas < MaxDelta
        /\ Unrecorded
    BY <1>d DEF Delta
  <2>2. PICK finish \in BOOLEAN : calls' = [calls EXCEPT ![c] = Handed(k, finish)]
    BY <1>d, <1>t DEF Delta
  <2>3. k.todo \in Seq(Provider) /\ k.todo # <<>> /\ Head(k.todo) \in Provider
    BY <2>1, <1>t DEF RouterCall, CallInv
  <2>4. calls'[c] = Handed(k, finish)
    BY <2>2, <1>t
  <2>5. /\ n \in RouterCall /\ CallInv(n) /\ n.at = "reading" /\ n.deltas < MaxDelta
        /\ n.todo = k.todo
    BY <2>1, <1>t, ResumedCall
  <2> HIDE DEF n
  <2>6. n.deltas + 1 \in 0 .. MaxDelta
    BY <2>5, RouterLimits DEF RouterCall
  <2>7. n.voices \cup {Head(k.todo)} \subseteq Provider /\ n.terminal \in BOOLEAN
    BY <2>3, <2>5 DEF RouterCall
  <2>8. Handed(k, finish) \in RouterCall
    <3>1. Handed(k, finish) = [n EXCEPT !.given = TRUE, !.deltas = n.deltas + 1,
                                 !.terminal = (n.terminal \/ finish),
                                 !.voices = n.voices \cup {Head(k.todo)}]
      BY <2>5 DEF Handed, RouterCall, n
    <3> QED
      BY <2>5, <2>6, <2>7, <3>1 DEF RouterCall
  <2>9. /\ Handed(k, finish).at = "reading" /\ Handed(k, finish).todo = k.todo /\ Handed(k, finish).given
        /\ Handed(k, finish).voices = n.voices \cup {Head(k.todo)}
    BY <2>5 DEF RouterCall, Handed, n
  <2>10. n.voices \subseteq {Head(k.todo)}
    BY <2>5 DEF CallInv
  <2>11. CallInv(Handed(k, finish))
    BY <2>3, <2>9, <2>10 DEF CallInv
  <2> QED
    BY <2>1, <2>2, <2>4, <2>8, <2>9, <2>11
<1>e. CASE StreamEnds(c)
  <2>1. k.at = "reading" /\ Record(c)
    BY <1>e DEF StreamEnds
  <2>2. calls' = [calls EXCEPT ![c] = [Resumed(k) EXCEPT !.terminal = TRUE, !.at = "done"]]
    BY <1>e DEF StreamEnds
  <2>3. calls'[c] \in RouterCall /\ CallInv(calls'[c]) /\ calls'[c].at = "done"
    <3> DEFINE n == Resumed(k)
    <3>1. n \in RouterCall /\ CallInv(n) /\ n.at = "reading"
      BY <2>1, <1>t, ResumedCall
    <3>2. calls'[c] = [n EXCEPT !.terminal = TRUE, !.at = "done"]
      BY <2>2, <1>t
    <3> HIDE DEF n
    <3> QED
      BY <3>1, <3>2 DEF RouterCall, CallInv
  <2> QED
    BY <2>1, <2>2, <2>3, <1>t
<1>f. CASE Fails(c)
  <2> DEFINE n == Resumed(k)
  <2>1. /\ n \in RouterCall /\ CallInv(n) /\ n.at = k.at /\ n.emittedAny = n.given
        /\ n.at \in {"connecting", "reading"} /\ n.todo # <<>>
    BY <1>f, <1>t, ResumedCall DEF Fails, CallInv
  <2>2. \/ calls' = [calls EXCEPT ![c] = [n EXCEPT !.at = "aborted"]] /\ Unrecorded
        \/ calls' = [calls EXCEPT ![c] = [n EXCEPT !.at = "partial"]] /\ Unrecorded
        \/ /\ ~n.emittedAny /\ Len(n.todo) > 1 /\ Unrecorded
           /\ calls' = [calls EXCEPT ![c] = Restarted([n EXCEPT !.todo = Tail(n.todo)])]
        \/ /\ ~n.emittedAny /\ Len(n.todo) = 1 /\ Record(c)
           /\ calls' = [calls EXCEPT ![c] = [n EXCEPT !.at = "failed"]]
    BY <1>f DEF Fails
  <2> HIDE DEF n
  <2>3. ASSUME NEW how \in {"aborted", "partial"},
               calls' = [calls EXCEPT ![c] = [n EXCEPT !.at = how]]
        PROVE  calls'[c] \in RouterCall /\ CallInv(calls'[c]) /\ calls'[c].at = how
    BY <2>1, <2>3, <1>t DEF RouterCall, CallInv
  <2>4. ASSUME ~n.emittedAny, Len(n.todo) > 1,
               calls' = [calls EXCEPT ![c] = Restarted([n EXCEPT !.todo = Tail(n.todo)])]
        PROVE  calls'[c] \in RouterCall /\ CallInv(calls'[c]) /\ calls'[c].at = "connecting"
    <3> DEFINE m == [n EXCEPT !.todo = Tail(n.todo)]
    <3>1. Tail(n.todo) \in Seq(Provider) /\ Tail(n.todo) # <<>>
      <4>1. n.todo \in Seq(Provider)
        BY <2>1 DEF RouterCall
      <4> QED
        BY <2>4, <4>1, OthersRemain
    <3>2. m \in RouterCall /\ m.todo # <<>> /\ m.voices = {}
      BY <2>1, <2>4, <3>1 DEF RouterCall, CallInv
    <3>3. calls'[c] = Restarted(m)
      BY <2>4, <1>t
    <3> HIDE DEF m
    <3> QED
      BY <3>2, <3>3, RestartedCall
  <2>5. ASSUME ~n.emittedAny, Len(n.todo) = 1,
               calls' = [calls EXCEPT ![c] = [n EXCEPT !.at = "failed"]]
        PROVE  calls'[c] \in RouterCall /\ CallInv(calls'[c]) /\ calls'[c].at = "failed"
    BY <2>1, <2>5, <1>t DEF RouterCall, CallInv
  <2> QED
    BY <2>1, <2>2, <2>3, <2>4, <2>5, <1>t
<1>a. CASE Abort(c)
  BY <1>a, <1>t DEF Abort, RouterCall, CallInv
<1>l. CASE CallerLeaves(c)
  BY <1>l, <1>t DEF CallerLeaves, RouterCall, CallInv
<1> QED
  BY <1>p, <1>c, <1>d, <1>e, <1>f, <1>a, <1>l DEF CallStep

(* A call that is recorded joins the records once.                          *)
LEMMA RecordKeeps ==
  ASSUME RouterInv, NEW c \in Call, CallStep(c)
  PROVE  RecordInv' /\ callRecords' \in Seq(Call) /\ saving' \subseteq Call
<1>1. /\ \A d \in Call : d # c => calls'[d] = calls[d]
      /\ \/ Unrecorded /\ c \notin Recorded /\ c \notin Recorded'
         \/ Record(c) /\ c \notin Recorded /\ c \in Recorded'
  BY CallStepKeeps DEF RouterInv, RouterTypeOK, Recorded
<1>2. UNCHANGED <<saved, persistFailures>>
  BY DEF CallStep
<1>3. CASE Unrecorded
  <2>1. Recorded' = Recorded \/ Recorded' = Recorded \cup {c}
    BY <1>1 DEF Recorded
  <2>2. CASE Recorded' = Recorded
    BY <1>2, <1>3, <2>2 DEF Unrecorded, RouterInv, RouterTypeOK, RecordInv
  <2>3. CASE Recorded' = Recorded \cup {c} /\ Record(c) /\ c \notin Recorded
    BY <1>3, <2>3 DEF Unrecorded, Record, RouterInv, RecordInv
  <2> QED
    BY <1>1, <2>1, <2>2, <2>3
<1>4. CASE Record(c) /\ c \notin Recorded /\ c \in Recorded'
  <2>1. Recorded' = Recorded \cup {c}
    BY <1>1, <1>4 DEF Recorded
  <2>2. /\ IsFiniteSet(Recorded') /\ Cardinality(Recorded') = Cardinality(Recorded) + 1
        /\ IsFiniteSet(saving') /\ Cardinality(saving') = Cardinality(saving) + 1
    BY <1>4, <2>1, FS_AddElement DEF Record, RouterInv, RecordInv
  <2>3. /\ Cardinality(saving) \in Nat /\ Cardinality(saved) \in Nat
        /\ Cardinality(Recorded) \in Nat /\ persistFailures \in Nat
    BY FS_CardinalityType DEF RouterInv, RecordInv, RouterTypeOK
  <2>4. /\ callRecords' \in Seq(Call) /\ Len(callRecords') <= RecordCap
        /\ \A i \in DOMAIN callRecords' : callRecords'[i] \in Recorded \cup {c}
    <3> DEFINE all == Append(callRecords, c)
    <3>1. /\ all \in Seq(Call) /\ Len(all) = Len(callRecords) + 1
          /\ \A i \in 1 .. Len(all) : all[i] \in Recorded \cup {c}
          /\ Len(callRecords) \in Nat /\ Len(callRecords) <= RecordCap
      BY DEF RouterInv, RouterTypeOK, RecordInv
    <3>2. callRecords' = IF Len(all) > RecordCap THEN Tail(all) ELSE all
      BY <1>4 DEF Record
    <3> HIDE DEF all
    <3>3. /\ Tail(all) \in Seq(Call) /\ Len(Tail(all)) = Len(all) - 1
          /\ \A i \in 1 .. Len(Tail(all)) : Tail(all)[i] = all[i + 1]
      BY <3>1
    <3>4. DOMAIN all = 1 .. Len(all) /\ DOMAIN Tail(all) = 1 .. Len(Tail(all))
      BY <3>1, <3>3
    <3> QED
      BY <3>1, <3>2, <3>3, <3>4, RouterLimits
  <2>5. /\ saving' \cup saved' \subseteq Recorded' /\ saving' \cap saved' = {}
        /\ saving' \subseteq Call /\ IsFiniteSet(saved')
    BY <1>2, <1>4, <2>1 DEF Record, RouterInv, RouterTypeOK, RecordInv
  <2>6. Cardinality(saving') + Cardinality(saved') + persistFailures' = Cardinality(Recorded')
    BY <1>2, <2>2, <2>3 DEF RouterInv, RecordInv
  <2> QED
    BY <2>1, <2>2, <2>4, <2>5, <2>6 DEF RecordInv
<1> QED
  BY <1>1, <1>3, <1>4

(* The row of a record is written or counted as a failure, once.            *)
LEMMA PersistedKeeps ==
  ASSUME RouterInv, NEW c \in Call, NEW ok \in BOOLEAN, Persisted(c, ok)
  PROVE  RecordInv' /\ saving' \subseteq Call /\ saved' \subseteq Call
         /\ persistFailures' \in Nat
<1>1. /\ c \in saving /\ c \notin saved /\ saving' = saving \ {c} /\ UNCHANGED <<calls, callRecords>>
  BY DEF Persisted, RouterInv, RecordInv
<1>2. Recorded' = Recorded
  BY <1>1 DEF Recorded
<1>3. IsFiniteSet(saving') /\ Cardinality(saving') = Cardinality(saving) - 1
  BY <1>1, FS_RemoveElement DEF RouterInv, RecordInv
<1>4. /\ Cardinality(saving) \in Nat /\ Cardinality(saved) \in Nat
      /\ Cardinality(Recorded) \in Nat /\ persistFailures \in Nat
  BY FS_CardinalityType DEF RouterInv, RecordInv, RouterTypeOK
<1>5. \/ saved' = saved \cup {c} /\ persistFailures' = persistFailures
      \/ saved' = saved /\ persistFailures' = persistFailures + 1
  BY DEF Persisted
<1>6. IsFiniteSet(saved \cup {c}) /\ Cardinality(saved \cup {c}) = Cardinality(saved) + 1
  BY <1>1, FS_AddElement DEF RouterInv, RecordInv
<1>7. Cardinality(saving') + Cardinality(saved') + persistFailures' = Cardinality(Recorded')
  <2>1. Cardinality(saving) + Cardinality(saved) + persistFailures = Cardinality(Recorded)
    BY DEF RouterInv, RecordInv
  <2>2. CASE saved' = saved \cup {c} /\ persistFailures' = persistFailures
    BY <1>2, <1>3, <1>4, <1>6, <2>1, <2>2
  <2>3. CASE saved' = saved /\ persistFailures' = persistFailures + 1
    BY <1>2, <1>3, <1>4, <2>1, <2>3
  <2> QED
    BY <1>5, <2>2, <2>3
<1>8. /\ saving' \cup saved' \subseteq Recorded' /\ saving' \cap saved' = {}
      /\ saving' \subseteq Call /\ saved' \subseteq Call
  BY <1>1, <1>2, <1>5 DEF RouterInv, RouterTypeOK, RecordInv
<1>9. IsFiniteSet(saved') /\ IsFiniteSet(Recorded') /\ persistFailures' \in Nat
  <2>1. IsFiniteSet(saved) /\ IsFiniteSet(Recorded)
    BY DEF RouterInv, RecordInv
  <2>2. IsFiniteSet(saved')
    BY <1>5, <1>6, <2>1
  <2>3. persistFailures' \in Nat
    BY <1>4, <1>5
  <2> QED
    BY <1>2, <2>1, <2>2, <2>3
<1>10. (\A i \in DOMAIN callRecords' : callRecords'[i] \in Recorded') /\ Len(callRecords') <= RecordCap
  BY <1>1, <1>2 DEF RouterInv, RecordInv
<1> QED
  BY <1>3, <1>7, <1>8, <1>9, <1>10 DEF RecordInv

(* RouterInv holds in every reachable state.                                *)
THEOREM RouterInvariant == RouterSpec => []RouterInv
<1>1. RouterInit => RouterInv
  <2> SUFFICES ASSUME RouterInit PROVE RouterInv
    OBVIOUS
  <2>1. IdleCall \in RouterCall /\ CallInv(IdleCall)
    BY RouterLimits DEF IdleCall, RouterCall, CallInv, Requests
  <2>2. \A c \in Call : calls[c] = IdleCall
    BY DEF RouterInit
  <2>3. Recorded = {}
    BY <2>2 DEF Recorded, IdleCall
  <2>4. RouterTypeOK
    BY <2>1 DEF RouterInit, RouterTypeOK
  <2>5. RecordInv
    BY <2>3, FS_EmptySet, RouterLimits DEF RouterInit, RecordInv
  <2> QED
    BY <2>1, <2>2, <2>4, <2>5 DEF RouterInv
<1>2. RouterInv /\ [RouterNext]_routerVars => RouterInv'
  <2> SUFFICES ASSUME RouterInv, [RouterNext]_routerVars PROVE RouterInv'
    OBVIOUS
  <2>1. CASE UNCHANGED routerVars
    BY <2>1 DEF routerVars, RouterInv, RouterTypeOK, RecordInv, Recorded
  <2>2. ASSUME NEW c \in Call, CallStep(c), UNCHANGED <<seedReady, fallback>>
        PROVE  RouterInv'
    <3>1. calls' \in [Call -> RouterCall] /\ \A d \in Call : CallInv(calls'[d])
      BY <2>2, CallStepKeeps DEF RouterInv, RouterTypeOK
    <3>2. UNCHANGED <<saved, persistFailures>>
      BY <2>2 DEF CallStep
    <3> QED
      BY <2>2, <3>1, <3>2, RecordKeeps DEF RouterInv, RouterTypeOK
  <2>3. ASSUME NEW c \in Call, NEW ok \in BOOLEAN, Persisted(c, ok),
               UNCHANGED <<seedReady, fallback>>
        PROVE  RouterInv'
    <3>1. UNCHANGED <<calls, callRecords>>
      BY <2>3 DEF Persisted
    <3> QED
      BY <2>3, <3>1, PersistedKeeps DEF RouterInv, RouterTypeOK
  <2> QED
    BY <2>1, <2>2, <2>3 DEF RouterNext
<1> QED
  BY <1>1, <1>2, PTL DEF RouterSpec

(* What a caller is given comes from one provider, an answer it takes for   *)
(* whole ended with its terminal, and every call that ended is recorded     *)
(* once (streamChat, emittedAny, recordCall).                               *)
THEOREM CallersHearOneVoice == RouterSpec => []OneVoice
<1>1. RouterInv => OneVoice
  <2> SUFFICES ASSUME RouterInv, NEW c \in Call
               PROVE  LET k == calls[c] IN
                      /\ Cardinality(k.voices) <= 1
                      /\ k.at = "done" => k.terminal /\ k.voices \subseteq {Head(k.todo)}
                      /\ k.at = "failed" => k.voices = {} /\ Len(k.todo) = 1
                      /\ k.at \notin {"done", "failed"} =>
                           /\ c \notin saving \cup saved
                           /\ \A i \in DOMAIN callRecords : callRecords[i] # c
                      /\ Cardinality(saving) + Cardinality(saved) + persistFailures
                           = Cardinality(Recorded)
                      /\ Len(callRecords) <= RecordCap
    BY DEF OneVoice, Recorded
  <2>1. CallInv(calls[c])
    BY DEF RouterInv
  <2>2. Cardinality(calls[c].voices) <= 1
    <3>1. CASE calls[c].given
      <4>1. calls[c].voices = {Head(calls[c].todo)}
        BY <2>1, <3>1 DEF CallInv
      <4>2. Cardinality(calls[c].voices) = 1
        BY <4>1, FS_Singleton
      <4> QED
        BY <4>2
    <3>2. CASE ~calls[c].given
      BY <2>1, <3>2, FS_EmptySet DEF CallInv
    <3> QED
      BY <3>1, <3>2
  <2> QED
    BY <2>1, <2>2 DEF RouterInv, RecordInv, CallInv, Recorded
<1> QED
  BY RouterInvariant, <1>1, PTL

-----------------------------------------------------------------------------
(* The conversation store: rows under a conversation, and what a page shows of them.*)

LEMMA ChatsInitOK == StoreInit => ChatsInv
<1> SUFFICES ASSUME StoreInit PROVE ChatsInv
  OBVIOUS
<1>1. ChatsTypeOK
  BY FS_EmptySet, ConversationAssumption DEF StoreInit, ChatsTypeOK, Named, Shown, Kept
<1>2. LocksExclude
  BY DEF StoreInit, LocksExclude, KeyShared, ForUpdate
<1>3. DeletesAreClean /\ ListedWasBorn /\ RowsHaveTheirChat
  BY DEF StoreInit, DeletesAreClean, ListedWasBorn, RowsHaveTheirChat, Kept
<1> QED
  BY <1>1, <1>2, <1>3 DEF ChatsInv

(* A step of the handlers that start runs.                                  *)
LEMMA StarterKeeps ==
  ASSUME ChatsInv, NEW r \in NewRun,
         \/ \E c \in Chat : AskRun(r, c)
         \/ \E s \in NewRun : RetryIn(r, s)
         \/ CheckChat(r) \/ InsertRun(r) \/ CommitRun(r) \/ SaveMessage(r) \/ EndRun(r)
  PROVE  ChatsInv'
<1> USE DEF onStart
<1>i. ChatsTypeOK /\ LocksExclude /\ DeletesAreClean /\ ListedWasBorn /\ RowsHaveTheirChat
  BY DEF ChatsInv
<1>o. UNCHANGED <<beingIn, recent, dropped, asked, patches, remover>>
  BY DEF AskRun, RetryIn, CheckChat, InsertRun, CommitRun, SaveMessage, EndRun
<1>1. ASSUME NEW c \in Chat, AskRun(r, c) PROVE ChatsInv'
  <2>1. /\ starter[r].pc = "idle"
        /\ starter' = [starter EXCEPT ![r] = [pc |-> "checked", chat |-> c]]
        /\ UNCHANGED <<runRow, message>>
        /\ chat[c] \in {"plain", "pinned", "unborn"} /\ chat'[c] # "unborn"
        /\ \A b \in Chat : b # c \/ chat[c] # "unborn" => chat'[b] = chat[b]
        /\ chat' \in [Chat -> {"unborn", "plain", "pinned", "deleted"}]
        /\ chat'[c] \in {"plain", "pinned"}
    BY <1>1, <1>i DEF AskRun, ChatsTypeOK, Kept
  <2>2. ChatsTypeOK'
    BY <2>1, <1>i, <1>o DEF ChatsTypeOK, Named
  <2>3. \A b \in Chat : /\ Kept(b) => Kept(b)'
                        /\ chat[b] = "deleted" => chat'[b] = "deleted"
                        /\ chat[b] # "unborn" => chat'[b] # "unborn"
    BY <2>1, <1>i DEF Kept, ChatsTypeOK
  <2>4. /\ starter'[r] = [pc |-> "checked", chat |-> c]
        /\ \A s \in NewRun : s # r => starter'[s] = starter[s]
    BY <2>1, <1>i DEF ChatsTypeOK
  <2>5. LocksExclude'
    BY <2>4, <1>i, <1>o DEF LocksExclude, KeyShared, ForUpdate
  <2>6. DeletesAreClean'
    BY <2>1, <2>3, <2>4, <1>i, <1>o DEF DeletesAreClean, LocksExclude, ActiveIn
  <2>7. ListedWasBorn'
    BY <2>3, <1>i, <1>o DEF ListedWasBorn, ChatsTypeOK
  <2>8. RowsHaveTheirChat'
    <3>1. r \notin message
      BY <2>1, <1>i DEF DeletesAreClean
    <3>2. \A s \in NewRun : starter[s].pc = "done" => starter[s].chat \in Chat
      BY <1>i DEF LocksExclude
    <3> QED
      BY <2>1, <2>3, <2>4, <3>1, <3>2, <1>i, <1>o
         DEF RowsHaveTheirChat, ChatsTypeOK, DeletesAreClean, Named
  <2> QED
    BY <2>2, <2>5, <2>6, <2>7, <2>8 DEF ChatsInv
<1>k. ASSUME UNCHANGED chat PROVE ListedWasBorn' /\ \A b : Kept(b)' <=> Kept(b)
  BY <1>k, <1>i, <1>o DEF ListedWasBorn, Kept
<1>2. ASSUME NEW s \in NewRun, RetryIn(r, s) PROVE ChatsInv'
  <2>1. /\ starter[r].pc = "idle" /\ runRow[s].chat \in Chat
        /\ starter' = [starter EXCEPT ![r] = [pc |-> "named", chat |-> runRow[s].chat]]
        /\ UNCHANGED <<chat, runRow, message>>
    BY <1>2, <1>i DEF RetryIn, ChatsTypeOK, Named
  <2>2. ChatsTypeOK'
    BY <2>1, <1>i, <1>o DEF ChatsTypeOK, Named
  <2>4. /\ starter'[r] = [pc |-> "named", chat |-> runRow[s].chat]
        /\ \A t \in NewRun : t # r => starter'[t] = starter[t]
    BY <2>1, <1>i DEF ChatsTypeOK
  <2>5. LocksExclude'
    BY <2>1, <2>4, <1>i, <1>o DEF LocksExclude, KeyShared, ForUpdate
  <2>6. DeletesAreClean'
    BY <2>1, <2>4, <1>i, <1>k, <1>o DEF DeletesAreClean, ActiveIn
  <2>8. RowsHaveTheirChat'
    BY <2>1, <2>4, <1>i, <1>k, <1>o DEF RowsHaveTheirChat, DeletesAreClean, ChatsTypeOK
  <2> QED
    BY <2>1, <2>2, <2>5, <2>6, <1>k, <2>8 DEF ChatsInv
<1>3. CASE CheckChat(r)
  <2>1. PICK to \in {"checked", "refused"} :
          starter[r].pc = "named" /\ starter' = [starter EXCEPT ![r].pc = to]
    BY <1>3 DEF CheckChat, StarterAt
  <2>2. UNCHANGED <<chat, runRow, message>>
    BY <1>3 DEF CheckChat
  <2>3. ChatsTypeOK'
    BY <2>1, <2>2, <1>i, <1>o DEF ChatsTypeOK
  <2>4. /\ starter'[r] = [starter[r] EXCEPT !.pc = to]
        /\ starter'[r].pc = to /\ starter'[r].chat = starter[r].chat
        /\ \A t \in NewRun : t # r => starter'[t] = starter[t]
    BY <2>1, <1>i DEF ChatsTypeOK
  <2>5. LocksExclude'
    BY <2>1, <2>4, <1>i, <1>o DEF LocksExclude, KeyShared, ForUpdate
  <2>6. DeletesAreClean'
    BY <2>1, <2>2, <2>4, <1>i, <1>k, <1>o DEF DeletesAreClean, ActiveIn
  <2>8. RowsHaveTheirChat'
    BY <2>1, <2>2, <2>4, <1>i, <1>k, <1>o DEF RowsHaveTheirChat, DeletesAreClean, ChatsTypeOK
  <2> QED
    BY <2>2, <2>3, <2>5, <2>6, <1>k, <2>8 DEF ChatsInv
<1>4. CASE InsertRun(r)
  <2>1. /\ starter[r].pc = "checked" /\ ~ForUpdate(starter[r].chat)
        /\ starter' = [starter EXCEPT ![r].pc =
                         IF Kept(starter[r].chat) THEN "inserted" ELSE "refused"]
        /\ UNCHANGED <<chat, runRow, message>>
    BY <1>4 DEF InsertRun, StarterAt
  <2>3. ChatsTypeOK'
    BY <2>1, <1>i, <1>o DEF ChatsTypeOK
  <2>4. /\ starter'[r].pc \in {"inserted", "refused"} /\ starter'[r].chat = starter[r].chat
        /\ starter'[r].pc = "inserted" => Kept(starter[r].chat)
        /\ \A t \in NewRun : t # r => starter'[t] = starter[t]
    BY <2>1, <1>i DEF ChatsTypeOK
  <2>5. LocksExclude'
    BY <2>1, <2>4, <1>i, <1>o DEF LocksExclude, KeyShared, ForUpdate
  <2>6. DeletesAreClean'
    BY <2>1, <2>4, <1>i, <1>k, <1>o DEF DeletesAreClean, ActiveIn
  <2>8. RowsHaveTheirChat'
    BY <2>1, <2>4, <1>i, <1>k, <1>o DEF RowsHaveTheirChat, DeletesAreClean, ChatsTypeOK
  <2> QED
    BY <2>1, <2>3, <2>5, <2>6, <1>k, <2>8 DEF ChatsInv
<1>5. CASE CommitRun(r)
  <2>1. /\ starter[r].pc = "inserted"
        /\ starter' = [starter EXCEPT ![r].pc = "created"]
        /\ runRow' = [runRow EXCEPT ![r] = [state |-> "active", chat |-> starter[r].chat]]
        /\ UNCHANGED <<chat, message>>
    BY <1>5 DEF CommitRun, StarterAt
  <2>2. starter[r].chat \in Chat /\ Kept(starter[r].chat) /\ ~ForUpdate(starter[r].chat)
    <3>1. starter[r] = [pc |-> "inserted", chat |-> starter[r].chat]
      BY <2>1, <1>i DEF ChatsTypeOK
    <3>2. KeyShared(starter[r].chat)
      BY <3>1 DEF KeyShared
    <3> QED
      BY <2>1, <3>2, <1>i DEF LocksExclude, DeletesAreClean
  <2>3. ChatsTypeOK'
    BY <2>1, <2>2, <1>i, <1>o, SMTT(30) DEF ChatsTypeOK, Named
  <2>4. /\ starter'[r].pc = "created" /\ starter'[r].chat = starter[r].chat
        /\ \A t \in NewRun : t # r => starter'[t] = starter[t] /\ runRow'[t] = runRow[t]
        /\ runRow'[r] = [state |-> "active", chat |-> starter[r].chat]
    BY <2>1, <1>i DEF ChatsTypeOK
  <2>5. LocksExclude'
    BY <2>1, <2>4, <1>i, <1>o DEF LocksExclude, KeyShared, ForUpdate
  <2>6. DeletesAreClean'
    <3>1. ASSUME NEW d \in Remover, remover[d].pc = "counted"
          PROVE  ActiveIn(remover[d].chat)' = {}
      <4>1. remover[d].chat # starter[r].chat
        BY <2>2, <3>1 DEF ForUpdate
      <4>2. ActiveIn(remover[d].chat) = {}
        BY <3>1, <1>i DEF DeletesAreClean
      <4> QED
        BY <4>1, <4>2, <2>4, <1>o DEF ActiveIn
    <3> QED
      BY <2>1, <2>4, <3>1, <1>i, <1>k, <1>o, SMTT(30) DEF DeletesAreClean
  <2>8. RowsHaveTheirChat'
    BY <2>1, <2>2, <2>4, <1>i, <1>k, <1>o, ConversationAssumption
       DEF RowsHaveTheirChat, DeletesAreClean, ChatsTypeOK
  <2> QED
    BY <2>1, <2>3, <2>5, <2>6, <1>k, <2>8 DEF ChatsInv
<1>6. CASE SaveMessage(r)
  <2>1. /\ starter[r].pc = "created"
        /\ starter' = [starter EXCEPT ![r].pc = "done"]
        /\ UNCHANGED chat
        /\ \/ Kept(starter[r].chat) /\ message' = message \cup {r} /\ UNCHANGED runRow
           \/ runRow' = [runRow EXCEPT ![r].state = "ended"] /\ UNCHANGED message
    BY <1>6 DEF SaveMessage, StarterAt
  <2>2. /\ runRow' \in [NewRun -> [state : {"none", "active", "ended"}, chat : Named]]
        /\ message' \subseteq NewRun /\ \A t \in message' : t \in message \/ t = r
    <3>1. [runRow EXCEPT ![r].state = "ended"] \in
            [NewRun -> [state : {"none", "active", "ended"}, chat : Named]]
      BY <1>i DEF ChatsTypeOK
    <3> QED
      BY <2>1, <3>1, <1>i DEF ChatsTypeOK
  <2>3. ChatsTypeOK'
    BY <2>1, <2>2, <1>i, <1>o DEF ChatsTypeOK
  <2>4. /\ starter'[r].pc = "done" /\ starter'[r].chat = starter[r].chat
        /\ \A t \in NewRun : t # r => starter'[t] = starter[t]
        /\ \A t \in NewRun : runRow'[t].state = "active" => runRow'[t] = runRow[t]
    <3>1. \A t \in NewRun : runRow'[t].state = "active" => runRow'[t] = runRow[t]
      <4>1. CASE runRow' = [runRow EXCEPT ![r].state = "ended"]
        BY <4>1, <1>i DEF ChatsTypeOK
      <4> QED
        BY <2>1, <4>1
    <3> QED
      BY <2>1, <3>1, <1>i DEF ChatsTypeOK
  <2>5. LocksExclude'
    BY <2>1, <2>4, <1>i, <1>o DEF LocksExclude, KeyShared, ForUpdate
  <2>6. DeletesAreClean'
    <3>1. \A c : ActiveIn(c) = {} => ActiveIn(c)' = {}
      BY <2>4 DEF ActiveIn
    <3>2. \A t \in message' : starter'[t].pc = "done"
      BY <2>2, <2>4, <1>i DEF DeletesAreClean, ChatsTypeOK
    <3>3. \A t \in NewRun : starter'[t].pc = "inserted" => Kept(starter[t].chat) /\ starter'[t] = starter[t]
      BY <2>4, <1>i DEF DeletesAreClean
    <3>4. UNCHANGED <<chat, remover>>
      BY <2>1, <1>o
    <3> QED
      BY <3>1, <3>2, <3>3, <3>4, <1>i DEF DeletesAreClean, Kept
  <2>8. RowsHaveTheirChat'
    BY <2>1, <2>4, <1>i, <1>k, <1>o DEF RowsHaveTheirChat, DeletesAreClean, ChatsTypeOK
  <2> QED
    BY <2>1, <2>3, <2>5, <2>6, <1>k, <2>8 DEF ChatsInv
<1>7. CASE EndRun(r)
  <2>1. /\ runRow' = [runRow EXCEPT ![r].state = "ended"]
        /\ UNCHANGED <<chat, starter, message>>
    BY <1>7 DEF EndRun
  <2>3. ChatsTypeOK'
    BY <2>1, <1>i, <1>o DEF ChatsTypeOK
  <2>4. \A t \in NewRun : runRow'[t].state = "active" => runRow'[t] = runRow[t]
    BY <2>1, <1>i DEF ChatsTypeOK
  <2>5. LocksExclude'
    BY <2>1, <1>i, <1>o DEF LocksExclude, KeyShared, ForUpdate
  <2>6. DeletesAreClean'
    <3>1. \A c : ActiveIn(c) = {} => ActiveIn(c)' = {}
      BY <2>4 DEF ActiveIn
    <3> QED
      BY <2>1, <3>1, <1>i, <1>k, <1>o DEF DeletesAreClean
  <2>8. RowsHaveTheirChat'
    BY <2>1, <2>4, <1>i, <1>k, <1>o DEF RowsHaveTheirChat
  <2> QED
    BY <2>1, <2>3, <2>5, <2>6, <1>k, <2>8 DEF ChatsInv
<1> QED
  BY <1>1, <1>2, <1>3, <1>4, <1>5, <1>6, <1>7

(* A step of a delete: the lock, the count of the active runs, the removal. *)
LEMMA RemoverKeeps ==
  ASSUME ChatsInv, NEW d \in Remover,
         (\E c \in Chat : LockChat(d, c)) \/ CountRuns(d) \/ RemoveChat(d)
  PROVE  ChatsInv'
<1> USE DEF onRemove
<1>i. ChatsTypeOK /\ LocksExclude /\ DeletesAreClean /\ ListedWasBorn /\ RowsHaveTheirChat
  BY DEF ChatsInv
<1>o. UNCHANGED <<starter, recent, dropped, asked, patches>>
  BY DEF LockChat, CountRuns, RemoveChat
<1>k. ASSUME UNCHANGED <<chat, runRow, message, beingIn>>
      PROVE  /\ ListedWasBorn' /\ RowsHaveTheirChat' /\ \A b : Kept(b)' <=> Kept(b)
             /\ \A b : ActiveIn(b)' = ActiveIn(b)
  BY <1>k, <1>i, <1>o DEF ListedWasBorn, RowsHaveTheirChat, Kept, ActiveIn
<1>1. ASSUME NEW c \in Chat, LockChat(d, c) PROVE ChatsInv'
  <2>1. /\ remover[d].pc = "idle" /\ ~KeyShared(c) /\ ~ForUpdate(c)
        /\ remover' = [remover EXCEPT ![d] =
                         [pc |-> IF Kept(c) THEN "locked" ELSE "notFound", chat |-> c]]
        /\ UNCHANGED <<chat, runRow, message, beingIn>>
    BY <1>1 DEF LockChat
  <2>2. ChatsTypeOK'
    BY <2>1, <1>i, <1>o DEF ChatsTypeOK, Named
  <2>3. /\ remover'[d].pc \in {"locked", "notFound"} /\ remover'[d].chat = c
        /\ remover'[d].pc = "locked" => Kept(c)
        /\ \A e \in Remover : e # d => remover'[e] = remover[e]
    BY <2>1, <1>i DEF ChatsTypeOK
  <2>4. LocksExclude'
    BY <2>1, <2>3, <1>i, <1>o DEF LocksExclude, KeyShared, ForUpdate
  <2>5. DeletesAreClean'
    BY <2>1, <2>3, <1>i, <1>k, <1>o DEF DeletesAreClean
  <2> QED
    BY <2>1, <2>2, <2>4, <2>5, <1>k DEF ChatsInv
<1>2. CASE CountRuns(d)
  <2>1. /\ remover[d].pc = "locked"
        /\ remover' = [remover EXCEPT ![d].pc =
                         IF ActiveIn(remover[d].chat) # {} THEN "refused" ELSE "counted"]
        /\ UNCHANGED <<chat, runRow, message, beingIn>>
    BY <1>2, <1>i DEF CountRuns, ChatsTypeOK
  <2>2. ChatsTypeOK'
    BY <2>1, <1>i, <1>o DEF ChatsTypeOK
  <2>3. /\ remover'[d].pc \in {"refused", "counted"} /\ remover'[d].chat = remover[d].chat
        /\ remover'[d].pc = "counted" => ActiveIn(remover[d].chat) = {}
        /\ \A e \in Remover : e # d => remover'[e] = remover[e]
    BY <2>1, <1>i DEF ChatsTypeOK
  <2>4. LocksExclude'
    BY <2>1, <2>3, <1>i, <1>o DEF LocksExclude, KeyShared, ForUpdate
  <2>5. DeletesAreClean'
    BY <2>1, <2>3, <1>i, <1>k, <1>o DEF DeletesAreClean
  <2> QED
    BY <2>1, <2>2, <2>4, <2>5, <1>k DEF ChatsInv
<1>3. CASE RemoveChat(d)
  <2> DEFINE c == remover[d].chat
  <2>1. /\ remover[d].pc = "counted" /\ ~KeyShared(c)
        /\ remover' = [remover EXCEPT ![d].pc = "removed"]
        /\ chat' = [chat EXCEPT ![c] = "deleted"]
        /\ runRow' = [r \in NewRun |-> IF runRow[r].chat = c
                                       THEN [runRow[r] EXCEPT !.chat = Unset] ELSE runRow[r]]
        /\ message' = {r \in message : starter[r].chat # c}
        /\ beingIn' = beingIn \ {c}
    BY <1>3 DEF RemoveChat
  <2>2. c \in Chat /\ ActiveIn(c) = {}
    BY <2>1, <1>i DEF LocksExclude, DeletesAreClean
  <2>3. ChatsTypeOK'
    BY <2>1, <2>2, <1>i, <1>o, SMTT(30) DEF ChatsTypeOK, Named
  <2>4. /\ remover'[d].pc = "removed" /\ remover'[d].chat = c
        /\ \A e \in Remover : e # d => remover'[e] = remover[e]
        /\ chat'[c] = "deleted" /\ \A b \in Chat : b # c => chat'[b] = chat[b]
    BY <2>1, <2>2, <1>i DEF ChatsTypeOK
  <2>5. \A r \in NewRun : runRow'[r].state = "active" =>
                             runRow'[r] = runRow[r] /\ runRow[r].chat # c
    BY <2>1, <2>2, <1>i DEF ChatsTypeOK, ActiveIn
  <2>6. \A e \in Remover : e # d /\ remover[e].pc \in {"locked", "counted"} => remover[e].chat # c
    BY <2>1, <1>i DEF LocksExclude
  <2>7. LocksExclude'
    BY <2>1, <2>4, <1>i, <1>o DEF LocksExclude, KeyShared, ForUpdate
  <2>8. \A r \in NewRun : starter[r].pc = "inserted" => starter[r].chat # c
    BY <2>1, <1>i DEF KeyShared, ChatsTypeOK
  <2>9. DeletesAreClean'
    <3>1. \A r \in NewRun : starter[r].pc = "inserted" => Kept(starter[r].chat)'
      BY <2>4, <2>8, <1>i, <1>o DEF DeletesAreClean, Kept, LocksExclude
    <3>2. \A r \in message' : starter'[r].pc = "done"
      BY <2>1, <1>i, <1>o DEF DeletesAreClean
    <3>3. \A e \in Remover : remover'[e].pc \in {"locked", "counted"} =>
            chat'[remover'[e].chat] \in {"plain", "pinned"}
      BY <2>4, <2>6, <1>i DEF DeletesAreClean, Kept, LocksExclude
    <3>4. \A b : ActiveIn(b) = {} => ActiveIn(b)' = {}
      BY <2>5 DEF ActiveIn
    <3>5. \A e \in Remover : remover'[e].pc = "removed" => chat'[remover'[e].chat] = "deleted"
      BY <2>4, <1>i DEF DeletesAreClean, LocksExclude
    <3> QED
      BY <3>1, <3>2, <3>3, <3>4, <3>5, <2>4, <1>i, <1>o DEF DeletesAreClean, Kept
  <2>10. ListedWasBorn'
    BY <2>4, <1>i, <1>o DEF ListedWasBorn, ChatsTypeOK
  <2>11. RowsHaveTheirChat'
    <3>1. \A r \in message : starter[r].chat \in Chat
      BY <1>i DEF DeletesAreClean, LocksExclude, ChatsTypeOK
    <3>2. \A r \in NewRun : runRow[r].state = "active" => runRow[r].chat \in Chat
      BY <1>i DEF RowsHaveTheirChat, ChatsTypeOK, Named
    <3> QED
      BY <2>1, <2>4, <2>5, <3>1, <3>2, <1>i, <1>o DEF RowsHaveTheirChat, Kept, ChatsTypeOK
  <2> QED
    BY <2>3, <2>7, <2>9, <2>10, <2>11 DEF ChatsInv
<1> QED
  BY <1>1, <1>2, <1>3

(* The page's requests, the answers to them, and a being that is made.      *)
LEMMA PageKeeps ==
  ASSUME ChatsInv,
         \/ \E d \in Remover : PageDrops(d)
         \/ \E c \in Chat : CreateBeing(c) \/ TogglePin(c) \/ TouchChat(c)
         \/ \E q \in asked : UpdateChat(q) \/ AnswerArrives(q)
  PROVE  ChatsInv'
<1> USE DEF offPage
<1>i. ChatsTypeOK /\ LocksExclude /\ DeletesAreClean /\ ListedWasBorn /\ RowsHaveTheirChat
  BY DEF ChatsInv
<1>o. UNCHANGED <<runRow, starter, remover, message>>
  BY DEF PageDrops, CreateBeing, TogglePin, TouchChat, Ask, UpdateChat, AnswerArrives
<1>l. LocksExclude'
  BY <1>i, <1>o DEF LocksExclude, KeyShared, ForUpdate
<1>a. \A b : ActiveIn(b)' = ActiveIn(b)
  BY <1>o DEF ActiveIn
<1>k. ASSUME UNCHANGED <<chat, beingIn>>
      PROVE  DeletesAreClean' /\ RowsHaveTheirChat'
  BY <1>k, <1>i, <1>o, <1>a DEF DeletesAreClean, RowsHaveTheirChat, Kept
<1>1. ASSUME NEW d \in Remover, PageDrops(d) PROVE ChatsInv'
  <2>1. /\ remover[d].pc = "removed"
        /\ recent' = [recent EXCEPT ![remover[d].chat] = "off"]
        /\ dropped' = dropped \cup {remover[d].chat}
        /\ UNCHANGED <<asked, patches, chat, beingIn>>
    BY <1>1 DEF PageDrops
  <2>2. remover[d].chat \in Chat /\ chat[remover[d].chat] = "deleted"
    BY <2>1, <1>i DEF LocksExclude, DeletesAreClean
  <2>3. ChatsTypeOK'
    BY <2>1, <2>2, <1>i, <1>o DEF ChatsTypeOK, Shown
  <2>4. ListedWasBorn'
    BY <2>1, <2>2, <1>i DEF ListedWasBorn, ChatsTypeOK
  <2> QED
    BY <2>1, <2>3, <2>4, <1>l, <1>k DEF ChatsInv
<1>2. ASSUME NEW c \in Chat, CreateBeing(c) PROVE ChatsInv'
  <2>1. Kept(c) /\ beingIn' = beingIn \cup {c} /\ UNCHANGED <<chat, recent, dropped, asked, patches>>
    BY <1>2 DEF CreateBeing
  <2>2. ChatsTypeOK' /\ ListedWasBorn'
    BY <2>1, <1>i, <1>o DEF ChatsTypeOK, ListedWasBorn
  <2>3. DeletesAreClean'
    BY <2>1, <1>i, <1>o, <1>a DEF DeletesAreClean, Kept
  <2>4. RowsHaveTheirChat'
    BY <2>1, <1>i, <1>o DEF RowsHaveTheirChat, Kept
  <2> QED
    BY <2>2, <2>3, <2>4, <1>l DEF ChatsInv
<1>3. ASSUME NEW c \in Chat, NEW to \in {"plain", "pinned", "same"}, recent[c] # "off", Ask(c, to)
      PROVE  ChatsInv'
  <2>1. /\ patches' = patches + 1 /\ UNCHANGED <<recent, dropped, chat, beingIn>>
        /\ asked' = asked \cup {[chat |-> c, to |-> to, seen |-> "asked", no |-> patches]}
    BY <1>3 DEF Ask
  <2>2. IsFiniteSet(asked')
    BY <2>1, <1>i, FS_AddElement DEF ChatsTypeOK
  <2>3. ChatsTypeOK'
    BY <2>1, <2>2, <1>i, <1>o DEF ChatsTypeOK
  <2>4. ListedWasBorn'
    BY <2>1, <1>3, <1>i DEF ListedWasBorn
  <2> QED
    BY <2>1, <2>3, <2>4, <1>l, <1>k DEF ChatsInv
<1>4. ASSUME NEW q \in asked, UpdateChat(q) PROVE ChatsInv'
  <2>1. /\ q.seen = "asked" /\ UNCHANGED <<beingIn, recent, dropped, patches>>
        /\ chat' = IF Kept(q.chat) /\ q.to # "same" THEN [chat EXCEPT ![q.chat] = q.to] ELSE chat
        /\ asked' = (asked \ {q}) \cup {[q EXCEPT !.seen = chat'[q.chat]]}
    BY <1>4 DEF UpdateChat, Unanswered
  <2>2. /\ q.chat \in Chat /\ q.to \in {"plain", "pinned", "same"} /\ q.no \in Nat
        /\ chat[q.chat] \in {"plain", "pinned", "deleted"}
    BY <1>4, <1>i DEF ChatsTypeOK, ListedWasBorn
  <2>3. /\ chat' \in [Chat -> {"unborn", "plain", "pinned", "deleted"}]
        /\ \A b \in Chat : /\ chat[b] \in {"unborn", "deleted"} => chat'[b] = chat[b]
                           /\ chat[b] \in {"plain", "pinned"} => chat'[b] \in {"plain", "pinned"}
    BY <2>1, <2>2, <1>i DEF ChatsTypeOK, Kept
  <2>4. chat'[q.chat] \in {"plain", "pinned", "deleted"}
    BY <2>2, <2>3
  <2>5. [q EXCEPT !.seen = chat'[q.chat]] \in
          [chat : Chat, to : {"plain", "pinned", "same"},
           seen : {"asked", "plain", "pinned", "deleted"}, no : Nat]
    BY <2>4, <1>4, <1>i, SMTT(30) DEF ChatsTypeOK
  <2>6. IsFiniteSet(asked')
    BY <2>1, <1>i, FS_AddElement, FS_RemoveElement DEF ChatsTypeOK
  <2>7. ChatsTypeOK'
    BY <2>1, <2>3, <2>5, <2>6, <1>i, <1>o DEF ChatsTypeOK
  <2>8. ListedWasBorn'
    <3>1. \A p \in asked' : p.chat \in Chat /\ chat'[p.chat] # "unborn"
      BY <2>1, <2>2, <2>3, <1>i DEF ListedWasBorn, ChatsTypeOK
    <3> QED
      BY <3>1, <2>1, <2>3, <1>i DEF ListedWasBorn, ChatsTypeOK
  <2>9. DeletesAreClean'
    <3>1. \A r \in NewRun : starter[r].pc = "inserted" => starter[r].chat \in Chat
      BY <1>i DEF LocksExclude
    <3>2. \A d \in Remover : remover[d].pc \in {"locked", "counted", "removed"} =>
                                remover[d].chat \in Chat
      BY <1>i DEF LocksExclude
    <3> QED
      BY <2>3, <3>1, <3>2, <1>i, <1>o, <1>a DEF DeletesAreClean, Kept
  <2>10. RowsHaveTheirChat'
    <3>1. \A r \in message : starter[r].chat \in Chat
      BY <1>i DEF DeletesAreClean, LocksExclude, ChatsTypeOK
    <3>2. \A r \in NewRun : runRow[r].state = "active" => runRow[r].chat \in Chat
      BY <1>i DEF RowsHaveTheirChat, ChatsTypeOK, Named
    <3> QED
      BY <2>1, <2>3, <3>1, <3>2, <1>i, <1>o DEF RowsHaveTheirChat, Kept, ChatsTypeOK
  <2> QED
    BY <2>7, <2>8, <2>9, <2>10, <1>l DEF ChatsInv
<1>5. ASSUME NEW q \in asked, AnswerArrives(q) PROVE ChatsInv'
  <2>1. /\ q.seen # "asked" /\ asked' = asked \ {q} /\ UNCHANGED <<dropped, patches, chat, beingIn>>
        /\ recent' = IF recent[q.chat] # "off" /\ q.seen # "deleted"
                     THEN [recent EXCEPT ![q.chat] = q.seen] ELSE recent
    BY <1>5 DEF AnswerArrives, Unanswered
  <2>2. q.chat \in Chat /\ q.seen \in {"plain", "pinned", "deleted"} /\ chat[q.chat] # "unborn"
    BY <2>1, <1>5, <1>i DEF ChatsTypeOK, ListedWasBorn
  <2>3. IsFiniteSet(asked')
    BY <2>1, <1>i, FS_RemoveElement DEF ChatsTypeOK
  <2>4. ChatsTypeOK'
    BY <2>1, <2>2, <2>3, <1>i, <1>o DEF ChatsTypeOK, Shown
  <2>5. ListedWasBorn'
    BY <2>1, <2>2, <1>i DEF ListedWasBorn, ChatsTypeOK
  <2> QED
    BY <2>1, <2>4, <2>5, <1>l, <1>k DEF ChatsInv
<1> QED
  BY <1>1, <1>2, <1>3, <1>4, <1>5, <1>i DEF TogglePin, TouchChat

(* ChatsInv holds in every reachable state.                                 *)
THEOREM ChatsInvariant == StoreSpec => []ChatsInv
<1>1. ChatsInv /\ [StoreNext]_storeVars => ChatsInv'
  <2> SUFFICES ASSUME ChatsInv, [StoreNext]_storeVars PROVE ChatsInv'
    OBVIOUS
  <2>1. CASE UNCHANGED storeVars
    BY <2>1, SMTT(30) DEF storeVars, ChatsInv, ChatsTypeOK, LocksExclude, DeletesAreClean, ListedWasBorn,
       RowsHaveTheirChat, KeyShared, ForUpdate, ActiveIn, Kept
  <2>2. CASE StoreNext
    BY <2>2, StarterKeeps, RemoverKeeps, PageKeeps DEF StoreNext
  <2> QED
    BY <2>1, <2>2
<1> QED
  BY ChatsInitOK, <1>1, PTL DEF StoreSpec

(* An unfinished run, a message and a being have the conversation they name, *)
(* however a delete and the start of a run interleave (deleteConversation,   *)
(* createRunWithCreatedEvent).                                               *)
THEOREM RowsKeepTheirChat == StoreSpec => []RowsHaveTheirChat
<1>1. ChatsInv => RowsHaveTheirChat
  BY DEF ChatsInv
<1> QED
  BY ChatsInvariant, <1>1, PTL

(* With at most one request of the page under way, a step keeps what the    *)
(* page shows.                                                              *)
LEMMA PageStep ==
  ASSUME MaxRequest <= 1, ChatsInv, PageFollows, StoreNext
  PROVE  PageFollows'
<1>i. ChatsTypeOK /\ ListedWasBorn /\ LocksExclude
  BY DEF ChatsInv
<1>q. \A q \in asked : q.chat \in Chat
  BY <1>i DEF ChatsTypeOK
<1>1. ASSUME UNCHANGED <<recent, asked>>,
             \A c \in Chat : chat'[c] = chat[c] \/ chat'[c] = "deleted" \/ chat[c] = "unborn"
      PROVE  PageFollows'
  BY <1>1, <1>i, <1>q DEF PageFollows, ListedWasBorn, Kept
<1>2. ASSUME NEW r \in NewRun, NEW c \in Chat, AskRun(r, c) PROVE PageFollows'
  BY <1>1, <1>2, <1>i DEF AskRun, onStart, ChatsTypeOK
<1>3. ASSUME NEW r \in NewRun,
             \/ \E s \in NewRun : RetryIn(r, s)
             \/ CheckChat(r) \/ InsertRun(r) \/ CommitRun(r) \/ SaveMessage(r) \/ EndRun(r)
      PROVE  PageFollows'
  BY <1>1, <1>3 DEF RetryIn, CheckChat, InsertRun, CommitRun, SaveMessage, EndRun, onStart
<1>4. ASSUME NEW d \in Remover, (\E c \in Chat : LockChat(d, c)) \/ CountRuns(d) PROVE PageFollows'
  BY <1>1, <1>4 DEF LockChat, CountRuns, onRemove
<1>5. ASSUME NEW d \in Remover, RemoveChat(d) PROVE PageFollows'
  BY <1>1, <1>5, <1>i DEF RemoveChat, onRemove, ChatsTypeOK
<1>6. ASSUME NEW d \in Remover, PageDrops(d) PROVE PageFollows'
  BY <1>6, <1>i DEF PageDrops, offPage, PageFollows, ChatsTypeOK, Kept
<1>7. ASSUME NEW c \in Chat, CreateBeing(c) PROVE PageFollows'
  BY <1>1, <1>7 DEF CreateBeing
<1>8. ASSUME NEW c \in Chat, NEW to, Ask(c, to) PROVE PageFollows'
  <2>1. asked = {}
    <3>1. Cardinality(asked) \in Nat /\ Cardinality(asked) < MaxRequest /\ MaxRequest \in Nat
      BY <1>8, <1>i, FS_CardinalityType, ConversationAssumption DEF Ask, ChatsTypeOK
    <3>2. Cardinality(asked) = 0
      BY <3>1
    <3> QED
      BY <3>2, <1>i, FS_EmptySet DEF ChatsTypeOK
  <2>2. /\ UNCHANGED <<recent, chat>>
        /\ asked' = {[chat |-> c, to |-> to, seen |-> "asked", no |-> patches]}
    BY <1>8, <2>1 DEF Ask, offPage
  <2> QED
    BY <2>1, <2>2 DEF PageFollows, Kept
<1>9. ASSUME NEW q \in asked, UpdateChat(q) PROVE PageFollows'
  <2>1. /\ q.seen = "asked" /\ UNCHANGED recent /\ asked = {q}
        /\ chat' = IF Kept(q.chat) /\ q.to # "same" THEN [chat EXCEPT ![q.chat] = q.to] ELSE chat
        /\ asked' = {[q EXCEPT !.seen = chat'[q.chat]]}
    BY <1>9 DEF UpdateChat, Unanswered, PageFollows
  <2>2. \A b \in Chat : b # q.chat => chat'[b] = chat[b]
    BY <2>1, <1>i DEF ChatsTypeOK
  <2>3. PICK p \in asked' : asked' = {p} /\ p.chat = q.chat /\ p.seen = chat'[q.chat]
    BY <2>1, <1>9, <1>i DEF ChatsTypeOK
  <2>4. \A b \in Chat : b # q.chat /\ recent[b] # "off" /\ Kept(b) => recent[b] = chat[b]
    BY <2>1 DEF PageFollows, Kept
  <2> QED
    BY <2>1, <2>2, <2>3, <2>4 DEF PageFollows, Kept
<1>10. ASSUME NEW q \in asked, AnswerArrives(q) PROVE PageFollows'
  <2>1. /\ q.seen # "asked" /\ asked = {q} /\ asked' = {} /\ UNCHANGED chat
        /\ recent' = IF recent[q.chat] # "off" /\ q.seen # "deleted"
                     THEN [recent EXCEPT ![q.chat] = q.seen] ELSE recent
        /\ chat[q.chat] \in {q.seen, "deleted"} /\ q.chat \in Chat
    BY <1>10, <1>q DEF AnswerArrives, Unanswered, offPage, PageFollows
  <2>2. \A b \in Chat : recent'[b] # "off" /\ Kept(b) => recent'[b] = chat[b]
    BY <2>1, <1>i DEF PageFollows, Kept, ChatsTypeOK
  <2> QED
    BY <2>1, <2>2 DEF PageFollows, Kept
<1> QED
  BY <1>2, <1>3, <1>4, <1>5, <1>6, <1>7, <1>8, <1>9, <1>10 DEF StoreNext, TogglePin, TouchChat

(* With one request at a time the page tells what the table says, and takes *)
(* off its list only what is gone (removeConversation, togglePin): with two *)
(* their answers may arrive in the other order.                             *)
THEOREM ConversationsHold ==
  ASSUME MaxRequest <= 1
  PROVE  StoreSpec => []ConversationsHoldTogether
<1>1. StoreInit => PageFollows
  BY DEF StoreInit, PageFollows, Kept
<1>2. ChatsInv /\ PageFollows /\ [StoreNext]_storeVars => PageFollows'
  <2>1. CASE UNCHANGED storeVars
    BY <2>1 DEF storeVars, PageFollows, Kept
  <2> QED
    BY <2>1, PageStep
<1>3. ChatsInv /\ PageFollows => ConversationsHoldTogether
  BY DEF ChatsInv, ListedWasBorn, PageFollows, ConversationsHoldTogether, PageTellsTheTable
<1> QED
  BY ChatsInvariant, <1>1, <1>2, <1>3, PTL DEF StoreSpec

-----------------------------------------------------------------------------
(* Daemons and the launcher: one daemon in charge.                          *)

\* Who has the port is alive and has recovered.
LEMMA PortOwner ==
  ASSUME DaemonInv, port # 0
  PROVE  port \in Daemon /\ port \in Alive /\ at[port] \in {"bound", "starting", "serving", "stopping"}
<1>1. port \in Daemon
  BY DaemonLimits DEF DaemonInv, DaemonTypeOK, Daemon
<1>2. QED BY <1>1 DEF DaemonInv, PortIsHeld, Alive

\* What the inductive invariant says of the one daemon that is alive.
LEMMA SoleDaemon ==
  ASSUME DaemonInv, ~overlap, NEW d \in Alive
  PROVE  /\ \A e \in Alive : e = d
         /\ port = 0 \/ port = d
         /\ \A r \in AgentRun : at[d] # "preparing" /\ runAt[r] \in {"created", "running"} => runBy[r] = d
BY PortOwner DEF DaemonInv, AloneWithItsRuns, Alive

\* A step after which no more daemons are alive, none has recovered, and the runs are as they were.
LEMMA AloneStays ==
  ASSUME DaemonInv, overlap' = overlap, runAt' = runAt, runBy' = runBy, Alive' \subseteq Alive,
         \A e \in Alive' : at[e] = "preparing" => at'[e] = "preparing"
  PROVE  AloneWithItsRuns'
BY SoleDaemon DEF AloneWithItsRuns

\* A step after which the gone are gone, and who has the port had recovered before.
LEMMA NoneLeftStays ==
  ASSUME DaemonInv, overlap' = overlap, runAt' = runAt, runBy' = runBy,
         \A e \in Daemon : at[e] = "gone" => at'[e] = "gone",
         port' # 0 => port' \in Alive /\ at[port'] # "preparing" /\ at'[port'] # "gone"
  PROVE  NothingLeftRunning'
<1>1. SUFFICES ASSUME ~overlap, NEW r \in AgentRun
               PROVE /\ port' # 0 /\ runAt[r] \in {"created", "running"} => at'[runBy[r]] # "gone"
                     /\ runAt[r] \in {"interrupted", "failed"} => at'[runBy[r]] = "gone"
  BY DEF NothingLeftRunning
<1>2. ASSUME port' # 0, runAt[r] \in {"created", "running"} PROVE at'[runBy[r]] # "gone"
  BY <1>1, <1>2, SoleDaemon
<1>3. ASSUME runAt[r] \in {"interrupted", "failed"} PROVE at'[runBy[r]] = "gone"
  BY <1>1, <1>3 DEF DaemonInv, RunsHaveDaemon, NothingLeftRunning
<1>4. QED BY <1>2, <1>3

LEMMA StartKeeps == ASSUME DaemonInv, NEW s \in Shell, Start(s) PROVE DaemonInv'
<1>1. DaemonTypeOK'
  BY DaemonLimits DEF DaemonInv, DaemonTypeOK, Start, Command, procVars, runVars, Daemon
<1>2. PortIsHeld'
  BY DaemonLimits DEF DaemonInv, DaemonTypeOK, PortIsHeld, Start, Command, procVars,
       runVars, Daemon
<1>3. RunsHaveDaemon'
  BY DaemonLimits DEF DaemonInv, DaemonTypeOK, PortIsHeld, RunsHaveDaemon, Start,
       Command, procVars, runVars, Daemon
<1>4. AloneWithItsRuns'
  <2>1. Alive' \subseteq Alive /\ \A e \in Alive' : at[e] = "preparing" => at'[e] = "preparing"
    BY DEF DaemonInv, DaemonTypeOK, Alive, procVars, Start, Command
  <2>2. overlap' = overlap /\ runAt' = runAt /\ runBy' = runBy
    BY DEF runVars, Others, Start, Command
  <2>3. QED BY <2>1, <2>2, AloneStays
<1>5. ServingIsReachable'
  BY DaemonLimits DEF DaemonInv, DaemonTypeOK, PortIsHeld, ServingIsReachable, Start,
       Command, Verified, procVars, runVars, Daemon
<1>6. NothingLeftRunning'
  <2>1. \A e \in Daemon : at[e] = "gone" => at'[e] = "gone"
    BY DEF DaemonInv, DaemonTypeOK, procVars, Start, Command
  <2>2. port' # 0 => port' \in Alive /\ at[port'] # "preparing" /\ at'[port'] # "gone"
    BY PortOwner DEF DaemonInv, DaemonTypeOK, Alive, procVars, Start, Command
  <2>3. overlap' = overlap /\ runAt' = runAt /\ runBy' = runBy
    BY DEF runVars, Others, Start, Command
  <2>4. QED BY <2>1, <2>2, <2>3, NoneLeftStays
<1>7. QED BY <1>1, <1>2, <1>3, <1>4, <1>5, <1>6 DEF DaemonInv

LEMMA StopKeeps == ASSUME DaemonInv, NEW s \in Shell, Stop(s) PROVE DaemonInv'
<1>1. DaemonTypeOK'
  <2>1. at' \in [Daemon -> Phases]
    BY DEF DaemonInv, DaemonTypeOK, Stop, KillDaemon, AfterSignal, Phases
  <2>2. port' \in 0..MaxDaemon
    BY DaemonLimits, 0 \in 0..MaxDaemon DEF DaemonInv, DaemonTypeOK, Stop, KillDaemon
  <2>3. /\ pidFile' \in [pid : Pid \cup {"none"}, ticks : 0..MaxDaemon]
        /\ shell' \in [Shell -> {"prompt", "spawn", "poll"}] /\ commands' \in 0..MaxCommand
    BY DaemonLimits DEF DaemonInv, DaemonTypeOK, Stop, Command, KillDaemon, NoFile
  <2>4. QED BY <2>1, <2>2, <2>3 DEF DaemonInv, DaemonTypeOK, Stop, KillDaemon, runVars
<1>2. PortIsHeld'
  BY DaemonLimits DEF DaemonInv, DaemonTypeOK, PortIsHeld, Stop, Command, KillDaemon,
       AfterSignal, Verified, NoFile, runVars, Daemon
<1>3. RunsHaveDaemon'
  BY DaemonLimits DEF DaemonInv, DaemonTypeOK, PortIsHeld, RunsHaveDaemon, Stop,
       Command, KillDaemon, AfterSignal, Verified, NoFile, runVars, Daemon
<1>4. AloneWithItsRuns'
  <2>1. Alive' \subseteq Alive /\ \A e \in Alive' : at[e] = "preparing" => at'[e] = "preparing"
    BY DEF DaemonInv, DaemonTypeOK, Alive, procVars, Stop, KillDaemon, AfterSignal, Verified
  <2>2. overlap' = overlap /\ runAt' = runAt /\ runBy' = runBy
    BY DEF runVars, Others, Stop, KillDaemon, AfterSignal, Verified
  <2>3. QED BY <2>1, <2>2, AloneStays
<1>5. ServingIsReachable'
  BY DaemonLimits DEF DaemonInv, DaemonTypeOK, PortIsHeld, ServingIsReachable, Stop,
       Command, KillDaemon, AfterSignal, Verified, NoFile, runVars, Daemon
<1>6. NothingLeftRunning'
  <2>1. \A e \in Daemon : at[e] = "gone" => at'[e] = "gone"
    BY DEF DaemonInv, DaemonTypeOK, procVars, Stop, KillDaemon, AfterSignal, Verified
  <2>2. port' # 0 => port' \in Alive /\ at[port'] # "preparing" /\ at'[port'] # "gone"
    BY PortOwner DEF DaemonInv, DaemonTypeOK, Alive, procVars, Stop, KillDaemon, AfterSignal, Verified
  <2>3. overlap' = overlap /\ runAt' = runAt /\ runBy' = runBy
    BY DEF runVars, Others, Stop, KillDaemon, AfterSignal, Verified
  <2>4. QED BY <2>1, <2>2, <2>3, NoneLeftStays
<1>7. QED BY <1>1, <1>2, <1>3, <1>4, <1>5, <1>6 DEF DaemonInv

LEMMA RestartKeeps == ASSUME DaemonInv, NEW s \in Shell, Restart(s) PROVE DaemonInv'
<1>1. DaemonTypeOK'
  <2>1. at' \in [Daemon -> Phases]
    BY DEF DaemonInv, DaemonTypeOK, Restart, KillDaemon, AfterSignal, Phases
  <2>2. port' \in 0..MaxDaemon
    BY DaemonLimits, 0 \in 0..MaxDaemon DEF DaemonInv, DaemonTypeOK, Restart, KillDaemon
  <2>3. /\ pidFile' \in [pid : Pid \cup {"none"}, ticks : 0..MaxDaemon]
        /\ shell' \in [Shell -> {"prompt", "spawn", "poll"}] /\ commands' \in 0..MaxCommand
    BY DaemonLimits DEF DaemonInv, DaemonTypeOK, Restart, Command, KillDaemon, NoFile
  <2>4. QED BY <2>1, <2>2, <2>3 DEF DaemonInv, DaemonTypeOK, Restart, KillDaemon, runVars
<1>2. PortIsHeld'
  BY DaemonLimits DEF DaemonInv, DaemonTypeOK, PortIsHeld, Restart, Command, KillDaemon,
       AfterSignal, Verified, NoFile, runVars, Daemon
<1>3. RunsHaveDaemon'
  BY DaemonLimits DEF DaemonInv, DaemonTypeOK, PortIsHeld, RunsHaveDaemon, Restart,
       Command, KillDaemon, AfterSignal, Verified, NoFile, runVars, Daemon
<1>4. AloneWithItsRuns'
  <2>1. Alive' \subseteq Alive /\ \A e \in Alive' : at[e] = "preparing" => at'[e] = "preparing"
    BY DEF DaemonInv, DaemonTypeOK, Alive, procVars, Restart, KillDaemon, AfterSignal, Verified
  <2>2. overlap' = overlap /\ runAt' = runAt /\ runBy' = runBy
    BY DEF runVars, Others, Restart, KillDaemon, AfterSignal, Verified
  <2>3. QED BY <2>1, <2>2, AloneStays
<1>5. ServingIsReachable'
  BY DaemonLimits DEF DaemonInv, DaemonTypeOK, PortIsHeld, ServingIsReachable, Restart,
       Command, KillDaemon, AfterSignal, Verified, NoFile, runVars, Daemon
<1>6. NothingLeftRunning'
  <2>1. \A e \in Daemon : at[e] = "gone" => at'[e] = "gone"
    BY DEF DaemonInv, DaemonTypeOK, procVars, Restart, KillDaemon, AfterSignal, Verified
  <2>2. port' # 0 => port' \in Alive /\ at[port'] # "preparing" /\ at'[port'] # "gone"
    BY PortOwner DEF DaemonInv, DaemonTypeOK, Alive, procVars, Restart, KillDaemon, AfterSignal, Verified
  <2>3. overlap' = overlap /\ runAt' = runAt /\ runBy' = runBy
    BY DEF runVars, Others, Restart, KillDaemon, AfterSignal, Verified
  <2>4. QED BY <2>1, <2>2, <2>3, NoneLeftStays
<1>7. QED BY <1>1, <1>2, <1>3, <1>4, <1>5, <1>6 DEF DaemonInv

LEMMA PollEndsKeeps == ASSUME DaemonInv, NEW s \in Shell, PollEnds(s) PROVE DaemonInv'
<1>1. DaemonTypeOK'
  BY DaemonLimits DEF DaemonInv, DaemonTypeOK, PollEnds, procVars, runVars, Daemon
<1>2. PortIsHeld'
  BY DaemonLimits DEF DaemonInv, DaemonTypeOK, PortIsHeld, PollEnds, procVars, runVars,
       Daemon
<1>3. RunsHaveDaemon'
  BY DaemonLimits DEF DaemonInv, DaemonTypeOK, PortIsHeld, RunsHaveDaemon, PollEnds,
       procVars, runVars, Daemon
<1>4. AloneWithItsRuns'
  <2>1. Alive' \subseteq Alive /\ \A e \in Alive' : at[e] = "preparing" => at'[e] = "preparing"
    BY DEF DaemonInv, DaemonTypeOK, Alive, procVars, PollEnds
  <2>2. overlap' = overlap /\ runAt' = runAt /\ runBy' = runBy
    BY DEF runVars, Others, PollEnds
  <2>3. QED BY <2>1, <2>2, AloneStays
<1>5. ServingIsReachable'
  BY DaemonLimits DEF DaemonInv, DaemonTypeOK, PortIsHeld, ServingIsReachable, PollEnds,
       Verified, procVars, runVars, Daemon
<1>6. NothingLeftRunning'
  <2>1. \A e \in Daemon : at[e] = "gone" => at'[e] = "gone"
    BY DEF DaemonInv, DaemonTypeOK, procVars, PollEnds
  <2>2. port' # 0 => port' \in Alive /\ at[port'] # "preparing" /\ at'[port'] # "gone"
    BY PortOwner DEF DaemonInv, DaemonTypeOK, Alive, procVars, PollEnds
  <2>3. overlap' = overlap /\ runAt' = runAt /\ runBy' = runBy
    BY DEF runVars, Others, PollEnds
  <2>4. QED BY <2>1, <2>2, <2>3, NoneLeftStays
<1>7. QED BY <1>1, <1>2, <1>3, <1>4, <1>5, <1>6 DEF DaemonInv

LEMMA SpawnKeeps == ASSUME DaemonInv, NEW s \in Shell, Spawn(s) PROVE DaemonInv'
<1>1. DaemonTypeOK'
  BY DaemonLimits DEF DaemonInv, DaemonTypeOK, Spawn, Unborn, Phases, FreePids, runVars,
       Daemon
<1>2. PortIsHeld'
  BY DaemonLimits DEF DaemonInv, DaemonTypeOK, PortIsHeld, Spawn, Unborn, runVars,
       Daemon
<1>3. RunsHaveDaemon'
  BY DaemonLimits DEF DaemonInv, DaemonTypeOK, PortIsHeld, RunsHaveDaemon, Spawn,
       Unborn, runVars, Daemon
<1>4. AloneWithItsRuns'
  <2>1. SUFFICES ASSUME ~overlap' PROVE (\A d, e \in Alive' : d = e)
          /\ \A d \in Alive' : at'[d] = "preparing"
    BY DEF AloneWithItsRuns
  <2>2. Alive = {}
    BY <2>1 DEF Spawn
  <2>3. PICK n \in Unborn : at' = [at EXCEPT ![n] = "preparing"]
    BY DEF Spawn
  <2>4. \A d \in Alive' : d = n
    BY <2>2, <2>3 DEF DaemonInv, DaemonTypeOK, Alive, Unborn
  <2>5. QED BY <2>3, <2>4 DEF DaemonInv, DaemonTypeOK, Unborn
<1>5. ServingIsReachable'
  BY DaemonLimits DEF DaemonInv, DaemonTypeOK, PortIsHeld, ServingIsReachable, Spawn,
       Unborn, Verified, runVars, Daemon
<1>6. NothingLeftRunning'
  BY DaemonLimits, SMTT(20) DEF DaemonInv, DaemonTypeOK, PortIsHeld, RunsHaveDaemon,
       AloneWithItsRuns, NothingLeftRunning, Spawn, Unborn, Alive, runVars, Daemon
<1>7. QED BY <1>1, <1>2, <1>3, <1>4, <1>5, <1>6 DEF DaemonInv

LEMMA RecoverKeeps == ASSUME DaemonInv, NEW d \in Daemon, Recover(d) PROVE DaemonInv'
<1>1. DaemonTypeOK'
  BY DaemonLimits DEF DaemonInv, DaemonTypeOK, Recover, Goes, Others, Phases, Daemon
<1>2. PortIsHeld'
  BY DaemonLimits DEF DaemonInv, DaemonTypeOK, PortIsHeld, Recover, Goes, Others, Daemon
<1>3. RunsHaveDaemon'
  BY DaemonLimits DEF DaemonInv, DaemonTypeOK, PortIsHeld, RunsHaveDaemon, Recover,
       Goes, Others, Daemon
<1>4. AloneWithItsRuns'
  BY DaemonLimits, SMTT(20) DEF DaemonInv, DaemonTypeOK, PortIsHeld, RunsHaveDaemon,
       AloneWithItsRuns, Recover, Goes, Others, Alive, Daemon
<1>5. ServingIsReachable'
  BY DaemonLimits DEF DaemonInv, DaemonTypeOK, PortIsHeld, ServingIsReachable, Recover,
       Goes, Others, Verified, Daemon
<1>6. NothingLeftRunning'
  <2>1. SUFFICES ASSUME ~overlap PROVE port' = 0 /\ \A r \in AgentRun :
          runAt'[r] \in {"interrupted", "failed"} => at'[runBy'[r]] = "gone"
    BY DEF NothingLeftRunning, Recover, Others
  <2>2. d \in Alive /\ at[d] = "preparing" /\ at' = [at EXCEPT ![d] = "recovered"]
    BY DEF Recover, Goes, Alive
  <2>3. port = 0
    BY <2>1, <2>2, SoleDaemon DEF DaemonInv, PortIsHeld
  <2>4. ASSUME NEW r \in AgentRun, runAt'[r] \in {"interrupted", "failed"} PROVE at'[runBy[r]] = "gone"
    <3>1. runBy[r] \in Daemon /\ at[runBy[r]] \notin {"unborn", "preparing"}
      BY <2>4 DEF DaemonInv, DaemonTypeOK, RunsHaveDaemon, Recover
    <3>2. runBy[r] # d /\ runBy[r] \notin Alive
      BY <2>1, <2>2, <3>1, SoleDaemon
    <3>3. QED BY <2>2, <3>1, <3>2 DEF DaemonInv, DaemonTypeOK, Alive
  <2>5. QED BY <2>3, <2>4 DEF Recover
<1>7. QED BY <1>1, <1>2, <1>3, <1>4, <1>5, <1>6 DEF DaemonInv

LEMMA ListenKeeps == ASSUME DaemonInv, NEW d \in Daemon, Listen(d) PROVE DaemonInv'
<1>1. DaemonTypeOK'
  <2>1. at' \in [Daemon -> Phases]
    BY DEF DaemonInv, DaemonTypeOK, Listen, Goes, Phases
  <2>2. port' \in 0..MaxDaemon
    BY DaemonLimits DEF DaemonInv, DaemonTypeOK, Listen, Daemon
  <2>3. QED BY <2>1, <2>2 DEF DaemonInv, DaemonTypeOK, Listen, Others, runVars
<1>2. PortIsHeld'
  BY DaemonLimits DEF DaemonInv, DaemonTypeOK, PortIsHeld, Listen, Goes, Others,
       runVars, Daemon
<1>3. RunsHaveDaemon'
  BY DaemonLimits DEF DaemonInv, DaemonTypeOK, PortIsHeld, RunsHaveDaemon, Listen, Goes,
       Others, runVars, Daemon
<1>4. AloneWithItsRuns'
  <2>1. Alive' \subseteq Alive /\ \A e \in Alive' : at[e] = "preparing" => at'[e] = "preparing"
    BY DEF DaemonInv, DaemonTypeOK, Alive, procVars, Listen, Goes
  <2>2. overlap' = overlap /\ runAt' = runAt /\ runBy' = runBy
    BY DEF runVars, Others, Listen, Goes
  <2>3. QED BY <2>1, <2>2, AloneStays
<1>5. ServingIsReachable'
  BY DaemonLimits DEF DaemonInv, DaemonTypeOK, PortIsHeld, ServingIsReachable, Listen,
       Goes, Others, Verified, runVars, Daemon
<1>6. NothingLeftRunning'
  <2>1. \A e \in Daemon : at[e] = "gone" => at'[e] = "gone"
    BY DEF DaemonInv, DaemonTypeOK, procVars, Listen, Goes
  <2>2. port' # 0 => port' \in Alive /\ at[port'] # "preparing" /\ at'[port'] # "gone"
    BY PortOwner DEF DaemonInv, DaemonTypeOK, Alive, procVars, Listen, Goes
  <2>3. overlap' = overlap /\ runAt' = runAt /\ runBy' = runBy
    BY DEF runVars, Others, Listen, Goes
  <2>4. QED BY <2>1, <2>2, <2>3, NoneLeftStays
<1>7. QED BY <1>1, <1>2, <1>3, <1>4, <1>5, <1>6 DEF DaemonInv

LEMMA WritePidFileKeeps == ASSUME DaemonInv, NEW d \in Daemon, WritePidFile(d) PROVE DaemonInv'
<1>1. DaemonTypeOK'
  BY DaemonLimits DEF DaemonInv, DaemonTypeOK, WritePidFile, Goes, Others, Phases,
       runVars, Daemon
<1>2. PortIsHeld'
  BY DaemonLimits DEF DaemonInv, DaemonTypeOK, PortIsHeld, WritePidFile, Goes, Others,
       runVars, Daemon
<1>3. RunsHaveDaemon'
  BY DaemonLimits DEF DaemonInv, DaemonTypeOK, PortIsHeld, RunsHaveDaemon, WritePidFile,
       Goes, Others, runVars, Daemon
<1>4. AloneWithItsRuns'
  <2>1. Alive' \subseteq Alive /\ \A e \in Alive' : at[e] = "preparing" => at'[e] = "preparing"
    BY DEF DaemonInv, DaemonTypeOK, Alive, procVars, WritePidFile, Goes
  <2>2. overlap' = overlap /\ runAt' = runAt /\ runBy' = runBy
    BY DEF runVars, Others, WritePidFile, Goes
  <2>3. QED BY <2>1, <2>2, AloneStays
<1>5. ServingIsReachable'
  BY DaemonLimits DEF DaemonInv, DaemonTypeOK, PortIsHeld, ServingIsReachable,
       WritePidFile, Goes, Others, Verified, runVars, Daemon
<1>6. NothingLeftRunning'
  <2>1. \A e \in Daemon : at[e] = "gone" => at'[e] = "gone"
    BY DEF DaemonInv, DaemonTypeOK, procVars, WritePidFile, Goes
  <2>2. port' # 0 => port' \in Alive /\ at[port'] # "preparing" /\ at'[port'] # "gone"
    BY PortOwner DEF DaemonInv, DaemonTypeOK, Alive, procVars, WritePidFile, Goes
  <2>3. overlap' = overlap /\ runAt' = runAt /\ runBy' = runBy
    BY DEF runVars, Others, WritePidFile, Goes
  <2>4. QED BY <2>1, <2>2, <2>3, NoneLeftStays
<1>7. QED BY <1>1, <1>2, <1>3, <1>4, <1>5, <1>6 DEF DaemonInv

LEMMA StartedKeeps == ASSUME DaemonInv, NEW d \in Daemon, Started(d) PROVE DaemonInv'
<1>1. DaemonTypeOK'
  BY DaemonLimits DEF DaemonInv, DaemonTypeOK, Started, Goes, Others, Phases, runVars,
       Daemon
<1>2. PortIsHeld'
  BY DaemonLimits DEF DaemonInv, DaemonTypeOK, PortIsHeld, Started, Goes, Others,
       runVars, Daemon
<1>3. RunsHaveDaemon'
  BY DaemonLimits DEF DaemonInv, DaemonTypeOK, PortIsHeld, RunsHaveDaemon, Started,
       Goes, Others, runVars, Daemon
<1>4. AloneWithItsRuns'
  <2>1. Alive' \subseteq Alive /\ \A e \in Alive' : at[e] = "preparing" => at'[e] = "preparing"
    BY DEF DaemonInv, DaemonTypeOK, Alive, procVars, Started, Goes
  <2>2. overlap' = overlap /\ runAt' = runAt /\ runBy' = runBy
    BY DEF runVars, Others, Started, Goes
  <2>3. QED BY <2>1, <2>2, AloneStays
<1>5. ServingIsReachable'
  BY DaemonLimits DEF DaemonInv, DaemonTypeOK, PortIsHeld, ServingIsReachable, Started,
       Goes, Others, Verified, runVars, Daemon
<1>6. NothingLeftRunning'
  <2>1. \A e \in Daemon : at[e] = "gone" => at'[e] = "gone"
    BY DEF DaemonInv, DaemonTypeOK, procVars, Started, Goes
  <2>2. port' # 0 => port' \in Alive /\ at[port'] # "preparing" /\ at'[port'] # "gone"
    BY PortOwner DEF DaemonInv, DaemonTypeOK, Alive, procVars, Started, Goes
  <2>3. overlap' = overlap /\ runAt' = runAt /\ runBy' = runBy
    BY DEF runVars, Others, Started, Goes
  <2>4. QED BY <2>1, <2>2, <2>3, NoneLeftStays
<1>7. QED BY <1>1, <1>2, <1>3, <1>4, <1>5, <1>6 DEF DaemonInv

LEMMA CloseAppKeeps == ASSUME DaemonInv, NEW d \in Daemon, CloseApp(d) PROVE DaemonInv'
<1>1. DaemonTypeOK'
  BY DaemonLimits DEF DaemonInv, DaemonTypeOK, CloseApp, Goes, Others, Phases, runVars,
       Daemon
<1>2. PortIsHeld'
  BY DaemonLimits DEF DaemonInv, DaemonTypeOK, PortIsHeld, CloseApp, Goes, Others,
       runVars, Daemon
<1>3. RunsHaveDaemon'
  BY DaemonLimits DEF DaemonInv, DaemonTypeOK, PortIsHeld, RunsHaveDaemon, CloseApp,
       Goes, Others, runVars, Daemon
<1>4. AloneWithItsRuns'
  <2>1. Alive' \subseteq Alive /\ \A e \in Alive' : at[e] = "preparing" => at'[e] = "preparing"
    BY DEF DaemonInv, DaemonTypeOK, Alive, procVars, CloseApp, Goes
  <2>2. overlap' = overlap /\ runAt' = runAt /\ runBy' = runBy
    BY DEF runVars, Others, CloseApp, Goes
  <2>3. QED BY <2>1, <2>2, AloneStays
<1>5. ServingIsReachable'
  BY DaemonLimits DEF DaemonInv, DaemonTypeOK, PortIsHeld, ServingIsReachable, CloseApp,
       Goes, Others, Verified, runVars, Daemon
<1>6. NothingLeftRunning'
  <2>1. \A e \in Daemon : at[e] = "gone" => at'[e] = "gone"
    BY DEF DaemonInv, DaemonTypeOK, procVars, CloseApp, Goes
  <2>2. port' # 0 => port' \in Alive /\ at[port'] # "preparing" /\ at'[port'] # "gone"
    BY PortOwner DEF DaemonInv, DaemonTypeOK, Alive, procVars, CloseApp, Goes
  <2>3. overlap' = overlap /\ runAt' = runAt /\ runBy' = runBy
    BY DEF runVars, Others, CloseApp, Goes
  <2>4. QED BY <2>1, <2>2, <2>3, NoneLeftStays
<1>7. QED BY <1>1, <1>2, <1>3, <1>4, <1>5, <1>6 DEF DaemonInv

LEMMA ExitKeeps == ASSUME DaemonInv, NEW d \in Daemon, Exit(d) PROVE DaemonInv'
<1>1. DaemonTypeOK'
  BY DaemonLimits DEF DaemonInv, DaemonTypeOK, Exit, Others, Phases, runVars, Daemon
<1>2. PortIsHeld'
  BY DaemonLimits DEF DaemonInv, DaemonTypeOK, PortIsHeld, Exit, Others, runVars, Daemon
<1>3. RunsHaveDaemon'
  BY DaemonLimits DEF DaemonInv, DaemonTypeOK, PortIsHeld, RunsHaveDaemon, Exit, Others,
       runVars, Daemon
<1>4. AloneWithItsRuns'
  <2>1. Alive' \subseteq Alive /\ \A e \in Alive' : at[e] = "preparing" => at'[e] = "preparing"
    BY DEF DaemonInv, DaemonTypeOK, Alive, procVars, Exit
  <2>2. overlap' = overlap /\ runAt' = runAt /\ runBy' = runBy
    BY DEF runVars, Others, Exit
  <2>3. QED BY <2>1, <2>2, AloneStays
<1>5. ServingIsReachable'
  BY DaemonLimits DEF DaemonInv, DaemonTypeOK, PortIsHeld, ServingIsReachable, Exit,
       Others, Verified, runVars, Daemon
<1>6. NothingLeftRunning'
  <2>1. \A e \in Daemon : at[e] = "gone" => at'[e] = "gone"
    BY DEF DaemonInv, DaemonTypeOK, procVars, Exit
  <2>2. port' # 0 => port' \in Alive /\ at[port'] # "preparing" /\ at'[port'] # "gone"
    BY PortOwner DEF DaemonInv, DaemonTypeOK, Alive, procVars, Exit
  <2>3. overlap' = overlap /\ runAt' = runAt /\ runBy' = runBy
    BY DEF runVars, Others, Exit
  <2>4. QED BY <2>1, <2>2, <2>3, NoneLeftStays
<1>7. QED BY <1>1, <1>2, <1>3, <1>4, <1>5, <1>6 DEF DaemonInv

LEMMA DieKeeps == ASSUME DaemonInv, NEW d \in Daemon, Die(d) PROVE DaemonInv'
<1>1. DaemonTypeOK'
  BY DaemonLimits DEF DaemonInv, DaemonTypeOK, Die, Others, Phases, runVars, Daemon
<1>2. PortIsHeld'
  BY DaemonLimits DEF DaemonInv, DaemonTypeOK, PortIsHeld, Die, Others, runVars, Daemon
<1>3. RunsHaveDaemon'
  BY DaemonLimits DEF DaemonInv, DaemonTypeOK, PortIsHeld, RunsHaveDaemon, Die, Others,
       runVars, Daemon
<1>4. AloneWithItsRuns'
  <2>1. Alive' \subseteq Alive /\ \A e \in Alive' : at[e] = "preparing" => at'[e] = "preparing"
    BY DEF DaemonInv, DaemonTypeOK, Alive, procVars, Die
  <2>2. overlap' = overlap /\ runAt' = runAt /\ runBy' = runBy
    BY DEF runVars, Others, Die
  <2>3. QED BY <2>1, <2>2, AloneStays
<1>5. ServingIsReachable'
  BY DaemonLimits DEF DaemonInv, DaemonTypeOK, PortIsHeld, ServingIsReachable, Die,
       Others, Verified, runVars, Daemon
<1>6. NothingLeftRunning'
  <2>1. \A e \in Daemon : at[e] = "gone" => at'[e] = "gone"
    BY DEF DaemonInv, DaemonTypeOK, procVars, Die
  <2>2. port' # 0 => port' \in Alive /\ at[port'] # "preparing" /\ at'[port'] # "gone"
    BY PortOwner DEF DaemonInv, DaemonTypeOK, Alive, procVars, Die
  <2>3. overlap' = overlap /\ runAt' = runAt /\ runBy' = runBy
    BY DEF runVars, Others, Die
  <2>4. QED BY <2>1, <2>2, <2>3, NoneLeftStays
<1>7. QED BY <1>1, <1>2, <1>3, <1>4, <1>5, <1>6 DEF DaemonInv

LEMMA AcceptKeeps == ASSUME DaemonInv, NEW d \in Daemon, NEW r \in AgentRun, Accept(d, r) PROVE DaemonInv'
<1>1. DaemonTypeOK'
  BY DaemonLimits DEF DaemonInv, DaemonTypeOK, Accept, Others, Phases, Daemon
<1>2. PortIsHeld'
  BY DaemonLimits DEF DaemonInv, DaemonTypeOK, PortIsHeld, Accept, Others, Daemon
<1>3. RunsHaveDaemon'
  BY DaemonLimits DEF DaemonInv, DaemonTypeOK, PortIsHeld, RunsHaveDaemon, Accept,
       Others, Daemon
<1>4. AloneWithItsRuns'
  <2>1. d \in Alive
    BY DEF DaemonInv, DaemonTypeOK, PortIsHeld, Accept, Alive
  <2>2. SUFFICES ASSUME ~overlap', NEW e \in Alive', NEW q \in AgentRun, at'[e] # "preparing",
                        runAt'[q] \in {"created", "running"} PROVE runBy'[q] = e
    BY DEF DaemonInv, AloneWithItsRuns, Accept, Others, Alive
  <2>3. e \in Alive /\ e = d
    BY <2>1, <2>2 DEF DaemonInv, AloneWithItsRuns, Accept, Others, Alive
  <2>4. CASE q = r
    BY <2>3, <2>4 DEF DaemonInv, DaemonTypeOK, Accept
  <2>5. CASE q # r
    BY <2>2, <2>3, <2>5 DEF DaemonInv, DaemonTypeOK, AloneWithItsRuns, Accept, Others
  <2>6. QED BY <2>4, <2>5
<1>5. ServingIsReachable'
  BY DaemonLimits DEF DaemonInv, DaemonTypeOK, PortIsHeld, ServingIsReachable, Accept,
       Others, Verified, Daemon
<1>6. NothingLeftRunning'
  <2>1. SUFFICES ASSUME ~overlap, NEW q \in AgentRun
                 PROVE /\ runAt'[q] \in {"created", "running"} => at'[runBy'[q]] # "gone"
                       /\ runAt'[q] \in {"interrupted", "failed"} => at'[runBy'[q]] = "gone"
    BY DEF NothingLeftRunning, Accept, Others
  <2>2. at[d] # "gone" /\ at' = at /\ port # 0
    BY DEF DaemonInv, PortIsHeld, Accept, Daemon
  <2>3. CASE q = r
    BY <2>2, <2>3 DEF DaemonInv, DaemonTypeOK, Accept
  <2>4. CASE q # r
    BY <2>1, <2>2, <2>4 DEF DaemonInv, DaemonTypeOK, NothingLeftRunning, Accept
  <2>5. QED BY <2>3, <2>4
<1>7. QED BY <1>1, <1>2, <1>3, <1>4, <1>5, <1>6 DEF DaemonInv

LEMMA RunStepsKeeps == ASSUME DaemonInv, NEW d \in Daemon, NEW r \in AgentRun, RunSteps(d, r) PROVE DaemonInv'
<1>1. DaemonTypeOK'
  BY DaemonLimits DEF DaemonInv, DaemonTypeOK, RunSteps, Others, Phases, Daemon
<1>2. PortIsHeld'
  BY DaemonLimits DEF DaemonInv, DaemonTypeOK, PortIsHeld, RunSteps, Others, Daemon
<1>3. RunsHaveDaemon'
  BY DaemonLimits DEF DaemonInv, DaemonTypeOK, PortIsHeld, RunsHaveDaemon, RunSteps,
       Others, Daemon
<1>4. AloneWithItsRuns'
  BY DaemonLimits, SMTT(20) DEF DaemonInv, DaemonTypeOK, PortIsHeld, RunsHaveDaemon,
       AloneWithItsRuns, RunSteps, Others, Alive, Daemon
<1>5. ServingIsReachable'
  BY DaemonLimits DEF DaemonInv, DaemonTypeOK, PortIsHeld, ServingIsReachable, RunSteps,
       Others, Verified, Daemon
<1>6. NothingLeftRunning'
  BY DaemonLimits, SMTT(20) DEF DaemonInv, DaemonTypeOK, PortIsHeld, RunsHaveDaemon,
       AloneWithItsRuns, NothingLeftRunning, RunSteps, Others, Alive, Daemon
<1>7. QED BY <1>1, <1>2, <1>3, <1>4, <1>5, <1>6 DEF DaemonInv

LEMMA StrangerKeeps == ASSUME DaemonInv, NEW p \in Pid, Stranger(p) PROVE DaemonInv'
<1>1. DaemonTypeOK'
  BY DaemonLimits DEF DaemonInv, DaemonTypeOK, Stranger, FreePids, Phases, runVars,
       Daemon
<1>2. PortIsHeld'
  BY DaemonLimits DEF DaemonInv, DaemonTypeOK, PortIsHeld, Stranger, FreePids, runVars,
       Daemon
<1>3. RunsHaveDaemon'
  BY DaemonLimits DEF DaemonInv, DaemonTypeOK, PortIsHeld, RunsHaveDaemon, Stranger,
       FreePids, runVars, Daemon
<1>4. AloneWithItsRuns'
  <2>1. Alive' \subseteq Alive /\ \A e \in Alive' : at[e] = "preparing" => at'[e] = "preparing"
    BY DEF DaemonInv, DaemonTypeOK, Alive, procVars, Stranger
  <2>2. overlap' = overlap /\ runAt' = runAt /\ runBy' = runBy
    BY DEF runVars, Others, Stranger
  <2>3. QED BY <2>1, <2>2, AloneStays
<1>5. ServingIsReachable'
  BY DaemonLimits DEF DaemonInv, DaemonTypeOK, PortIsHeld, ServingIsReachable, Stranger,
       FreePids, Verified, runVars, Daemon
<1>6. NothingLeftRunning'
  <2>1. \A e \in Daemon : at[e] = "gone" => at'[e] = "gone"
    BY DEF DaemonInv, DaemonTypeOK, procVars, Stranger
  <2>2. port' # 0 => port' \in Alive /\ at[port'] # "preparing" /\ at'[port'] # "gone"
    BY PortOwner DEF DaemonInv, DaemonTypeOK, Alive, procVars, Stranger
  <2>3. overlap' = overlap /\ runAt' = runAt /\ runBy' = runBy
    BY DEF runVars, Others, Stranger
  <2>4. QED BY <2>1, <2>2, <2>3, NoneLeftStays
<1>7. QED BY <1>1, <1>2, <1>3, <1>4, <1>5, <1>6 DEF DaemonInv

LEMMA DaemonInvAtFirst == DaemonInit => DaemonInv
<1> SUFFICES ASSUME DaemonInit PROVE DaemonInv
  OBVIOUS
<1>1. DaemonTypeOK
  BY DaemonLimits, 0 \in 0..MaxDaemon, 0 \in 0..MaxCommand DEF DaemonInit, DaemonTypeOK, Phases, NoFile
<1>2. PortIsHeld /\ RunsHaveDaemon /\ AloneWithItsRuns /\ ServingIsReachable /\ NothingLeftRunning
  BY DEF DaemonInit, Daemon, PortIsHeld, RunsHaveDaemon, AloneWithItsRuns, ServingIsReachable,
     NothingLeftRunning, Alive
<1>3. QED BY <1>1, <1>2 DEF DaemonInv

LEMMA DaemonStutters == ASSUME DaemonInv, UNCHANGED daemonVars PROVE DaemonInv'
BY DEF daemonVars, procVars, runVars, DaemonInv, DaemonTypeOK, PortIsHeld, RunsHaveDaemon,
   AloneWithItsRuns, ServingIsReachable, NothingLeftRunning, Verified, Alive

\* DaemonInv holds in every reachable state: a daemon has the port from its listen to its close, runs are made
\* by a daemon that had it, and a daemon that is alone finds no unfinished runs but its own.
THEOREM DaemonInvariant == DaemonSpec => []DaemonInv
<1>1. DaemonInv /\ [DaemonNext]_daemonVars => DaemonInv'
  <2>1. ASSUME DaemonInv, DaemonNext PROVE DaemonInv'
    <3>1. CASE \E s \in Shell : \/ Start(s) \/ Stop(s) \/ Restart(s) \/ PollEnds(s)
                                \/ (shell[s] = "spawn" /\ Spawn(s))
      BY <2>1, <3>1, StartKeeps, StopKeeps, RestartKeeps, PollEndsKeeps, SpawnKeeps
    <3>2. CASE \E d \in Daemon : \/ Recover(d) \/ Listen(d) \/ WritePidFile(d) \/ Started(d)
                                 \/ CloseApp(d) \/ Exit(d) \/ Die(d)
      BY <2>1, <3>2, RecoverKeeps, ListenKeeps, WritePidFileKeeps, StartedKeeps, CloseAppKeeps,
         ExitKeeps, DieKeeps
    <3>3. CASE \E d \in Daemon, r \in AgentRun : Accept(d, r) \/ RunSteps(d, r)
      BY <2>1, <3>3, AcceptKeeps, RunStepsKeeps
    <3>4. CASE \E p \in Pid : Stranger(p)
      BY <2>1, <3>4, StrangerKeeps
    <3>5. QED BY <2>1, <3>1, <3>2, <3>3, <3>4 DEF DaemonNext
  <2>2. QED BY <2>1, DaemonStutters
<1>2. QED BY DaemonInvAtFirst, <1>1, PTL DEF DaemonSpec

\* Whatever the launcher's commands, crashes and process ids re-used, a daemon that has started can be
\* found and stopped; and while no two were alive at one time, its runs are its own or settled.
THEOREM OneDaemonIsInCharge == DaemonSpec => []OneDaemonInCharge
BY DaemonInvariant, PTL DEF DaemonInv, OneDaemonInCharge

-----------------------------------------------------------------------------
(* The stale-detection worker and the skill watcher.                        *)

LEMMA WorkersTypeAtFirst == WorkersInit => WorkersTypeOK
<1>1. 0 \in 0..MaxSummary /\ 0 \in 0..ScanBudget /\ 0 \in 0..PageSize /\ 0 \in 0..MaxVersion
  BY BudgetIsWholePages
<1>2. WorkersInit => UNION {gone, movedOn, marked, due, missed, page} = {}
  BY DEF WorkersInit
<1>3. NoPage \in [id : 0..MaxSummary, length : 0..PageSize]
  BY <1>1 DEF NoPage
<1>4. WorkersInit => UNION {gone, movedOn, marked, due, missed, page} \subseteq Summary
  BY <1>2
<1>5. QED BY <1>1, <1>3, <1>4 DEF WorkersInit, WorkersTypeOK

LEMMA PageFits ==
  ASSUME NEW n \in Nat, n * PageSize < ScanBudget
  PROVE  n * PageSize + PageSize <= ScanBudget /\ n * PageSize + PageSize = (n + 1) * PageSize
<1>1. PICK b \in 0..ScanBudget : ScanBudget = b * PageSize
  BY BudgetIsWholePages
<1>2. PageSize \in Nat /\ PageSize > 0 /\ b \in Nat /\ ScanBudget \in Nat
  BY BudgetIsWholePages
<1>3. n < b
  <2>1. SUFFICES ASSUME n >= b PROVE FALSE
    BY <1>2
  <2>2. PICK k \in Nat : n = b + k
    BY <1>2, <2>1, n - b \in Nat
  <2>3. n * PageSize = b * PageSize + k * PageSize /\ k * PageSize >= 0
    BY <1>2, <2>2
  <2>4. QED BY <1>1, <1>2, <2>3
<1>4. PICK k \in Nat : b = (n + 1) + k
  BY <1>2, <1>3, b - (n + 1) \in Nat
<1>5. b * PageSize = (n + 1) * PageSize + k * PageSize /\ k * PageSize >= 0
  BY <1>2, <1>4
<1>6. n * PageSize + PageSize = (n + 1) * PageSize
  BY <1>2
<1>7. n * PageSize \in Nat /\ k * PageSize \in Nat
  BY <1>2
<1>8. QED BY <1>1, <1>2, <1>5, <1>6, <1>7

LEMMA SummariesAreFinite == ASSUME NEW S, S \subseteq Summary
                            PROVE IsFiniteSet(S) /\ Cardinality(S) \in Nat
<1>1. IsFiniteSet(Summary)
  BY FS_Interval, BudgetIsWholePages DEF Summary
<1>2. QED BY <1>1, FS_Subset, FS_CardinalityType

-----------------------------------------------------------------------------
(* Rows that come, move on and go. *)

LEMMA CreateKeepsSweep ==
  ASSUME SweepInv, NEW by \in {"writer", "api"}, CreateSummary(by) PROVE SweepInv'
<1>1. PICK n \in Summary \ Written : origin' = [origin EXCEPT ![n] = by]
  BY DEF CreateSummary
<1>2. WorkersTypeOK'
  BY <1>1 DEF SweepInv, WorkersTypeOK, CreateSummary, scanVars, watchVars
<1>3. /\ movedOn' = movedOn /\ due' = due /\ missed' = missed /\ marked' = marked
      /\ UNCHANGED <<scan, scanCursor, page, last, processed>>
  BY DEF CreateSummary, scanVars
<1>4. Written \subseteq Written' /\ n \notin movedOn
  BY <1>1 DEF SweepInv, WorkersTypeOK, Written
<1>5. \A s \in movedOn : s \in Listed' => s \in Listed
  BY <1>1, <1>4 DEF SweepInv, WorkersTypeOK, Listed, Written, CreateSummary
<1>6. Owed' \subseteq Owed /\ SweepMarks'
  BY <1>3, <1>5 DEF SweepInv, SweepMarks, Owed
<1>7. OwedIsAhead' /\ WholePages'
  BY <1>3, <1>6 DEF SweepInv, OwedIsAhead, WholePages
<1>8. QED BY <1>2, <1>3, <1>4, <1>6, <1>7 DEF SweepInv

LEMMA MoveOnKeepsSweep == ASSUME SweepInv, NEW s \in Summary, MoveOn(s) PROVE SweepInv'
<1>1. WorkersTypeOK' /\ Written' = Written /\ Listed' = Listed
  BY DEF SweepInv, WorkersTypeOK, MoveOn, Written, Listed, scanVars, watchVars
<1>2. /\ due' = due /\ missed' = missed /\ marked' = marked
      /\ UNCHANGED <<scan, scanCursor, page, last, processed>>
  BY DEF MoveOn, scanVars
<1>3. OwedIsAhead' /\ WholePages' /\ SweepMarks'
  BY <1>1, <1>2 DEF SweepInv, OwedIsAhead, WholePages, SweepMarks, Owed
<1>4. QED BY <1>1, <1>2, <1>3 DEF SweepInv, MoveOn

LEMMA RemoveKeepsSweep == ASSUME SweepInv, NEW s \in Summary, RemoveSummary(s) PROVE SweepInv'
<1>1. WorkersTypeOK' /\ Written' = Written /\ Listed' \subseteq Listed
  BY DEF SweepInv, WorkersTypeOK, RemoveSummary, Written, Listed, scanVars, watchVars
<1>2. /\ due' = due /\ missed' = missed /\ marked' = marked /\ movedOn' = movedOn
      /\ UNCHANGED <<scan, scanCursor, page, last, processed>>
  BY DEF RemoveSummary, scanVars
<1>3. OwedIsAhead' /\ WholePages' /\ SweepMarks'
  BY <1>1, <1>2 DEF SweepInv, OwedIsAhead, WholePages, SweepMarks, Owed
<1>4. QED BY <1>1, <1>2, <1>3 DEF SweepInv

-----------------------------------------------------------------------------
(* A scan. *)

LEMMA RowsStay == ASSUME UNCHANGED rowVars PROVE Written' = Written /\ Listed' = Listed
BY DEF rowVars, Written, Listed

\* The end of the list is reached when nothing is owed: nothing is missed.
LEMMA NothingOwedNothingMissed ==
  ASSUME SweepInv, UNCHANGED rowVars, SweepEnds, Owed = {}
  PROVE  missed' \subseteq movedOn' /\ SweepMarks'
<1>1. Listed' = Listed
  BY RowsStay
<1>2. QED BY <1>1 DEF SweepEnds, SweepMarks, Owed, SweepInv, rowVars

LEMMA ScanStartsKeepsSweep == ASSUME SweepInv, ScanStarts PROVE SweepInv'
<1>1. WorkersTypeOK'
  BY BudgetIsWholePages DEF SweepInv, WorkersTypeOK, ScanStarts, rowVars, watchVars
<1>2. Written' = Written /\ Listed' = Listed /\ UNCHANGED <<movedOn, marked, gone, scanCursor>>
  BY RowsStay DEF ScanStarts, rowVars
<1>3. (due \cup missed)' \subseteq movedOn' /\ SweepMarks'
  BY <1>2 DEF SweepInv, ScanStarts, SweepMarks
<1>4. OwedIsAhead'
  BY <1>2 DEF SweepInv, ScanStarts, OwedIsAhead, Owed
<1>5. WholePages'
  <2>1. SUFFICES 0 = 0 * PageSize /\ 0 < ScanBudget
    BY 0 \in Nat DEF WholePages, ScanStarts
  <2>2. QED BY BudgetIsWholePages
<1>6. QED BY <1>1, <1>2, <1>3, <1>4, <1>5 DEF SweepInv

LEMMA ListPageKeepsSweep == ASSUME SweepInv, ListPage PROVE SweepInv'
<1>0. Written' = Written /\ Listed' = Listed /\ UNCHANGED <<origin, movedOn, marked, gone, due, processed>>
  BY RowsStay DEF ListPage, rowVars
<1>1. CASE /\ IsNextPage({}) /\ SweepEnds /\ UNCHANGED <<page, last>>
  <2>1. Owed = {}
    BY <1>1, BudgetIsWholePages, FS_EmptySet
       DEF SweepInv, IsNextPage, PageOf, OwedIsAhead, Owed, ListPage
  <2>2. missed' \subseteq movedOn' /\ SweepMarks'
    BY <1>1, <2>1, NothingOwedNothingMissed DEF ListPage
  <2>3. WorkersTypeOK'
    BY <1>0, <1>1, BudgetIsWholePages DEF SweepInv, WorkersTypeOK, SweepEnds, ListPage, watchVars
  <2>4. OwedIsAhead' /\ WholePages'
    BY <1>1 DEF OwedIsAhead, WholePages, SweepEnds
  <2>5. QED BY <1>0, <2>2, <2>3, <2>4 DEF SweepInv
<1>2. ASSUME NEW next \in SUBSET Summary, NEW oldest \in next, IsNextPage(next), \A s \in next : oldest <= s,
             page' = next, last' = [id |-> oldest, length |-> Cardinality(next)],
             scan' = "checking", UNCHANGED <<scanCursor, missed>>
      PROVE SweepInv'
  <2>1. IsFiniteSet(next) /\ Cardinality(next) \in 0..PageSize
    BY <1>2, SummariesAreFinite, BudgetIsWholePages DEF IsNextPage, PageOf
  <2>2. WorkersTypeOK'
    <3>0. oldest \in 0..MaxSummary
      BY BudgetIsWholePages DEF Summary
    <3>1. UNION {gone, movedOn, marked, due, missed, page}' \subseteq Summary
      BY <1>0, <1>2 DEF SweepInv, WorkersTypeOK
    <3>2. QED BY <1>0, <1>2, <2>1, <3>0, <3>1 DEF SweepInv, WorkersTypeOK, ListPage, watchVars
  <2>3. OwedIsAhead'
    <3>1. SUFFICES ASSUME NEW s \in Owed, s \notin next
                   PROVE Cardinality(next) = PageSize /\ s < oldest
      BY <1>0, <1>2 DEF OwedIsAhead, Owed
    <3>2. s \in {t \in Listed : scanCursor = 0 \/ t < scanCursor}
      BY DEF SweepInv, OwedIsAhead, ListPage, Owed
    <3>3. QED BY <1>2, <3>1, <3>2 DEF IsNextPage, PageOf
  <2>4. WholePages'
    <3>1. PICK n \in Nat : processed = n * PageSize /\ processed < ScanBudget
      BY DEF SweepInv, WholePages, ListPage
    <3>2. processed + PageSize <= ScanBudget /\ processed + PageSize = (n + 1) * PageSize
      BY <3>1, PageFits
    <3>3. processed + Cardinality(next) <= ScanBudget
      BY <2>1, <3>2, BudgetIsWholePages DEF SweepInv, WorkersTypeOK
    <3>4. Cardinality(next) = PageSize =>
            processed + Cardinality(next) = (n + 1) * PageSize /\ n + 1 \in Nat
      BY <3>2
    <3>5. QED BY <1>0, <1>2, <3>3, <3>4 DEF WholePages
  <2>5. QED BY <1>0, <1>2, <2>2, <2>3, <2>4 DEF SweepInv, SweepMarks
<1>3. QED BY <1>1, <1>2 DEF ListPage

LEMMA ListFailsKeepsSweep == ASSUME SweepInv, ListFails PROVE SweepInv'
<1>1. /\ Written' = Written /\ Listed' = Listed /\ scan = "listing" /\ scan' = "idle"
      /\ UNCHANGED <<movedOn, marked, due, missed, scanCursor>>
  BY RowsStay DEF ListFails, rowVars
<1>2. WorkersTypeOK'
  BY DEF SweepInv, WorkersTypeOK, ListFails, rowVars, watchVars
<1>3. OwedIsAhead' /\ WholePages' /\ SweepMarks'
  BY <1>1 DEF SweepInv, OwedIsAhead, WholePages, SweepMarks, Owed
<1>4. QED BY <1>1, <1>2, <1>3 DEF SweepInv

LEMMA CheckKeepsSweep == ASSUME SweepInv, NEW ok \in BOOLEAN, CheckSummary(ok) PROVE SweepInv'
<1>1. PICK s \in page :
        /\ page' = page \ {s}
        /\ marked' = IF ok /\ s \in movedOn THEN marked \cup {s} ELSE marked
        /\ due' = IF ok THEN due ELSE due \ {s}
  BY DEF CheckSummary
<1>2. /\ Written' = Written /\ Listed' = Listed /\ scan = "checking" /\ scan' = "checking"
      /\ processed' = processed + 1 /\ UNCHANGED <<movedOn, missed, last, scanCursor>>
  BY DEF CheckSummary, Written, Listed
<1>3. page \subseteq Summary /\ s \in Summary
  BY <1>1 DEF SweepInv, WorkersTypeOK
<1>4. /\ Cardinality(page') = Cardinality(page) - 1 /\ Cardinality(page') \in Nat
      /\ processed' + Cardinality(page') = processed + Cardinality(page)
  <2>1. Cardinality(page') = Cardinality(page) - 1
    BY <1>1, <1>3, SummariesAreFinite, FS_RemoveElement
  <2>2. Cardinality(page) \in Nat /\ Cardinality(page') \in Nat /\ processed \in Nat
    BY <1>1, <1>3, SummariesAreFinite, BudgetIsWholePages DEF SweepInv, WorkersTypeOK
  <2>3. QED BY <1>2, <2>1, <2>2
<1>5. WholePages'
  BY <1>2, <1>4 DEF SweepInv, WholePages
<1>6. WorkersTypeOK'
  <2>1. processed' \in 0..ScanBudget
    BY <1>2, BudgetIsWholePages DEF SweepInv, WorkersTypeOK, CheckSummary
  <2>2. UNION {gone, movedOn, marked, due, missed, page}' \subseteq Summary
    BY <1>1, <1>3 DEF SweepInv, WorkersTypeOK, CheckSummary
  <2>3. QED BY <2>1, <2>2 DEF SweepInv, WorkersTypeOK, CheckSummary, watchVars
<1>7. Owed' \subseteq Owed /\ s \notin Owed'
  BY <1>1, <1>2 DEF SweepInv, Owed
<1>8. OwedIsAhead'
  BY <1>1, <1>2, <1>7 DEF SweepInv, OwedIsAhead
<1>9. due' \subseteq due /\ marked \subseteq marked'
  BY <1>1
<1>10. QED BY <1>2, <1>5, <1>6, <1>8, <1>9 DEF SweepInv, SweepMarks

LEMMA PageEndsKeepsSweep == ASSUME SweepInv, PageEnds PROVE SweepInv'
<1>0. /\ Written' = Written /\ Listed' = Listed /\ UNCHANGED <<origin, movedOn, marked, gone, due, processed>>
      /\ page' = {} /\ last' = NoPage /\ scan = "checking"
  BY RowsStay DEF PageEnds, rowVars
<1>1. page = {} /\ Cardinality(page) = 0
  <2>1. SUFFICES ASSUME page # {} PROVE FALSE
    BY FS_EmptySet
  <2>2. IsFiniteSet(page) /\ Cardinality(page) \in Nat /\ Cardinality(page) # 0
    BY <2>1, SummariesAreFinite, FS_EmptySet DEF SweepInv, WorkersTypeOK
  <2>3. processed + Cardinality(page) <= ScanBudget /\ processed >= ScanBudget
    BY <1>0, <2>1 DEF SweepInv, WholePages, PageEnds
  <2>4. QED BY <2>2, <2>3, BudgetIsWholePages DEF SweepInv, WorkersTypeOK
<1>2. CASE last.length < PageSize /\ SweepEnds
  <2>1. Owed = {}
    BY <1>0, <1>1, <1>2, BudgetIsWholePages DEF SweepInv, WorkersTypeOK, OwedIsAhead
  <2>2. missed' \subseteq movedOn' /\ SweepMarks'
    BY <1>2, <2>1, NothingOwedNothingMissed DEF PageEnds
  <2>3. WorkersTypeOK'
    BY <1>0, <1>2, BudgetIsWholePages DEF SweepInv, WorkersTypeOK, SweepEnds, PageEnds, NoPage, watchVars
  <2>4. OwedIsAhead' /\ WholePages'
    BY <1>2 DEF OwedIsAhead, WholePages, SweepEnds
  <2>5. QED BY <1>0, <2>2, <2>3, <2>4 DEF SweepInv
<1>3. CASE /\ last.length = PageSize /\ scanCursor' = last.id
           /\ scan' = IF processed < ScanBudget THEN "listing" ELSE "idle"
           /\ UNCHANGED missed
  <2>1. WorkersTypeOK'
    BY <1>0, <1>3, BudgetIsWholePages DEF SweepInv, WorkersTypeOK, PageEnds, NoPage, watchVars
  <2>2. OwedIsAhead'
    BY <1>0, <1>1, <1>3 DEF SweepInv, OwedIsAhead, Owed
  <2>3. WholePages'
    <3>1. processed + 0 = processed
      BY BudgetIsWholePages DEF SweepInv, WorkersTypeOK
    <3>2. QED BY <1>0, <1>1, <1>3, <3>1 DEF SweepInv, WholePages
  <2>4. QED BY <1>0, <1>3, <2>1, <2>2, <2>3 DEF SweepInv, SweepMarks
<1>4. last.length < PageSize \/ last.length = PageSize
  BY BudgetIsWholePages DEF SweepInv, WorkersTypeOK
<1>5. QED BY <1>2, <1>3, <1>4 DEF PageEnds

LEMMA SweepStutters == ASSUME SweepInv, UNCHANGED workerVars PROVE SweepInv'
BY DEF workerVars, rowVars, scanVars, watchVars, SweepInv, WorkersTypeOK, OwedIsAhead, WholePages,
   SweepMarks, Owed, Listed, Written

\* SweepInv holds in every reachable state: a listed summary that is owed a mark lies ahead of the cursor of
\* the stale-detection worker, whatever rows come and go.
THEOREM SweepInvariant == ScanSpec => []SweepInv
<1>1. WorkersInit => SweepInv
  <2>1. WorkersInit => WorkersTypeOK
    BY WorkersTypeAtFirst
  <2>2. WorkersInit => (due \cup missed \subseteq movedOn) /\ movedOn \subseteq Written
    BY DEF WorkersInit
  <2>3. WorkersInit => OwedIsAhead /\ WholePages /\ SweepMarks
    BY DEF WorkersInit, OwedIsAhead, WholePages, SweepMarks
  <2>4. QED BY <2>1, <2>2, <2>3 DEF SweepInv
<1>2. SweepInv /\ [ScanNext]_workerVars => SweepInv'
  BY CreateKeepsSweep, MoveOnKeepsSweep, RemoveKeepsSweep, ScanStartsKeepsSweep, ListPageKeepsSweep,
     ListFailsKeepsSweep, CheckKeepsSweep, PageEndsKeepsSweep, SweepStutters DEF ScanNext
<1>3. QED BY <1>1, <1>2, PTL DEF ScanSpec

\* However the list is cut into pages and scans, and whatever rows come and go between them, a sweep that
\* reaches its end has marked every listed summary that had moved on when it began.
THEOREM SweepsMark == ScanSpec => []SweepMarks
BY SweepInvariant, PTL DEF SweepInv

-----------------------------------------------------------------------------
(* The watcher: WatchInv holds in every reachable state.  A reload that can *)
(* still be trusted has read what the directories hold.                     *)
THEOREM WatchInvariant == WatchSpec => []WatchInv
<1>1. WorkersInit => WatchInv
  BY WorkersTypeAtFirst DEF WorkersInit, WatchInv, WatcherCatchesUp
<1>2. ASSUME WatchInv, WatchNext PROVE WatchInv'
  <2>1. CASE EditSkills
    <3>1. WorkersTypeOK'
      BY <1>2, <2>1, BudgetIsWholePages DEF EditSkills, WatchInv, WorkersTypeOK, rowVars, scanVars
    <3>2. disk \in Nat /\ fingerprint \in Nat /\ fingerprint <= disk /\ disk' = disk + 1
      BY <1>2, <2>1, BudgetIsWholePages DEF EditSkills, WatchInv, WorkersTypeOK
    <3>3. fingerprint <= disk' /\ fingerprint # disk' /\ fingerprint' = fingerprint
      BY <2>1, <3>2 DEF EditSkills
    <3>4. QED BY <1>2, <2>1, <3>1, <3>2, <3>3 DEF EditSkills, WatchInv, WatcherCatchesUp
  <2>2. CASE WatcherTicks
    BY <1>2, <2>2, BudgetIsWholePages DEF WatcherTicks, WatchInv, WorkersTypeOK, WatcherCatchesUp, rowVars, scanVars
  <2>3. CASE ReloadReads
    BY <1>2, <2>3, BudgetIsWholePages DEF ReloadReads, WatchInv, WorkersTypeOK, WatcherCatchesUp, rowVars, scanVars
  <2>4. CASE ReloadEnds
    BY <1>2, <2>4, BudgetIsWholePages DEF ReloadEnds, WatchInv, WorkersTypeOK, WatcherCatchesUp, rowVars, scanVars
  <2>5. CASE ReloadFails
    BY <1>2, <2>5, BudgetIsWholePages DEF ReloadFails, WatchInv, WorkersTypeOK, WatcherCatchesUp, rowVars, scanVars
  <2>6. QED BY <1>2, <2>1, <2>2, <2>3, <2>4, <2>5 DEF WatchNext
<1>3. WatchInv /\ UNCHANGED workerVars => WatchInv'
  BY DEF workerVars, rowVars, scanVars, watchVars, WatchInv, WorkersTypeOK, WatcherCatchesUp
<1>4. QED BY <1>1, <1>2, <1>3, PTL DEF WatchSpec

\* The registry never stays behind the skill directories unnoticed, however edits and reloads interleave.
THEOREM WatcherAlwaysCatchesUp == WatchSpec => []WatcherCatchesUp
BY WatchInvariant, PTL DEF WatchInv

-----------------------------------------------------------------------------
(* The trace writer: rows that tell the trace.                              *)

Traced == [started : BOOLEAN, ended : BOOLEAN, measured : BOOLEAN, spans : Nat]

\* A trace about which neither memory, nor a write, nor a row has changed.
LEMMA UntouchedTrace ==
  ASSUME NEW t \in Tracer, RowFollows(t), memory'[t] = memory[t], traceRow'[t] = traceRow[t],
         spanRow'[t] = spanRow[t], \A op \in Ops : Pending(t, op)' <=> Pending(t, op)
  PROVE  RowFollows(t)'
BY DEF RowFollows, Ops

\* A write that is added is pending, and the others are pending as before.
LEMMA Added ==
  ASSUME NEW h, NEW op, NEW n, writes' = writes \cup {Write(h, op, n)}
  PROVE  \A t \in Tracer, o \in Ops : Pending(t, o)' <=> Pending(t, o) \/ (t = h /\ o = op)
<1> DEFINE new == Write(h, op, n)
<1>1. new.trace = h /\ new.op = op
  BY DEF Write
<1> HIDE DEF new
<1>2. QED BY <1>1 DEF Pending, new

\* A write that lands or is lost was the only one of its kind.
LEMMA Removed ==
  ASSUME WrittenOnce, NEW w \in writes, writes' = writes \ {w}
  PROVE  \A t \in Tracer, o \in Ops :
           Pending(t, o)' <=> Pending(t, o) /\ ~(t = w.trace /\ o = w.op)
BY DEF WrittenOnce, Pending

LEMMA StepKeepsTrace ==
  ASSUME TraceInv, NEW h \in Tracer, Acquire(h) \/ Leaves(h) PROVE TraceInv'
<1>1. TraceTypeOK'
  BY DEF TraceInv, TraceTypeOK, Acquire, Leaves, AtStep, Rows
<1>2. InTheirTurn'
  BY DEF TraceInv, TraceTypeOK, InTheirTurn, Acquire, Leaves, AtStep, Rows, Tracer
<1>3. UNCHANGED <<memory, writes, traceRow, spanRow, overtaken, losses>>
  BY DEF Acquire, Leaves, Rows
<1>4. WrittenOnce' /\ RowsFollow'
  BY <1>3 DEF TraceInv, WrittenOnce, RowsFollow, RowFollows, Pending
<1>5. QED BY <1>1, <1>2, <1>4 DEF TraceInv

LEMMA StartKeepsTrace == ASSUME TraceInv, NEW h \in Tracer, StartTrace(h) PROVE TraceInv'
<1>1. /\ memory[h] = NoTrace /\ spanRow[h] = "none" /\ step[h] = "acquired"
      /\ memory' = [memory EXCEPT ![h] = [@ EXCEPT !.started = TRUE]]
      /\ UNCHANGED <<traceRow, spanRow, overtaken, losses, executor, completed>>
  BY DEF TraceInv, InTheirTurn, NoTrace, StartTrace, AtStep, Opened, Rows
<1>2. \A w \in writes : w.trace # h
  BY <1>1 DEF TraceInv, WrittenOnce, NoTrace
<1>3. memory'[h] = [started |-> TRUE, ended |-> FALSE, measured |-> FALSE, spans |-> 0]
  <2>1. memory'[h] = [NoTrace EXCEPT !.started = TRUE]
    BY <1>1 DEF TraceInv, TraceTypeOK
  <2>2. QED BY <2>1 DEF NoTrace
<1>4. \A w \in writes' : w \in writes \/ (w.trace = h /\ w.spans = 0 /\ (w = Write(h, "open", 0)
                                          \/ w = Write(h, "span", 0)))
  BY DEF StartTrace, Write
<1>5. TraceTypeOK'
  <2>1. memory' \in [Tracer -> Traced]
    <3>1. memory' = [memory EXCEPT ![h] = memory'[h]] /\ memory'[h] \in Traced
      BY <1>1, <1>3 DEF TraceInv, TraceTypeOK, Traced
    <3>2. QED BY <3>1 DEF TraceInv, TraceTypeOK, Traced
  <2>2. \A op \in Ops : Write(h, op, 0) \in [trace : Tracer, op : Ops, spans : Nat]
    BY DEF Write
  <2>3. writes' \subseteq [trace : Tracer, op : Ops, spans : Nat]
    BY <2>2 DEF TraceInv, TraceTypeOK, StartTrace, Ops
  <2>4. QED BY <1>1, <2>1, <2>3 DEF TraceInv, TraceTypeOK, StartTrace, AtStep, Traced
<1>6. InTheirTurn'
  <2>1. SUFFICES ASSUME NEW t \in Tracer
        PROVE /\ step'[t] \in {"asked", "acquired"} => memory'[t] = NoTrace
              /\ memory'[t].started \/ (memory'[t] = NoTrace /\ spanRow'[t] = "none")
              /\ step'[t] = "context" => memory'[t].started /\ ~memory'[t].measured /\ t \in Fresh
              /\ activeTrace' = t => memory'[t].started /\ ~memory'[t].ended
    BY DEF InTheirTurn
  <2>2. CASE t = h
    BY <1>3, <2>2 DEF TraceInv, TraceTypeOK, StartTrace, AtStep
  <2>3. CASE t # h
    BY <1>1, <2>3 DEF TraceInv, TraceTypeOK, InTheirTurn, StartTrace, AtStep
  <2>4. QED BY <2>2, <2>3
<1>7. WrittenOnce'
  <2>1. ASSUME NEW w \in writes'
        PROVE /\ memory'[w.trace].started
              /\ w.op = "spanEnd" => memory'[w.trace].measured
              /\ IF w.op = "end" THEN memory'[w.trace].ended /\ w.spans <= memory'[w.trace].spans
                                 ELSE w.spans = 0
    <3>1. CASE w \in writes
      BY <1>1, <1>2, <3>1 DEF TraceInv, TraceTypeOK, WrittenOnce
    <3>2. CASE w.trace = h /\ w.spans = 0 /\ (w = Write(h, "open", 0) \/ w = Write(h, "span", 0))
      BY <1>3, <3>2 DEF Write
    <3>3. QED BY <1>4, <3>1, <3>2
  <2>2. ASSUME NEW v \in writes', NEW w \in writes', v.trace = w.trace, v.op = w.op PROVE v = w
    BY <1>2, <1>4, <2>2 DEF TraceInv, WrittenOnce, Write
  <2>3. QED BY <2>1, <2>2 DEF WrittenOnce
<1>8. RowsFollow'
  <2>1. SUFFICES ASSUME losses = 0, NEW t \in Tracer \ overtaken, memory'[t].started
                 PROVE RowFollows(t)'
    BY <1>1 DEF RowsFollow
  <2>2. CASE t = h
    <3>1. Pending(h, "open")' /\ (h \in Fresh => Pending(h, "span")')
      <4>1. LET w == Write(h, "open", 0) IN w.trace = h /\ w.op = "open" /\ w \in writes'
        BY DEF StartTrace, Write
      <4>2. LET w == Write(h, "span", 0) IN w.trace = h /\ w.op = "span" /\ (h \in Fresh => w \in writes')
        BY DEF StartTrace, Write
      <4>3. QED BY <4>1, <4>2 DEF Pending
    <3>2. QED BY <1>1, <1>3, <2>2, <3>1 DEF RowFollows
  <2>3. CASE t # h
    <3>1. \A op \in Ops : Pending(t, op)' <=> Pending(t, op)
      BY <2>3 DEF StartTrace, Pending, Write
    <3>2. memory'[t] = memory[t]
      BY <1>1, <2>3 DEF TraceInv, TraceTypeOK
    <3>3. QED BY <1>1, <2>1, <3>1, <3>2, UntouchedTrace DEF TraceInv, RowsFollow
  <2>4. QED BY <2>2, <2>3
<1>9. QED BY <1>5, <1>6, <1>7, <1>8 DEF TraceInv

LEMMA EndSpanKeepsTrace == ASSUME TraceInv, NEW h \in Tracer, EndSpan(h) PROVE TraceInv'
<1>1. /\ memory[h].started /\ ~memory[h].measured /\ h \in Fresh /\ step[h] = "context"
      /\ writes' = writes \cup {Write(h, "spanEnd", 0)}
      /\ UNCHANGED <<traceRow, spanRow, overtaken, losses, executor, completed, activeTrace>>
  BY DEF TraceInv, InTheirTurn, EndSpan, AtStep, Rows
<1>2. /\ memory' = [memory EXCEPT ![h] = memory'[h]]
      /\ memory'[h] \in Traced /\ memory'[h].started /\ memory'[h].measured
      /\ memory'[h].ended = memory[h].ended /\ memory'[h].spans = memory[h].spans + 1
  <2>1. memory[h] \in Traced
    BY DEF TraceInv, TraceTypeOK, Traced
  <2>2. memory' = [memory EXCEPT ![h] = [[@ EXCEPT !.measured = TRUE] EXCEPT !.spans = memory[h].spans + 1]]
    BY <2>1 DEF TraceInv, TraceTypeOK, EndSpan, Measured, Traced
  <2>3. memory'[h] = [[memory[h] EXCEPT !.measured = TRUE] EXCEPT !.spans = memory[h].spans + 1]
    BY <2>2 DEF TraceInv, TraceTypeOK
  <2> DEFINE counted == [memory[h] EXCEPT !.measured = TRUE]
  <2>4. /\ counted \in Traced /\ counted.measured /\ counted.started = memory[h].started
        /\ counted.ended = memory[h].ended /\ memory[h].spans + 1 \in Nat
    <3>1. counted \in Traced
      BY <2>1 DEF Traced
    <3>2. counted.measured /\ counted.started = memory[h].started /\ counted.ended = memory[h].ended
      BY <2>1 DEF Traced
    <3>3. memory[h].spans + 1 \in Nat
      BY <2>1 DEF Traced
    <3>4. QED BY <3>1, <3>2, <3>3
  <2>5. memory'[h] = [counted EXCEPT !.spans = memory[h].spans + 1]
    BY <2>3
  <2> HIDE DEF counted
  <2>6. /\ memory'[h] \in Traced /\ memory'[h].started /\ memory'[h].measured
        /\ memory'[h].ended = memory[h].ended /\ memory'[h].spans = memory[h].spans + 1
    BY <1>1, <2>4, <2>5 DEF Traced
  <2>7. memory' = [memory EXCEPT ![h] = memory'[h]]
    BY <2>2, <2>3
  <2>8. QED BY <2>6, <2>7
<1>3. \A t \in Tracer \ {h} : memory'[t] = memory[t]
  BY <1>2 DEF TraceInv, TraceTypeOK
<1>4. TraceTypeOK'
  <2>1. memory' \in [Tracer -> Traced]
    BY <1>2 DEF TraceInv, TraceTypeOK, Traced
  <2>2. Write(h, "spanEnd", 0) \in [trace : Tracer, op : Ops, spans : Nat]
    BY DEF Write, Ops
  <2>3. QED BY <1>1, <2>1, <2>2 DEF TraceInv, TraceTypeOK, EndSpan, AtStep, Traced
<1>5. InTheirTurn'
  <2>1. SUFFICES ASSUME NEW t \in Tracer
        PROVE /\ step'[t] \in {"asked", "acquired"} => memory'[t] = NoTrace
              /\ memory'[t].started \/ (memory'[t] = NoTrace /\ spanRow'[t] = "none")
              /\ step'[t] = "context" => memory'[t].started /\ ~memory'[t].measured /\ t \in Fresh
              /\ activeTrace' = t => memory'[t].started /\ ~memory'[t].ended
    BY DEF InTheirTurn
  <2>2. CASE t = h
    BY <1>1, <1>2, <2>2 DEF TraceInv, TraceTypeOK, InTheirTurn, EndSpan, AtStep
  <2>3. CASE t # h
    BY <1>1, <1>3, <2>3 DEF TraceInv, TraceTypeOK, InTheirTurn, EndSpan, AtStep
  <2>4. QED BY <2>2, <2>3
<1>6. WrittenOnce'
  <2>1. ASSUME NEW w \in writes, w.trace = h PROVE w.op # "spanEnd"
    BY <1>1, <2>1 DEF TraceInv, WrittenOnce
  <2>2. ASSUME NEW w \in writes
        PROVE /\ memory'[w.trace].started
              /\ w.op = "spanEnd" => memory'[w.trace].measured
              /\ IF w.op = "end" THEN memory'[w.trace].ended /\ w.spans <= memory'[w.trace].spans
                                 ELSE w.spans = 0
    <3>1. w.trace \in Tracer /\ w.spans \in Nat
      BY DEF TraceInv, TraceTypeOK
    <3>2. CASE w.trace = h
      <4>1. memory[h].spans \in Nat
        BY DEF TraceInv, TraceTypeOK
      <4>2. QED BY <1>2, <2>1, <3>1, <3>2, <4>1 DEF TraceInv, WrittenOnce
    <3>3. CASE w.trace # h
      BY <1>3, <3>1, <3>3 DEF TraceInv, WrittenOnce
    <3>4. QED BY <3>2, <3>3
  <2>3. LET w == Write(h, "spanEnd", 0) IN
        w.trace = h /\ w.op = "spanEnd" /\ w.spans = 0
    BY DEF Write
  <2>4. QED BY <1>1, <1>2, <2>1, <2>2, <2>3 DEF TraceInv, WrittenOnce
<1>7. RowsFollow'
  <2>1. SUFFICES ASSUME losses = 0, NEW t \in Tracer \ overtaken, memory'[t].started
                 PROVE RowFollows(t)'
    BY <1>1 DEF RowsFollow
  <2>2. \A o \in Ops : Pending(t, o)' <=> Pending(t, o) \/ (t = h /\ o = "spanEnd")
    BY <1>1, Added
  <2>3. CASE t = h
    <3>1. RowFollows(h)
      BY <1>1, <2>1, <2>3 DEF TraceInv, RowsFollow
    <3>2. traceRow[h].spans \in Nat /\ memory[h].spans \in Nat
      BY DEF TraceInv, TraceTypeOK
    <3>3. /\ Pending(h, "spanEnd")' /\ (Pending(h, "span")' <=> Pending(h, "span"))
          /\ (Pending(h, "open")' <=> Pending(h, "open")) /\ (Pending(h, "end")' <=> Pending(h, "end"))
      BY <2>2, <2>3 DEF Ops
    <3>4. QED BY <1>1, <1>2, <2>3, <3>1, <3>2, <3>3 DEF RowFollows
  <2>4. CASE t # h
    <3>1. RowFollows(t)
      BY <1>3, <2>1, <2>4 DEF TraceInv, RowsFollow
    <3>2. QED BY <1>1, <1>3, <2>2, <2>4, <3>1, UntouchedTrace
  <2>5. QED BY <2>3, <2>4
<1>8. QED BY <1>4, <1>5, <1>6, <1>7 DEF TraceInv

LEMMA EndTraceKeepsTrace == ASSUME TraceInv, NEW h \in Tracer, EndTrace(h) PROVE TraceInv'
<1>1. CASE activeTrace = "nobody"
  <2>1. UNCHANGED <<memory, writes, traceRow, spanRow, overtaken, losses, executor, completed, activeTrace>>
    BY <1>1 DEF EndTrace, Rows
  <2>2. TraceTypeOK' /\ InTheirTurn'
    BY <2>1 DEF TraceInv, TraceTypeOK, InTheirTurn, EndTrace, AtStep
  <2>3. WrittenOnce' /\ RowsFollow'
    BY <2>1 DEF TraceInv, WrittenOnce, RowsFollow, RowFollows, Pending
  <2>4. QED BY <2>2, <2>3 DEF TraceInv
<1>2. CASE activeTrace # "nobody"
  <2> DEFINE a == activeTrace
             w0 == Write(a, "end", memory[a].spans)
  <2>1. /\ a \in Tracer /\ memory[a].started /\ ~memory[a].ended
        /\ memory[a] \in Traced
    BY <1>2 DEF TraceInv, TraceTypeOK, InTheirTurn, Traced
  <2>2. /\ writes' = writes \cup {w0} /\ memory' = [memory EXCEPT ![a] = [@ EXCEPT !.ended = TRUE]]
        /\ UNCHANGED <<traceRow, spanRow, overtaken, losses, executor>> /\ activeTrace' = "nobody"
        /\ step' = [step EXCEPT ![h] = "done"]
    BY <1>2, <2>1 DEF TraceInv, TraceTypeOK, EndTrace, AtStep, Ended, Rows
  <2>3. /\ memory'[a] \in Traced /\ memory'[a].started /\ memory'[a].ended
        /\ memory'[a].measured = memory[a].measured /\ memory'[a].spans = memory[a].spans
        /\ \A t \in Tracer \ {a} : memory'[t] = memory[t]
    BY <2>1, <2>2 DEF TraceInv, TraceTypeOK, Traced
  <2>4. w0.trace = a /\ w0.op = "end" /\ w0.spans = memory[a].spans /\ memory[a].spans \in Nat
    BY <2>1 DEF Write, Traced
  <2>5. completed' \in Seq(Tracer) /\ Len(completed') <= MaxCompleted
    <3> DEFINE all == Append(completed, a)
    <3>1. completed \in Seq(Tracer) /\ Len(completed) <= MaxCompleted /\ MaxCompleted \in Nat
      BY TracersAreSomebody DEF TraceInv, TraceTypeOK
    <3>2. all \in Seq(Tracer) /\ Len(all) = Len(completed) + 1 /\ all # <<>>
      BY <2>1, <3>1, AppendProperties
    <3>3. Tail(all) \in Seq(Tracer) /\ Len(Tail(all)) = Len(all) - 1
      BY <3>2, HeadTailProperties
    <3>4. completed' = IF Len(all) > MaxCompleted THEN Tail(all) ELSE all
      BY <1>2 DEF EndTrace
    <3>5. Len(completed) \in Nat
      BY <3>1, LenProperties
    <3> HIDE DEF all
    <3>6. QED BY <3>1, <3>2, <3>3, <3>4, <3>5
  <2> HIDE DEF a, w0
  <2>6. TraceTypeOK'
    <3>1. memory' \in [Tracer -> Traced]
      BY <2>1, <2>2, <2>3 DEF TraceInv, TraceTypeOK, Traced
    <3>2. w0 \in [trace : Tracer, op : Ops, spans : Nat]
      BY <2>1, <2>4 DEF w0, Write, Ops
    <3>3. QED BY <2>2, <2>5, <3>1, <3>2 DEF TraceInv, TraceTypeOK, Traced
  <2>7. InTheirTurn'
    <3>1. SUFFICES ASSUME NEW t \in Tracer
          PROVE /\ step'[t] \in {"asked", "acquired"} => memory'[t] = NoTrace
                /\ memory'[t].started \/ (memory'[t] = NoTrace /\ spanRow'[t] = "none")
                /\ step'[t] = "context" => memory'[t].started /\ ~memory'[t].measured /\ t \in Fresh
      BY <2>2, TracersAreSomebody DEF InTheirTurn
    <3>2. step'[t] \in {"asked", "acquired", "context"} => step'[t] = step[t]
      BY <2>2 DEF TraceInv, TraceTypeOK
    <3>3. CASE t = a
      BY <2>1, <2>3, <3>2, <3>3 DEF TraceInv, InTheirTurn, NoTrace
    <3>4. CASE t # a
      BY <2>2, <2>3, <3>2, <3>4 DEF TraceInv, InTheirTurn
    <3>5. QED BY <3>3, <3>4
  <2>8. WrittenOnce'
    <3>1. \A w \in writes : w.trace = a => w.op # "end"
      BY <2>1 DEF TraceInv, WrittenOnce
    <3>2. ASSUME NEW w \in writes
          PROVE /\ memory'[w.trace].started
                /\ w.op = "spanEnd" => memory'[w.trace].measured
                /\ IF w.op = "end" THEN memory'[w.trace].ended /\ w.spans <= memory'[w.trace].spans
                                   ELSE w.spans = 0
      <4>1. w.trace \in Tracer
        BY DEF TraceInv, TraceTypeOK
      <4>2. QED BY <2>3, <3>1, <4>1 DEF TraceInv, WrittenOnce
    <3>3. QED BY <2>2, <2>3, <2>4, <3>1, <3>2 DEF TraceInv, WrittenOnce
  <2>9. RowsFollow'
    <3>1. SUFFICES ASSUME losses = 0, NEW t \in Tracer \ overtaken, memory'[t].started
                   PROVE RowFollows(t)'
      BY <2>2 DEF RowsFollow
    <3>2. RowFollows(t)
      BY <2>1, <2>3, <3>1 DEF TraceInv, RowsFollow
    <3>3. \A o \in Ops : Pending(t, o)' <=> Pending(t, o) \/ (t = a /\ o = "end")
      BY <2>2, Added DEF w0
    <3>4. CASE t = a
      <4>1. /\ Pending(t, "end")' /\ (Pending(t, "span")' <=> Pending(t, "span"))
            /\ (Pending(t, "open")' <=> Pending(t, "open")) /\ (Pending(t, "spanEnd")' <=> Pending(t, "spanEnd"))
        BY <3>3, <3>4 DEF Ops
      <4>2. QED BY <2>2, <2>3, <3>2, <3>4, <4>1 DEF RowFollows
    <3>5. CASE t # a
      BY <2>2, <2>3, <3>2, <3>3, <3>5, UntouchedTrace
    <3>6. QED BY <3>4, <3>5
  <2>10. QED BY <2>6, <2>7, <2>8, <2>9 DEF TraceInv
<1>3. QED BY <1>1, <1>2

LEMMA IsLostKeepsTrace == ASSUME TraceInv, NEW w \in writes, IsLost(w) PROVE TraceInv'
<1>1. TraceTypeOK'
  BY TracersAreSomebody DEF TraceInv, TraceTypeOK, IsLost
<1>2. InTheirTurn' /\ WrittenOnce'
  BY DEF TraceInv, InTheirTurn, WrittenOnce, IsLost
<1>3. RowsFollow'
  BY TracersAreSomebody DEF TraceInv, TraceTypeOK, RowsFollow, IsLost
<1>4. QED BY <1>1, <1>2, <1>3 DEF TraceInv

LEMMA LandsKeepsTrace == ASSUME TraceInv, NEW w \in writes, Lands(w) PROVE TraceInv'
<1>1. /\ w.trace \in Tracer /\ w.op \in Ops /\ w.spans \in Nat /\ memory[w.trace].started
      /\ memory[w.trace] # NoTrace
  BY DEF TraceInv, TraceTypeOK, WrittenOnce, NoTrace
<1>2. /\ writes' = writes \ {w} /\ overtaken \subseteq overtaken'
      /\ UNCHANGED <<step, executor, activeTrace, completed, memory, losses>>
  BY DEF Lands
<1>3. \A t \in Tracer \ {w.trace} : traceRow'[t] = traceRow[t] /\ spanRow'[t] = spanRow[t]
  BY DEF TraceInv, TraceTypeOK, Lands, CreateTrace, CreateSpan, UpdateSpan
<1>4. TraceTypeOK'
  <2>1. traceRow' \in [Tracer -> [state : {"none", "open", "ended"}, spans : Nat]]
    <3>1. CASE w.op \in {"open", "end"}
      <4>1. [state |-> IF w.op = "open" THEN "open" ELSE "ended", spans |-> w.spans]
              \in [state : {"none", "open", "ended"}, spans : Nat]
        BY <1>1
      <4>2. QED BY <1>1, <3>1, <4>1 DEF TraceInv, TraceTypeOK, Lands, CreateTrace
    <3>2. CASE w.op \in {"span", "spanEnd"}
      BY <3>2 DEF TraceInv, TraceTypeOK, Lands, CreateSpan, UpdateSpan
    <3>3. QED BY <1>1, <3>1, <3>2 DEF Ops
  <2>2. spanRow' \in [Tracer -> {"none", "open", "whole", "uncounted"}]
    BY <1>1 DEF TraceInv, TraceTypeOK, Lands, CreateTrace, CreateSpan, UpdateSpan
  <2>3. overtaken' \subseteq Tracer
    BY <1>1 DEF TraceInv, TraceTypeOK, Lands
  <2>4. QED BY <1>2, <2>1, <2>2, <2>3 DEF TraceInv, TraceTypeOK
<1>5. InTheirTurn'
  BY <1>1, <1>2, <1>3 DEF TraceInv, InTheirTurn
<1>6. WrittenOnce'
  BY <1>2 DEF TraceInv, WrittenOnce
<1>7. RowsFollow'
  <2>1. SUFFICES ASSUME losses = 0, NEW t \in Tracer \ overtaken', memory[t].started
                 PROVE RowFollows(t)'
    BY <1>2 DEF RowsFollow
  <2>2. RowFollows(t)
    BY <1>2, <2>1 DEF TraceInv, RowsFollow
  <2>3. \A o \in Ops : Pending(t, o)' <=> Pending(t, o) /\ ~(t = w.trace /\ o = w.op)
    BY <1>2, Removed DEF TraceInv
  <2>4. CASE t # w.trace
    BY <1>2, <1>3, <2>2, <2>3, <2>4, UntouchedTrace
  <2>5. CASE t = w.trace
    <3>1. Pending(t, w.op) /\ ~Pending(t, Before[w.op])
      BY <2>1, <2>5 DEF Lands, Pending
    <3>2. CASE w.op = "open"
      <4>1. /\ traceRow'[t] = [state |-> "open", spans |-> 0] /\ spanRow' = spanRow
        <5>1. w.spans = 0
          BY <3>2 DEF TraceInv, WrittenOnce
        <5>2. QED BY <1>1, <2>5, <3>2, <5>1 DEF TraceInv, TraceTypeOK, Lands, CreateTrace
      <4>2. \A o \in Ops \ {"open"} : Pending(t, o)' <=> Pending(t, o)
        BY <2>3, <3>2
      <4>3. memory[t].ended => Pending(t, "end")
        BY <2>2, <3>1, <3>2 DEF RowFollows
      <4>4. QED BY <1>2, <2>2, <4>1, <4>2, <4>3 DEF RowFollows, Ops, NoRow
    <3>3. CASE w.op = "end"
      <4>1. traceRow'[t] = [state |-> "ended", spans |-> w.spans] /\ spanRow' = spanRow
        BY <1>1, <2>5, <3>3 DEF TraceInv, TraceTypeOK, Lands, CreateTrace
      <4>2. memory[t].ended /\ w.spans <= memory[t].spans
        BY <2>5, <3>3 DEF TraceInv, WrittenOnce
      <4>3. (\A o \in Ops \ {"end"} : Pending(t, o)' <=> Pending(t, o)) /\ ~Pending(t, "open")
        BY <2>3, <3>1, <3>3 DEF Before
      <4>4. QED BY <1>2, <2>2, <4>1, <4>2, <4>3 DEF RowFollows, Ops, NoRow
    <3>4. CASE w.op = "span"
      <4>1. (\A o \in Ops \ {"span"} : Pending(t, o)' <=> Pending(t, o)) /\ ~Pending(t, "open")
            /\ ~Pending(t, "span")' /\ Pending(t, "span")
        BY <2>3, <2>5, <3>1, <3>4 DEF Before, Ops
      <4>2. traceRow[t] # NoRow
        BY <2>2, <4>1 DEF RowFollows
      <4>3. traceRow' = traceRow /\ (spanRow[t] = "none" => spanRow'[t] = "open")
        BY <1>1, <2>5, <3>4, <4>2 DEF TraceInv, TraceTypeOK, Lands, CreateSpan
      <4>4. QED BY <1>2, <2>2, <4>1, <4>3 DEF RowFollows, Ops
    <3>5. CASE w.op = "spanEnd"
      <4>1. (\A o \in Ops \ {"spanEnd"} : Pending(t, o)' <=> Pending(t, o)) /\ ~Pending(t, "span")
            /\ ~Pending(t, "spanEnd")' /\ Pending(t, "spanEnd")
        BY <2>3, <2>5, <3>1, <3>5 DEF Before, Ops
      <4>2. traceRow' = traceRow /\ (spanRow[t] # "none" => spanRow'[t] = "whole")
        BY <1>1, <2>5, <3>5 DEF TraceInv, TraceTypeOK, Lands, UpdateSpan
      <4>3. memory[t].measured
        BY <2>5, <3>5 DEF TraceInv, WrittenOnce
      <4>4. QED BY <1>2, <2>2, <4>1, <4>2, <4>3 DEF RowFollows, Ops
    <3>6. QED BY <1>1, <3>2, <3>3, <3>4, <3>5 DEF Ops
  <2>6. QED BY <2>4, <2>5
<1>8. QED BY <1>4, <1>5, <1>6, <1>7 DEF TraceInv

\* TraceInv holds in every reachable state: a trace is started by its own handler and ended at most once, each
\* write is made once, and until all have landed the rows say which have not.
THEOREM TraceInvariant == TraceSpec => []TraceInv
<1>1. TraceInit => TraceInv
  <2> SUFFICES ASSUME TraceInit PROVE TraceInv
    OBVIOUS
  <2>1. TraceTypeOK
    <3>1. <<>> \in Seq(Tracer) /\ Len(<<>>) = 0 /\ 0 <= MaxCompleted /\ 0 \in 0..MaxLoss
      BY TracersAreSomebody
    <3>2. NoTrace \in Traced /\ NoRow \in [state : {"none", "open", "ended"}, spans : Nat]
      BY DEF NoTrace, NoRow, Traced
    <3>3. QED BY <3>1, <3>2 DEF TraceInit, TraceTypeOK, Traced
  <2>2. InTheirTurn
    BY TracersAreSomebody DEF TraceInit, InTheirTurn, NoTrace
  <2>3. WrittenOnce /\ RowsFollow
    BY DEF TraceInit, WrittenOnce, RowsFollow, NoTrace
  <2>4. QED BY <2>1, <2>2, <2>3 DEF TraceInv
<1>2. TraceInv /\ [TraceNext]_traceVars => TraceInv'
  <2>1. TraceInv /\ UNCHANGED traceVars => TraceInv'
    BY DEF traceVars, TraceInv, TraceTypeOK, InTheirTurn, WrittenOnce, RowsFollow, RowFollows, Pending
  <2>2. QED BY <2>1, StepKeepsTrace, StartKeepsTrace, EndSpanKeepsTrace, EndTraceKeepsTrace,
               LandsKeepsTrace, IsLostKeepsTrace DEF TraceNext
<1>3. QED BY <1>1, <1>2, PTL DEF TraceSpec

\* Whatever the order in which the unawaited writes of a trace land, the rows end up telling what memory
\* has, unless a write was lost or landed before the one it builds on.
THEOREM RowsAlwaysTellTheTrace == TraceSpec => []RowsTellTheTrace
<1>1. TraceInv => RowsTellTheTrace
  <2>1. SUFFICES ASSUME TraceInv, writes = {}, losses = 0, NEW t \in Tracer \ overtaken
        PROVE /\ memory[t].started /\ ~memory[t].ended => traceRow[t] = [state |-> "open", spans |-> 0]
              /\ memory[t].ended => traceRow[t].state = "ended" /\ traceRow[t].spans <= memory[t].spans
              /\ memory[t].started /\ t \in Fresh =>
                   spanRow[t] = IF memory[t].measured THEN "whole" ELSE "open"
    BY DEF RowsTellTheTrace
  <2>2. \A op \in Ops : ~Pending(t, op)
    BY <2>1 DEF Pending
  <2>3. memory[t].ended => memory[t].started
    BY <2>1 DEF TraceInv, InTheirTurn, NoTrace
  <2>4. memory[t].started => RowFollows(t)
    BY <2>1 DEF TraceInv, RowsFollow
  <2>5. QED BY <2>2, <2>3, <2>4 DEF RowFollows, Ops
<1>2. QED BY <1>1, TraceInvariant, PTL

-----------------------------------------------------------------------------
(* The run store: one row, its context and its history table, for any number *)
(* of concurrent calls and attempt links, any limit of the history, and any  *)
(* number of changes and failed transactions.                                *)

(* A call that wants to change the status wants a legal change of the one  *)
(* it read, and every context that may still be written fits the limit.    *)
WriterInv ==
  /\ \A c \in Caller : ~Idle(c) => call[c].seen \in Status /\ call[c].goal \in Legal(call[c].seen)
  /\ \A c \in Caller \cup Linker : Len(call[c].base.history) <= MaxHistory

StoreInv == RunTypeOK /\ TableExplainsStatus /\ WriterInv
-----------------------------------------------------------------------------
(* The statuses a status allows are statuses.                              *)
LEMMA LegalIsStatus == ASSUME NEW s PROVE Legal(s) \subseteq Status
BY DEF Legal, Status

(* What truncateStatusHistory returns is a history within the limit.       *)
LEMMA TruncateBounds ==
  ASSUME NEW h \in Seq(Entry)
  PROVE  Truncate(h) \in Seq(Entry) /\ Len(Truncate(h)) <= MaxHistory
<1>1. CASE Len(h) <= MaxHistory
  BY <1>1 DEF Truncate
<1>2. CASE ~(Len(h) <= MaxHistory)
  <2> DEFINE m == Len(h) - MaxHistory + 1
  <2>1. Len(h) \in Nat /\ MaxHistory \in Nat \ {0}
    BY StoreAssumption
  <2>2. m \in 1 .. Len(h)
    BY <2>1, <1>2
  <2>3. SubSeq(h, m, Len(h)) \in Seq(Entry) /\ Len(SubSeq(h, m, Len(h))) = Len(h) - m + 1
    BY <2>1, <2>2, SubSeqProperties
  <2> QED
    BY <2>1, <2>3, <1>2 DEF Truncate
<1> QED
  BY <1>1, <1>2

(* A chain stays one when a legal change of its end is added.              *)
LEMMA ChainGrows ==
  ASSUME NEW h \in Seq(Entry), NEW s \in Status, NEW t \in Legal(s), Chain(h, s)
  PROVE  Chain(Append(h, Change(s, t)), t)
<1> DEFINE g == Append(h, Change(s, t))
<1>1. /\ g \in Seq(Entry) /\ Len(g) = Len(h) + 1 /\ Len(h) \in Nat
      /\ \A i \in 1 .. Len(h) : g[i] = h[i]
      /\ g[Len(g)] = Change(s, t)
  BY LegalIsStatus DEF Entry, Change, AnyStatus, Status
<1>2. \A i \in 1 .. Len(g) : g[i].from # "absent" => g[i].to \in Legal(g[i].from)
  BY <1>1 DEF Chain, Change
<1>3. \A i \in 2 .. Len(g) : g[i].from = g[i - 1].to
  <2> TAKE i \in 2 .. Len(g)
  <2>1. CASE i <= Len(h)
    BY <2>1, <1>1 DEF Chain
  <2>2. CASE i = Len(g)
    <3>1. h # <<>> /\ g[i - 1] = h[Len(h)]
      BY <2>2, <1>1
    <3> QED
      BY <3>1, <2>2, <1>1 DEF Chain, Change
  <2> QED
    BY <2>1, <2>2, <1>1
<1>4. g[Len(g)].to = t
  BY <1>1 DEF Change
<1> HIDE DEF g
<1> QED
  BY <1>2, <1>3, <1>4 DEF g, Chain
-----------------------------------------------------------------------------
(* The three writes of a status change keep the invariant.                 *)
LEMMA WriteKeepsTable ==
  ASSUME StoreInv, NEW c \in Caller, ~Idle(c), Updatable(c), Len(table) <= MaxChange, WriteAll(c)
  PROVE  /\ status' \in Status /\ TableExplainsStatus'
         /\ context' \in Context /\ Len(context'.history) <= MaxHistory
         /\ table' \in Seq(Entry) /\ Len(table') <= MaxChange + 1
<1> DEFINE e == Change(call[c].seen, call[c].goal)
<1>1. /\ call[c] \in CallState /\ table \in Seq(Entry) /\ context \in Context
      /\ Chain(table, status) /\ (status # "absent" => table # <<>> /\ table[1] = Change("absent", "created"))
  BY DEF StoreInv, RunTypeOK, TableExplainsStatus
<1>2. status \in Status /\ call[c].seen = status /\ call[c].goal \in Legal(status)
  BY DEF StoreInv, WriterInv, Updatable
<1>3. call[c].goal \in Status
  BY <1>2, LegalIsStatus
<1>4. e \in Entry /\ e = Change(status, call[c].goal)
  BY <1>2, <1>3 DEF Entry, Change, AnyStatus
<1>5. table' = Append(table, e) /\ status' = call[c].goal
  BY DEF WriteAll
<1>6. Chain(table', status')
  BY <1>1, <1>2, <1>4, <1>5, ChainGrows
<1>7. table # <<>> /\ table[1] = Change("absent", "created")
  BY <1>1, <1>2 DEF Status
<1>8. /\ table' \in Seq(Entry) /\ Len(table') = Len(table) + 1
      /\ table' # <<>> /\ table'[1] = table[1]
  BY <1>1, <1>4, <1>5, <1>7
<1>9. NewHistory(c) \in Seq(Entry) /\ Len(NewHistory(c)) <= MaxHistory
  <2>1. call[c].base.history \in Seq(Entry)
    BY <1>1 DEF CallState, Context
  <2>2. Append(call[c].base.history, e) \in Seq(Entry)
    BY <2>1, <1>4
  <2> QED
    BY <2>2, TruncateBounds DEF NewHistory
<1>10. context' = [context EXCEPT !.history = NewHistory(c)]
  BY DEF WriteAll, PatchedContext
<1>11. context' \in Context /\ context'.history = NewHistory(c)
  BY <1>1, <1>9, <1>10 DEF Context
<1>12. Len(table) \in Nat /\ MaxChange \in Nat
  BY <1>1, StoreAssumption
<1> QED
  BY <1>3, <1>5, <1>6, <1>7, <1>8, <1>9, <1>11, <1>12 DEF TableExplainsStatus
-----------------------------------------------------------------------------
(* The empty database satisfies the invariant.                             *)
LEMMA InitInvariant == RunInit => StoreInv
<1> SUFFICES ASSUME RunInit PROVE StoreInv
  OBVIOUS
<1>1. NoCall \in CallState /\ NoCall.base \in Context /\ NoCall.base.history = <<>>
  BY DEF NoCall, CallState, Context, AnyStatus
<1>2. \A c \in Caller \cup Linker : call[c] = NoCall
  BY DEF RunInit
<1>3. RunTypeOK
  <2>1. saves \in 0 .. MaxSave /\ failures \in 0 .. MaxFailure
    BY StoreAssumption DEF RunInit
  <2>5. linked \in BOOLEAN
    BY Zenon DEF RunInit
  <2>2. status \in AnyStatus /\ context \in Context /\ Len(context.history) <= MaxHistory
    BY <1>1, StoreAssumption DEF RunInit, AnyStatus
  <2>3. table \in Seq(Entry) /\ Len(table) <= MaxChange + 1
    BY StoreAssumption DEF RunInit
  <2>4. call \in [Caller \cup Linker -> CallState]
    BY <1>1 DEF RunInit
  <2> QED
    BY <2>1, <2>2, <2>3, <2>4, <2>5 DEF RunTypeOK
<1>4. TableExplainsStatus
  BY DEF RunInit, TableExplainsStatus, Chain
<1>5. WriterInv
  BY <1>1, <1>2, StoreAssumption DEF WriterInv, Idle
<1> QED
  BY <1>3, <1>4, <1>5 DEF StoreInv

(* A call that returns or begins leaves the other calls alone.             *)
LEMMA WriterSteps ==
  ASSUME StoreInv, NEW c \in Caller \cup Linker, NEW v \in CallState,
         call' = [call EXCEPT ![c] = v], Len(v.base.history) <= MaxHistory,
         c \in Caller /\ v # NoCall => v.seen \in Status /\ v.goal \in Legal(v.seen)
  PROVE  call' \in [Caller \cup Linker -> CallState] /\ WriterInv'
<1>1. call \in [Caller \cup Linker -> CallState]
  BY DEF StoreInv, RunTypeOK
<1>2. \A d \in Caller \cup Linker : call'[d] = IF d = c THEN v ELSE call[d]
  BY <1>1
<1>3. call' \in [Caller \cup Linker -> CallState]
  BY <1>1
<1>4. WriterInv
  BY DEF StoreInv
<1> QED
  BY <1>2, <1>3, <1>4 DEF WriterInv, Idle

(* Returning is such a step.                                               *)
LEMMA WriterReturns ==
  ASSUME StoreInv, NEW c \in Caller \cup Linker, Return(c)
  PROVE  call' \in [Caller \cup Linker -> CallState] /\ WriterInv'
<1>1. NoCall \in CallState /\ Len(NoCall.base.history) <= MaxHistory
  BY StoreAssumption DEF NoCall, CallState, Context, AnyStatus
<1> QED
  BY <1>1, WriterSteps DEF Return

(* Every step keeps the invariant.                                         *)
LEMMA NextInvariant == StoreInv /\ [RunNext]_runRowVars => StoreInv'
<1> SUFFICES ASSUME StoreInv, [RunNext]_runRowVars PROVE StoreInv'
  OBVIOUS
<1>0. RunTypeOK /\ TableExplainsStatus /\ WriterInv
  BY DEF StoreInv
<1>1. CASE Create
  <2>1. Change("absent", "created") \in Entry
    BY DEF Change, Entry, AnyStatus, Status
  <2>2. table' = <<Change("absent", "created")>> /\ status' = "created"
    BY <1>1 DEF Create
  <2>3. table' \in Seq(Entry) /\ Len(table') = 1 /\ table'[1] = Change("absent", "created")
    BY <2>1, <2>2
  <2>4. Chain(table', status')
    BY <2>2, <2>3 DEF Chain, Change
  <2>5. TableExplainsStatus'
    BY <2>2, <2>3, <2>4 DEF TableExplainsStatus
  <2>6. context' \in Context /\ Len(context'.history) <= MaxHistory
    <3>1. context' = [context EXCEPT !.history = <<Change("absent", "created")>>] /\ context \in Context
      BY <1>0, <1>1 DEF Create, RunTypeOK
    <3>2. <<Change("absent", "created")>> \in Seq(Entry) /\ Len(<<Change("absent", "created")>>) = 1
      BY <2>1
    <3>3. context' \in Context /\ context'.history = <<Change("absent", "created")>>
      BY <3>1, <3>2 DEF Context
    <3> QED
      BY <3>2, <3>3, StoreAssumption
  <2>7. UNCHANGED <<call, saves, linked, failures>>
    BY <1>1 DEF Create
  <2>8. RunTypeOK'
    BY <1>0, <2>2, <2>3, <2>6, <2>7, StoreAssumption DEF RunTypeOK, AnyStatus, Status
  <2>9. WriterInv'
    BY <1>0, <2>7 DEF WriterInv, Idle
  <2> QED
    BY <2>5, <2>8, <2>9 DEF StoreInv
<1>2. CASE SaveTaskState
  <2>1. /\ context' = [context EXCEPT !.task = saves'] /\ saves' = saves + 1 /\ saves < MaxSave
        /\ UNCHANGED <<status, table, call, linked, failures>>
    BY <1>2 DEF SaveTaskState
  <2>2. saves \in 0 .. MaxSave /\ context \in Context /\ Len(context.history) <= MaxHistory
    BY <1>0 DEF RunTypeOK
  <2>3. saves' \in 0 .. MaxSave
    BY <2>1, <2>2, StoreAssumption
  <2>4. context' \in Context /\ context'.history = context.history
    BY <2>1, <2>2, <2>3 DEF Context
  <2>5. RunTypeOK'
    BY <1>0, <2>1, <2>2, <2>3, <2>4 DEF RunTypeOK
  <2>6. TableExplainsStatus'
    BY <1>0, <2>1 DEF TableExplainsStatus, Chain
  <2>7. WriterInv'
    BY <1>0, <2>1 DEF WriterInv, Idle
  <2> QED
    BY <2>5, <2>6, <2>7 DEF StoreInv
<1>3. ASSUME NEW c \in Caller, NEW g \in Status, Read(c, g)
      PROVE  StoreInv'
  <2> DEFINE v == [goal |-> g, seen |-> status, base |-> context]
  <2>1. /\ call' = [call EXCEPT ![c] = v] /\ status # "absent" /\ g \in Legal(status)
        /\ UNCHANGED <<theRun, saves, linked, failures>>
    BY <1>3 DEF Read, Allowed
  <2>2. /\ v \in CallState /\ status \in Status /\ Len(v.base.history) <= MaxHistory
        /\ v.seen = status /\ v.goal = g
    BY <1>0, <2>1 DEF RunTypeOK, CallState, AnyStatus
  <2> HIDE DEF v
  <2>3. call' \in [Caller \cup Linker -> CallState] /\ WriterInv'
    BY <2>1, <2>2, WriterSteps
  <2>4. RunTypeOK' /\ TableExplainsStatus'
    BY <1>0, <2>1, <2>3 DEF RunTypeOK, TableExplainsStatus, Chain, theRun
  <2> QED
    BY <2>3, <2>4 DEF StoreInv
<1>4. ASSUME NEW c \in Caller, Commit(c)
      PROVE  StoreInv'
  <2>1. call' \in [Caller \cup Linker -> CallState] /\ WriterInv'
    BY <1>4, WriterReturns DEF Commit
  <2>2. ~Idle(c) /\ Len(table) <= MaxChange /\ UNCHANGED <<saves, linked>>
    BY <1>4 DEF Commit
  <2>3. failures' \in 0 .. MaxFailure
    BY <1>0, <1>4, StoreAssumption DEF Commit, TransactionFails, RunTypeOK
  <2>4. CASE UNCHANGED theRun
    BY <1>0, <2>1, <2>2, <2>3, <2>4 DEF StoreInv, RunTypeOK, TableExplainsStatus, Chain, theRun
  <2>5. CASE Updatable(c) /\ WriteAll(c)
    <3>1. /\ status' \in Status /\ TableExplainsStatus'
          /\ context' \in Context /\ Len(context'.history) <= MaxHistory
          /\ table' \in Seq(Entry) /\ Len(table') <= MaxChange + 1
      BY <2>2, <2>5, WriteKeepsTable
    <3>2. RunTypeOK'
      BY <1>0, <2>1, <2>2, <2>3, <3>1 DEF RunTypeOK, AnyStatus
    <3> QED
      BY <2>1, <3>1, <3>2 DEF StoreInv
  <2> QED
    BY <1>4, <2>4, <2>5 DEF Commit
<1>5. ASSUME NEW l \in Linker, ReadLink(l)
      PROVE  StoreInv'
  <2> DEFINE v == [goal |-> status, seen |-> status, base |-> context]
  <2>1. /\ call' = [call EXCEPT ![l] = v] /\ l \notin Caller
        /\ UNCHANGED <<theRun, saves, linked, failures>>
    BY <1>5, StoreAssumption DEF ReadLink
  <2>2. v \in CallState /\ Len(v.base.history) <= MaxHistory
    BY <1>0 DEF RunTypeOK, CallState
  <2> HIDE DEF v
  <2>3. call' \in [Caller \cup Linker -> CallState] /\ WriterInv'
    BY <2>1, <2>2, WriterSteps
  <2>4. RunTypeOK' /\ TableExplainsStatus'
    BY <1>0, <2>1, <2>3 DEF RunTypeOK, TableExplainsStatus, Chain, theRun
  <2> QED
    BY <2>3, <2>4 DEF StoreInv
<1>6. ASSUME NEW l \in Linker, WriteLink(l)
      PROVE  StoreInv'
  <2>1. call' \in [Caller \cup Linker -> CallState] /\ WriterInv'
    BY <1>6, WriterReturns DEF WriteLink
  <2>2. context' = call[l].base /\ linked' = TRUE /\ UNCHANGED <<status, table, saves, failures>>
    BY <1>6 DEF WriteLink
  <2>3. context' \in Context /\ Len(context'.history) <= MaxHistory
    BY <1>0, <2>2 DEF RunTypeOK, WriterInv, CallState
  <2>4. RunTypeOK' /\ TableExplainsStatus'
    BY <1>0, <2>1, <2>2, <2>3 DEF RunTypeOK, TableExplainsStatus, Chain
  <2> QED
    BY <2>1, <2>4 DEF StoreInv
<1>7. CASE UNCHANGED runRowVars
  BY <1>0, <1>7 DEF StoreInv, RunTypeOK, TableExplainsStatus, Chain, WriterInv, Idle, runRowVars, theRun
<1> QED
  BY <1>1, <1>2, <1>3, <1>4, <1>5, <1>6, <1>7 DEF RunNext
-----------------------------------------------------------------------------
(* The store's invariant holds in every reachable state.                   *)
THEOREM StoreInvariant == RunSpec => []StoreInv
<1> QED
  BY InitInvariant, NextInvariant, PTL DEF RunSpec

(* Every variable keeps a value of its type; the history keeps its limit.  *)
THEOREM StoreTypes == RunSpec => []RunTypeOK
<1>1. StoreInv => RunTypeOK
  BY DEF StoreInv
<1> QED
  BY <1>1, StoreInvariant, PTL

(* run_status_history is a chain of legal changes from the creation to the *)
(* present status, however many calls race and fail.                       *)
THEOREM HistoryExplainsStatus == RunSpec => []TableExplainsStatus
<1>1. StoreInv => TableExplainsStatus
  BY DEF StoreInv
<1> QED
  BY <1>1, StoreInvariant, PTL

(* Until an attempt link is written the checkpoint is the last one that    *)
(* was saved: status changes, even those written from a stale read, never  *)
(* put an older one back.                                                  *)
THEOREM StatusChangesKeepCheckpoint == RunSpec => []CheckpointKept
<1>1. RunInit => CheckpointKept
  BY DEF RunInit, CheckpointKept, NoCall
<1>2. StoreInv /\ CheckpointKept /\ [RunNext]_runRowVars => CheckpointKept'
  <2> SUFFICES ASSUME StoreInv, CheckpointKept, [RunNext]_runRowVars PROVE CheckpointKept'
    OBVIOUS
  <2>1. context \in Context
    BY DEF StoreInv, RunTypeOK
  <2>2. CASE Create
    BY <2>1, <2>2 DEF Create, CheckpointKept, Context
  <2>3. CASE SaveTaskState
    BY <2>1, <2>3 DEF SaveTaskState, CheckpointKept, Context
  <2>4. ASSUME NEW c \in Caller, Commit(c) PROVE CheckpointKept'
    BY <2>1, <2>4 DEF Commit, WriteAll, PatchedContext, CheckpointKept, Context, theRun
  <2>5. ASSUME NEW c \in Caller, NEW g \in Status, Read(c, g) PROVE CheckpointKept'
    BY <2>5 DEF Read, CheckpointKept, theRun
  <2>6. ASSUME NEW l \in Linker, ReadLink(l) PROVE CheckpointKept'
    BY <2>6 DEF ReadLink, CheckpointKept, theRun
  <2>7. ASSUME NEW l \in Linker, WriteLink(l) PROVE CheckpointKept'
    BY <2>7 DEF WriteLink, CheckpointKept
  <2>8. CASE UNCHANGED runRowVars
    BY <2>8 DEF CheckpointKept, runRowVars, theRun
  <2> QED
    BY <2>2, <2>3, <2>4, <2>5, <2>6, <2>7, <2>8 DEF RunNext
<1> QED
  BY <1>1, <1>2, StoreInvariant, PTL DEF RunSpec
-----------------------------------------------------------------------------
(* A chain stays one when its oldest entries are cut off.                  *)
LEMMA ChainTruncated ==
  ASSUME NEW h \in Seq(Entry), NEW s, Chain(h, s), h # <<>>
  PROVE  Chain(Truncate(h), s) /\ Truncate(h) # <<>>
<1>0. Len(h) \in Nat /\ Len(h) > 0 /\ MaxHistory \in Nat \ {0}
  BY StoreAssumption
<1>1. CASE Len(h) <= MaxHistory
  BY <1>1 DEF Truncate
<1>2. CASE ~(Len(h) <= MaxHistory)
  <2> DEFINE m == Len(h) - MaxHistory + 1
             g == SubSeq(h, m, Len(h))
  <2>1. m \in 2 .. Len(h)
    BY <1>0, <1>2
  <2>2. /\ g \in Seq(Entry) /\ Len(g) = Len(h) - m + 1
        /\ \A i \in 1 .. Len(h) - m + 1 : g[i] = h[m + i - 1]
    BY <1>0, <2>1, SubSeqProperties
  <2>a. m = Len(h) - MaxHistory + 1
    OBVIOUS
  <2> HIDE DEF g, m
  <2>b. Len(g) = MaxHistory /\ m + Len(g) - 1 = Len(h)
    BY <1>0, <2>1, <2>2, <2>a
  <2>c. g[Len(g)] = h[Len(h)]
    BY <1>0, <2>2, <2>b
  <2>3. Len(g) = MaxHistory /\ g # <<>> /\ g[Len(g)] = h[Len(h)]
    BY <1>0, <2>2, <2>b, <2>c
  <2>4. \A i \in 1 .. Len(g) : g[i].from # "absent" => g[i].to \in Legal(g[i].from)
    <3> TAKE i \in 1 .. Len(g)
    <3>1. g[i] = h[m + i - 1] /\ m + i - 1 \in 1 .. Len(h)
      BY <1>0, <2>1, <2>2
    <3> QED
      BY <3>1 DEF Chain
  <2>5. \A i \in 2 .. Len(g) : g[i].from = g[i - 1].to
    <3> TAKE i \in 2 .. Len(g)
    <3> DEFINE j == m + i - 1
    <3>1. j \in 2 .. Len(h) /\ g[i] = h[j] /\ g[i - 1] = h[j - 1]
      BY <1>0, <2>1, <2>2
    <3> HIDE DEF j
    <3> QED
      BY <3>1 DEF Chain
  <2>6. g[Len(g)].to = s
    BY <2>3, <1>0 DEF Chain
  <2>7. Truncate(h) = g
    BY <1>2 DEF Truncate, g, m
  <2> QED
    BY <2>3, <2>4, <2>5, <2>6, <2>7 DEF Chain
<1> QED
  BY <1>1, <1>2

(* A link that was written remains written.                                *)
LEMMA LinkedStays == [RunNext]_runRowVars /\ linked => linked'
BY DEF RunNext, Create, SaveTaskState, Commit, Read, ReadLink, WriteLink, runRowVars

(* What a call has read is a chain to the status it read.                  *)
BaseInv ==
  ~linked => \A c \in Caller : ~Idle(c) =>
    Chain(call[c].base.history, call[c].seen) /\ call[c].base.history # <<>>

(* Until an attempt link is written the history in the context ends in the *)
(* status, however stale the reads it is written from are.                 *)
THEOREM ContextEndsInStatus == RunSpec => []ContextExplainsStatus
<1> DEFINE CInv == ContextExplainsStatus /\ BaseInv
<1>1. RunInit => CInv
  BY DEF RunInit, ContextExplainsStatus, Chain, BaseInv, Idle, NoCall
<1>2. StoreInv /\ CInv /\ [RunNext]_runRowVars => CInv'
  <2> SUFFICES ASSUME StoreInv, ContextExplainsStatus, BaseInv, [RunNext]_runRowVars, ~linked
               PROVE  ContextExplainsStatus' /\ BaseInv'
    BY LinkedStays DEF ContextExplainsStatus, BaseInv
  <2>0. /\ context \in Context /\ call \in [Caller \cup Linker -> CallState]
        /\ status \in AnyStatus
    BY DEF StoreInv, RunTypeOK
  <2>1. CASE Create
    <3>1. context'.history = <<Change("absent", "created")>> /\ status' = "created"
      BY <2>0, <2>1 DEF Create, Context
    <3>2. UNCHANGED call
      BY <2>1 DEF Create
    <3>3. ContextExplainsStatus'
      BY <3>1 DEF ContextExplainsStatus, Chain, Change
    <3>4. BaseInv'
      BY <3>2 DEF BaseInv, Idle
    <3> QED
      BY <3>3, <3>4
  <2>2. CASE SaveTaskState
    <3>1. context'.history = context.history /\ UNCHANGED <<status, call>>
      BY <2>0, <2>2 DEF SaveTaskState, Context
    <3> QED
      BY <3>1 DEF ContextExplainsStatus, Chain, BaseInv, Idle
  <2>3. ASSUME NEW c \in Caller, NEW g \in Status, Read(c, g)
        PROVE  ContextExplainsStatus' /\ BaseInv'
    <3> DEFINE v == [goal |-> g, seen |-> status, base |-> context]
    <3>1. call' = [call EXCEPT ![c] = v] /\ status # "absent" /\ UNCHANGED <<status, context>>
      BY <2>3 DEF Read, theRun
    <3>2. \A d \in Caller : call'[d] = IF d = c THEN v ELSE call[d]
      BY <2>0, <3>1
    <3>3. Chain(v.base.history, v.seen) /\ v.base.history # <<>>
      BY <3>1 DEF ContextExplainsStatus
    <3> HIDE DEF v
    <3>4. BaseInv'
      BY <3>2, <3>3 DEF BaseInv, Idle
    <3>5. ContextExplainsStatus'
      BY <3>1 DEF ContextExplainsStatus, Chain
    <3> QED
      BY <3>4, <3>5
  <2>4. ASSUME NEW c \in Caller, Commit(c)
        PROVE  ContextExplainsStatus' /\ BaseInv'
    <3>1. call' = [call EXCEPT ![c] = NoCall] /\ ~Idle(c)
      BY <2>4 DEF Commit, Return
    <3>2. \A d \in Caller : call'[d] = IF d = c THEN NoCall ELSE call[d]
      BY <2>0, <3>1
    <3>3. BaseInv'
      BY <3>2 DEF BaseInv, Idle
    <3>4. CASE UNCHANGED theRun
      BY <3>3, <3>4 DEF ContextExplainsStatus, Chain, theRun
    <3>5. CASE Updatable(c) /\ WriteAll(c)
      <4> DEFINE h == call[c].base.history
                 e == Change(call[c].seen, call[c].goal)
      <4>1. /\ h \in Seq(Entry) /\ call[c].seen \in Status
            /\ call[c].goal \in Legal(call[c].seen)
        BY <2>0, <3>1 DEF CallState, Context, StoreInv, WriterInv
      <4>2. Chain(h, call[c].seen)
        BY <3>1 DEF BaseInv
      <4>3. Chain(Append(h, e), call[c].goal)
        BY <4>1, <4>2, ChainGrows
      <4>4. e \in Entry
        BY <4>1, LegalIsStatus DEF Entry, Change, AnyStatus
      <4>5. Append(h, e) \in Seq(Entry) /\ Append(h, e) # <<>>
        BY <4>1, <4>4
      <4>6. Chain(NewHistory(c), call[c].goal) /\ NewHistory(c) # <<>>
        BY <4>3, <4>5, ChainTruncated DEF NewHistory
      <4>7. context'.history = NewHistory(c) /\ status' = call[c].goal
        BY <2>0, <3>5 DEF WriteAll, PatchedContext, Context
      <4>8. ContextExplainsStatus'
        BY <4>6, <4>7 DEF ContextExplainsStatus, Chain
      <4> QED
        BY <3>3, <4>8
    <3> QED
      BY <2>4, <3>4, <3>5 DEF Commit
  <2>5. ASSUME NEW l \in Linker, ReadLink(l)
        PROVE  ContextExplainsStatus' /\ BaseInv'
    <3>1. UNCHANGED <<status, context, linked>>
      BY <2>5 DEF ReadLink, theRun
    <3>2. \A d \in Caller : call'[d] = call[d]
      BY <2>0, <2>5, StoreAssumption DEF ReadLink
    <3> QED
      BY <3>1, <3>2 DEF ContextExplainsStatus, Chain, BaseInv, Idle
  <2>6. ASSUME NEW l \in Linker, WriteLink(l)
        PROVE  ContextExplainsStatus' /\ BaseInv'
    BY <2>6 DEF WriteLink, ContextExplainsStatus, BaseInv
  <2>7. CASE UNCHANGED runRowVars
    BY <2>7 DEF ContextExplainsStatus, Chain, BaseInv, Idle, runRowVars, theRun
  <2> QED
    BY <2>1, <2>2, <2>3, <2>4, <2>5, <2>6, <2>7 DEF RunNext
<1>3. CInv => ContextExplainsStatus
  OBVIOUS
<1> QED
  BY <1>1, <1>2, <1>3, StoreInvariant, PTL DEF RunSpec
(* The table, the history in the context and the checkpoint agree with the *)
(* status column, for any number of callers, linkers and faults.           *)
THEOREM RowAlwaysExplainsStatus == RunSpec => []RowExplainsStatus
<1>1. TableExplainsStatus /\ ContextExplainsStatus /\ CheckpointKept => RowExplainsStatus
  BY DEF RowExplainsStatus
<1> QED
  BY <1>1, HistoryExplainsStatus, ContextEndsInStatus, StatusChangesKeepCheckpoint, PTL
-----------------------------------------------------------------------------
(* Every step of the store is a step of the lifecycle or leaves the status *)
(* alone.                                                                  *)
LEMMA StoreStepsAreMoves == StoreInv /\ [RunNext]_runRowVars => [Lifecycle!Next]_Column
<1> SUFFICES ASSUME StoreInv, [RunNext]_runRowVars PROVE [Lifecycle!Next]_Column
  OBVIOUS
<1>1. ASSUME status' = status PROVE Column' = Column
  BY <1>1 DEF Column
<1>2. CASE Create
  <2>1. Column["run"] = "absent" /\ Column' = [Column EXCEPT !["run"] = "created"]
    BY <1>2 DEF Create, Column
  <2> QED
    BY <2>1 DEF Lifecycle!Next, Lifecycle!Create
<1>3. ASSUME NEW c \in Caller, ~Idle(c), Updatable(c), WriteAll(c)
      PROVE  Lifecycle!Next
  <2>1. status \in Status /\ status' = call[c].goal /\ call[c].goal \in Legal(status)
    BY <1>3 DEF StoreInv, WriterInv, Updatable, WriteAll
  <2>2. status' \in Status
    BY <2>1, LegalIsStatus
  <2>3. Column["run"] = status /\ Column' = [Column EXCEPT !["run"] = status']
    BY DEF Column
  <2>4. status # "absent"
    BY <2>1 DEF Status
  <2>5. status' \in Lifecycle!Legal(Column["run"])
    BY <2>1, <2>3, Zenon DEF Lifecycle!Legal, Legal
  <2>6. Lifecycle!Move("run", status')
    BY <2>3, <2>4, <2>5 DEF Lifecycle!Move
  <2>7. status' \in Lifecycle!Status
    BY <2>2 DEF Lifecycle!Status, Status
  <2> QED
    BY <2>6, <2>7 DEF Lifecycle!Next
<1>4. ASSUME NEW c \in Caller, Commit(c) PROVE [Lifecycle!Next]_Column
  BY <1>1, <1>3, <1>4 DEF Commit, theRun
<1>5. CASE SaveTaskState
  BY <1>1, <1>5 DEF SaveTaskState
<1>6. ASSUME NEW c \in Caller, NEW g \in Status, Read(c, g) PROVE [Lifecycle!Next]_Column
  BY <1>1, <1>6 DEF Read, theRun
<1>7. ASSUME NEW l \in Linker, ReadLink(l) \/ WriteLink(l) PROVE [Lifecycle!Next]_Column
  BY <1>1, <1>7 DEF ReadLink, WriteLink, theRun
<1>8. CASE UNCHANGED runRowVars
  BY <1>1, <1>8 DEF runRowVars, theRun
<1> QED
  BY <1>2, <1>4, <1>5, <1>6, <1>7, <1>8 DEF RunNext

(* The store implements the lifecycle, attempt links and failed            *)
(* transactions included.                                                  *)
THEOREM StoreImplementsLifecycle == RunSpec => ImplementsLifecycle
<1>1. RunInit => Lifecycle!Init
  BY DEF RunInit, Lifecycle!Init, Column
<1> QED
  BY <1>1, StoreInvariant, StoreStepsAreMoves, PTL DEF RunSpec, ImplementsLifecycle, Lifecycle!Spec

-----------------------------------------------------------------------------
(* The key of a chat command, for every set of requests and contents and     *)
(* every bound on faults and crashes.  The inductive invariant is KInv: a    *)
(* holder's row is there, has not expired and names the holder's run and     *)
(* record, and the runs that started since the last lapse are the one that   *)
(* the row names.                                                            *)

(* A failing call keeps its counter within the bound.                       *)
LEMMA FaultType ==
  ASSUME faults \in 0 .. MaxFault
  PROVE  Fault => faults' \in 0 .. MaxFault
  BY LimitAssumption DEF Fault

(* The initial states satisfy the invariant.                                *)
LEMMA InitKInv == Init => KInv
<1> SUFFICES ASSUME Init PROVE KInv
  OBVIOUS
<1>1. TypeOK
  BY LimitAssumption DEF Init, TypeOK, Row, RowStatus, Name, PC, Answer
<1>2. \A q \in Request : ~Holds(q)
  BY DEF Init, Holds, Holding
<1> QED
  BY <1>1, <1>2 DEF Init, KInv, HolderInv, ExecutedInv

(* Every step keeps every variable in its type.                             *)
LEMMA TypeStep ==
  ASSUME TypeOK, Next
  PROVE  TypeOK'
<1>f. Fault => faults' \in 0 .. MaxFault
  BY FaultType DEF TypeOK
<1>r. \A q \in Request : Reserved(q) \in Row
  BY DEF TypeOK, Reserved, Row, RowStatus, Name
<1>s. ASSUME NEW q \in Request, NEW s \in RowStatus, SetStatus(q, s) \/ UNCHANGED row
      PROVE  row' \in Row
  BY <1>s DEF TypeOK, SetStatus, Row
<1>1. ASSUME NEW q \in Request, NEW h \in Hash, Send(q, h)
      PROVE  TypeOK'
  BY <1>1 DEF Send, TypeOK, Goto, PC, answers
<1>2. ASSUME NEW q \in Request, Reserve(q) PROVE TypeOK'
  <2>1. Reserved(q).id \in Name
    BY <1>r DEF Row
  <2>2. row' \in Row /\ id' \in [Request -> Name]
    BY <1>2, <1>r, <2>1 DEF Reserve, Upsert, TypeOK
  <2>3. pc' \in [Request -> PC] /\ answer' \in [Request -> Answer]
    BY <1>2 DEF Reserve, TypeOK, Goto, Tell, PC, Holding, Answer
  <2> QED
    BY <1>f, <1>2, <2>2, <2>3 DEF Reserve, TypeOK
<1>3. ASSUME NEW q \in Request, Find(q) PROVE TypeOK'
  <2>1. Verdict(q) \in Answer
    <3>1. row.status \in RowStatus
      BY DEF TypeOK, Row
    <3> QED
      BY <3>1 DEF Verdict, Answer, RowStatus
  <2>2. row.run \in Name
    BY DEF TypeOK, Row
  <2>3. answer' \in [Request -> Answer] /\ named' \in [Request -> Name]
    BY <1>3, <2>1, <2>2 DEF Find, TypeOK, Tell, Answer
  <2> QED
    BY <1>f, <1>3, <2>3 DEF Find, TypeOK, Goto, PC
<1>4. ASSUME NEW q \in Request, CreateRun(q) PROVE TypeOK'
  BY <1>f, <1>4 DEF CreateRun, TypeOK, Goto, PC, Holding, answers
<1>5. ASSUME NEW q \in Request, SaveUserMessage(q) PROVE TypeOK'
  BY <1>f, <1>5 DEF SaveUserMessage, TypeOK, Goto, Tell, PC, Holding, Answer
<1>6. ASSUME NEW q \in Request, Unmark(q) PROVE TypeOK'
  BY <1>f, <1>6 DEF Unmark, TypeOK, Goto, PC, Holding, answers
<1>7. ASSUME NEW q \in Request, Release(q) \/ Complete(q) \/ Fail(q) PROVE TypeOK'
  <2>1. row' \in Row
    BY <1>7, <1>s DEF Release, Complete, Fail, RowStatus
  <2>2. pc' \in [Request -> PC] /\ answer' \in [Request -> Answer]
    BY <1>7 DEF Release, Complete, Fail, TypeOK, Goto, Tell, PC, Holding, Answer
  <2> QED
    BY <1>f, <1>7, <2>1, <2>2 DEF Release, Complete, Fail, TypeOK
<1>8. ASSUME NEW q \in Request, StartLoop(q) \/ EndLoop(q) PROVE TypeOK'
  BY <1>8 DEF StartLoop, EndLoop, TypeOK, Goto, PC, Holding, answers
<1>9. ASSUME NEW q \in Request, Mark(q) PROVE TypeOK'
  BY <1>f, <1>9 DEF Mark, TypeOK, Goto, Tell, PC, Answer
<1>10. CASE Lapse \/ Cleanup
  BY <1>10 DEF Lapse, Cleanup, TypeOK, Row, RowStatus, requests, answers
<1>11. CASE Crash
  BY <1>11, LimitAssumption DEF Crash, TypeOK, PC, answers
<1> QED
  BY <1>1, <1>2, <1>3, <1>4, <1>5, <1>6, <1>7, <1>8, <1>9, <1>10, <1>11 DEF Next, Advance

(* A step of the holder that leaves the key alone: no other request holds   *)
(* it, so only the holder's own place has to be looked at.                  *)
LEMMA HolderMoves ==
  ASSUME KInv, NEW q \in Request, Holds(q), NEW p \in PC, Goto(q, p),
         UNCHANGED id, executed' \in {executed, executed \cup {q}},
         row'.status = row.status \/ p \notin Holding \/ row'.status # "none",
         row'.expired = row.expired, row'.run = row.run, row'.id = row.id,
         row'.status = "none" => executed' = {},
         p \in {"create", "message", "unmark", "release", "loop"} => q \notin executed'
  PROVE  HolderInv' /\ ExecutedInv'
<1>1. /\ row.status # "none" /\ ~row.expired /\ row.run = q /\ row.id = id[q]
      /\ executed \subseteq {q}
  BY DEF KInv, HolderInv, ExecutedInv
<1>2. pc'[q] = p /\ \A g \in Request : g # q => pc'[g] = pc[g] /\ ~Holds(g)
  BY <1>1 DEF KInv, TypeOK, Goto, HolderInv
<1>3. HolderInv'
  <2> SUFFICES ASSUME NEW g \in Request, Holds(g)'
               PROVE  /\ row'.status # "none" /\ ~row'.expired
                      /\ row'.run = g /\ row'.id = id'[g]
                      /\ pc'[g] \in {"create", "message", "unmark", "release", "loop"} =>
                           g \notin executed'
    BY DEF HolderInv
  <2>1. g = q
    BY <1>2 DEF Holds
  <2> QED
    BY <1>1, <1>2, <2>1 DEF Holds
<1>4. ExecutedInv'
  BY <1>1 DEF ExecutedInv
<1> QED
  BY <1>3, <1>4

(* Every step keeps the row the holder's and the run the row's.             *)
LEMMA HolderStep ==
  ASSUME KInv, Next
  PROVE  HolderInv' /\ ExecutedInv'
<1>t. /\ TypeOK /\ HolderInv /\ ExecutedInv
      /\ \A g \in Request : Holds(g) => executed \subseteq {g}
  BY DEF KInv, HolderInv, ExecutedInv
<1>q. ASSUME UNCHANGED <<row, id, executed>>,
             \A g \in Request : Holds(g)' => Holds(g) /\ pc'[g] = pc[g]
      PROVE  HolderInv' /\ ExecutedInv'
  BY <1>t, <1>q DEF HolderInv, ExecutedInv
<1>1. ASSUME NEW q \in Request, NEW h \in Hash, Send(q, h)
      PROVE  HolderInv' /\ ExecutedInv'
  BY <1>q, <1>1, <1>t DEF Send, Goto, TypeOK, Holds, Holding
<1>2. ASSUME NEW q \in Request, Reserve(q)
      PROVE  HolderInv' /\ ExecutedInv'
  <2>1. CASE UNCHANGED row /\ pc'[q] \notin Holding /\ UNCHANGED id
    BY <1>q, <1>2, <1>t, <2>1 DEF Reserve, Goto, TypeOK, Holds, Holding
  <2>2. CASE /\ Upsert(q)
             /\ pc'[q] \in Holding => pc'[q] = "create" /\ id'[q] = Reserved(q).id
    <3>1. row' = Reserved(q) /\ Reservable
      BY <2>2 DEF Upsert
    <3>2. executed = {} /\ \A g \in Request : ~Holds(g)
      BY <1>t, <3>1 DEF Reservable, HolderInv, ExecutedInv
    <3>3. \A g \in Request : g # q => pc'[g] = pc[g]
      BY <1>2, <1>t DEF Reserve, Goto, TypeOK
    <3>4. row'.status = "processing" /\ ~row'.expired /\ row'.run = q /\ row'.id = Reserved(q).id
      BY <3>1 DEF Reserved
    <3>5. executed' = {}
      BY <1>2, <3>2 DEF Reserve
    <3> QED
      BY <2>2, <3>2, <3>3, <3>4, <3>5 DEF HolderInv, ExecutedInv, Holds, Holding
  <2>3. pc'[q] \in {"create", "find", "done"}
    BY <1>2, <1>t DEF Reserve, Goto, TypeOK
  <2>4. \/ UNCHANGED <<row, id>> /\ pc'[q] # "create"
        \/ Upsert(q) /\ id' = [id EXCEPT ![q] = Reserved(q).id]
        \/ Upsert(q) /\ pc'[q] # "create"
    BY <1>2, <1>t DEF Reserve, Goto, TypeOK
  <2>5. id' = [id EXCEPT ![q] = Reserved(q).id] => id'[q] = Reserved(q).id
    BY <1>t DEF TypeOK
  <2>6. pc'[q] = "create" \/ pc'[q] \notin Holding
    BY <2>3 DEF Holding
  <2>7. CASE UNCHANGED <<row, id>> /\ pc'[q] # "create"
    BY <2>1, <2>6, <2>7
  <2>8. CASE Upsert(q) /\ id' = [id EXCEPT ![q] = Reserved(q).id]
    BY <2>2, <2>5, <2>6, <2>8
  <2>9. CASE Upsert(q) /\ pc'[q] # "create"
    BY <2>2, <2>6, <2>9
  <2> QED
    BY <2>4, <2>7, <2>8, <2>9
<1>3. ASSUME NEW q \in Request, Find(q)
      PROVE  HolderInv' /\ ExecutedInv'
  BY <1>q, <1>3, <1>t DEF Find, Goto, TypeOK, Holds, Holding
<1>4. ASSUME NEW q \in Request,
             CreateRun(q) \/ SaveUserMessage(q) \/ Unmark(q) \/ EndLoop(q) \/ Mark(q)
      PROVE  HolderInv' /\ ExecutedInv'
  <2>1. Holds(q) /\ UNCHANGED <<row, id, executed>>
    BY <1>4 DEF CreateRun, SaveUserMessage, Unmark, EndLoop, Mark, At, Holds, Holding
  <2>2. /\ row.status # "none"
        /\ pc[q] \in {"create", "message", "unmark", "release", "loop"} => q \notin executed
    BY <1>t, <2>1 DEF HolderInv
  <2>3. \E p \in PC : /\ Goto(q, p)
                      /\ p \in {"create", "message", "unmark", "release", "loop"} =>
                           pc[q] \in {"create", "message", "unmark"}
    BY <1>4 DEF CreateRun, SaveUserMessage, Unmark, EndLoop, Mark, At, PC, Holding
  <2> QED
    BY <2>1, <2>2, <2>3, HolderMoves
<1>5. ASSUME NEW q \in Request, StartLoop(q)
      PROVE  HolderInv' /\ ExecutedInv'
  <2>1. Holds(q) /\ UNCHANGED <<row, id>> /\ executed' = executed \cup {q} /\ Goto(q, "running")
    BY <1>5 DEF StartLoop, At, Holds, Holding
  <2>2. row.status # "none" /\ "running" \in PC
    BY <1>t, <2>1 DEF HolderInv, PC, Holding
  <2> QED
    BY <2>1, <2>2, HolderMoves
<1>6. ASSUME NEW q \in Request, Release(q)
      PROVE  HolderInv' /\ ExecutedInv'
  <2>1. Holds(q) /\ Goto(q, "done") /\ UNCHANGED <<id, executed>> /\ "done" \in PC \ Holding
    BY <1>6 DEF Release, At, Holds, Holding, PC
  <2>2. row.status # "none" /\ executed = {}
    BY <1>6, <1>t, <2>1 DEF HolderInv, Release, At
  <2>3. row'.expired = row.expired /\ row'.run = row.run /\ row'.id = row.id
    BY <1>6, <1>t DEF Release, SetStatus, TypeOK, Row
  <2> QED
    BY <2>1, <2>2, <2>3, HolderMoves DEF Holding
<1>7. ASSUME NEW q \in Request, Complete(q) \/ Fail(q)
      PROVE  HolderInv' /\ ExecutedInv'
  <2>1. /\ Holds(q) /\ UNCHANGED <<id, executed>>
        /\ \E p \in {"done", "fail", "mark"} : Goto(q, p)
    BY <1>7 DEF Complete, Fail, At, Holds, Holding
  <2>2. {"done", "fail", "mark"} \subseteq PC
    BY DEF PC, Holding
  <2>3. /\ row'.expired = row.expired /\ row'.run = row.run /\ row'.id = row.id
        /\ row'.status \in {row.status, "completed", "failed"}
    BY <1>7, <1>t DEF Complete, Fail, SetStatus, TypeOK, Row
  <2>4. row.status # "none"
    BY <1>t, <2>1 DEF HolderInv
  <2> QED
    BY <2>1, <2>2, <2>3, <2>4, HolderMoves
<1>8. CASE Lapse
  <2>1. \A g \in Request : ~Holds(g) /\ ~Holds(g)'
    BY <1>8 DEF Lapse, Holds, requests
  <2>2. row'.status = row.status /\ row'.run = row.run
    BY <1>8, <1>t DEF Lapse, TypeOK, Row
  <2> QED
    BY <1>8, <1>t, <2>1, <2>2 DEF Lapse, HolderInv, ExecutedInv
<1>9. CASE Cleanup
  <2>1. executed = {} /\ \A g \in Request : ~Holds(g) /\ ~Holds(g)'
    BY <1>9, <1>t DEF Cleanup, HolderInv, ExecutedInv, Holds, requests
  <2> QED
    BY <1>9, <2>1 DEF Cleanup, HolderInv, ExecutedInv
<1>10. CASE Crash
  <2>1. \A g \in Request : ~Holds(g)'
    BY <1>10 DEF Crash, Holds, Holding
  <2> QED
    BY <1>10, <1>t, <2>1 DEF Crash, HolderInv, ExecutedInv
<1> QED
  BY <1>1, <1>2, <1>3, <1>4, <1>5, <1>6, <1>7, <1>8, <1>9, <1>10 DEF Next, Advance

(* KInv holds in every reachable state.                                     *)
THEOREM KeyInvariant == Spec => []KInv
<1>1. KInv /\ [Next]_vars => KInv'
  <2>1. CASE Next
    BY <2>1, TypeStep, HolderStep DEF KInv
  <2>2. CASE UNCHANGED vars
    BY <2>2 DEF vars, requests, answers, KInv, TypeOK, HolderInv, ExecutedInv, Holds
  <2> QED
    BY <2>1, <2>2
<1> QED
  BY InitKInv, <1>1, PTL DEF Spec

(* Every variable of reserveIdempotency's protocol keeps its type.          *)
THEOREM TypeHolds == Spec => []TypeOK
<1>1. KInv => TypeOK
  BY DEF KInv
<1> QED
  BY KeyInvariant, <1>1, PTL

(* At most one request holds the key.                                       *)
THEOREM HolderIsUnique == Spec => []OneHolder
<1>1. KInv => OneHolder
  BY DEF KInv, HolderInv, OneHolder
<1> QED
  BY KeyInvariant, <1>1, PTL

(* The loop runs at most once for a key until its reservation lapses.       *)
THEOREM RunsOncePerWindow == Spec => []OncePerWindow
<1>1. KInv => OncePerWindow
  BY DEF KInv, ExecutedInv, OncePerWindow
<1> QED
  BY KeyInvariant, <1>1, PTL

(* The two together: a key is handled by one pass at a time and, while its  *)
(* reservation stands, by one pass in all.                                  *)
THEOREM KeysAreHandledOnce == Spec => []HandledOnce
<1>1. KInv => HandledOnce
  BY DEF KInv, HolderInv, ExecutedInv, OneHolder, OncePerWindow, HandledOnce
<1> QED
  BY KeyInvariant, <1>1, PTL

(* A settled key keeps its outcome and its run.                             *)
THEOREM SettledStays == Spec => SettledIsFinal
<1>1. KInv /\ [Next]_vars =>
        (row.status \in {"completed", "failed"} =>
           row'.status = row.status /\ row'.run = row.run)
  <2> SUFFICES ASSUME KInv, [Next]_vars, row.status \in {"completed", "failed"}
               PROVE  row'.status = row.status /\ row'.run = row.run
    OBVIOUS
  <2>1. row \in Row
    BY DEF KInv, TypeOK
  <2>2. CASE Next
    <3>1. CASE Lapse
      BY <2>1, <3>1 DEF Lapse, Row
    <3>2. CASE ~Lapse
      BY <2>2, <3>2 DEF Next, Advance, Send, Reserve, Upsert, Reservable, Find, CreateRun,
         SaveUserMessage, Unmark, Release, StartLoop, EndLoop, Complete, Fail, Mark,
         SetStatus, Matches, Cleanup, Crash
    <3> QED
      BY <3>1, <3>2
  <2>3. CASE UNCHANGED vars
    BY <2>3 DEF vars
  <2> QED
    BY <2>2, <2>3
<1> QED
  BY KeyInvariant, <1>1, PTL DEF Spec, SettledIsFinal
(* What an upsert leaves: the row names the request that wrote it.          *)
LEMMA UpsertNames ==
  ASSUME NEW q \in Request, Upsert(q)
  PROVE  /\ row'.status = "processing" /\ row'.run = q /\ row'.hash = hash[q]
         /\ row.status \in {"none", "processing"}
  BY DEF Upsert, Reserved, Reservable

(* A settlement changes the status of the row and nothing else.             *)
LEMMA SetStatusKeeps ==
  ASSUME row \in Row, NEW q \in Request, NEW s \in RowStatus,
         SetStatus(q, s) \/ UNCHANGED row
  PROVE  /\ row'.run = row.run /\ row'.hash = row.hash
         /\ row'.status = row.status \/ (row'.status = s /\ row.status = "processing")
  BY DEF SetStatus, Matches, Row

(* The parts of ReplayInv that a step cannot disturb which leaves the row   *)
(* and the answers alone, and moves the holder q on from p to n.            *)
LEMMA HolderGoesOn ==
  ASSUME KInv, ReplayInv, NEW q \in Request, NEW n \in PC \ {"idle"},
         Goto(q, n), pc[q] # "idle", UNCHANGED <<row, hash, named>>,
         answer'[q] = "replayed" => answer[q] = "replayed",
         \A g \in Request : g # q => answer'[g] = answer[g] /\ run'[g] = run[g],
         run'[q] = run[q] \/ pc[q] = "create" \/ run'[q] \in Over,
         n \in Holding \ {"fail", "mark"} => row.status = "processing",
         n \in {"reserve", "find", "create"} => run'[q] = "none",
         n = "complete" => run'[q] = "ended"
  PROVE  ReplayInv'
<1>1. pc'[q] = n /\ \A g \in Request : g # q => pc'[g] = pc[g]
  BY DEF KInv, TypeOK, Goto
<1>2. RowNamesSender'
  BY <1>1 DEF ReplayInv, RowNamesSender
<1>3. pc[q] = "create" => row.status # "completed" /\ run[q] = "none"
  BY DEF ReplayInv, HolderProgress, Holding
<1>4. CompletedHasEnded'
  <2> SUFFICES ASSUME row.status = "completed" PROVE run'[row.run] \in Over
    BY DEF CompletedHasEnded
  <2>1. row.run \in Request /\ run[row.run] \in Over
    BY DEF ReplayInv, RowNamesSender, CompletedHasEnded
  <2> QED
    BY <2>1, <1>3
<1>5. HolderProgress'
  BY <1>1 DEF ReplayInv, HolderProgress
<1>6. ReplaysStand'
  <2> SUFFICES ASSUME NEW g \in Request, answer'[g] = "replayed"
               PROVE  /\ pc'[g] # "idle" /\ named[g] \in Request /\ pc'[named[g]] # "idle"
                      /\ hash[named[g]] = hash[g] /\ run'[named[g]] \in Over
    BY DEF ReplaysStand
  <2>1. /\ pc[g] # "idle" /\ named[g] \in Request /\ pc[named[g]] # "idle"
        /\ hash[named[g]] = hash[g] /\ run[named[g]] \in Over
    BY DEF ReplayInv, ReplaysStand
  <2>2. named[g] = q => pc[q] # "create"
    BY <1>3, <2>1 DEF Over
  <2> QED
    BY <1>1, <2>1, <2>2
<1> QED
  BY <1>2, <1>4, <1>5, <1>6 DEF ReplayInv

(* Every step keeps ReplayInv.                                              *)
LEMMA ReplayStep ==
  ASSUME KInv, ReplayInv, Next
  PROVE  ReplayInv'
<1>t. TypeOK /\ row \in Row
  BY DEF KInv, TypeOK
<1>i. RowNamesSender /\ CompletedHasEnded /\ HolderProgress /\ ReplaysStand
  BY DEF ReplayInv
<1>1. ASSUME NEW q \in Request, NEW h \in Hash, Send(q, h) PROVE ReplayInv'
  <2>1. /\ pc[q] = "idle" /\ pc'[q] = "reserve"
        /\ \A g \in Request : g # q => pc'[g] = pc[g] /\ hash'[g] = hash[g]
        /\ UNCHANGED <<row, answer, named, run>>
    BY <1>1, <1>t DEF Send, At, Goto, TypeOK, answers
  <2>2. RowNamesSender' /\ CompletedHasEnded'
    BY <2>1, <1>i DEF RowNamesSender, CompletedHasEnded
  <2>3. HolderProgress'
    BY <2>1, <1>i DEF HolderProgress, Holding
  <2>4. ReplaysStand'
    BY <2>1, <1>i DEF ReplaysStand
  <2> QED
    BY <2>2, <2>3, <2>4 DEF ReplayInv
<1>2. ASSUME NEW q \in Request, Reserve(q) PROVE ReplayInv'
  <2>1. /\ pc[q] = "reserve" /\ run[q] = "none" /\ UNCHANGED <<hash, named, run>>
        /\ \A g \in Request : g # q => pc'[g] = pc[g] /\ answer'[g] = answer[g]
    BY <1>2, <1>t, <1>i DEF Reserve, At, Goto, Tell, TypeOK, HolderProgress
  <2>2. /\ pc'[q] \in {"create", "find", "done"}
        /\ answer'[q] = "replayed" => answer[q] = "replayed"
        /\ pc'[q] = "create" => Upsert(q)
        /\ Upsert(q) \/ UNCHANGED row
    BY <1>2, <1>t DEF Reserve, At, Goto, Tell, TypeOK
  <2>3. Upsert(q) => row'.status = "processing" /\ row'.run = q /\ row'.hash = hash[q]
    BY UpsertNames
  <2>4. RowNamesSender' /\ CompletedHasEnded'
    BY <2>1, <2>2, <2>3, <1>i DEF RowNamesSender, CompletedHasEnded
  <2>5. HolderProgress'
    BY <2>1, <2>2, <2>3, <1>i DEF HolderProgress, Holding
  <2>6. ReplaysStand'
    BY <2>1, <2>2, <1>i DEF ReplaysStand
  <2> QED
    BY <2>4, <2>5, <2>6 DEF ReplayInv
<1>3. ASSUME NEW q \in Request, Find(q) PROVE ReplayInv'
  <2>1. /\ pc[q] = "find" /\ pc'[q] = "done" /\ UNCHANGED <<row, hash, run>>
        /\ \A g \in Request : g # q =>
             pc'[g] = pc[g] /\ answer'[g] = answer[g] /\ named'[g] = named[g]
    BY <1>3, <1>t DEF Find, At, Goto, Tell, TypeOK
  <2>2. answer'[q] = "replayed" => Verdict(q) = "replayed" /\ named'[q] = row.run
    BY <1>3, <1>t DEF Find, Tell, TypeOK
  <2>3. Verdict(q) = "replayed" => row.status = "completed" /\ row.hash = hash[q]
    BY <1>t DEF Verdict, Row, RowStatus
  <2>4. RowNamesSender' /\ CompletedHasEnded'
    BY <2>1, <1>i DEF RowNamesSender, CompletedHasEnded
  <2>5. HolderProgress'
    BY <2>1, <1>i DEF HolderProgress, Holding
  <2>6. ReplaysStand'
    <3>1. ASSUME answer'[q] = "replayed"
          PROVE  /\ named'[q] \in Request /\ pc'[named'[q]] # "idle"
                 /\ hash[named'[q]] = hash[q] /\ run[named'[q]] \in Over
      BY <3>1, <2>1, <2>2, <2>3, <1>i DEF RowNamesSender, CompletedHasEnded
    <3> QED
      BY <3>1, <2>1, <1>i DEF ReplaysStand
  <2> QED
    BY <2>4, <2>5, <2>6 DEF ReplayInv
<1>4. ASSUME NEW q \in Request, CreateRun(q) PROVE ReplayInv'
  <2>1. pc[q] = "create" /\ row.status = "processing"
    BY <1>4, <1>i DEF CreateRun, At, HolderProgress, Holding
  <2>2. \E n \in {"message", "release", "fail"} : Goto(q, n)
    BY <1>4 DEF CreateRun
  <2>3. UNCHANGED <<row, hash, named, answer>> /\ \A g \in Request : g # q => run'[g] = run[g]
    BY <1>4, <1>t DEF CreateRun, answers, TypeOK
  <2> QED
    BY <2>1, <2>2, <2>3, HolderGoesOn DEF PC, Holding
<1>5. ASSUME NEW q \in Request, SaveUserMessage(q) PROVE ReplayInv'
  <2>1. pc[q] = "message" /\ row.status = "processing" /\ UNCHANGED <<row, hash, named, run>>
    BY <1>5, <1>i DEF SaveUserMessage, At, HolderProgress, Holding
  <2>2. \E n \in {"loop", "unmark", "fail"} : Goto(q, n)
    BY <1>5 DEF SaveUserMessage
  <2>3. /\ answer'[q] = "replayed" => answer[q] = "replayed"
        /\ \A g \in Request : g # q => answer'[g] = answer[g]
    BY <1>5, <1>t DEF SaveUserMessage, Tell, TypeOK
  <2> QED
    BY <2>1, <2>2, <2>3, HolderGoesOn DEF PC, Holding
<1>6. ASSUME NEW q \in Request, Unmark(q) PROVE ReplayInv'
  <2>1. pc[q] = "unmark" /\ row.status = "processing" /\ Goto(q, "release")
        /\ UNCHANGED <<row, hash, named, answer>>
    BY <1>6, <1>i DEF Unmark, At, HolderProgress, Holding, answers
  <2>2. (run'[q] = run[q] \/ run'[q] \in Over) /\ \A g \in Request : g # q => run'[g] = run[g]
    BY <1>6, <1>t DEF Unmark, TypeOK, Over
  <2> QED
    BY <2>1, <2>2, HolderGoesOn DEF PC, Holding
<1>7. ASSUME NEW q \in Request, StartLoop(q) PROVE ReplayInv'
  <2>1. /\ pc[q] = "loop" /\ row.status = "processing" /\ Goto(q, "running")
        /\ UNCHANGED <<row, hash, named, answer, run>>
    BY <1>7, <1>i DEF StartLoop, At, HolderProgress, Holding, answers
  <2> QED
    BY <2>1, HolderGoesOn DEF PC, Holding
<1>8. ASSUME NEW q \in Request, EndLoop(q) PROVE ReplayInv'
  <2>1. pc[q] = "running" /\ row.status = "processing" /\ UNCHANGED <<row, hash, named, answer>>
    BY <1>8, <1>i DEF EndLoop, At, HolderProgress, Holding, answers
  <2>2. \/ Goto(q, "complete") /\ run'[q] = "ended"
        \/ Goto(q, "fail") /\ run'[q] = run[q]
    BY <1>8, <1>t DEF EndLoop, TypeOK
  <2>3. \A g \in Request : g # q => run'[g] = run[g]
    BY <1>8, <1>t DEF EndLoop, TypeOK
  <2> QED
    BY <2>1, <2>2, <2>3, HolderGoesOn DEF PC, Holding, Over
<1>9. ASSUME NEW q \in Request, Mark(q) PROVE ReplayInv'
  <2>1. pc[q] = "mark" /\ Goto(q, "done") /\ UNCHANGED <<row, hash, named>>
    BY <1>9 DEF Mark, At
  <2>2. /\ answer'[q] = "replayed" => answer[q] = "replayed"
        /\ \A g \in Request : g # q => answer'[g] = answer[g]
    BY <1>9, <1>t DEF Mark, Tell, TypeOK
  <2>3. (run'[q] = run[q] \/ run'[q] \in Over) /\ \A g \in Request : g # q => run'[g] = run[g]
    BY <1>9, <1>t DEF Mark, TypeOK, Over
  <2> QED
    BY <2>1, <2>2, <2>3, HolderGoesOn DEF PC, Holding
<1>10. ASSUME NEW q \in Request, Release(q) \/ Complete(q) \/ Fail(q) PROVE ReplayInv'
  <2>1. /\ pc[q] \in {"release", "complete", "fail"}
        /\ pc'[q] \in {"done", "fail", "mark"}
        /\ UNCHANGED <<hash, named, run>>
        /\ \A g \in Request : g # q => pc'[g] = pc[g] /\ answer'[g] = answer[g]
        /\ answer'[q] = "replayed" => answer[q] = "replayed"
    BY <1>10, <1>t DEF Release, Complete, Fail, At, Goto, Tell, TypeOK
  <2>2. /\ row.run = q
        /\ \A g \in Request : Holds(g) => g = q
    BY <2>1 DEF KInv, HolderInv, Holds, Holding
  <2>3. \E s \in {"none", "completed", "failed"} :
          /\ SetStatus(q, s) \/ UNCHANGED row
          /\ s = "completed" => pc[q] = "complete"
    BY <1>10 DEF Release, Complete, Fail, At
  <2>4. /\ row'.run = row.run /\ row'.hash = row.hash
        /\ row'.status # "none" => row.status # "none"
        /\ row'.status = "completed" => row.status = "completed" \/ pc[q] = "complete"
    BY <2>3, <1>t, SetStatusKeeps DEF RowStatus
  <2>5. RowNamesSender'
    BY <2>1, <2>4, <1>i DEF RowNamesSender
  <2>6. CompletedHasEnded'
    BY <2>1, <2>2, <2>4, <1>i DEF CompletedHasEnded, HolderProgress, Over
  <2>7. HolderProgress'
    BY <2>1, <2>2, <1>i DEF HolderProgress, Holds, Holding
  <2>8. ReplaysStand'
    BY <2>1, <1>i DEF ReplaysStand
  <2> QED
    BY <2>5, <2>6, <2>7, <2>8 DEF ReplayInv
<1>11. CASE Lapse \/ Cleanup
  <2>1. /\ UNCHANGED <<pc, hash, answer, named, run>>
        /\ row'.run = row.run /\ row'.hash = row.hash
        /\ row'.status \in {row.status, "none"}
    BY <1>11, <1>t DEF Lapse, Cleanup, Row, requests, answers
  <2>2. \A g \in Request : ~Holds(g)
    BY <1>11 DEF Lapse, Cleanup, KInv, HolderInv
  <2> QED
    BY <2>1, <2>2, <1>i DEF ReplayInv, RowNamesSender, CompletedHasEnded, HolderProgress,
       ReplaysStand, Holds, Holding
<1>12. CASE Crash
  <2>1. /\ UNCHANGED <<row, hash, answer, named>>
        /\ \A g \in Request : /\ pc'[g] = IF pc[g] = "idle" THEN "idle" ELSE "done"
                              /\ run[g] \in Over => run'[g] = run[g]
                              /\ run[g] = "none" => run'[g] = "none"
    BY <1>12 DEF Crash, At, answers, Over
  <2>2. RowNamesSender' /\ CompletedHasEnded'
    BY <2>1, <1>i DEF RowNamesSender, CompletedHasEnded, Over
  <2>3. HolderProgress'
    BY <2>1, <1>i DEF HolderProgress, Holding
  <2>4. ReplaysStand'
    BY <2>1, <1>i DEF ReplaysStand, Over
  <2> QED
    BY <2>2, <2>3, <2>4 DEF ReplayInv
<1> QED
  BY <1>1, <1>2, <1>3, <1>4, <1>5, <1>6, <1>7, <1>8, <1>9, <1>10, <1>11, <1>12 DEF Next, Advance

(* A client is answered with a replay only of a pass that ran to its end,   *)
(* for a request of the same content, whatever expired, failed or crashed   *)
(* in between (Find, findByKey and the settlement of the row).              *)
THEOREM ReplaysAreOwn == Spec => []ReplayIsOwn
<1>1. Init => ReplayInv
  BY DEF Init, ReplayInv, RowNamesSender, CompletedHasEnded, HolderProgress, ReplaysStand, Holding
<1>2. KInv /\ ReplayInv /\ [Next]_vars => ReplayInv'
  <2>1. CASE UNCHANGED vars
    BY <2>1 DEF vars, requests, answers, ReplayInv, RowNamesSender, CompletedHasEnded,
       HolderProgress, ReplaysStand
  <2> QED
    BY <2>1, ReplayStep
<1>3. ReplayInv => ReplayIsOwn
  BY DEF ReplayInv, ReplaysStand, ReplayIsOwn, Over
<1> QED
  BY KeyInvariant, <1>1, <1>2, <1>3, PTL DEF Spec

-----------------------------------------------------------------------------
(* The ranking of tools: what a promise may be, for a text.                  *)
Sound(p, t) ==
  /\ p \in Flight => inFlight[p] = t
  /\ p = "lexical" => Lapsed

SoundSince(p, k) == p = "lexical" => k \in history.lexical

RetrievalRow ==
  [st : {"idle", "query", "asking", "skills"}, query : Query \cup {None}, promise : Promise,
   left : SUBSET Skill, promises : [Skill -> Promise], old : BOOLEAN]

(* What calls under way may rely on: no request is taken over, and the past  *)
(* stays.                                                                    *)
Grows ==
  /\ \A n \in Flight : inFlight[n] # None => inFlight'[n] = inFlight[n]
  /\ Lapsed => Lapsed'
  /\ history.lexical \subseteq history'.lexical

ServiceSound ==
  /\ \A t \in Text : Sound(cache[t], t) /\ Sound(pending[t], t)
  /\ \A k \in Skill : SoundSince(cache[k], k) /\ SoundSince(pending[k], k)

SkillsSound ==
  /\ \A k \in Skill : skillCache[k] = "lexical" => Lapsed
  /\ \A k \in Skill : SoundSince(skillCache[k], k)
  /\ \A k \in Skill, n \in Flight : <<k, n>> \in skillWaits => inFlight[n] = k
  /\ \A k \in Skill : skillPending[k] \in Flight => <<k, skillPending[k]>> \in skillWaits

QueriesSound == \A q \in Query : queryCache[q] = "lexical" => Lapsed

RetrievalSound(c) ==
  /\ Sound(c.promise, c.query)
  /\ \A k \in Skill : Sound(c.promises[k], k) /\ (~c.old => SoundSince(c.promises[k], k))
  /\ IF c.st = "idle" THEN c = NoRetrieval ELSE c.query \in Query

RetrievalsSound == \A r \in Retrieval : RetrievalSound(retrieval[r])

(* The invariant, part by part.                                              *)
LEMMA CatalogParts ==
  ASSUME CatalogTypeOK
  PROVE  CatalogInv <=> /\ ServiceSound /\ SkillsSound /\ QueriesSound /\ RetrievalsSound
                        /\ RankingIsSemantic
<1> USE CatalogAssumption
<1>1. /\ \A t \in Text : cache[t] \in Kind \cup {None}
      /\ \A t \in Text : cache[t] \notin Flight
      /\ Skill \subseteq Text
  BY DEF CatalogTypeOK, Text
<1>2. ASSUME CatalogInv PROVE ServiceSound /\ SkillsSound /\ QueriesSound /\ RetrievalsSound
  <2>1. ServiceSound
    BY <1>1, <1>2 DEF ServiceSound, CatalogInv, Sound, SoundSince, WaitsForItsOwn, LexicalByOutage, LexicalSinceReload
  <2>2. SkillsSound
    BY <1>2 DEF SkillsSound, CatalogInv, SoundSince, WaitsForItsOwn, LexicalByOutage, LexicalSinceReload
  <2>3. QueriesSound
    BY <1>2 DEF QueriesSound, CatalogInv, LexicalByOutage
  <2>4. RetrievalsSound
    BY <1>2 DEF RetrievalsSound, RetrievalSound, Sound, SoundSince, CatalogInv, WaitsForItsOwn, LexicalByOutage, LexicalSinceReload
  <2> QED BY <2>1, <2>2, <2>3, <2>4
<1>3. ASSUME ServiceSound, SkillsSound, QueriesSound, RetrievalsSound, RankingIsSemantic PROVE CatalogInv
  <2>1. WaitsForItsOwn
    BY <1>3 DEF WaitsForItsOwn, ServiceSound, SkillsSound, RetrievalsSound, RetrievalSound, Sound
  <2>2. LexicalByOutage
    BY <1>1, <1>3 DEF LexicalByOutage, ServiceSound, SkillsSound, QueriesSound, RetrievalsSound, RetrievalSound, Sound
  <2>3. LexicalSinceReload
    BY <1>1, <1>3 DEF LexicalSinceReload, ServiceSound, SkillsSound, RetrievalsSound, RetrievalSound, SoundSince
  <2>4. \A r \in Retrieval : IF retrieval[r].st = "idle" THEN retrieval[r] = NoRetrieval
                         ELSE retrieval[r].query \in Query
    BY <1>3 DEF RetrievalsSound, RetrievalSound
  <2> QED BY <1>3, <2>1, <2>2, <2>3, <2>4 DEF CatalogInv
<1> QED BY <1>2, <1>3 DEF CatalogInv

(* What a caller of embed gets, and what the call leaves.                    *)
LEMMA EmbedIsSound ==
  ASSUME CatalogTypeOK, ServiceSound, NEW t \in Text, NEW p \in Flight \cup Kind, Embed(t, p)
  PROVE  /\ cache' \in [Text -> Kind \cup {None}] /\ pending' \in [Text -> Promise]
         /\ inFlight' \in [Flight -> Text \cup {None}] /\ outage' = outage
         /\ history' \in [lexical : SUBSET Text, recovered : BOOLEAN, failures : Nat, reloads : Nat]
         /\ Grows /\ ServiceSound'
         /\ Sound(p, t)' /\ (t \in Skill => SoundSince(p, t)')
         /\ \A s \in Text, q \in Promise : Sound(q, s) => Sound(q, s)'
<1>0. /\ cache \in [Text -> Kind \cup {None}] /\ pending \in [Text -> Promise]
      /\ inFlight \in [Flight -> Text \cup {None}] /\ outage \in [degraded : BOOLEAN, due : BOOLEAN]
      /\ history \in [lexical : SUBSET Text, recovered : BOOLEAN, failures : Nat, reloads : Nat]
      /\ Skill \subseteq Text /\ None \notin Text
  BY CatalogAssumption DEF CatalogTypeOK, Text
<1>1. "lexical" \notin Flight /\ None \notin Flight /\ "real" \notin Flight /\ "lexical" # None
  BY CatalogAssumption DEF Kind, None
<1>2. CASE /\ p \in {cache[t], pending[t]} \ {None} /\ UNCHANGED <<serviceVars, history>>
  <2>1. ServiceSound' /\ Grows /\ \A s \in Text, q \in Promise : Sound(q, s) => Sound(q, s)'
    BY <1>2 DEF ServiceSound, Sound, SoundSince, Grows, Lapsed, serviceVars
  <2>2. Sound(p, t) /\ (t \in Skill => SoundSince(p, t)')
    BY <1>0, <1>2 DEF ServiceSound, Sound, SoundSince
  <2> QED BY <1>0, <1>2, <2>1, <2>2 DEF serviceVars, Promise
<1>3. CASE /\ cache[t] = None /\ pending[t] = None /\ ShouldTryRealProvider
           /\ \E n \in Flight :
                /\ inFlight[n] = None /\ p = n
                /\ n = CHOOSE m \in Flight : inFlight[m] = None
                /\ inFlight' = [inFlight EXCEPT ![n] = t]
                /\ pending' = [pending EXCEPT ![t] = n]
           /\ UNCHANGED <<cache, outage, history>>
  <2>1. /\ p \in Flight /\ inFlight[p] = None
        /\ inFlight' = [inFlight EXCEPT ![p] = t] /\ pending' = [pending EXCEPT ![t] = p]
        /\ UNCHANGED <<cache, outage, history>>
    BY <1>3
  <2>2. inFlight' \in [Flight -> Text \cup {None}] /\ pending' \in [Text -> Promise]
    BY <1>0, <2>1 DEF Promise
  <2>3. Grows /\ \A s \in Text, q \in Promise : Sound(q, s) => Sound(q, s)'
    BY <1>0, <2>1 DEF Grows, Sound, Lapsed
  <2>4. Sound(p, t)' /\ (t \in Skill => SoundSince(p, t)')
    BY <1>0, <1>1, <2>1 DEF Sound, SoundSince
  <2>5. ServiceSound'
    BY <1>0, <1>1, <2>1, <2>3, <2>4 DEF ServiceSound, Sound, SoundSince, Promise
  <2> QED BY <1>0, <2>1, <2>2, <2>3, <2>4, <2>5
<1>4. CASE /\ cache[t] = None /\ pending[t] = None /\ ~ShouldTryRealProvider
           /\ p = "lexical"
           /\ cache' = [cache EXCEPT ![t] = p] /\ pending' = [pending EXCEPT ![t] = p]
           /\ history' = [history EXCEPT !.lexical = @ \cup {t}]
           /\ UNCHANGED <<outage, inFlight>>
  <2>1. outage.degraded /\ Lapsed /\ Lapsed'
    BY <1>0, <1>4 DEF ShouldTryRealProvider, Lapsed
  <2>2. /\ cache' \in [Text -> Kind \cup {None}] /\ pending' \in [Text -> Promise]
        /\ history' \in [lexical : SUBSET Text, recovered : BOOLEAN, failures : Nat, reloads : Nat]
        /\ history'.lexical = history.lexical \cup {t}
    BY <1>0, <1>4 DEF Promise, Kind
  <2>3. Grows /\ \A s \in Text, q \in Promise : Sound(q, s) => Sound(q, s)'
    BY <1>4, <2>1, <2>2 DEF Grows, Sound
  <2>4. Sound(p, t)' /\ (t \in Skill => SoundSince(p, t)')
    BY <1>1, <1>4, <2>1, <2>2 DEF Sound, SoundSince
  <2>5. ServiceSound'
    BY <1>0, <1>1, <1>4, <2>1, <2>2 DEF ServiceSound, Sound, SoundSince
  <2> QED BY <1>0, <1>4, <2>2, <2>3, <2>4, <2>5
<1> QED BY <1>0, <1>2, <1>3, <1>4 DEF Embed

(* Where a promise of a text leads when request n gives v.                   *)
LEMMA AnswersAreSound ==
  ASSUME CatalogInv, NEW n \in Flight, NEW v \in Kind, Answered(n, v),
         outage' \in [degraded : BOOLEAN, due : BOOLEAN],
         history' \in [lexical : SUBSET Text, recovered : BOOLEAN, failures : Nat, reloads : Nat],
         Lapsed => Lapsed', history.lexical \subseteq history'.lexical,
         v = "lexical" => Lapsed' /\ inFlight[n] \in history'.lexical
  PROVE  CatalogInv'
<1> DEFINE t == inFlight[n]
<1>0. CatalogTypeOK /\ ServiceSound /\ SkillsSound /\ QueriesSound /\ RetrievalsSound /\ RankingIsSemantic
  BY CatalogParts DEF CatalogInv
<1>1. /\ "lexical" \notin Flight /\ None \notin Flight /\ "real" \notin Flight /\ "lexical" # None
      /\ Skill \subseteq Text /\ None \notin Text /\ t \in Text
  BY <1>0, CatalogAssumption DEF Kind, None, Text, CatalogTypeOK, Answered
<1>2. /\ inFlight' = [inFlight EXCEPT ![n] = None]
      /\ cache' = [cache EXCEPT ![t] = v] /\ pending' = [pending EXCEPT ![t] = None]
      /\ skillCache' = [k \in Skill |-> IF <<k, n>> \in skillWaits THEN v ELSE skillCache[k]]
      /\ skillPending' = [k \in Skill |-> IF <<k, n>> \in skillWaits THEN None ELSE skillPending[k]]
      /\ skillWaits' = {w \in skillWaits : w[2] # n}
      /\ retrieval' = [r \in Retrieval |->
           [retrieval[r] EXCEPT !.promise = Told(@, n, v),
                                !.promises = [k \in Skill |-> Told(@[k], n, v)]]]
      /\ UNCHANGED <<queryCache, ranking>>
  BY DEF Answered
<1>3. CatalogTypeOK'
  <2>1. /\ cache' \in [Text -> Kind \cup {None}] /\ pending' \in [Text -> Promise]
        /\ inFlight' \in [Flight -> Text \cup {None}]
    BY <1>0, <1>1, <1>2 DEF CatalogTypeOK, Promise
  <2>2. /\ skillCache' \in [Skill -> Kind \cup {None}] /\ skillPending' \in [Skill -> Flight \cup {None}]
        /\ skillWaits' \subseteq Skill \X Flight
    BY <1>0, <1>2 DEF CatalogTypeOK
  <2>3. ASSUME NEW r \in Retrieval PROVE retrieval'[r] \in RetrievalRow
    <3> DEFINE c == retrieval[r]
    <3>1. c \in RetrievalRow
      BY <1>0 DEF CatalogTypeOK, RetrievalRow
    <3>2. \A p \in Promise : Told(p, n, v) \in Promise
      BY DEF Told, Promise
    <3>3. c' = [c EXCEPT !.promise = Told(c.promise, n, v), !.promises = [k \in Skill |-> Told(c.promises[k], n, v)]]
      BY <1>2
    <3> HIDE DEF c
    <3>4. c' \in RetrievalRow
      BY <3>1, <3>2, <3>3 DEF RetrievalRow
    <3> QED BY <3>4 DEF c
  <2>4. retrieval' \in [Retrieval -> RetrievalRow]
    BY <1>2, <2>3
  <2> QED BY <1>0, <1>2, <2>1, <2>2, <2>4 DEF CatalogTypeOK, RetrievalRow
<1>4. \A p \in Promise, s \in Text \cup {None} :
        Sound(p, s) => /\ Told(p, n, v) \in Flight => inFlight'[Told(p, n, v)] = s
                       /\ Told(p, n, v) = "lexical" => Lapsed'
  BY <1>0, <1>1, <1>2 DEF Sound, Told, CatalogTypeOK, Kind
<1>5. \A p \in Promise, k \in Skill :
        Sound(p, k) /\ SoundSince(p, k) => (Told(p, n, v) = "lexical" => k \in history'.lexical)
  BY <1>0, <1>1, <1>2 DEF Sound, SoundSince, Told, CatalogTypeOK
<1>6. ServiceSound'
  <2>1. ASSUME NEW s \in Text PROVE Sound(cache[s], s)' /\ Sound(pending[s], s)'
    BY <1>0, <1>1, <1>2 DEF ServiceSound, Sound, CatalogTypeOK, Kind
  <2>2. ASSUME NEW k \in Skill PROVE SoundSince(cache[k], k)' /\ SoundSince(pending[k], k)'
    BY <1>0, <1>1, <1>2 DEF ServiceSound, SoundSince, CatalogTypeOK
  <2> QED BY <2>1, <2>2 DEF ServiceSound
<1>7. SkillsSound'
  <2>1. ASSUME NEW k \in Skill
        PROVE  (skillCache'[k] = "lexical" => Lapsed') /\ SoundSince(skillCache[k], k)'
    BY <1>0, <1>1, <1>2 DEF SkillsSound, SoundSince, CatalogTypeOK
  <2>2. ASSUME NEW k \in Skill, NEW m \in Flight, <<k, m>> \in skillWaits' PROVE inFlight'[m] = k
    BY <1>0, <1>2, <2>2 DEF SkillsSound, CatalogTypeOK
  <2>3. ASSUME NEW k \in Skill, skillPending'[k] \in Flight PROVE <<k, skillPending'[k]>> \in skillWaits'
    <3>1. <<k, n>> \notin skillWaits /\ skillPending'[k] = skillPending[k]
      BY <1>1, <1>2, <2>3
    <3>2. <<k, skillPending[k]>> \in skillWaits /\ skillPending[k] # n
      BY <1>0, <2>3, <3>1 DEF SkillsSound
    <3> QED BY <1>2, <3>1, <3>2
  <2> QED BY <2>1, <2>2, <2>3 DEF SkillsSound
<1>8. QueriesSound'
  BY <1>0, <1>2 DEF QueriesSound
<1>9. RetrievalsSound'
  <2>1. ASSUME NEW r \in Retrieval PROVE RetrievalSound(retrieval[r])'
    <3> DEFINE c == retrieval[r]
    <3>1. c \in RetrievalRow /\ c.query \in Text \cup {None}
      BY <1>0 DEF CatalogTypeOK, Text, RetrievalRow
    <3>2. c' = [c EXCEPT !.promise = Told(c.promise, n, v), !.promises = [k \in Skill |-> Told(c.promises[k], n, v)]]
      BY <1>2
    <3>3. RetrievalSound(c)
      BY <1>0 DEF RetrievalsSound
    <3> HIDE DEF c
    <3>4. /\ c'.promise = Told(c.promise, n, v) /\ c'.promises = [k \in Skill |-> Told(c.promises[k], n, v)]
          /\ c'.query = c.query /\ c'.old = c.old /\ c'.st = c.st
      BY <3>1, <3>2 DEF RetrievalRow
    <3>5. c.promise \in Promise /\ c.promises \in [Skill -> Promise]
      BY <3>1 DEF RetrievalRow
    <3>6. Sound(c.promise, c.query)'
      <4>1. Sound(c.promise, c.query)
        BY <3>3 DEF RetrievalSound
      <4> QED BY <1>4, <3>1, <3>4, <3>5, <4>1 DEF Sound
    <3>7. ASSUME NEW k \in Skill PROVE Sound(c.promises[k], k)' /\ (~c.old => SoundSince(c.promises[k], k))'
      <4>1. Sound(c.promises[k], k) /\ (~c.old => SoundSince(c.promises[k], k))
        BY <3>3 DEF RetrievalSound
      <4>2. c.promises[k] \in Promise /\ c'.promises[k] = Told(c.promises[k], n, v)
        BY <3>4, <3>5
      <4> QED BY <1>1, <1>4, <1>5, <3>4, <4>1, <4>2 DEF Sound, SoundSince
    <3>8. ASSUME c'.st = "idle" PROVE c' = NoRetrieval
      <4>1. c = NoRetrieval
        BY <3>3, <3>4, <3>8 DEF RetrievalSound
      <4>2. \A p : p = None => Told(p, n, v) = None
        BY <1>1 DEF Told
      <4>3. Told(c.promise, n, v) = c.promise /\ [k \in Skill |-> Told(c.promises[k], n, v)] = c.promises
        BY <4>1, <4>2 DEF NoRetrieval
      <4> QED BY <3>1, <3>2, <4>1, <4>3 DEF RetrievalRow
    <3>9. c'.st # "idle" => c'.query \in Query
      BY <3>3, <3>4 DEF RetrievalSound
    <3> QED BY <3>6, <3>7, <3>8, <3>9 DEF RetrievalSound, c
  <2> QED BY <2>1 DEF RetrievalsSound
<1>10. RankingIsSemantic'
  BY <1>0, <1>2 DEF RankingIsSemantic
<1>11. (CatalogTypeOK /\ ServiceSound /\ SkillsSound /\ QueriesSound /\ RetrievalsSound /\ RankingIsSemantic => CatalogInv)'
  BY CatalogParts, PTL
<1> QED BY <1>3, <1>6, <1>7, <1>8, <1>9, <1>10, <1>11

(* A retrieval that may go on as c after a step.                             *)
MayGoOn(c) ==
  /\ c.promise \in Flight => inFlight'[c.promise] = c.query
  /\ c.promise = "lexical" => Lapsed'
  /\ \A k \in Skill :
       /\ c.promises[k] \in Flight => inFlight'[c.promises[k]] = k
       /\ c.promises[k] = "lexical" => Lapsed' /\ (~c.old => k \in history'.lexical)
  /\ IF c.st = "idle" THEN c = NoRetrieval ELSE c.query \in Query

LEMMA GrowthKeepsRetrieval ==
  ASSUME Grows, NEW c \in RetrievalRow, RetrievalSound(c)
  PROVE  MayGoOn(c)
<1>1. None \notin Text /\ None \notin Flight /\ Query \subseteq Text /\ Skill \subseteq Text
  BY CatalogAssumption DEF Text
<1>2. /\ Sound(c.promise, c.query) /\ IF c.st = "idle" THEN c = NoRetrieval ELSE c.query \in Query
      /\ \A k \in Skill : Sound(c.promises[k], k) /\ (~c.old => SoundSince(c.promises[k], k))
  BY DEF RetrievalSound
<1>3. ASSUME c.promise \in Flight PROVE inFlight'[c.promise] = c.query
  <2>1. c.st # "idle"
    BY <1>1, <1>2, <1>3 DEF NoRetrieval
  <2> QED BY <1>1, <1>2, <1>3, <2>1 DEF Grows, Sound
<1>4. ASSUME NEW k \in Skill
      PROVE  /\ c.promises[k] \in Flight => inFlight'[c.promises[k]] = k
             /\ c.promises[k] = "lexical" => Lapsed' /\ (~c.old => k \in history'.lexical)
  BY <1>1, <1>2 DEF Grows, Sound, SoundSince
<1> QED BY <1>2, <1>3, <1>4 DEF MayGoOn, Grows, Sound

(* One retrieval goes on, and the others stay.                               *)
LEMMA OneRetrievalMoves ==
  ASSUME retrieval \in [Retrieval -> RetrievalRow], RetrievalsSound, Grows,
         NEW r \in Retrieval, NEW d \in RetrievalRow, MayGoOn(d),
         retrieval' = [retrieval EXCEPT ![r] = d]
  PROVE  retrieval' \in [Retrieval -> RetrievalRow] /\ RetrievalsSound'
<1>1. ASSUME NEW s \in Retrieval PROVE RetrievalSound(retrieval[s])'
  <2>1. CASE s = r
    <3>1. retrieval'[s] = d
      BY <2>1
    <3> QED BY <3>1 DEF MayGoOn, RetrievalSound, Sound, SoundSince
  <2>2. CASE s # r
    <3>1. retrieval'[s] = retrieval[s]
      BY <2>2
    <3>2. MayGoOn(retrieval[s])
      BY GrowthKeepsRetrieval DEF RetrievalsSound
    <3> QED BY <3>1, <3>2 DEF MayGoOn, RetrievalSound, Sound, SoundSince
  <2> QED BY <2>1, <2>2
<1> QED BY <1>1 DEF RetrievalsSound

LEMMA NoRetrievalMoves ==
  ASSUME retrieval \in [Retrieval -> RetrievalRow], RetrievalsSound, Grows, UNCHANGED retrieval
  PROVE  RetrievalsSound'
<1>1. ASSUME NEW s \in Retrieval PROVE RetrievalSound(retrieval[s])'
  <2>1. MayGoOn(retrieval[s])
    BY GrowthKeepsRetrieval DEF RetrievalsSound
  <2> QED BY <2>1 DEF MayGoOn, RetrievalSound, Sound, SoundSince
<1> QED BY <1>1 DEF RetrievalsSound

LEMMA GrowthKeepsSkills ==
  ASSUME CatalogTypeOK, SkillsSound, Grows, UNCHANGED <<skillCache, skillPending, skillWaits>>
  PROVE  SkillsSound'
<1>1. None \notin Text /\ Skill \subseteq Text
  BY CatalogAssumption DEF Text
<1> QED BY <1>1 DEF SkillsSound, Grows, SoundSince, CatalogTypeOK

LEMMA RetrievalsTyped ==
  CatalogTypeOK => retrieval \in [Retrieval -> RetrievalRow]
BY DEF CatalogTypeOK, RetrievalRow

LEMMA PartsThen ==
  ASSUME CatalogTypeOK', ServiceSound', SkillsSound', QueriesSound', RetrievalsSound', RankingIsSemantic'
  PROVE  CatalogInv'
<1>1. (CatalogTypeOK /\ ServiceSound /\ SkillsSound /\ QueriesSound /\ RetrievalsSound /\ RankingIsSemantic
        => CatalogInv)'
  BY CatalogParts, PTL
<1> QED BY <1>1

LEMMA CatalogInitHolds ==
  CatalogInit => CatalogInv
<1> SUFFICES ASSUME CatalogInit PROVE CatalogInv
  OBVIOUS
<1>1. None \notin Flight /\ "lexical" # None
  BY CatalogAssumption DEF None
<1>2. NoRetrieval \in RetrievalRow /\ NoRetrieval.st = "idle" /\ NoRetrieval.promise = None
      /\ NoRetrieval.promises = [k \in Skill |-> None]
  BY DEF NoRetrieval, RetrievalRow, Promise
<1>3. retrieval \in [Retrieval -> RetrievalRow]
  BY <1>2 DEF CatalogInit
<1>4. CatalogTypeOK
  BY <1>3, CatalogAssumption DEF CatalogInit, CatalogTypeOK, Promise, RetrievalRow
<1>5. ServiceSound /\ SkillsSound /\ QueriesSound
  BY <1>1, CatalogAssumption DEF CatalogInit, ServiceSound, SkillsSound, QueriesSound, Sound, SoundSince, Text
<1>6. RetrievalsSound
  BY <1>1, <1>2 DEF CatalogInit, RetrievalsSound, RetrievalSound, Sound, SoundSince
<1>7. RankingIsSemantic
  BY DEF CatalogInit, RankingIsSemantic
<1> QED BY <1>4, <1>5, <1>6, <1>7, CatalogParts

(* The parts of a state of the catalog, at hand for every step.              *)
LEMMA CatalogFacts ==
  ASSUME CatalogInv
  PROVE  /\ CatalogTypeOK /\ ServiceSound /\ SkillsSound /\ QueriesSound /\ RetrievalsSound /\ RankingIsSemantic
         /\ retrieval \in [Retrieval -> RetrievalRow]
         /\ outage \in [degraded : BOOLEAN, due : BOOLEAN]
         /\ history \in [lexical : SUBSET Text, recovered : BOOLEAN, failures : Nat, reloads : Nat]
         /\ Query \subseteq Text /\ Skill \subseteq Text /\ None \notin Text
         /\ None \notin Flight /\ "lexical" \notin Flight /\ "real" \notin Flight /\ "lexical" # None
<1>1. CatalogTypeOK
  BY DEF CatalogInv
<1> QED BY <1>1, CatalogParts, RetrievalsTyped, CatalogAssumption DEF CatalogTypeOK, Text, Kind, None

LEMMA ProviderStepHolds ==
  ASSUME CatalogInv, NEW n \in Flight, ProviderAnswers(n) \/ ProviderFails(n)
  PROVE  CatalogInv'
<1> USE CatalogFacts
<1>1. CASE ProviderAnswers(n)
  <2>1. Answered(n, "real") /\ outage' = [degraded |-> FALSE, due |-> FALSE]
        /\ history' = [history EXCEPT !.recovered = @ \/ outage.degraded]
    BY <1>1 DEF ProviderAnswers
  <2>2. history' \in [lexical : SUBSET Text, recovered : BOOLEAN, failures : Nat, reloads : Nat]
        /\ history'.lexical = history.lexical /\ history'.recovered = (history.recovered \/ outage.degraded)
    BY <2>1
  <2>3. Lapsed => Lapsed'
    BY <2>2 DEF Lapsed
  <2> QED BY <2>1, <2>2, <2>3, AnswersAreSound DEF Kind
<1>2. CASE ProviderFails(n)
  <2>1. Answered(n, "lexical") /\ outage' = [outage EXCEPT !.degraded = TRUE]
        /\ history' = [history EXCEPT !.lexical = @ \cup {inFlight[n]}, !.failures = @ + 1]
    BY <1>2 DEF ProviderFails
  <2>2. inFlight[n] \in Text
    BY <2>1 DEF Answered, CatalogTypeOK
  <2>3. history' \in [lexical : SUBSET Text, recovered : BOOLEAN, failures : Nat, reloads : Nat]
        /\ history'.lexical = history.lexical \cup {inFlight[n]} /\ history'.recovered = history.recovered
    <3>1. history \in [lexical : SUBSET Text, recovered : BOOLEAN, failures : Nat, reloads : Nat]
      OBVIOUS
    <3> DEFINE t == inFlight[n]
    <3>2. t \in Text /\ history' = [history EXCEPT !.lexical = @ \cup {t}, !.failures = @ + 1]
      BY <2>1, <2>2
    <3> HIDE DEF t
    <3>3. /\ history' \in [lexical : SUBSET Text, recovered : BOOLEAN, failures : Nat, reloads : Nat]
          /\ history'.lexical = history.lexical \cup {t} /\ history'.recovered = history.recovered
      <4>1. history.failures + 1 \in Nat /\ history.lexical \cup {t} \in SUBSET Text
        BY <3>1, <3>2
      <4> QED BY <3>1, <3>2, <4>1
    <3> QED BY <3>3 DEF t
  <2>4. outage' \in [degraded : BOOLEAN, due : BOOLEAN] /\ outage'.degraded
    BY <2>1
  <2>5. Lapsed'
    BY <2>4 DEF Lapsed
  <2> QED BY <2>1, <2>3, <2>4, <2>5, AnswersAreSound DEF Kind
<1> QED BY <1>1, <1>2

LEMMA ServiceStepHolds ==
  ASSUME CatalogInv, WindowEnds \/ (\E t \in Text : Evict(t)) \/ (\E q \in Query : EmbedMessage(q))
  PROVE  CatalogInv'
<1> USE CatalogFacts
<1>0. /\ cache' \in [Text -> Kind \cup {None}] /\ pending' \in [Text -> Promise]
      /\ inFlight' \in [Flight -> Text \cup {None}] /\ outage' \in [degraded : BOOLEAN, due : BOOLEAN]
      /\ history' \in [lexical : SUBSET Text, recovered : BOOLEAN, failures : Nat, reloads : Nat]
      /\ Grows /\ ServiceSound'
  <2>1. CASE WindowEnds
    <3>1. outage' = [outage EXCEPT !.due = TRUE] /\ UNCHANGED <<cache, pending, inFlight, history>>
      BY <2>1 DEF WindowEnds
    <3>2. outage' \in [degraded : BOOLEAN, due : BOOLEAN] /\ outage'.degraded = outage.degraded
      BY <3>1
    <3>3. Grows
      BY <3>1, <3>2 DEF Grows, Lapsed
    <3>4. ServiceSound'
      BY <3>1, <3>2 DEF ServiceSound, Sound, SoundSince, Lapsed
    <3> QED BY <3>1, <3>2, <3>3, <3>4 DEF CatalogTypeOK
  <2>2. CASE \E t \in Text : Evict(t)
    <3>1. PICK t \in Text : cache' = [cache EXCEPT ![t] = None] /\ UNCHANGED <<pending, outage, inFlight, history>>
      BY <2>2 DEF Evict
    <3>2. Grows
      BY <3>1 DEF Grows, Lapsed
    <3>3. cache \in [Text -> Kind \cup {None}]
      BY DEF CatalogTypeOK
    <3>4. ServiceSound'
      BY <3>1, <3>3 DEF ServiceSound, Sound, SoundSince, Lapsed
    <3> QED BY <3>1, <3>2, <3>3, <3>4 DEF CatalogTypeOK
  <2>3. CASE \E q \in Query : EmbedMessage(q)
    <3>1. PICK q \in Query, p \in Flight \cup Kind : Embed(q, p)
      BY <2>3 DEF EmbedMessage
    <3>2. q \in Text
      BY <3>1
    <3> QED BY <3>1, <3>2, EmbedIsSound
  <2> QED BY <2>1, <2>2, <2>3
<1>1. UNCHANGED <<skillCache, skillPending, skillWaits, queryCache, retrieval, ranking>>
  BY DEF WindowEnds, Evict, EmbedMessage
<1>2. CatalogTypeOK'
  BY <1>0, <1>1 DEF CatalogTypeOK
<1>3. SkillsSound' /\ RetrievalsSound'
  BY <1>0, <1>1, GrowthKeepsSkills, NoRetrievalMoves
<1>4. QueriesSound' /\ RankingIsSemantic'
  BY <1>0, <1>1 DEF QueriesSound, RankingIsSemantic, Grows
<1> QED BY <1>0, <1>2, <1>3, <1>4, PartsThen

LEMMA ReloadHolds ==
  ASSUME CatalogInv, Reload
  PROVE  CatalogInv'
<1> USE CatalogFacts
<1>1. /\ skillCache' = [k \in Skill |-> None] /\ skillPending' = [k \in Skill |-> None]
      /\ cache' = [t \in Text |-> None] /\ pending' = [t \in Text |-> None]
      /\ retrieval' = [r \in Retrieval |-> [retrieval[r] EXCEPT !.old = retrieval[r].st # "idle"]]
      /\ history' = [history EXCEPT !.lexical = {}, !.reloads = @ + 1]
      /\ UNCHANGED <<outage, inFlight, skillWaits, queryCache, ranking>>
  BY DEF Reload, InvalidateSkills, InvalidateCache
<1>2. /\ history' \in [lexical : SUBSET Text, recovered : BOOLEAN, failures : Nat, reloads : Nat]
      /\ history'.recovered = history.recovered
  <2>1. history \in [lexical : SUBSET Text, recovered : BOOLEAN, failures : Nat, reloads : Nat]
    OBVIOUS
  <2>2. history.reloads + 1 \in Nat /\ {} \in SUBSET Text
    BY <2>1
  <2> QED BY <1>1, <2>1, <2>2
<1>3. Lapsed' = Lapsed
  BY <1>1, <1>2 DEF Lapsed
<1>4. ASSUME NEW r \in Retrieval
      PROVE  /\ retrieval'[r] \in RetrievalRow /\ retrieval'[r].old = (retrieval[r].st # "idle")
             /\ retrieval'[r].st = retrieval[r].st /\ retrieval'[r].query = retrieval[r].query
             /\ retrieval'[r].promise = retrieval[r].promise /\ retrieval'[r].promises = retrieval[r].promises
             /\ retrieval[r].st = "idle" => retrieval'[r] = retrieval[r]
  <2> DEFINE c == retrieval[r]
  <2>1. c \in RetrievalRow /\ c' = [c EXCEPT !.old = c.st # "idle"] /\ (c.st = "idle" => c = NoRetrieval)
    BY <1>1 DEF RetrievalsSound, RetrievalSound
  <2> HIDE DEF c
  <2>2. /\ c' \in RetrievalRow /\ c'.old = (c.st # "idle") /\ c'.st = c.st /\ c'.query = c.query
        /\ c'.promise = c.promise /\ c'.promises = c.promises
    BY <2>1 DEF RetrievalRow
  <2>3. c.st = "idle" => c' = c
    <3>1. c.st = "idle" => c.old = FALSE /\ (c.st # "idle") = FALSE
      BY <2>1 DEF NoRetrieval
    <3> QED BY <2>1, <3>1 DEF RetrievalRow
  <2> QED BY <2>2, <2>3 DEF c
<1>5. CatalogTypeOK'
  <2>1. retrieval' \in [Retrieval -> RetrievalRow]
    BY <1>1, <1>4
  <2> QED BY <1>1, <1>2, <2>1 DEF CatalogTypeOK, RetrievalRow, Promise
<1>6. ServiceSound' /\ SkillsSound' /\ QueriesSound'
  BY <1>1, <1>3 DEF ServiceSound, SkillsSound, QueriesSound, Sound, SoundSince
<1>7. ASSUME NEW r \in Retrieval PROVE RetrievalSound(retrieval[r])'
  <2>1. RetrievalSound(retrieval[r])
    BY DEF RetrievalsSound
  <2>2. ASSUME NEW k \in Skill, ~retrieval'[r].old PROVE SoundSince(retrieval[r].promises[k], k)'
    <3>1. retrieval[r] = NoRetrieval
      BY <1>4, <2>1, <2>2 DEF RetrievalSound
    <3> QED BY <1>4, <3>1 DEF NoRetrieval, SoundSince
  <2>3. Sound(retrieval[r].promise, retrieval[r].query)' /\ \A k \in Skill : Sound(retrieval[r].promises[k], k)'
    BY <1>1, <1>3, <1>4, <2>1 DEF RetrievalSound, Sound
  <2>4. (IF retrieval[r].st = "idle" THEN retrieval[r] = NoRetrieval ELSE retrieval[r].query \in Query)'
    BY <1>4, <2>1 DEF RetrievalSound
  <2> QED BY <2>2, <2>3, <2>4 DEF RetrievalSound
<1>8. RankingIsSemantic'
  BY <1>1 DEF RankingIsSemantic
<1> QED BY <1>5, <1>6, <1>7, <1>8, PartsThen DEF RetrievalsSound

(* A retrieval that has its query's vector asks for the skills.              *)
LEMMA ProceedsSound ==
  ASSUME CatalogInv, Grows, NEW r \in Retrieval, NEW q \in Query, NEW v \in Kind, Proceed(r, q, v),
         v = "lexical" => Lapsed'
  PROVE  /\ queryCache' \in [Query -> Kind \cup {None}] /\ QueriesSound'
         /\ retrieval' \in [Retrieval -> RetrievalRow] /\ RetrievalsSound'
<1> USE CatalogFacts
<1>1. queryCache' = [queryCache EXCEPT ![q] = v] /\ queryCache \in [Query -> Kind \cup {None}]
  BY DEF Proceed, CatalogTypeOK
<1>2. queryCache' \in [Query -> Kind \cup {None}] /\ QueriesSound'
  BY <1>1 DEF QueriesSound, Grows
<1> DEFINE c == retrieval[r]
           d == [c EXCEPT !.st = "asking", !.query = q, !.promise = v, !.left = Skill]
<1>3. c \in RetrievalRow /\ RetrievalSound(c) /\ MayGoOn(c)
  BY GrowthKeepsRetrieval DEF RetrievalsSound
<1>4. retrieval' = [retrieval EXCEPT ![r] = d]
  BY DEF Proceed
<1> HIDE DEF c
<1>5. d \in RetrievalRow /\ d.promise = v /\ d.promises = c.promises /\ d.old = c.old /\ d.st = "asking" /\ d.query = q
  BY <1>3 DEF RetrievalRow, Promise
<1>6. v \notin Flight
  BY DEF Kind
<1> HIDE DEF d
<1>7. MayGoOn(d)
  BY <1>3, <1>5, <1>6 DEF MayGoOn
<1> QED BY <1>2, <1>4, <1>5, <1>7, OneRetrievalMoves

LEMMA UnchangedGrows ==
  ASSUME UNCHANGED <<serviceVars, history>>
  PROVE  Grows /\ (ServiceSound => ServiceSound')
BY DEF Grows, ServiceSound, Sound, SoundSince, Lapsed, serviceVars

LEMMA RetrieveHolds ==
  ASSUME CatalogInv, NEW r \in Retrieval,
         (\E q \in Query : Retrieve(r, q)) \/ QueryHere(r)
  PROVE  CatalogInv'
<1> USE CatalogFacts
<1>0. UNCHANGED <<skillCache, skillPending, skillWaits, ranking>>
  BY DEF Retrieve, QueryHere
<1>1. ASSUME /\ cache' \in [Text -> Kind \cup {None}] /\ pending' \in [Text -> Promise]
             /\ inFlight' \in [Flight -> Text \cup {None}] /\ outage' \in [degraded : BOOLEAN, due : BOOLEAN]
             /\ history' \in [lexical : SUBSET Text, recovered : BOOLEAN, failures : Nat, reloads : Nat],
             Grows, ServiceSound', queryCache' \in [Query -> Kind \cup {None}], QueriesSound',
             retrieval' \in [Retrieval -> RetrievalRow], RetrievalsSound'
      PROVE  CatalogInv'
  <2>1. CatalogTypeOK'
    BY <1>0, <1>1 DEF CatalogTypeOK, RetrievalRow
  <2>2. SkillsSound'
    BY <1>0, <1>1, GrowthKeepsSkills
  <2>3. RankingIsSemantic'
    BY <1>0 DEF RankingIsSemantic
  <2> QED BY <1>1, <2>1, <2>2, <2>3, PartsThen
<1>2. /\ cache \in [Text -> Kind \cup {None}] /\ pending \in [Text -> Promise]
      /\ inFlight \in [Flight -> Text \cup {None}] /\ queryCache \in [Query -> Kind \cup {None}]
  BY DEF CatalogTypeOK
<1>3. CASE QueryHere(r)
  <2> DEFINE q == retrieval[r].query
             v == retrieval[r].promise
  <2>1. retrieval[r].st = "query" /\ v \in Kind /\ Proceed(r, q, v) /\ UNCHANGED <<serviceVars, history>>
    BY <1>3 DEF QueryHere
  <2>2. RetrievalSound(retrieval[r]) /\ retrieval[r] \in RetrievalRow
    BY DEF RetrievalsSound
  <2>3. q \in Query /\ (v = "lexical" => Lapsed)
    BY <2>1, <2>2 DEF RetrievalSound, Sound
  <2>4. Grows /\ ServiceSound'
    BY <2>1, UnchangedGrows
  <2>5. v = "lexical" => Lapsed'
    BY <2>3, <2>4 DEF Grows
  <2>6. /\ queryCache' \in [Query -> Kind \cup {None}] /\ QueriesSound'
        /\ retrieval' \in [Retrieval -> RetrievalRow] /\ RetrievalsSound'
    <3> HIDE DEF q, v
    <3> QED BY <2>1, <2>3, <2>4, <2>5, ProceedsSound
  <2> QED BY <1>1, <1>2, <2>1, <2>4, <2>6 DEF serviceVars
<1>4. ASSUME NEW q \in Query, Retrieve(r, q) PROVE CatalogInv'
  <2>1. CASE queryCache[q] # None /\ Proceed(r, q, queryCache[q]) /\ UNCHANGED <<serviceVars, history>>
    <3>1. queryCache[q] \in Kind /\ (queryCache[q] = "lexical" => Lapsed)
      BY <1>2, <2>1 DEF QueriesSound
    <3>2. Grows /\ ServiceSound'
      BY <2>1, UnchangedGrows
    <3>3. queryCache[q] = "lexical" => Lapsed'
      BY <3>1, <3>2 DEF Grows
    <3>4. /\ queryCache' \in [Query -> Kind \cup {None}] /\ QueriesSound'
          /\ retrieval' \in [Retrieval -> RetrievalRow] /\ RetrievalsSound'
      BY <2>1, <3>1, <3>2, <3>3, ProceedsSound
    <3> QED BY <1>1, <1>2, <2>1, <3>2, <3>4 DEF serviceVars
  <2>2. ASSUME NEW p \in Flight \cup Kind, Embed(q, p),
               IF p \in Kind THEN Proceed(r, q, p)
               ELSE /\ retrieval' = [retrieval EXCEPT ![r] = [@ EXCEPT !.st = "query", !.query = q, !.promise = p]]
                    /\ UNCHANGED queryCache
        PROVE  CatalogInv'
    <3>1. q \in Text
      OBVIOUS
    <3>2. /\ cache' \in [Text -> Kind \cup {None}] /\ pending' \in [Text -> Promise]
          /\ inFlight' \in [Flight -> Text \cup {None}] /\ outage' = outage
          /\ history' \in [lexical : SUBSET Text, recovered : BOOLEAN, failures : Nat, reloads : Nat]
          /\ Grows /\ ServiceSound' /\ Sound(p, q)'
      BY <2>2, <3>1, EmbedIsSound
    <3>3. CASE p \in Kind
      <4>1. p = "lexical" => Lapsed'
        BY <3>2 DEF Sound
      <4>2. Proceed(r, q, p)
        BY <2>2, <3>3
      <4>3. /\ queryCache' \in [Query -> Kind \cup {None}] /\ QueriesSound'
            /\ retrieval' \in [Retrieval -> RetrievalRow] /\ RetrievalsSound'
        BY <3>2, <3>3, <4>1, <4>2, ProceedsSound
      <4> QED BY <1>1, <3>2, <4>3
    <3>4. CASE p \notin Kind
      <4> DEFINE c == retrieval[r]
                 d == [c EXCEPT !.st = "query", !.query = q, !.promise = p]
      <4>1. retrieval' = [retrieval EXCEPT ![r] = d] /\ UNCHANGED queryCache
        BY <2>2, <3>4
      <4>2. c \in RetrievalRow /\ MayGoOn(c)
        BY <3>2, GrowthKeepsRetrieval DEF RetrievalsSound
      <4> HIDE DEF c
      <4>3. d \in RetrievalRow /\ d.st = "query" /\ d.query = q /\ d.promise = p /\ d.promises = c.promises /\ d.old = c.old
        BY <4>2, <2>2 DEF RetrievalRow, Promise
      <4> HIDE DEF d
      <4>4. MayGoOn(d)
        BY <3>2, <4>2, <4>3 DEF MayGoOn, Sound
      <4>5. retrieval' \in [Retrieval -> RetrievalRow] /\ RetrievalsSound'
        BY <3>2, <4>1, <4>3, <4>4, OneRetrievalMoves
      <4>6. queryCache' \in [Query -> Kind \cup {None}] /\ QueriesSound'
        BY <1>2, <3>2, <4>1 DEF QueriesSound, Grows
      <4> QED BY <1>1, <3>2, <4>5, <4>6
    <3> QED BY <3>3, <3>4
  <2> QED BY <1>4, <2>1, <2>2 DEF Retrieve
<1> QED BY <1>3, <1>4

LEMMA AskSkillHolds ==
  ASSUME CatalogInv, NEW r \in Retrieval, NEW k \in Skill, AskSkill(r, k)
  PROVE  CatalogInv'
<1> USE CatalogFacts
<1>0. /\ UNCHANGED <<queryCache, ranking>> /\ retrieval[r].st = "asking" /\ k \in Text
      /\ \E q \in Flight \cup Kind :
           /\ GetEmbedding(k, q)
           /\ retrieval' = [retrieval EXCEPT ![r] = Asked(retrieval[r], k, q)]
  BY DEF AskSkill
<1>1. PICK p \in Flight \cup Kind :
        /\ GetEmbedding(k, p)
        /\ retrieval' = [retrieval EXCEPT ![r] = Asked(retrieval[r], k, p)]
  BY <1>0
<1>2. /\ cache \in [Text -> Kind \cup {None}] /\ pending \in [Text -> Promise]
      /\ inFlight \in [Flight -> Text \cup {None}]
      /\ skillCache \in [Skill -> Kind \cup {None}] /\ skillPending \in [Skill -> Flight \cup {None}]
      /\ skillWaits \subseteq Skill \X Flight
  BY DEF CatalogTypeOK
<1>3. /\ cache' \in [Text -> Kind \cup {None}] /\ pending' \in [Text -> Promise]
      /\ inFlight' \in [Flight -> Text \cup {None}] /\ outage' = outage
      /\ history' \in [lexical : SUBSET Text, recovered : BOOLEAN, failures : Nat, reloads : Nat]
      /\ skillCache' \in [Skill -> Kind \cup {None}] /\ skillPending' \in [Skill -> Flight \cup {None}]
      /\ skillWaits' \subseteq Skill \X Flight
      /\ Grows /\ ServiceSound' /\ SkillsSound' /\ Sound(p, k)' /\ SoundSince(p, k)'
  <2>1. CASE skillCache[k] # None /\ p = skillCache[k]
             /\ UNCHANGED <<serviceVars, skillCache, skillPending, skillWaits, history>>
    <3>1. Grows /\ ServiceSound' /\ SkillsSound'
      BY <2>1, UnchangedGrows, GrowthKeepsSkills
    <3>2. Sound(p, k)' /\ SoundSince(p, k)'
      BY <1>2, <2>1, <3>1 DEF SkillsSound, Sound, SoundSince, Kind
    <3> QED BY <1>2, <2>1, <3>1, <3>2 DEF serviceVars
  <2>2. CASE skillPending[k] # None /\ p = skillPending[k]
             /\ UNCHANGED <<serviceVars, skillCache, skillPending, skillWaits, history>>
    <3>1. Grows /\ ServiceSound' /\ SkillsSound'
      BY <2>2, UnchangedGrows, GrowthKeepsSkills
    <3>2. p \in Flight /\ inFlight[p] = k
      BY <1>2, <2>2 DEF SkillsSound
    <3>3. Sound(p, k)' /\ SoundSince(p, k)'
      BY <2>2, <3>2 DEF Sound, SoundSince, serviceVars
    <3> QED BY <1>2, <2>2, <3>1, <3>3 DEF serviceVars
  <2>3. CASE Embed(k, p) /\ IF p \in Kind
                            THEN /\ skillCache' = [skillCache EXCEPT ![k] = p]
                                 /\ UNCHANGED <<skillPending, skillWaits>>
                            ELSE /\ skillPending' = [skillPending EXCEPT ![k] = p]
                                 /\ skillWaits' = skillWaits \cup {<<k, p>>}
                                 /\ UNCHANGED skillCache
    <3>1. /\ cache' \in [Text -> Kind \cup {None}] /\ pending' \in [Text -> Promise]
          /\ inFlight' \in [Flight -> Text \cup {None}] /\ outage' = outage
          /\ history' \in [lexical : SUBSET Text, recovered : BOOLEAN, failures : Nat, reloads : Nat]
          /\ Grows /\ ServiceSound' /\ Sound(p, k)' /\ SoundSince(p, k)'
      BY <1>0, <2>3, EmbedIsSound
    <3>2. \A m \in Flight, s \in Skill : inFlight[m] = s => inFlight'[m] = s
      BY <3>1 DEF Grows
    <3>3. /\ \A s \in Skill : skillCache[s] = "lexical" => Lapsed' /\ s \in history'.lexical
      BY <3>1 DEF SkillsSound, SoundSince, Grows
    <3>4. CASE p \in Kind
      <4>1. skillCache' = [skillCache EXCEPT ![k] = p] /\ UNCHANGED <<skillPending, skillWaits>>
        BY <2>3, <3>4
      <4>2. SkillsSound'
        BY <1>2, <3>1, <3>2, <3>3, <4>1 DEF SkillsSound, Sound, SoundSince
      <4> QED BY <1>2, <3>1, <3>4, <4>1, <4>2
    <3>5. CASE p \notin Kind
      <4>1. skillPending' = [skillPending EXCEPT ![k] = p] /\ skillWaits' = skillWaits \cup {<<k, p>>}
            /\ UNCHANGED skillCache /\ p \in Flight
        BY <2>3, <3>5
      <4>2. inFlight'[p] = k
        BY <3>1, <4>1 DEF Sound
      <4>3. SkillsSound'
        BY <1>2, <3>2, <3>3, <4>1, <4>2 DEF SkillsSound, SoundSince
      <4> QED BY <1>2, <3>1, <4>1, <4>3
    <3> QED BY <3>4, <3>5
  <2> QED BY <1>1, <2>1, <2>2, <2>3 DEF GetEmbedding
<1> DEFINE c == retrieval[r]
           d == Asked(c, k, p)
<1>4. retrieval' = [retrieval EXCEPT ![r] = d]
  BY <1>1
<1>5. c \in RetrievalRow /\ RetrievalSound(c) /\ MayGoOn(c) /\ c.st = "asking"
  BY <1>0, <1>3, GrowthKeepsRetrieval DEF RetrievalsSound
<1> HIDE DEF c
<1>6. /\ d \in RetrievalRow /\ d.promise = c.promise /\ d.query = c.query /\ d.old = c.old
      /\ d.promises = [c.promises EXCEPT ![k] = p] /\ d.st \in {"asking", "skills"}
  <2>1. c.promises \in [Skill -> Promise] /\ [c.promises EXCEPT ![k] = p] \in [Skill -> Promise]
        /\ c.left \ {k} \in SUBSET Skill
    BY <1>5 DEF RetrievalRow, Promise
  <2> QED BY <1>5, <2>1 DEF RetrievalRow, Asked
<1>7. MayGoOn(d)
  <2> HIDE DEF d
  <2>1. c.promises \in [Skill -> Promise]
    BY <1>5 DEF RetrievalRow
  <2>2. \A s \in Skill : d.promises[s] = IF s = k THEN p ELSE c.promises[s]
    BY <1>6, <2>1
  <2>3. (p \in Flight => inFlight'[p] = k) /\ (p = "lexical" => Lapsed' /\ k \in history'.lexical)
    BY <1>3 DEF Sound, SoundSince
  <2>4. c.query \in Query /\ d.st # "idle"
    BY <1>5, <1>6 DEF MayGoOn
  <2> QED BY <1>5, <1>6, <2>2, <2>3, <2>4 DEF MayGoOn
<1>8. retrieval' \in [Retrieval -> RetrievalRow] /\ RetrievalsSound'
  <2> HIDE DEF d
  <2> QED BY <1>3, <1>4, <1>6, <1>7, OneRetrievalMoves
<1>9. CatalogTypeOK'
  BY <1>0, <1>3, <1>8 DEF CatalogTypeOK, RetrievalRow
<1>10. QueriesSound' /\ RankingIsSemantic'
  BY <1>0, <1>3 DEF QueriesSound, RankingIsSemantic, Grows
<1> QED BY <1>3, <1>8, <1>9, <1>10, PartsThen

LEMMA AddScoresHolds ==
  ASSUME CatalogInv, NEW r \in Retrieval, AddScores(r)
  PROVE  CatalogInv'
<1> USE CatalogFacts
<1>1. /\ retrieval' = [retrieval EXCEPT ![r] = NoRetrieval]
      /\ IF ~outage.degraded THEN ranking' = Compared(retrieval[r]) ELSE UNCHANGED ranking
      /\ UNCHANGED <<serviceVars, skillCache, skillPending, skillWaits, queryCache, history>>
  BY DEF AddScores, HasRealProvider
<1>2. Grows /\ ServiceSound'
  BY <1>1, UnchangedGrows
<1>3. SkillsSound' /\ QueriesSound'
  BY <1>1, <1>2, GrowthKeepsSkills DEF QueriesSound, Grows
<1>4. NoRetrieval \in RetrievalRow /\ MayGoOn(NoRetrieval)
  BY DEF NoRetrieval, RetrievalRow, Promise, MayGoOn
<1>5. retrieval' \in [Retrieval -> RetrievalRow] /\ RetrievalsSound'
  BY <1>1, <1>2, <1>4, OneRetrievalMoves
<1> DEFINE c == retrieval[r]
<1>6. c \in RetrievalRow /\ RetrievalSound(c)
  BY DEF RetrievalsSound
<1> HIDE DEF c
<1>7. ASSUME ~outage.degraded
      PROVE  /\ Compared(c) \in [lexical : SUBSET Text, old : BOOLEAN, excused : SUBSET Text, recovered : BOOLEAN]
             /\ Compared(c).lexical # {} => Compared(c).recovered
             /\ ~Compared(c).old => Compared(c).lexical \cap Skill \subseteq Compared(c).excused
  <2> DEFINE L == {k \in Skill : c.promises[k] = "lexical"}
             Q == IF c.promise = "lexical" THEN {c.query} ELSE {}
  <2>1. Compared(c).lexical = L \cup Q /\ Compared(c).old = c.old /\ Compared(c).excused = history.lexical
        /\ Compared(c).recovered = history.recovered
        /\ Compared(c) = [lexical |-> L \cup Q, old |-> c.old, excused |-> history.lexical, recovered |-> history.recovered]
    BY DEF Compared
  <2>2. L # {} \/ Q # {} => history.recovered
    BY <1>6, <1>7 DEF RetrievalSound, Sound, Lapsed
  <2>3. Q \subseteq Query
    <3>1. c.promise = "lexical" => c.query \in Query
      BY <1>6 DEF RetrievalSound, NoRetrieval
    <3> QED BY <3>1
  <2>4. ~c.old => L \subseteq history.lexical
    BY <1>6 DEF RetrievalSound, SoundSince
  <2>5. c.old \in BOOLEAN /\ Query \cap Skill = {}
    BY <1>6, CatalogAssumption DEF RetrievalRow
  <2>6. L \cup Q \subseteq Text
    BY <2>3
  <2> HIDE DEF L, Q
  <2>7. L \cup Q # {} => history.recovered
    BY <2>2
  <2>8. ~c.old => (L \cup Q) \cap Skill \subseteq history.lexical
    BY <2>3, <2>4, <2>5
  <2> QED BY <2>1, <2>5, <2>6, <2>7, <2>8
<1>8. ranking' \in [lexical : SUBSET Text, old : BOOLEAN, excused : SUBSET Text, recovered : BOOLEAN] /\ RankingIsSemantic'
  <2>1. CASE outage.degraded
    BY <1>1, <2>1 DEF CatalogTypeOK, RankingIsSemantic
  <2>2. CASE ~outage.degraded
    <3>1. ranking' = Compared(c)
      BY <1>1, <2>2 DEF c
    <3> QED BY <1>7, <2>2, <3>1 DEF RankingIsSemantic
  <2> QED BY <2>1, <2>2
<1>9. CatalogTypeOK'
  BY <1>1, <1>5, <1>8 DEF CatalogTypeOK, RetrievalRow, serviceVars
<1> QED BY <1>2, <1>3, <1>5, <1>8, <1>9, PartsThen

LEMMA CatalogStepHolds ==
  CatalogInv /\ [CatalogNext]_catalogVars => CatalogInv'
<1> SUFFICES ASSUME CatalogInv, [CatalogNext]_catalogVars PROVE CatalogInv'
  OBVIOUS
<1>1. CASE UNCHANGED catalogVars
  <2>1. UNCHANGED <<cache, pending, outage, inFlight, skillCache, skillPending, skillWaits, queryCache,
                    retrieval, ranking, history>>
    BY <1>1 DEF catalogVars, serviceVars
  <2>2. CatalogTypeOK' /\ WaitsForItsOwn' /\ LexicalByOutage' /\ LexicalSinceReload' /\ RankingIsSemantic'
    BY <2>1 DEF CatalogInv, CatalogTypeOK, WaitsForItsOwn, LexicalByOutage, LexicalSinceReload, RankingIsSemantic, Lapsed
  <2> QED BY <2>1, <2>2 DEF CatalogInv
<1> QED
  BY <1>1, ProviderStepHolds, ServiceStepHolds, ReloadHolds, RetrieveHolds, AskSkillHolds, AddScoresHolds
     DEF CatalogNext

(* Whoever waits for an embedding waits for the one of its own text, and    *)
(* lexical vectors come only from an outage.                                *)
THEOREM CatalogInvariant == CatalogSpec => []CatalogInv
BY CatalogInitHolds, CatalogStepHolds, PTL DEF CatalogSpec

(* Tools are ranked by lexical vectors only once an outage is over, and a   *)
(* skill's was made since the last reload of the registry, but for rankings *)
(* that were under way then.                                                *)
THEOREM RankingsAreSemantic == CatalogSpec => []RankingIsSemantic
<1>1. CatalogInv => RankingIsSemantic
  BY DEF CatalogInv
<1> QED BY <1>1, CatalogInvariant, PTL

=============================================================================
