----------------------------- MODULE ModelRouter -----------------------------
(***************************************************************************)
(* One model call of the daemon: ModelRouter.streamChat chooses the        *)
(* providers for a request, hands on what the first that works streams, and *)
(* falls back to the next - but not once a caller has been given text, and  *)
(* not once it has gone.  The providers are OpenAICompatibleChatProvider's  *)
(* streams over a connection that can fail at any byte.                     *)
(*                                                                         *)
(* A delta's text is left out, only whose it is is kept.                    *)
(***************************************************************************)
EXTENDS Naturals, Sequences, FiniteSets

CONSTANTS
  Call,         \* concurrent calls
  MaxDelta,     \* deltas of one stream
  RecordCap     \* records kept in memory, 1000 in the code

ASSUME RouterLimits == MaxDelta \in Nat /\ RecordCap \in Nat

Models == {"seed", "dp"}
Provider == Models \cup {"fallback"}

VARIABLES
  seedReady,    \* the seed provider has a key; its route comes first
  fallback,     \* a fallback model is configured
  calls,        \* the state of every call
  callRecords,  \* callRecords: the calls recorded, oldest first
  saving,       \* rows of model_calls on their way to the database
  saved,        \* and those written
  persistFailures

routerVars == <<seedReady, fallback, calls, callRecords, saving, saved, persistFailures>>

\* What the caller gave: the model the user picked, if any, and a signal -
\* a ReAct turn passes one, the memory summariser none.
Requests == [modelId : Models \cup {"any"}, signal : BOOLEAN]

IdleCall == [at |-> "idle", request |-> [modelId |-> "any", signal |-> FALSE],
         todo |-> <<>>, emittedAny |-> FALSE, given |-> FALSE, deltas |-> 0,
         terminal |-> FALSE, aborted |-> FALSE, voices |-> {}]

RouterInit ==
  /\ seedReady \in BOOLEAN /\ fallback \in BOOLEAN
  /\ calls = [c \in Call |-> IdleCall]
  /\ callRecords = <<>> /\ saving = {} /\ saved = {} /\ persistFailures = 0

\* providersToTry, by priority; a model the user picked leaves only its route.
ProvidersToTry(modelId) ==
  (IF seedReady /\ modelId \in {"any", "seed"} THEN <<"seed">> ELSE <<>>)
    \o (IF modelId \in {"any", "dp"} THEN <<"dp">> ELSE <<>>)
    \o (IF fallback THEN <<"fallback">> ELSE <<>>)

\* recordCall and the row that is written behind the caller's back.
Record(c) ==
  LET all == Append(callRecords, c) IN
  /\ callRecords' = IF Len(all) > RecordCap THEN Tail(all) ELSE all
  /\ saving' = saving \cup {c}

Unrecorded == UNCHANGED <<callRecords, saving>>

\* The loop goes on with the next provider.
Restarted(k) == [k EXCEPT !.at = "connecting", !.emittedAny = FALSE, !.given = FALSE,
                      !.deltas = 0, !.terminal = FALSE]

\* A model the user picked and nobody serves is an error, not a fallback.
StreamChat(c) ==
  /\ calls[c].at = "idle"
  /\ \E r \in Requests :
       calls' = [calls EXCEPT ![c] =
         IF r.modelId = "seed" /\ ~seedReady
           THEN [IdleCall EXCEPT !.at = "refused", !.request = r]
           ELSE Restarted([IdleCall EXCEPT !.request = r, !.todo = ProvidersToTry(r.modelId)])]
  /\ Unrecorded

\* The response has come: a status that is not ok or no body is an error.
Connected(c) ==
  /\ calls[c].at = "connecting"
  /\ calls' = [calls EXCEPT ![c].at = "reading"]
  /\ Unrecorded

Resumed_Unmarked(k) == k

\* The generator resumes after a yield: emittedAny is set only now.
Resumed(k) == [k EXCEPT !.emittedAny = @ \/ k.given]

Handed(k, finish) ==
  [Resumed(k) EXCEPT !.given = TRUE, !.deltas = @ + 1, !.terminal = @ \/ finish,
                     !.voices = @ \cup {Head(k.todo)}]

\* A delta with text, a tool call or a finish reason is handed on; only a
\* finish reason makes the stream whole.
Delta(c) ==
  /\ calls[c].at = "reading" /\ calls[c].deltas < MaxDelta
  /\ \E finish \in BOOLEAN : calls' = [calls EXCEPT ![c] = Handed(@, finish)]
  /\ Unrecorded

\* The stream ends: [DONE], or the body's end after a finish reason.
StreamEnds(c) ==
  /\ calls[c].at = "reading"
  /\ \E done \in BOOLEAN :
       /\ done \/ calls[c].terminal
       /\ calls' = [calls EXCEPT ![c] = [Resumed(@) EXCEPT !.terminal = TRUE, !.at = "done"]]
  /\ Record(c)

\* The connection refused, a bad status, malformed JSON, an error payload, an
\* oversized event, a body that ends without a terminal, or the abort itself.
Fails(c) ==
  LET k == Resumed(calls[c]) IN
  /\ k.at \in {"connecting", "reading"}
  /\ \/ /\ k.aborted
        /\ calls' = [calls EXCEPT ![c] = [k EXCEPT !.at = "aborted"]]
        /\ Unrecorded
     \/ /\ ~k.aborted /\ k.emittedAny
        /\ calls' = [calls EXCEPT ![c] = [k EXCEPT !.at = "partial"]]
        /\ Unrecorded
     \/ /\ ~k.aborted /\ ~k.emittedAny /\ Len(k.todo) > 1
        /\ calls' = [calls EXCEPT ![c] = Restarted([k EXCEPT !.todo = Tail(@)])]
        /\ Unrecorded
     \/ /\ ~k.aborted /\ ~k.emittedAny /\ Len(k.todo) = 1
        /\ calls' = [calls EXCEPT ![c] = [k EXCEPT !.at = "failed"]]
        /\ Record(c)

\* The caller aborts through the signal it passed.
Abort(c) ==
  /\ calls[c].at \in {"connecting", "reading"} /\ calls[c].request.signal
  /\ ~calls[c].aborted
  /\ calls' = [calls EXCEPT ![c].aborted = TRUE]
  /\ Unrecorded

\* The caller stops reading at a delta (a turn that exceeds a limit throws):
\* the generator is returned from, nothing is recorded.
CallerLeaves(c) ==
  /\ calls[c].at = "reading" /\ calls[c].given
  /\ calls' = [calls EXCEPT ![c].at = "left"]
  /\ Unrecorded

\* create() of the row resolves or is counted as a failure.
Persisted(c, ok) ==
  /\ c \in saving
  /\ saving' = saving \ {c}
  /\ saved' = IF ok THEN saved \cup {c} ELSE saved
  /\ persistFailures' = IF ok THEN persistFailures ELSE persistFailures + 1
  /\ UNCHANGED <<calls, callRecords>>

CallStep(c) ==
  /\ \/ StreamChat(c) \/ Connected(c) \/ Delta(c) \/ StreamEnds(c)
     \/ Fails(c) \/ Abort(c) \/ CallerLeaves(c)
  /\ UNCHANGED <<saved, persistFailures>>

RouterNext ==
  /\ \E c \in Call : CallStep(c) \/ \E ok \in BOOLEAN : Persisted(c, ok)
  /\ UNCHANGED <<seedReady, fallback>>

RouterSpec == RouterInit /\ [][RouterNext]_routerVars

-----------------------------------------------------------------------------
RouterCall ==
  [at : {"idle", "refused", "connecting", "reading", "done", "aborted", "partial",
         "failed", "left"},
   request : Requests, todo : Seq(Provider), emittedAny : BOOLEAN, given : BOOLEAN,
   deltas : 0..MaxDelta, terminal : BOOLEAN, aborted : BOOLEAN, voices : SUBSET Provider]

RouterTypeOK ==
  /\ seedReady \in BOOLEAN /\ fallback \in BOOLEAN
  /\ calls \in [Call -> RouterCall]
  /\ callRecords \in Seq(Call) /\ saving \subseteq Call /\ saved \subseteq Call
  /\ persistFailures \in Nat

\* OneVoice: what a caller has been given comes from one provider whatever
\* failed when; an answer it takes for whole is a stream that ended with its
\* terminal; a call reported as failed has given nothing and run out of
\* providers; a call is recorded, once, exactly when it ended in one of the two.
OneVoice ==
  \A c \in Call :
    LET k == calls[c] IN
    /\ Cardinality(k.voices) <= 1
    /\ k.at = "done" => k.terminal /\ k.voices \subseteq {Head(k.todo)}
    /\ k.at = "failed" => k.voices = {} /\ Len(k.todo) = 1
    /\ k.at \notin {"done", "failed"} =>
         c \notin saving \cup saved /\ \A i \in DOMAIN callRecords : callRecords[i] # c
    /\ Cardinality(saving) + Cardinality(saved) + persistFailures
         = Cardinality({d \in Call : calls[d].at \in {"done", "failed"}})
    /\ Len(callRecords) <= RecordCap
-----------------------------------------------------------------------------
\* The inductive invariant behind OneVoice.  A call: what it has given comes
\* from the provider it is at, and it is given up only before that.  The
\* records: each is of a call that ended in one of the two ways, and is being
\* saved, saved or lost.
Recorded == {c \in Call : calls[c].at \in {"done", "failed"}}

CallInv(k) ==
  /\ k.at \notin {"idle", "refused"} => k.todo # <<>>
  /\ k.emittedAny => k.given
  /\ k.given => k.voices = {Head(k.todo)}
  /\ ~k.given => k.voices = {}
  /\ k.at \in {"idle", "refused", "connecting", "failed"} => ~k.given
  /\ k.at = "failed" => Len(k.todo) = 1
  /\ k.at = "done" => k.terminal

RecordInv ==
  /\ saving \cup saved \subseteq Recorded /\ saving \cap saved = {}
  /\ \A i \in DOMAIN callRecords : callRecords[i] \in Recorded
  /\ Len(callRecords) <= RecordCap
  /\ IsFiniteSet(saving) /\ IsFiniteSet(saved) /\ IsFiniteSet(Recorded)
  /\ Cardinality(saving) + Cardinality(saved) + persistFailures = Cardinality(Recorded)

RouterInv == RouterTypeOK /\ RecordInv /\ \A c \in Call : CallInv(calls[c])
=============================================================================
