---------------------------- MODULE Idempotency ----------------------------
(***************************************************************************)
(* One clientRequestId and the requests that carry it: the row that         *)
(* reserves the key, the handler that holds it while it creates and runs a  *)
(* run, the answers the other requests get, the window after which a        *)
(* reservation may be taken over, its clean-up, crashes and failing calls.  *)
(*                                                                          *)
(* A step is one database call and what the handler does with its result;   *)
(* a failed call may have committed.  A run is named after the request it   *)
(* was created for, and so is the record that a request inserted.           *)
(***************************************************************************)
EXTENDS Naturals

CONSTANTS
  Request, NoRequest,
  Background,    \* the requests that come through startChatCommand
  Hash,          \* the contents a request may have
  MaxFault,      \* bound: database calls that fail
  MaxCrash       \* bound: daemon crashes

ASSUME RequestAssumption == NoRequest \notin Request /\ Background \subseteq Request
ASSUME LimitAssumption == MaxFault \in Nat /\ MaxCrash \in Nat

VARIABLES
  row,           \* the row of the key in idempotency_keys
  pc, hash,      \* of each request: where it is, its content
  id,            \* id[q]: the record q was given by reserve
  answer,        \* answer[q]: what its client was told
  named,         \* named[q]: the run of the record that q's answer was taken from
  run,           \* run[q]: the run of q
  executed,      \* the runs whose loop started since the key last lapsed
  faults, crashes

requests == <<pc, hash, id>>
answers  == <<answer, named>>
vars == <<row, requests, answers, run, executed, faults, crashes>>

RowStatus == {"none", "processing", "completed", "failed"}
Name == Request \cup {NoRequest}
Row == [status : RowStatus, id : Name, hash : Hash, run : Name, expired : BOOLEAN]

(* The steps of the holder of the key, from reservation to settlement.     *)
Holding == {"create", "message", "unmark", "release", "loop", "running",
            "complete", "fail", "mark"}
PC == {"idle", "reserve", "find", "done"} \cup Holding
Answer == {"none", "accepted", "replayed", "conflict", "busy", "stored error", "error"}

TypeOK ==
  /\ row \in Row
  /\ pc \in [Request -> PC]
  /\ hash \in [Request -> Hash]
  /\ id \in [Request -> Name]
  /\ answer \in [Request -> Answer]
  /\ named \in [Request -> Name]
  /\ run \in [Request -> {"none", "created", "ended", "failed"}]
  /\ executed \subseteq Request
  /\ faults \in 0 .. MaxFault /\ crashes \in 0 .. MaxCrash

Init ==
  /\ \E h \in Hash : /\ row = [status |-> "none", id |-> NoRequest, hash |-> h,
                               run |-> NoRequest, expired |-> FALSE]
                     /\ hash = [q \in Request |-> h]
  /\ pc = [q \in Request |-> "idle"]
  /\ id = [q \in Request |-> NoRequest]
  /\ answer = [q \in Request |-> "none"]
  /\ named = [q \in Request |-> NoRequest]
  /\ run = [q \in Request |-> "none"]
  /\ executed = {} /\ faults = 0 /\ crashes = 0
-----------------------------------------------------------------------------
At(q, p) == pc[q] = p
Goto(q, p) == pc' = [pc EXCEPT ![q] = p]
Tell(q, a) == answer' = [answer EXCEPT ![q] = a]
Fault == faults < MaxFault /\ faults' = faults + 1
Holds(q) == pc[q] \in Holding

(* startChatCommand answers once the run exists, and runs the pass in the   *)
(* background; handleChatCommand answers with the result of the pass.       *)
Send(q, h) ==
  /\ At(q, "idle") /\ Goto(q, "reserve")
  /\ hash' = [hash EXCEPT ![q] = h]
  /\ UNCHANGED <<row, id, answers, run, executed, faults, crashes>>

(* The upsert inserts a row, or takes over a reservation that has expired.  *)
Reservable == row.status = "none" \/ (row.status = "processing" /\ row.expired)

Reserved_KeepHash(q) ==
  IF row.status = "none"
  THEN [status |-> "processing", id |-> q, hash |-> hash[q], run |-> q, expired |-> FALSE]
  ELSE [row EXCEPT !.run = q, !.expired = FALSE]

(* The row that was taken over keeps the id of its record.                  *)
Reserved(q) ==
  [status |-> "processing", id |-> IF row.status = "none" THEN q ELSE row.id,
   hash |-> hash[q], run |-> q, expired |-> FALSE]

Upsert(q) == Reservable /\ row' = Reserved(q)

Reserve(q) ==
  /\ At(q, "reserve")
  /\ \/ /\ Upsert(q) /\ Goto(q, "create") /\ id' = [id EXCEPT ![q] = Reserved(q).id]
        /\ UNCHANGED <<answer, faults>>
     \/ /\ ~Reservable /\ Goto(q, "find") /\ UNCHANGED <<row, id, answer, faults>>
     \/ /\ Fault /\ Goto(q, "done") /\ Tell(q, "error")
        /\ (Upsert(q) \/ UNCHANGED row)
        /\ UNCHANGED id
  /\ UNCHANGED <<hash, named, run, executed, crashes>>

(* findByKey is a call of its own: the row it finds may be another, or      *)
(* none, by then.                                                           *)
Verdict(q) ==
  IF row.status = "none" THEN "error"
  ELSE IF row.hash # hash[q] THEN "conflict"
  ELSE CASE row.status = "processing" -> "busy"
         [] row.status = "failed"     -> "stored error"
         [] row.status = "completed"  -> "replayed"

Find(q) ==
  /\ At(q, "find") /\ Goto(q, "done")
  /\ \/ /\ Tell(q, Verdict(q)) /\ named' = [named EXCEPT ![q] = row.run]
        /\ UNCHANGED faults
     \/ Fault /\ Tell(q, "error") /\ UNCHANGED named
  /\ UNCHANGED <<row, hash, id, run, executed, crashes>>
-----------------------------------------------------------------------------
(* The conversation and the run.  An error before the run is known to exist *)
(* releases the key (background) or fails it (sync).                        *)
CreateRun(q) ==
  /\ At(q, "create")
  /\ \/ /\ run' = [run EXCEPT ![q] = "created"] /\ Goto(q, "message")
        /\ UNCHANGED faults
     \/ /\ Fault
        /\ run' \in {run, [run EXCEPT ![q] = "created"]}
        /\ Goto(q, IF q \in Background THEN "release" ELSE "fail")
  /\ UNCHANGED <<row, hash, id, answers, executed, crashes>>

SaveUserMessage(q) ==
  /\ At(q, "message")
  /\ \/ /\ Goto(q, "loop") /\ UNCHANGED faults
        /\ IF q \in Background THEN Tell(q, "accepted") ELSE UNCHANGED answer
     \/ /\ Fault /\ UNCHANGED answer
        /\ Goto(q, IF q \in Background THEN "unmark" ELSE "fail")
  /\ UNCHANGED <<row, hash, id, named, run, executed, crashes>>

(* markFailed, then the release; an error of either is swallowed.           *)
Unmark(q) ==
  /\ At(q, "unmark") /\ Goto(q, "release")
  /\ \/ run' = [run EXCEPT ![q] = "failed"] /\ UNCHANGED faults
     \/ Fault /\ run' \in {run, [run EXCEPT ![q] = "failed"]}
  /\ UNCHANGED <<row, hash, id, answers, executed, crashes>>

(* The statements of complete, fail and release name the record and leave   *)
(* every row alone that is not processing.                                  *)
Matches(q) == row.status = "processing" /\ row.id = id[q]

SetStatus(q, s) ==
  row' = IF Matches(q) THEN [row EXCEPT !.status = s] ELSE row

Release(q) ==
  /\ At(q, "release") /\ Goto(q, "done") /\ Tell(q, "error")
  /\ \/ SetStatus(q, "none") /\ UNCHANGED faults
     \/ Fault /\ (SetStatus(q, "none") \/ UNCHANGED row)
  /\ UNCHANGED <<hash, id, named, run, executed, crashes>>

(* The pass begins, and returns a result or throws.                         *)
StartLoop(q) ==
  /\ At(q, "loop") /\ Goto(q, "running")
  /\ executed' = executed \cup {q}
  /\ UNCHANGED <<row, hash, id, answers, run, faults, crashes>>

EndLoop(q) ==
  /\ At(q, "running")
  /\ \/ Goto(q, "complete") /\ run' = [run EXCEPT ![q] = "ended"]
     \/ Goto(q, "fail") /\ UNCHANGED run
  /\ UNCHANGED <<row, hash, id, answers, executed, faults, crashes>>

Complete(q) ==
  /\ At(q, "complete")
  /\ \/ /\ SetStatus(q, "completed") /\ Goto(q, "done") /\ UNCHANGED faults
        /\ IF q \notin Background THEN Tell(q, "accepted") ELSE UNCHANGED answer
     \/ /\ Fault /\ Goto(q, "fail") /\ UNCHANGED answer
        /\ (SetStatus(q, "completed") \/ UNCHANGED row)
  /\ UNCHANGED <<hash, id, named, run, executed, crashes>>

Fail_Releases(q) ==
  /\ At(q, "fail") /\ UNCHANGED answer
  /\ \/ SetStatus(q, "none") /\ Goto(q, "mark") /\ UNCHANGED faults
     \/ /\ Fault /\ (SetStatus(q, "none") \/ UNCHANGED row)
        /\ Goto(q, "mark")
  /\ UNCHANGED <<hash, id, named, run, executed, crashes>>

(* Only startChatCommand swallows an error of failIdempotency.              *)
Fail(q) ==
  /\ At(q, "fail")
  /\ \/ SetStatus(q, "failed") /\ Goto(q, "mark") /\ UNCHANGED <<answer, faults>>
     \/ /\ Fault /\ (SetStatus(q, "failed") \/ UNCHANGED row)
        /\ IF q \in Background THEN Goto(q, "mark") /\ UNCHANGED answer
           ELSE Goto(q, "done") /\ Tell(q, "error")
  /\ UNCHANGED <<hash, id, named, run, executed, crashes>>

(* markFailed leaves a run alone that does not exist or has ended for good. *)
Mark(q) ==
  /\ At(q, "mark") /\ Goto(q, "done")
  /\ IF q \notin Background THEN Tell(q, "error") ELSE UNCHANGED answer
  /\ \/ /\ run[q] = "created" /\ run' = [run EXCEPT ![q] = "failed"] /\ UNCHANGED faults
     \/ /\ run[q] = "ended" /\ UNCHANGED faults
        /\ run' \in {run, [run EXCEPT ![q] = "failed"]}
     \/ run[q] = "none" /\ UNCHANGED <<run, faults>>
     \/ Fault /\ UNCHANGED run
  /\ UNCHANGED <<row, hash, id, named, executed, crashes>>
-----------------------------------------------------------------------------
(* The window of 24 hours passes.  The pass that holds the key is taken to  *)
(* end before: its rounds are counted and its calls have deadlines.         *)
Lapse ==
  /\ row.status # "none" /\ ~row.expired /\ \A q \in Request : ~Holds(q)
  /\ row' = [row EXCEPT !.expired = TRUE]
  /\ executed' = IF row.status = "processing" THEN {} ELSE executed
  /\ UNCHANGED <<requests, answers, run, faults, crashes>>

Cleanup_Settled ==
  /\ row.status \in {"completed", "failed"} /\ row.expired
  /\ row' = [row EXCEPT !.status = "none"]
  /\ UNCHANGED <<requests, answers, run, executed, faults, crashes>>

(* cleanupExpired, on a timer.                                              *)
Cleanup ==
  /\ row.status = "processing" /\ row.expired
  /\ row' = [row EXCEPT !.status = "none"]
  /\ UNCHANGED <<requests, answers, run, executed, faults, crashes>>

(* The handlers are gone; the start-up scan settles the runs they left.     *)
Crash ==
  /\ crashes < MaxCrash /\ crashes' = crashes + 1
  /\ pc' = [q \in Request |-> IF At(q, "idle") THEN "idle" ELSE "done"]
  /\ run' = [q \in Request |-> IF run[q] = "created" THEN "failed" ELSE run[q]]
  /\ UNCHANGED <<row, hash, id, answers, executed, faults>>
-----------------------------------------------------------------------------
Advance(q) ==
  \/ Reserve(q) \/ Find(q) \/ CreateRun(q) \/ SaveUserMessage(q) \/ Unmark(q)
  \/ Release(q) \/ StartLoop(q) \/ EndLoop(q) \/ Complete(q) \/ Fail(q) \/ Mark(q)

Next ==
  \/ \E q \in Request : Advance(q)
  \/ \E q \in Request, h \in Hash : Send(q, h)
  \/ Lapse \/ Cleanup \/ Crash

Spec == Init /\ [][Next]_vars

(* Every await of a handler ends, time passes and the clean-up timer fires. *)
FairSpec ==
  /\ Spec
  /\ \A q \in Request : WF_vars(Advance(q))
  /\ WF_vars(Lapse) /\ WF_vars(Cleanup)
-----------------------------------------------------------------------------
(* At most one request holds the key, whoever released it, crashed, was     *)
(* cleaned up or taken over.                                                *)
OneHolder == \A p, q \in Request : Holds(p) /\ Holds(q) => p = q

(* The loop runs at most once for a key until its reservation lapses: no    *)
(* retry, no failed call and no crash makes it run again.                   *)
OncePerWindow == \A p, q \in executed : p = q

(* What a key is for: one pass at a time, and one pass in all.              *)
HandledOnce == OneHolder /\ OncePerWindow

(* A replay tells the client of a pass that ran to its end, for a request   *)
(* with the same content.                                                   *)
ReplayIsOwn ==
  \A q \in Request : answer[q] = "replayed" =>
    /\ named[q] \in Request
    /\ hash[named[q]] = hash[q]
    /\ run[named[q]] \in {"ended", "failed"}

(* What has been settled stays as it is: a late call of the same handler,   *)
(* a later request and the clean-up change neither the outcome nor the run. *)
SettledIsFinal ==
  [][row.status \in {"completed", "failed"} =>
       row'.status = row.status /\ row'.run = row.run]_vars

(* A key is not blocked for ever: the reservation is settled, released or   *)
(* cleaned up, also when the daemon crashed under it.                       *)
KeyUnblocks == row.status = "processing" ~> row.status # "processing"
-----------------------------------------------------------------------------
(* The inductive invariant behind OneHolder and OncePerWindow: the row is   *)
(* the holder's, and what ran since the last lapse is what the row names.   *)
HolderInv ==
  \A q \in Request : Holds(q) =>
    /\ row.status # "none" /\ ~row.expired
    /\ row.run = q /\ row.id = id[q]
    /\ pc[q] \in {"create", "message", "unmark", "release", "loop"} =>
         q \notin executed

ExecutedInv ==
  /\ executed \subseteq {row.run}
  /\ executed # {} => row.status # "none"
  /\ row.status = "processing" /\ row.expired => executed = {}

KInv == TypeOK /\ HolderInv /\ ExecutedInv
-----------------------------------------------------------------------------
(* The inductive invariant behind ReplayIsOwn: the row names a request that *)
(* was sent and carries its content, a holder's row is open until it may    *)
(* have been settled, and the run of a completed row, as of an answer that  *)
(* was replayed from one, has ended.                                        *)
Over == {"ended", "failed"}

RowNamesSender ==
  row.status # "none" =>
    row.run \in Request /\ pc[row.run] # "idle" /\ row.hash = hash[row.run]

CompletedHasEnded == row.status = "completed" => run[row.run] \in Over

HolderProgress ==
  \A q \in Request :
    /\ pc[q] \in Holding \ {"fail", "mark"} => row.status = "processing"
    /\ pc[q] \in {"idle", "reserve", "find", "create"} => run[q] = "none"
    /\ pc[q] = "complete" => run[q] = "ended"

ReplaysStand ==
  \A q \in Request : answer[q] = "replayed" =>
    /\ pc[q] # "idle" /\ named[q] \in Request /\ pc[named[q]] # "idle"
    /\ hash[named[q]] = hash[q] /\ run[named[q]] \in Over

ReplayInv == RowNamesSender /\ CompletedHasEnded /\ HolderProgress /\ ReplaysStand
=============================================================================
