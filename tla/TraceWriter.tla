----------------------------- MODULE TraceWriter -----------------------------
(***************************************************************************)
(* The trace of a run: every handler that executes it starts one in memory, *)
(* measures the building of its context in a span, and ends whatever trace  *)
(* the run has by then.  Each step is also written to the database, without *)
(* waiting: the writes of a handler travel over a pool of connections and   *)
(* land in any order (trace-manager.ts, trace-persistence.ts,               *)
(* agent-trace.repository.ts; the handlers are those of AgentRuntime.tla).  *)
(*                                                                         *)
(* A trace is named after the handler that starts it.  Durations and token  *)
(* counts are one thing: the counts of a span are written or they are not.  *)
(***************************************************************************)
EXTENDS Naturals, Sequences, FiniteSets

CONSTANTS
  Fresh,        \* handlers that start the run (continueLoop of a new run)
  Resuming,     \* handlers that resume it after a decision of the user
  MaxCompleted, \* maxCompletedTraces
  MaxLoss       \* writes that fail

Tracer == Fresh \cup Resuming

ASSUME TracersAreSomebody ==
  /\ "nobody" \notin Tracer /\ Fresh \cap Resuming = {}
  /\ MaxCompleted \in Nat /\ MaxLoss \in Nat

Ops == {"open", "span", "spanEnd", "end"}

\* The write that must have landed for this one to find its row.
Before == [open |-> "none", span |-> "open", spanEnd |-> "span", end |-> "open"]

VARIABLES
  step,         \* step[h]: where the handler is
  executor,     \* the handler that has acquired the run, 0 if none has
  activeTrace,  \* activeTraces.get(runId), 0 if there is none
  completed,    \* completedTraces
  memory,       \* memory[t]: [started, ended, measured, spans]
  writes,       \* the writes under way
  traceRow,     \* traceRow[t]: agent_traces
  spanRow,      \* spanRow[t]: agent_trace_spans
  overtaken,    \* traces of which a write landed before the one it builds on
  losses

traceVars == <<step, executor, activeTrace, completed, memory, writes, traceRow,
               spanRow, overtaken, losses>>

NoTrace == [started |-> FALSE, ended |-> FALSE, measured |-> FALSE, spans |-> 0]
NoRow   == [state |-> "none", spans |-> 0]

TraceInit ==
  /\ step = [h \in Tracer |-> "asked"] /\ executor = "nobody"
  /\ activeTrace = "nobody" /\ completed = <<>>
  /\ memory = [t \in Tracer |-> NoTrace]
  /\ writes = {}
  /\ traceRow = [t \in Tracer |-> NoRow] /\ spanRow = [t \in Tracer |-> "none"]
  /\ overtaken = {} /\ losses = 0

Write(t, op, spans) == [trace |-> t, op |-> op, spans |-> spans]

-----------------------------------------------------------------------------
(* What TraceManager does to the trace it is asked for. *)

Opened(t) == [memory EXCEPT ![t].started = TRUE]
Measured(t) == [memory EXCEPT ![t].measured = TRUE, ![t].spans = @ + 1]
Ended(t) == [memory EXCEPT ![t].ended = TRUE]

-----------------------------------------------------------------------------
(* The handlers. *)

AtStep(h, from, to) == step[h] = from /\ step' = [step EXCEPT ![h] = to]
Rows == UNCHANGED <<traceRow, spanRow, overtaken, losses>>

\* acquireExecution: one handler at a time, here.  A fresh one that is refused
\* returns before its try; a resuming one is inside it.
Acquire(h) ==
  /\ \/ executor = "nobody" /\ AtStep(h, "asked", "acquired") /\ executor' = h
     \/ executor # "nobody" /\ UNCHANGED executor
        /\ AtStep(h, "asked", IF h \in Fresh THEN "done" ELSE "finally")
  /\ UNCHANGED <<activeTrace, completed, memory, writes>> /\ Rows

\* startTrace, and in a fresh run the span of its context at once.  A resuming
\* handler has built its context before; when that fails it has no trace.
StartTrace(h) ==
  /\ AtStep(h, "acquired", IF h \in Fresh THEN "context" ELSE "loop")
  /\ activeTrace' = h
  /\ memory' = Opened(h)
  /\ writes' = writes \cup {Write(h, "open", 0)}
                 \cup (IF h \in Fresh THEN {Write(h, "span", 0)} ELSE {})
  /\ UNCHANGED <<executor, completed>> /\ Rows

\* endSpan: the span joins its own trace, ended or not.
EndSpan_Reinsert(h) ==
  /\ AtStep(h, "context", "loop")
  /\ memory' = Measured(h)
  /\ writes' = writes \cup {Write(h, "span", 0)}
  /\ UNCHANGED <<executor, activeTrace, completed>> /\ Rows

EndSpan(h) ==
  /\ AtStep(h, "context", "loop")
  /\ memory' = Measured(h)
  /\ writes' = writes \cup {Write(h, "spanEnd", 0)}
  /\ UNCHANGED <<executor, activeTrace, completed>> /\ Rows

\* The run is ended, suspended or failed: another handler can acquire it while
\* this one is still finishing.
Leaves(h) ==
  /\ step[h] \in {"acquired", "context", "loop"}
  /\ step[h] = "acquired" => h \in Resuming
  /\ step' = [step EXCEPT ![h] = "finally"]
  /\ executor' = "nobody"
  /\ UNCHANGED <<activeTrace, completed, memory, writes>> /\ Rows

\* endTrace ends the trace the run has, whoever started it.
EndTrace(h) ==
  /\ AtStep(h, "finally", "done")
  /\ activeTrace' = "nobody"
  /\ IF activeTrace = "nobody" THEN UNCHANGED <<completed, memory, writes>>
     ELSE LET all == Append(completed, activeTrace) IN
          /\ completed' = IF Len(all) > MaxCompleted THEN Tail(all) ELSE all
          /\ memory' = Ended(activeTrace)
          /\ writes' = writes \cup
               {Write(activeTrace, "end", memory[activeTrace].spans)}
  /\ UNCHANGED executor /\ Rows

-----------------------------------------------------------------------------
(* The database. *)

\* createTrace: the row is inserted, or all that can change of it is replaced.
CreateTrace(w) ==
  /\ traceRow' = [traceRow EXCEPT ![w.trace] =
       [state |-> IF w.op = "open" THEN "open" ELSE "ended", spans |-> w.spans]]
  /\ UNCHANGED spanRow

\* createSpan needs the row of its trace; a second one refreshes the times, the
\* summary and the error, and none of the counts.
CreateSpan(w) ==
  /\ spanRow' = [spanRow EXCEPT ![w.trace] =
       CASE traceRow[w.trace] = NoRow -> @
         [] traceRow[w.trace] # NoRow /\ @ = "none" -> "open"
         [] OTHER -> "uncounted"]
  /\ UNCHANGED traceRow

\* updateSpan changes the row that is there.
UpdateSpan(w) ==
  /\ spanRow' = [spanRow EXCEPT ![w.trace] = IF @ = "none" THEN @ ELSE "whole"]
  /\ UNCHANGED traceRow

Lands(w) ==
  /\ w \in writes
  /\ writes' = writes \ {w}
  /\ overtaken' = IF \E v \in writes : v.trace = w.trace /\ v.op = Before[w.op]
                    THEN overtaken \cup {w.trace} ELSE overtaken
  /\ CASE w.op \in {"open", "end"} -> CreateTrace(w)
       [] w.op = "span" -> CreateSpan(w)
       [] OTHER -> UpdateSpan(w)
  /\ UNCHANGED <<step, executor, activeTrace, completed, memory, losses>>

\* A write fails and is forgotten.
IsLost(w) ==
  /\ w \in writes /\ losses < MaxLoss
  /\ writes' = writes \ {w} /\ losses' = losses + 1
  /\ UNCHANGED <<step, executor, activeTrace, completed, memory, traceRow, spanRow, overtaken>>

TraceNext ==
  \/ \E h \in Tracer : Acquire(h) \/ StartTrace(h) \/ EndSpan(h) \/ Leaves(h) \/ EndTrace(h)
  \/ \E w \in writes : Lands(w) \/ IsLost(w)

TraceSpec == TraceInit /\ [][TraceNext]_traceVars

-----------------------------------------------------------------------------
TraceTypeOK ==
  /\ step \in [Tracer -> {"asked", "acquired", "context", "loop", "finally", "done"}]
  /\ executor \in Tracer \cup {"nobody"} /\ activeTrace \in Tracer \cup {"nobody"}
  /\ completed \in Seq(Tracer) /\ Len(completed) <= MaxCompleted
  /\ memory \in [Tracer -> [started : BOOLEAN, ended : BOOLEAN, measured : BOOLEAN, spans : Nat]]
  /\ writes \subseteq [trace : Tracer, op : Ops, spans : Nat]
  /\ traceRow \in [Tracer -> [state : {"none", "open", "ended"}, spans : Nat]]
  /\ spanRow \in [Tracer -> {"none", "open", "whole", "uncounted"}]
  /\ overtaken \subseteq Tracer /\ losses \in 0..MaxLoss

\* RowsTellTheTrace: when the writes have landed, each on the row it builds on
\* and none lost, the database has every trace and every span as memory has
\* them - ended if they ended, with what was counted until then - although
\* nobody waited for a write, and whoever ended the trace (endSpan's updateSpan,
\* createTrace's ON CONFLICT).
RowsTellTheTrace ==
  writes = {} /\ losses = 0 => \A t \in Tracer \ overtaken :
    /\ memory[t].started /\ ~memory[t].ended => traceRow[t] = [state |-> "open", spans |-> 0]
    /\ memory[t].ended => /\ traceRow[t].state = "ended"
                          /\ traceRow[t].spans <= memory[t].spans
    /\ memory[t].started /\ t \in Fresh =>
         spanRow[t] = IF memory[t].measured THEN "whole" ELSE "open"

-----------------------------------------------------------------------------
(* "One trace per agent run, spanning all phases" (trace-manager.ts): a      *)
(* handler that leaves late, or was never let in, ends the trace of the one  *)
(* that executes.  No run checks it.                                        *)
ExecutorKeepsItsTrace ==
  \A h \in Tracer : step[h] \in {"context", "loop"} => activeTrace = h

-----------------------------------------------------------------------------
(* The inductive invariant.  A trace is started by its own handler and ended *)
(* at most once, so that it has at most one write of each kind; and until    *)
(* they have landed the rows say exactly which have not.                     *)
Pending(t, op) == \E w \in writes : w.trace = t /\ w.op = op

InTheirTurn ==
  \A t \in Tracer :
    /\ step[t] \in {"asked", "acquired"} => memory[t] = NoTrace
    /\ memory[t].started \/ (memory[t] = NoTrace /\ spanRow[t] = "none")
    /\ step[t] = "context" => memory[t].started /\ ~memory[t].measured /\ t \in Fresh
    /\ activeTrace = t => memory[t].started /\ ~memory[t].ended

WrittenOnce ==
  /\ \A w \in writes :
       /\ memory[w.trace].started
       /\ w.op = "spanEnd" => memory[w.trace].measured
       /\ IF w.op = "end" THEN memory[w.trace].ended /\ w.spans <= memory[w.trace].spans
                          ELSE w.spans = 0
  /\ \A v, w \in writes : v.trace = w.trace /\ v.op = w.op => v = w

RowFollows(t) ==
  /\ ~Pending(t, "open") =>
       /\ traceRow[t] # NoRow
       /\ ~memory[t].ended => traceRow[t] = [state |-> "open", spans |-> 0]
  /\ memory[t].ended /\ ~Pending(t, "end") =>
       /\ ~Pending(t, "open")
       /\ traceRow[t].state = "ended" /\ traceRow[t].spans <= memory[t].spans
  /\ t \in Fresh =>
       /\ memory[t].measured /\ ~Pending(t, "spanEnd") => ~Pending(t, "span")
       /\ spanRow[t] = IF Pending(t, "span") THEN "none"
                       ELSE IF memory[t].measured /\ ~Pending(t, "spanEnd") THEN "whole" ELSE "open"

RowsFollow ==
  losses = 0 => \A t \in Tracer \ overtaken : memory[t].started => RowFollows(t)

TraceInv == TraceTypeOK /\ InTheirTurn /\ WrittenOnce /\ RowsFollow
=============================================================================
