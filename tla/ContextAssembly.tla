--------------------------- MODULE ContextAssembly ---------------------------
(***************************************************************************)
(* What a run's first model call is given of its conversation: messages    *)
(* are listed and searched, the summaries of earlier turns stand in for    *)
(* what they cover, memories are recalled, and a token budget decides      *)
(* what is kept.  The reads are separate calls; one may fail and leave its *)
(* source out.                                                             *)
(*                                                                         *)
(* One conversation, one turn after another.  A message is its position    *)
(* and a run the position of its user message; wording is left out, so     *)
(* which messages are nearest, which memories score, whether a message is  *)
(* small talk and whether it makes a summary stale are any that fit.  A    *)
(* fresh run has no artifacts and no tool results of its own, and a run    *)
(* that resumes goes on from its checkpoint.                               *)
(***************************************************************************)
EXTENDS Integers, Sequences, FiniteSets, FiniteSetsExt, SequencesExt, Functions

CONSTANTS
  Listed,      \* messages listed first; as many must be there to recall memories
  Fallback,    \* messages listed without an embedding of the question
  Nearest,     \* messages the search returns at most
  Cost,        \* the sizes of messages and memories, in tokens
  Clipped,     \* what is left at most of a longer one
  OtherCost,   \* the sizes of a summary, the catalogue and the fixed parts
  Room,        \* the tokens the input may take
  MaxTurn,     \* bound: turns of the conversation
  MaxFault     \* bound: calls that fail

VARIABLES
  conv,     \* the messages: [role, cost, embedded]
  store,    \* the memories of the conversation's turns: [kind, run, cost]
  pc, now,  \* where the assembly is, and the run it is for
  query,    \* whether there is an embedding of the question
  messages, \* the messages fetched, in the order the code holds them
  sums, recalled, \* the runs whose summaries were fetched; the memories found
  context,  \* the ids of the chunks kept
  dropped,  \* and of those the budget left out
  faults, failed  \* failed: a call of this assembly failed

vars == <<conv, store, pc, now, query, messages, sums, recalled, context, dropped, faults,
          failed>>

Message == [role : {"user", "assistant"}, cost : Cost, embedded : BOOLEAN]
Memory == [kind : {"summary", "fact"}, run : Nat, cost : Cost]

Init ==
  /\ conv = <<>> /\ store = {} /\ pc = "idle" /\ now = 0 /\ query = FALSE
  /\ messages = <<>> /\ sums = <<>> /\ recalled = <<>> /\ context = {} /\ dropped = {}
  /\ faults = 0 /\ failed = FALSE

-----------------------------------------------------------------------------

Ids(s) == {s[i] : i \in DOMAIN s}
Orders(S) == Injection(1 .. Cardinality(S), S)
Prefix(s, n) == SubSeq(s, 1, IF Len(s) < n THEN Len(s) ELSE n)
Works == UNCHANGED <<faults, failed>>
Fails == faults < MaxFault /\ faults' = faults + 1 /\ failed' = TRUE

(* listMessages: in the order of their creation, cut to the limit.         *)
ListMessages(limit) == Prefix([i \in DOMAIN conv |-> i], limit)

(* The rows a search from the context may return: the run is a condition,  *)
(* beside the scopes.                                                      *)
Found(kinds) == {m \in store : m.kind \in kinds /\ m.run = now}

(* What one such search may bring, in words and meaning that are left out: *)
(* a search that fails brings nothing.                                     *)
Searches(kinds, limit) == {s \in SUBSET Found(kinds) : Cardinality(s) <= limit}

(* A user's message is saved, with an embedding if one can be had, and its *)
(* run begins to assemble its context.                                     *)
Ask ==
  /\ pc = "idle" /\ Cardinality({i \in DOMAIN conv : conv[i].role = "user"}) < MaxTurn
  /\ \E c \in Cost, e \in BOOLEAN :
       conv' = Append(conv, [role |-> "user", cost |-> c, embedded |-> e])
  /\ pc' = "fetch" /\ now' = Len(conv) + 1
  /\ failed' = FALSE
  /\ UNCHANGED <<store, query, messages, sums, recalled, context, dropped, faults>>

(* The first reads go out together and are settled one by one.  A blank    *)
(* question has no embedding.                                              *)
Summarised == {m.run : m \in Found({"summary"})}

Fetch ==
  /\ pc = "fetch" /\ pc' = "search"
  /\ \/ /\ Works /\ messages' = ListMessages(Listed) /\ query' \in BOOLEAN
        /\ \E s \in Orders(Summarised) : sums' = Prefix(s, 10)
     \/ /\ Fails
        /\ \/ /\ messages' = <<>> /\ query' \in BOOLEAN
              /\ \E s \in Orders(Summarised) : sums' = Prefix(s, 10)
           \/ /\ messages' = ListMessages(Listed) /\ query' = FALSE
              /\ \E s \in Orders(Summarised) : sums' = Prefix(s, 10)
           \/ messages' = ListMessages(Listed) /\ query' \in BOOLEAN /\ sums' = <<>>
  /\ UNCHANGED <<conv, store, now, recalled, context, dropped>>

(* With an embedding the nearest messages are put behind those listed;     *)
(* without one, and with few listed, more are listed.                      *)
Search ==
  LET embedded == {i \in DOMAIN conv : conv[i].embedded}
      size == Min({Nearest, Cardinality(embedded)})
  IN  /\ pc = "search" /\ pc' = "recall"
      /\ \/ /\ query /\ Works
            /\ \E near \in kSubset(size, embedded) : \E s \in Orders(near \ Ids(messages)) :
                 messages' = messages \o s
         \/ ~query /\ Len(messages) < Listed /\ Works /\ messages' = ListMessages(Fallback)
         \/ ~query /\ Len(messages) >= Listed /\ Works /\ UNCHANGED messages
         \/ (query \/ Len(messages) < Listed) /\ Fails /\ UNCHANGED messages
      /\ UNCHANGED <<conv, store, now, query, sums, recalled, context, dropped>>

(* Memories, in a conversation that is not short: by words, and with an    *)
(* embedding by meaning alone; a search that is slow counts as one that    *)
(* found nothing.                                                          *)
Timely(results) == results \cup {{}}

(* Along the links of the three best of the few found, and of three of     *)
(* those linked, five to a memory and the next asked only below five.      *)
Hops(seeds) ==
  {seeds \cup linked : linked \in {l \in SUBSET (store \ seeds) : Cardinality(l) <= 2 * 9}}

(* What the links bring is added when it is more than there was, the three *)
(* they started from counted.                                              *)
Linked(hits) ==
  LET best == kSubset(Min({3, Cardinality(hits)}), hits)
      longer == {h \in UNION {Hops(seeds) : seeds \in best} : Cardinality(h) > Cardinality(hits)}
  IN  {hits} \cup IF Cardinality(hits) \in 1 .. 4 THEN {hits \cup h : h \in longer} ELSE {}

(* Then with other words: the question comes first among its own wordings, *)
(* and three of the up to four are searched.                               *)
Wordings == 1 .. 3

Reworded(hits) ==
  LET Again(n) == {UNION Ids(f) : f \in [1 .. n -> Searches({"fact", "summary"}, 5)]}
  IN  IF Cardinality(hits) < 3 THEN {hits \cup m : m \in UNION {Again(n) : n \in Wordings}}
                               ELSE {hits}

(* The reranker weighs each candidate's score against its likeness to      *)
(* those chosen; no candidate brings an embedding, so none is like another *)
(* and the order of the scores stays.                                      *)
Reranked(s, topK) == Prefix(s, topK)

Best(hits) ==
  LET top(s) == Prefix(s, 15)
  IN  {IF Len(top(s)) > 5 THEN Reranked(top(s), Len(top(s))) ELSE top(s) : s \in Orders(hits)}

Recall ==
  /\ pc = "recall" /\ pc' = "pack"
  /\ \/ Len(messages) <= Listed /\ recalled' = <<>>
     \/ /\ Len(messages) > Listed
        /\ \E hybrid \in Timely(Searches({"fact", "summary"}, 10)) :
           \E vector \in IF query THEN Timely(Searches({"fact", "summary"}, 5)) ELSE {{}} :
           \E wider \in Linked(hybrid \cup vector) : \E all \in Reworded(wider) :
             recalled' \in Best(all)
  /\ UNCHANGED <<conv, store, now, query, messages, sums, context, dropped, faults, failed>>

-----------------------------------------------------------------------------

Chunk(source, id, cost, priority) ==
  [source |-> source, id |-> <<source, id>>, cost |-> cost, priority |-> priority]

(* A summary stands for the messages between the ends of its range, as     *)
(* they lie in the list; the writer gives each the one message of its turn.*)
Covered == Ids(sums) \cap Ids(messages)

(* Every message fetched but the current one and those a summary stands    *)
(* for; a long one is cut.                                                 *)
Clip(cost) == Min({cost, Clipped})

History ==
  LET kept == SelectSeq(messages, LAMBDA i : i # now /\ i \notin Covered)
  IN  [j \in DOMAIN kept |->
         Chunk("conversation_history", kept[j], Clip(conv[kept[j]].cost), 10)]

(* Messages behind a summary's range make it stale, and so may what they   *)
(* say: 8, or 12, or 14 when the user changes the goal or corrects.        *)
Drift == {8, 12, 14}

Staleness(r, drift) ==
  LET behind == r \in Ids(messages) /\ r # messages[Len(messages)]
  IN  IF behind THEN Max({12, drift}) ELSE drift

SummaryChunks(drift) ==
  [j \in DOMAIN sums |->
     Chunk("conversation_summary", sums[j], OtherCost["summary"], Staleness(sums[j], drift))]

(* A memory that is too long is shortened: a precious one by the model, if *)
(* it answers with less, any other to its first sentences; what is left is *)
(* never more than the cut allows.                                         *)
Compress(cost) == IF cost <= Clipped THEN {cost} ELSE 1 .. Clipped

Shortened == {f \in [DOMAIN recalled -> 1 .. Max(Cost)] :
                \A j \in DOMAIN recalled : f[j] \in Compress(recalled[j].cost)}

MemoryChunks(size) ==
  [j \in DOMAIN recalled |-> Chunk("memory", recalled[j], size[j], 15)]

Catalogue(casual) ==
  IF casual THEN <<>> ELSE <<Chunk("skill_catalog", 0, OtherCost["catalogue"], 20)>>

(* TRIM_ORDER: what comes later is kept longer.                            *)
Rank(c) ==
  CHOOSE n \in 1 .. 4 :
    <<"memory", "conversation_history", "conversation_summary", "skill_catalog">>[n] = c.source

(* The budget: the mandatory chunks always; of the others, by rank and     *)
(* priority and otherwise in their order, each that still fits.            *)
Sorted(chunks) ==
  LET Before(i, j) ==
        \/ Rank(chunks[i]) > Rank(chunks[j])
        \/ /\ Rank(chunks[i]) = Rank(chunks[j])
           /\ \/ chunks[i].priority < chunks[j].priority
              \/ chunks[i].priority = chunks[j].priority /\ i < j
      order == SetToSortSeq(DOMAIN chunks, Before)
  IN  [n \in DOMAIN order |-> chunks[order[n]]]

(* The persona, the rules, the safety policy, the message itself and the   *)
(* state of the run.                                                       *)
Mandatory == OtherCost["fixed"] + conv[now].cost

Fit(chunks) ==
  LET room == Room - Mandatory
      Take(kept, c) == IF kept.used + c.cost <= room
                       THEN [used |-> kept.used + c.cost, ids |-> kept.ids \cup {c.id}]
                       ELSE kept
  IN  IF room < 0 THEN {} ELSE FoldLeft(Take, [used |-> 0, ids |-> {}], Sorted(chunks)).ids

Pack ==
  /\ pc = "pack" /\ pc' = "model"
  /\ \E casual \in BOOLEAN, drift \in Drift, size \in Shortened :
       LET chunks == History \o SummaryChunks(drift) \o MemoryChunks(size) \o Catalogue(casual)
       IN  /\ context' = Fit(chunks)
           /\ dropped' = {chunks[j].id : j \in DOMAIN chunks} \ context'
  /\ UNCHANGED <<conv, store, now, query, messages, sums, recalled, faults, failed>>

(* The run ends: its answer is saved and its memories are written, a       *)
(* summary when it used tools or the history is long; or it fails.         *)
Answer ==
  /\ pc = "model" /\ pc' = "idle"
  /\ \/ \E c \in Cost, e \in BOOLEAN, wrote \in SUBSET {"summary", "fact"}, size \in Cost :
          /\ conv' = Append(conv, [role |-> "assistant", cost |-> c, embedded |-> e])
          /\ store' = store \cup {[kind |-> k, run |-> now, cost |-> size] : k \in wrote}
     \/ UNCHANGED <<conv, store>>
  /\ messages' = <<>> /\ sums' = <<>> /\ recalled' = <<>> /\ context' = {} /\ dropped' = {}
  /\ UNCHANGED <<now, query, faults, failed>>

Next == Ask \/ Fetch \/ Search \/ Recall \/ Pack \/ Answer

Spec == Init /\ [][Next]_vars

-----------------------------------------------------------------------------

Chunks(source) == {id \in context \cup dropped : id[1] = source}
Shown(i) == <<"conversation_history", i>> \in context
SummaryShown(r) == <<"conversation_summary", r>> \in context

TypeOK ==
  /\ conv \in Seq(Message) /\ store \subseteq Memory
  /\ pc \in {"idle", "fetch", "search", "recall", "pack", "model"} /\ now \in 0 .. Len(conv)
  /\ Ids(messages) \subseteq DOMAIN conv /\ IsInjective(messages)
  /\ Ids(sums) \subseteq {m.run : m \in store} /\ Ids(recalled) \subseteq store

(* "We just use whatever summaries already exist in the DB" (assembly      *)
(* pipeline): when no read has failed, the conversation's summaries, up to *)
(* ten, are in the context or the budget has left them out.                *)
SummariesReachModel ==
  LET old == {m.run : m \in {k \in store : k.kind = "summary"}}
  IN  pc = "model" /\ ~failed /\ Cardinality(old) <= 10
        => \A r \in old : <<"conversation_summary", r>> \in Chunks("conversation_summary")

(* "Recent conversation messages (recency fallback)" (assembly pipeline):  *)
(* when no read has failed, the messages right before the question are in  *)
(* the context, under a summary that is, or left out by the budget.        *)
RecentReachesModel ==
  pc = "model" /\ ~failed
    => \A i \in Max({1, now - Listed + 1}) .. now - 1 :
         \/ <<"conversation_history", i>> \in Chunks("conversation_history")
         \/ SummaryShown(i)
=============================================================================
