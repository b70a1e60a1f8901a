------------------------------ MODULE ToolCatalog ------------------------------
(***************************************************************************)
(* The ranking of the tools a turn is offered, and the embeddings behind   *)
(* it: LlmEmbeddingService, with its cache, its requests to the provider   *)
(* and its lexical vectors for an outage; SkillEmbeddingCache on top of    *)
(* it; and ToolCatalogRetriever, which adds semantic scores.               *)
(*                                                                         *)
(* A vector is "real" or "lexical".  A promise is the request it waits     *)
(* for until that is answered, and its vector from then on.                *)
(***************************************************************************)
EXTENDS Naturals, FiniteSets

CONSTANTS
  Retrieval,    \* retrievals, one for each run under way
  Query,        \* the texts they ask for; a message is one of them, too
  Skill,        \* the enabled skills: a skill's key is its id and description
  Flight,       \* bound: the requests under way at once
  MaxFailed,    \* bound: requests that fail
  MaxReload     \* bound: reloads of the skill registry

Text == Query \cup Skill
Kind == {"real", "lexical"}
None == "none"

ASSUME CatalogAssumption ==
  /\ Query \cap Skill = {} /\ None \notin Text
  /\ Flight \cap (Kind \cup {None}) = {}
  /\ {MaxFailed, MaxReload} \subseteq Nat

VARIABLES
  cache,        \* the service's cache: each text's vector, or None
  pending,      \* its promises noted for reuse, or None
  outage,       \* [degraded, due]: whether the provider is left alone, and
                \* whether the recovery window is over
  inFlight,     \* the text that each request under way embeds, or None
  skillCache,   \* the vectors of the skills' cache
  skillPending, \* and its promises noted for reuse
  skillWaits,   \* its calls that wait: skill and request
  queryCache,   \* the vectors of queries: there are fewer than it holds
  retrieval,    \* retrieval[r]: [st, query, promise (the query's), left (the
                \* skills not asked for yet), promises (the skills'), old]
  ranking,      \* ghost: the last semantic ranking: the texts whose vector was
                \* lexical, and what excuses them
  history       \* ghost: lexical (the texts made lexical since the last reload),
                \* recovered (whether an outage is over), failures and reloads

serviceVars == <<cache, pending, outage, inFlight>>
catalogVars == <<serviceVars, skillCache, skillPending, skillWaits, queryCache,
                 retrieval, ranking, history>>

NoRetrieval ==
  [st |-> "idle", query |-> None, promise |-> None, left |-> {},
   promises |-> [k \in Skill |-> None], old |-> FALSE]

CatalogInit ==
  /\ cache = [t \in Text |-> None] /\ pending = [t \in Text |-> None]
  /\ outage = [degraded |-> FALSE, due |-> FALSE]
  /\ inFlight = [n \in Flight |-> None]
  /\ skillCache = [k \in Skill |-> None] /\ skillPending = [k \in Skill |-> None]
  /\ skillWaits = {}
  /\ queryCache = [q \in Query |-> None]
  /\ retrieval = [r \in Retrieval |-> NoRetrieval]
  /\ ranking = [lexical |-> {}, old |-> FALSE, excused |-> {}, recovered |-> FALSE]
  /\ history = [lexical |-> {}, recovered |-> FALSE, failures |-> 0, reloads |-> 0]

\* A retrieval asks for its skills in one go: nothing happens in between.
Busy == \E r \in Retrieval : retrieval[r].st = "asking"

-----------------------------------------------------------------------------
(* LlmEmbeddingService.                                                    *)

HasRealProvider == ~outage.degraded
ShouldTryRealProvider == ~outage.degraded \/ outage.due

(* embed(t) returns promise p.  When the provider is left alone, the       *)
(* lexical vector is made before its promise is noted, and the note stays. *)
Embed(t, p) ==
  \/ /\ cache[t] # None /\ p = cache[t]
     /\ UNCHANGED <<serviceVars, history>>
  \/ /\ cache[t] = None /\ pending[t] # None /\ p = pending[t]
     /\ UNCHANGED <<serviceVars, history>>
  \/ /\ cache[t] = None /\ pending[t] = None /\ ShouldTryRealProvider
     /\ \E n \in Flight :
          /\ inFlight[n] = None /\ p = n
          /\ n = CHOOSE m \in Flight : inFlight[m] = None
          /\ inFlight' = [inFlight EXCEPT ![n] = t]
          /\ pending' = [pending EXCEPT ![t] = n]
     /\ UNCHANGED <<cache, outage, history>>
  \/ /\ cache[t] = None /\ pending[t] = None /\ ~ShouldTryRealProvider
     /\ p = "lexical"
     /\ cache' = [cache EXCEPT ![t] = p] /\ pending' = [pending EXCEPT ![t] = p]
     /\ history' = [history EXCEPT !.lexical = @ \cup {t}]
     /\ UNCHANGED <<outage, inFlight>>

(* The promise p once request n gave vector v.                             *)
Told(p, n, v) == IF p = n THEN v ELSE p

(* The provider answers, or fails and the vector is lexical: it is cached, *)
(* the note goes, whoever's it is now, and everyone who waits is told.     *)
Answered(n, v) ==
  LET t == inFlight[n]
  IN  /\ ~Busy /\ t # None
      /\ inFlight' = [inFlight EXCEPT ![n] = None]
      /\ cache' = [cache EXCEPT ![t] = v] /\ pending' = [pending EXCEPT ![t] = None]
      /\ skillCache' = [k \in Skill |-> IF <<k, n>> \in skillWaits THEN v ELSE skillCache[k]]
      /\ skillPending' = [k \in Skill |-> IF <<k, n>> \in skillWaits THEN None ELSE skillPending[k]]
      /\ skillWaits' = {w \in skillWaits : w[2] # n}
      /\ retrieval' = [r \in Retrieval |->
           [retrieval[r] EXCEPT !.promise = Told(@, n, v),
                                !.promises = [k \in Skill |-> Told(@[k], n, v)]]]
      /\ UNCHANGED <<queryCache, ranking>>

ProviderAnswers(n) ==
  /\ Answered(n, "real")
  /\ outage' = [degraded |-> FALSE, due |-> FALSE]
  /\ history' = [history EXCEPT !.recovered = @ \/ outage.degraded]

\* The window is measured from the first failure, and is not started again.
ProviderFails(n) ==
  /\ history.failures < MaxFailed
  /\ Answered(n, "lexical")
  /\ outage' = [outage EXCEPT !.degraded = TRUE]
  /\ history' = [history EXCEPT !.lexical = @ \cup {inFlight[n]}, !.failures = @ + 1]

WindowEnds ==
  /\ ~Busy /\ outage.degraded /\ ~outage.due
  /\ outage' = [outage EXCEPT !.due = TRUE]
  /\ UNCHANGED <<cache, pending, inFlight, skillCache, skillPending, skillWaits, queryCache,
                 retrieval, ranking, history>>

(* Texts of other callers push the text that was not used for longest out  *)
(* of the cache: that may be any.                                          *)
Evict(t) ==
  /\ ~Busy /\ cache[t] # None
  /\ cache' = [cache EXCEPT ![t] = None]
  /\ UNCHANGED <<pending, outage, inFlight, skillCache, skillPending, skillWaits, queryCache,
                 retrieval, ranking, history>>

(* A message is saved with an embedding of its text.                       *)
EmbedMessage(q) ==
  /\ ~Busy /\ \E p \in Flight \cup Kind : Embed(q, p)
  /\ UNCHANGED <<skillCache, skillPending, skillWaits, queryCache, retrieval, ranking>>

InvalidateSkills ==
  skillCache' = [k \in Skill |-> None] /\ skillPending' = [k \in Skill |-> None]
InvalidateCache == cache' = [t \in Text |-> None] /\ pending' = [t \in Text |-> None]

Reload_KeepsNotes ==
  /\ ~Busy /\ history.reloads < MaxReload
  /\ skillCache' = [k \in Skill |-> None] /\ cache' = [t \in Text |-> None]
  /\ retrieval' = [r \in Retrieval |->
                     [retrieval[r] EXCEPT !.old = retrieval[r].st # "idle"]]
  /\ history' = [history EXCEPT !.lexical = {}, !.reloads = @ + 1]
  /\ UNCHANGED <<pending, outage, inFlight, skillPending, skillWaits, queryCache, ranking>>

(* The registry is reloaded: both caches are emptied, their notes too. The *)
(* query cache is not, and calls under way go on.                          *)
Reload ==
  /\ ~Busy /\ history.reloads < MaxReload
  /\ InvalidateSkills /\ InvalidateCache
  /\ retrieval' = [r \in Retrieval |->
                     [retrieval[r] EXCEPT !.old = retrieval[r].st # "idle"]]
  /\ history' = [history EXCEPT !.lexical = {}, !.reloads = @ + 1]
  /\ UNCHANGED <<outage, inFlight, skillWaits, queryCache, ranking>>

-----------------------------------------------------------------------------
(* ToolCatalogRetriever.                                                   *)

(* The query's vector is there: it is kept, and the skills are asked for.  *)
Proceed(r, q, v) ==
  /\ queryCache' = [queryCache EXCEPT ![q] = v]
  /\ retrieval' = [retrieval EXCEPT ![r] =
       [@ EXCEPT !.st = "asking", !.query = q, !.promise = v, !.left = Skill]]

(* Without a provider, tools are ranked by their words alone, and nothing  *)
(* is asked for.                                                           *)
Retrieve(r, q) ==
  /\ ~Busy /\ retrieval[r].st = "idle" /\ HasRealProvider
  /\ \/ /\ queryCache[q] # None
        /\ Proceed(r, q, queryCache[q])
        /\ UNCHANGED <<serviceVars, history>>
     \/ /\ queryCache[q] = None
        /\ \E p \in Flight \cup Kind :
             /\ Embed(q, p)
             /\ IF p \in Kind THEN Proceed(r, q, p)
                ELSE /\ retrieval' = [retrieval EXCEPT ![r] =
                          [@ EXCEPT !.st = "query", !.query = q, !.promise = p]]
                     /\ UNCHANGED queryCache
  /\ UNCHANGED <<skillCache, skillPending, skillWaits, ranking>>

QueryHere(r) ==
  /\ ~Busy /\ retrieval[r].st = "query" /\ retrieval[r].promise \in Kind
  /\ Proceed(r, retrieval[r].query, retrieval[r].promise)
  /\ UNCHANGED <<serviceVars, skillCache, skillPending, skillWaits, ranking, history>>

(* getEmbedding: from the skills' cache, from its notes, or new.           *)
GetEmbedding(k, p) ==
  \/ /\ skillCache[k] # None /\ p = skillCache[k]
     /\ UNCHANGED <<serviceVars, skillCache, skillPending, skillWaits, history>>
  \/ /\ skillCache[k] = None /\ skillPending[k] # None /\ p = skillPending[k]
     /\ UNCHANGED <<serviceVars, skillCache, skillPending, skillWaits, history>>
  \/ /\ skillCache[k] = None /\ skillPending[k] = None
     /\ Embed(k, p)
     /\ IF p \in Kind
        THEN /\ skillCache' = [skillCache EXCEPT ![k] = p]
             /\ UNCHANGED <<skillPending, skillWaits>>
        ELSE /\ skillPending' = [skillPending EXCEPT ![k] = p]
             /\ skillWaits' = skillWaits \cup {<<k, p>>}
             /\ UNCHANGED skillCache

Asked(c, k, p) ==
  [c EXCEPT !.left = c.left \ {k}, !.promises = [c.promises EXCEPT ![k] = p],
            !.st = IF c.left = {k} THEN "skills" ELSE "asking"]

AskSkill(r, k) ==
  /\ retrieval[r].st = "asking" /\ k \in retrieval[r].left
  /\ \E p \in Flight \cup Kind :
       /\ GetEmbedding(k, p)
       /\ retrieval' = [retrieval EXCEPT ![r] = Asked(retrieval[r], k, p)]
  /\ UNCHANGED <<queryCache, ranking>>

(* Every vector is there.                                                  *)
AllHere(r) ==
  ~Busy /\ retrieval[r].st = "skills" /\ \A k \in Skill : retrieval[r].promises[k] \in Kind

Compared(c) ==
  [lexical |-> {k \in Skill : c.promises[k] = "lexical"} \cup
               (IF c.promise = "lexical" THEN {c.query} ELSE {}),
   old |-> c.old, excused |-> history.lexical, recovered |-> history.recovered]

AddScores_Unchecked(r) ==
  /\ AllHere(r)
  /\ retrieval' = [retrieval EXCEPT ![r] = NoRetrieval]
  /\ ranking' = Compared(retrieval[r])
  /\ UNCHANGED <<serviceVars, skillCache, skillPending, skillWaits, queryCache, history>>

(* The vectors count only if the provider does, still or again.            *)
AddScores(r) ==
  /\ AllHere(r)
  /\ retrieval' = [retrieval EXCEPT ![r] = NoRetrieval]
  /\ IF HasRealProvider THEN ranking' = Compared(retrieval[r]) ELSE UNCHANGED ranking
  /\ UNCHANGED <<serviceVars, skillCache, skillPending, skillWaits, queryCache, history>>

CatalogNext ==
  \/ \E n \in Flight : ProviderAnswers(n) \/ ProviderFails(n)
  \/ WindowEnds
  \/ \E t \in Text : Evict(t)
  \/ \E q \in Query : EmbedMessage(q)
  \/ Reload
  \/ \E r \in Retrieval, q \in Query : Retrieve(r, q)
  \/ \E r \in Retrieval : QueryHere(r) \/ AddScores(r)
  \/ \E r \in Retrieval, k \in Skill : AskSkill(r, k)

CatalogSpec == CatalogInit /\ [][CatalogNext]_catalogVars

-----------------------------------------------------------------------------
Promise == Kind \cup Flight \cup {None}

CatalogTypeOK ==
  /\ cache \in [Text -> Kind \cup {None}] /\ pending \in [Text -> Promise]
  /\ outage \in [degraded : BOOLEAN, due : BOOLEAN]
  /\ inFlight \in [Flight -> Text \cup {None}]
  /\ skillCache \in [Skill -> Kind \cup {None}] /\ skillPending \in [Skill -> Flight \cup {None}]
  /\ skillWaits \subseteq Skill \X Flight
  /\ queryCache \in [Query -> Kind \cup {None}]
  /\ retrieval \in [Retrieval ->
       [st : {"idle", "query", "asking", "skills"}, query : Query \cup {None}, promise : Promise,
        left : SUBSET Skill, promises : [Skill -> Promise], old : BOOLEAN]]
  /\ ranking \in [lexical : SUBSET Text, old : BOOLEAN, excused : SUBSET Text, recovered : BOOLEAN]
  /\ history \in [lexical : SUBSET Text, recovered : BOOLEAN, failures : Nat, reloads : Nat]

(* A semantic ranking compares vectors of the provider, whatever failed    *)
(* while it was made.  Lexical vectors enter only once an outage is over,  *)
(* and a skill's only if it was made lexical after the last reload, unless *)
(* the ranking began before that.                                          *)
RankingIsSemantic ==
  /\ ranking.lexical # {} => ranking.recovered
  /\ ~ranking.old => ranking.lexical \cap Skill \subseteq ranking.excused

(* The inductive invariant: whoever waits, waits for the request of its    *)
(* text; there are lexical vectors only in or after an outage; and a       *)
(* skill's was made lexical after the last reload, but for retrievals that *)
(* were under way then.                                                    *)
Lapsed == outage.degraded \/ history.recovered

WaitsForItsOwn ==
  /\ \A t \in Text : pending[t] \in Flight => inFlight[pending[t]] = t
  /\ \A k \in Skill, n \in Flight : <<k, n>> \in skillWaits => inFlight[n] = k
  /\ \A k \in Skill : skillPending[k] \in Flight => <<k, skillPending[k]>> \in skillWaits
  /\ \A r \in Retrieval :
       /\ retrieval[r].promise \in Flight => inFlight[retrieval[r].promise] = retrieval[r].query
       /\ \A k \in Skill :
            retrieval[r].promises[k] \in Flight => inFlight[retrieval[r].promises[k]] = k

LexicalByOutage ==
  ~Lapsed => /\ \A t \in Text : "lexical" \notin {cache[t], pending[t]}
             /\ \A k \in Skill : skillCache[k] # "lexical"
             /\ \A q \in Query : queryCache[q] # "lexical"
             /\ \A r \in Retrieval : /\ retrieval[r].promise # "lexical"
                                    /\ \A k \in Skill : retrieval[r].promises[k] # "lexical"

LexicalSinceReload ==
  \A k \in Skill \ history.lexical :
    /\ "lexical" \notin {cache[k], pending[k], skillCache[k]}
    /\ \A r \in Retrieval : retrieval[r].promises[k] = "lexical" => retrieval[r].old

CatalogInv ==
  /\ CatalogTypeOK /\ WaitsForItsOwn /\ LexicalByOutage /\ LexicalSinceReload
  /\ \A r \in Retrieval : IF retrieval[r].st = "idle" THEN retrieval[r] = NoRetrieval
                          ELSE retrieval[r].query \in Query
  /\ RankingIsSemantic
=============================================================================
