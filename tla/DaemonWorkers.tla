---------------------------- MODULE DaemonWorkers ----------------------------
(***************************************************************************)
(* Two workers of the daemon.  The stale-detection worker reads the        *)
(* conversation summaries page by page, newest first, no more than a       *)
(* budget at a time, and marks those whose conversation has moved on; the  *)
(* next scan goes on from its cursor.  The skill watcher compares          *)
(* fingerprints of the skill directories once a second and reloads the     *)
(* registry when they differ.                                              *)
(*                                                                         *)
(* What a message must say to make a summary stale is left to              *)
(* summary-stale-detector.ts: a summary's conversation has moved on or not. *)
(***************************************************************************)
EXTENDS Naturals, FiniteSets

CONSTANTS
  MaxSummary,   \* summaries ever written
  PageSize,     \* 50 in the code
  ScanBudget,   \* 200 in the code
  MaxVersion    \* contents of the skill directories

ASSUME BudgetIsWholePages ==
  /\ PageSize \in Nat \ {0} /\ ScanBudget \in Nat \ {0}
  /\ MaxSummary \in Nat /\ MaxVersion \in Nat
  /\ \E n \in 0..ScanBudget : ScanBudget = n * PageSize

Summary == 1..MaxSummary   \* by their createdAt

VARIABLES
  origin,       \* who wrote each summary: "none", "writer" or "api"
  gone,         \* soft-deleted, expired, superseded or pruned
  movedOn,      \* newer messages make it stale
  marked,       \* stale_reason is set
  scanCursor,   \* the last summary processed, 0 is null
  page,         \* the rest of the page being checked
  last,         \* the oldest of it and its length
  scan,         \* "idle", "listing" or "checking"
  processed,    \* summaries this scan has looked at
  due,          \* moved on when the sweep over all summaries began
  missed,       \* and not marked when one ended
  disk,         \* what the skill directories hold
  fingerprint,  \* the watcher's
  reloading,    \* "no", "reading" or "saving"
  picked,       \* what the reload under way has read
  loaded,       \* what the registry serves
  slipped       \* a reload failed, or the directories changed after it read them

scanVars   == <<scanCursor, page, last, scan, processed, due, missed>>
rowVars    == <<origin, gone, movedOn, marked>>
watchVars  == <<disk, fingerprint, reloading, picked, loaded, slipped>>
workerVars == <<rowVars, scanVars, watchVars>>

NoPage == [id |-> 0, length |-> 0]

WorkersInit ==
  /\ origin = [s \in Summary |-> "none"] /\ gone = {} /\ movedOn = {} /\ marked = {}
  /\ scanCursor = 0 /\ page = {} /\ last = NoPage /\ scan = "idle"
  /\ processed = 0 /\ due = {} /\ missed = {}
  /\ disk = 0 /\ fingerprint = 0 /\ reloading = "no" /\ picked = 0 /\ loaded = 0
  /\ slipped = FALSE

-----------------------------------------------------------------------------
(* The rows. *)

Written == {s \in Summary : origin[s] # "none"}

\* The memory writer's summaries belong to their conversation and carry no run
\* id; one created through POST /v1/memory can be global and name both.
CreateSummary(by) ==
  /\ \E s \in Summary \ Written :
       /\ \A later \in Summary \ Written : s <= later
       /\ origin' = [origin EXCEPT ![s] = by]
  /\ UNCHANGED <<gone, movedOn, marked, scanVars, watchVars>>

MoveOn(s) ==
  /\ s \in Written \ movedOn
  /\ movedOn' = movedOn \cup {s}
  /\ UNCHANGED <<origin, gone, marked, scanVars, watchVars>>

\* Soft deletion, expiry, supersession, and pruning after the retention.
RemoveSummary(s) ==
  /\ s \in Written \ gone
  /\ gone' = gone \cup {s}
  /\ UNCHANGED <<origin, movedOn, marked, scanVars, watchVars>>

\* What list() returns of type conversation_summary when it is given no
\* conversation, user, project or run: the global ones.
Listed == {s \in Written \ gone : origin[s] = "api"}

-----------------------------------------------------------------------------
(* scan() *)

\* The timer, or the one of the first thirty seconds; a scan that is running
\* is not joined by another.
ScanStarts ==
  /\ scan = "idle"
  /\ scan' = "listing" /\ processed' = 0
  /\ due' = IF scanCursor = 0 THEN movedOn \ gone ELSE due
  /\ missed' = {}
  /\ UNCHANGED <<scanCursor, page, last, rowVars, watchVars>>

\* The sweep has reached the end of the list.
SweepEnds ==
  /\ scanCursor' = 0 /\ scan' = "idle"
  /\ missed' = due \ (marked \cup gone)

\* A page in the order of createdAt DESC, below the cursor: no more than fit,
\* and nothing left out is newer or would have fitted.
PageOf(next, rows) ==
  /\ next \subseteq rows /\ \A s \in next, out \in rows \ next : out < s
  /\ Cardinality(next) <= PageSize /\ (next = rows \/ Cardinality(next) = PageSize)

IsNextPage_Offset(next) ==
  PageOf(next, {s \in Listed : Cardinality({t \in Listed : t > s}) >= processed})

IsNextPage(next) == PageOf(next, {s \in Listed : scanCursor = 0 \/ s < scanCursor})

ListPage ==
  /\ scan = "listing"
  /\ \/ /\ IsNextPage({})
        /\ SweepEnds /\ UNCHANGED <<page, last>>
     \/ /\ \E next \in SUBSET Summary : \E oldest \in next :
             /\ IsNextPage(next) /\ \A s \in next : oldest <= s
             /\ page' = next /\ last' = [id |-> oldest, length |-> Cardinality(next)]
        /\ scan' = "checking" /\ UNCHANGED <<scanCursor, missed>>
  /\ UNCHANGED <<processed, due, rowVars, watchVars>>

\* list() throws: the scan is given up, the next one repeats its page.
ListFails ==
  /\ scan = "listing"
  /\ scan' = "idle"
  /\ UNCHANGED <<scanCursor, page, last, processed, due, missed, rowVars, watchVars>>

\* The next summary of the page: its conversation is read and, if it has moved
\* on, the summary is marked.  One that cannot be checked is passed over.
CheckSummary(ok) ==
  /\ scan = "checking" /\ processed < ScanBudget
  /\ \E s \in page :
       /\ \A t \in page : t <= s
       /\ page' = page \ {s}
       /\ marked' = IF ok /\ s \in movedOn THEN marked \cup {s} ELSE marked
       /\ due' = IF ok THEN due ELSE due \ {s}
  /\ processed' = processed + 1
  /\ UNCHANGED <<scanCursor, last, scan, missed, origin, gone, movedOn, watchVars>>

\* The page is done, or the budget is: the cursor moves below the page's last.
PageEnds ==
  /\ scan = "checking" /\ (page = {} \/ processed >= ScanBudget)
  /\ page' = {} /\ last' = NoPage
  /\ IF last.length < PageSize
       THEN SweepEnds
       ELSE /\ scanCursor' = last.id
            /\ scan' = IF processed < ScanBudget THEN "listing" ELSE "idle"
            /\ UNCHANGED missed
  /\ UNCHANGED <<processed, due, rowVars, watchVars>>

-----------------------------------------------------------------------------
(* watchSkillDirectories *)

EditSkills ==
  /\ disk < MaxVersion
  /\ disk' = disk + 1
  /\ slipped' = (slipped \/ reloading = "saving")
  /\ UNCHANGED <<fingerprint, reloading, picked, loaded, rowVars, scanVars>>

WatcherTicks_Debounced ==
  /\ reloading = "no" /\ disk # fingerprint
  /\ fingerprint' = disk
  /\ UNCHANGED <<disk, reloading, picked, loaded, slipped, rowVars, scanVars>>

\* The fingerprint is taken before the reload is started.
WatcherTicks ==
  /\ reloading = "no" /\ disk # fingerprint
  /\ fingerprint' = disk /\ reloading' = "reading"
  /\ UNCHANGED <<disk, picked, loaded, slipped, rowVars, scanVars>>

\* reload() reads the manifests, then writes the tables and swaps its maps.
ReloadReads ==
  /\ reloading = "reading"
  /\ reloading' = "saving" /\ picked' = disk
  /\ UNCHANGED <<disk, fingerprint, loaded, slipped, rowVars, scanVars>>

\* ...and the fingerprint is taken again, of the directories as they are by now.
ReloadEnds ==
  /\ reloading = "saving"
  /\ reloading' = "no" /\ loaded' = picked /\ fingerprint' = disk
  /\ UNCHANGED <<disk, picked, slipped, rowVars, scanVars>>

ReloadFails ==
  /\ reloading # "no"
  /\ reloading' = "no" /\ slipped' = TRUE
  /\ UNCHANGED <<disk, fingerprint, picked, loaded, rowVars, scanVars>>

\* The two share nothing but the daemon: each is explored by itself.
ScanNext ==
  \/ \E by \in {"writer", "api"} : CreateSummary(by)
  \/ \E s \in Summary : MoveOn(s) \/ RemoveSummary(s)
  \/ ScanStarts \/ ListPage \/ ListFails \/ PageEnds
  \/ \E ok \in BOOLEAN : CheckSummary(ok)

ScanSpec == WorkersInit /\ [][ScanNext]_workerVars

WatchNext == EditSkills \/ WatcherTicks \/ ReloadReads \/ ReloadEnds \/ ReloadFails

WatchSpec == WorkersInit /\ [][WatchNext]_workerVars

-----------------------------------------------------------------------------
WorkersTypeOK ==
  /\ origin \in [Summary -> {"none", "writer", "api"}]
  /\ UNION {gone, movedOn, marked, due, missed, page} \subseteq Summary
  /\ scanCursor \in 0..MaxSummary /\ processed \in 0..ScanBudget
  /\ last \in [id : 0..MaxSummary, length : 0..PageSize]
  /\ scan \in {"idle", "listing", "checking"}
  /\ disk \in 0..MaxVersion /\ fingerprint \in 0..MaxVersion
  /\ picked \in 0..MaxVersion /\ loaded \in 0..MaxVersion
  /\ reloading \in {"no", "reading", "saving"} /\ slipped \in BOOLEAN

\* SweepMarks: when the scans, however many it took, have gone through the list
\* once, every summary it lists that had moved on when they began is marked -
\* although rows came and went between the pages, and scans broke off at their
\* budget or at a failing query (scanCursor, SCAN_BUDGET, PAGE_SIZE).
SweepMarks == missed \cap Listed = {}

\* WatcherCatchesUp: between reloads the registry serves what the directories
\* hold or the watcher is about to see that it does not - unless a reload failed
\* or they changed after it had read them.
WatcherCatchesUp ==
  reloading = "no" /\ ~slipped => loaded = disk \/ fingerprint # disk

\* StaleSummariesMarked: the worker "periodically scans conversation_summary
\* memories and marks them as stale when the underlying conversation has
\* changed" (stale-detection-worker.ts), those the memory writer writes above
\* all.
StaleSummariesMarked == missed = {}

-----------------------------------------------------------------------------
(* The inductive invariants.  A summary the sweep still owes a mark is below *)
(* the cursor, or in the page, or older than a page that is full; and a scan *)
(* takes whole pages, so that its budget never cuts one.                    *)
Owed == {s \in due \ marked : s \in Listed}

OwedIsAhead ==
  /\ scan # "checking" => \A s \in Owed : scanCursor = 0 \/ s < scanCursor
  /\ scan = "checking" => \A s \in Owed :
       s \in page \/ (last.length = PageSize /\ s < last.id)

WholePages ==
  /\ scan = "listing" => \E n \in Nat : processed = n * PageSize /\ processed < ScanBudget
  /\ scan = "checking" =>
       /\ processed + Cardinality(page) <= ScanBudget
       /\ last.length = PageSize => \E n \in Nat : processed + Cardinality(page) = n * PageSize

SweepInv ==
  /\ WorkersTypeOK /\ due \cup missed \subseteq movedOn /\ movedOn \subseteq Written
  /\ OwedIsAhead /\ WholePages /\ SweepMarks

\* A reload that can still be trusted has read what the directories hold.
WatchInv ==
  /\ WorkersTypeOK /\ fingerprint <= disk
  /\ reloading = "saving" /\ ~slipped => picked = disk
  /\ WatcherCatchesUp
=============================================================================
