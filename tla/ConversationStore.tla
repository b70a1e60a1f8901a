-------------------------- MODULE ConversationStore --------------------------
(***************************************************************************)
(* The rows of conversations and what refers to them: the runs, their      *)
(* messages, the conversations digital beings talk in, and the list the    *)
(* chat page keeps.  A delete locks the row of its conversation for        *)
(* update, counts the active runs and removes what belongs to it, all in   *)
(* one transaction; a run is inserted in a transaction of its own, whose   *)
(* foreign key takes a key-share lock on the same row.  Those two locks    *)
(* exclude each other; several key-share locks do not.                     *)
(*                                                                         *)
(* The answers to the page's requests come in any order.  Titles and the   *)
(* time of the last change are left out: pinned stands for what a PATCH    *)
(* changes.  A page of the list holds every conversation.                  *)
(***************************************************************************)
EXTENDS Naturals, FiniteSets

CONSTANTS
  Chat,        \* the conversations
  NewRun,      \* the runs that are asked for
  Remover,     \* the requests to delete a conversation
  Ours,        \* those of them that come from the page
  Unset,       \* no conversation: NULL
  MaxPatch,    \* how often the page changes a conversation
  MaxRequest   \* how many of its requests are under way at once

ASSUME ConversationAssumption ==
  /\ Unset \notin Chat /\ Ours \subseteq Remover
  /\ MaxPatch \in Nat /\ MaxRequest \in Nat

Shown == {"off", "plain", "pinned"}

VARIABLES
  chat,       \* conversations: "unborn", "plain", "pinned" or "deleted"
  runRow,     \* runs: [state, chat]
  starter,    \* starter[r]: where handleChatCommand is, and its conversation
  remover,    \* remover[d]: where deleteConversation is, and its conversation
  message,    \* the runs whose user message is stored
  beingIn,    \* the conversations digital beings talk in
  recent,     \* the list the page shows
  dropped,    \* conversations the page has taken off its list
  asked,      \* the page's requests: [chat, to, seen], seen once it is answered
  patches

storeVars == <<chat, runRow, starter, remover, message, beingIn, recent, dropped, asked,
               patches>>

Kept(c) == chat[c] \in {"plain", "pinned"}

StoreInit ==
  /\ chat \in [Chat -> {"unborn", "plain"}] /\ \E c \in Chat : Kept(c)
  /\ runRow = [r \in NewRun |-> [state |-> "none", chat |-> Unset]]
  /\ starter = [r \in NewRun |-> [pc |-> "idle", chat |-> Unset]]
  /\ remover = [d \in Remover |-> [pc |-> "idle", chat |-> Unset]]
  /\ message = {} /\ beingIn = {}
  /\ recent = [c \in Chat |-> IF Kept(c) THEN chat[c] ELSE "off"]
  /\ dropped = {} /\ asked = {} /\ patches = 0

-----------------------------------------------------------------------------
(* The locks on the row of a conversation. *)

KeyShared(c) == \E r \in NewRun : starter[r] = [pc |-> "inserted", chat |-> c]
ForUpdate(c) == \E d \in Remover : remover[d].pc \in {"locked", "counted"} /\ remover[d].chat = c

-----------------------------------------------------------------------------
(* A run is started. *)

onStart == UNCHANGED <<beingIn, recent, dropped, asked, patches, remover>>
StarterAt(r, from, to) == starter[r].pc = from /\ starter' = [starter EXCEPT ![r].pc = to]

(* A message in a conversation that exists, or in one made for it.         *)
AskRun(r, c) ==
  /\ starter[r].pc = "idle"
  /\ \/ Kept(c) /\ UNCHANGED chat
     \/ chat[c] = "unborn" /\ chat' = [chat EXCEPT ![c] = "plain"]
  /\ starter' = [starter EXCEPT ![r] = [pc |-> "checked", chat |-> c]]
  /\ UNCHANGED <<runRow, message>> /\ onStart

(* createRunAttempt: the conversation is the one the ended run still names. *)
RetryIn(r, source) ==
  LET c == runRow[source].chat IN
  /\ starter[r].pc = "idle" /\ runRow[source].state = "ended" /\ c # Unset
  /\ starter' = [starter EXCEPT ![r] = [pc |-> "named", chat |-> c]]
  /\ UNCHANGED <<chat, runRow, message>> /\ onStart

(* assertConversationExists                                                *)
CheckChat(r) ==
  /\ StarterAt(r, "named", IF Kept(starter[r].chat) THEN "checked" ELSE "refused")
  /\ UNCHANGED <<chat, runRow, message>> /\ onStart

(* The insert waits for whoever locked the row; a row that is gone by then *)
(* breaks the foreign key, and no run is made.                             *)
InsertRun(r) ==
  LET c == starter[r].chat IN
  /\ ~ForUpdate(c)
  /\ StarterAt(r, "checked", IF Kept(c) THEN "inserted" ELSE "refused")
  /\ UNCHANGED <<chat, runRow, message>> /\ onStart

CommitRun(r) ==
  /\ StarterAt(r, "inserted", "created")
  /\ runRow' = [runRow EXCEPT ![r] = [state |-> "active", chat |-> starter[r].chat]]
  /\ UNCHANGED <<chat, message>> /\ onStart

(* The user's message names the conversation the handler was given.        *)
SaveMessage(r) ==
  LET c == starter[r].chat IN
  /\ ~ForUpdate(c)
  /\ StarterAt(r, "created", "done")
  /\ IF Kept(c) THEN message' = message \cup {r} /\ UNCHANGED runRow
     ELSE runRow' = [runRow EXCEPT ![r].state = "ended"] /\ UNCHANGED message
  /\ UNCHANGED chat /\ onStart

(* Completed, failed or cancelled, whatever its handler is doing.          *)
EndRun(r) ==
  /\ runRow[r].state = "active"
  /\ runRow' = [runRow EXCEPT ![r].state = "ended"]
  /\ UNCHANGED <<chat, starter, message>> /\ onStart

-----------------------------------------------------------------------------
(* A conversation is deleted. *)

onRemove == UNCHANGED <<starter, recent, dropped, asked, patches>>

LockChat_Unlocked(d, c) ==
  /\ remover[d].pc = "idle" /\ chat[c] # "unborn"
  /\ remover' = [remover EXCEPT ![d] =
                   [pc |-> IF Kept(c) THEN "read" ELSE "notFound", chat |-> c]]
  /\ UNCHANGED <<chat, runRow, message, beingIn>> /\ onRemove

LockChat(d, c) ==
  /\ remover[d].pc = "idle" /\ chat[c] # "unborn"
  /\ ~KeyShared(c) /\ ~ForUpdate(c)
  /\ remover' = [remover EXCEPT ![d] =
                   [pc |-> IF Kept(c) THEN "locked" ELSE "notFound", chat |-> c]]
  /\ UNCHANGED <<chat, runRow, message, beingIn>> /\ onRemove

(* countActiveRunsByConversation sees what is committed.                   *)
ActiveIn(c) == {r \in NewRun : runRow[r] = [state |-> "active", chat |-> c]}

CountRuns(d) ==
  /\ remover[d].pc \in {"locked", "read"}
  /\ remover' = [remover EXCEPT ![d].pc =
                   IF ActiveIn(remover[d].chat) # {} THEN "refused" ELSE "counted"]
  /\ UNCHANGED <<chat, runRow, message, beingIn>> /\ onRemove

(* The runs that are left lose the conversation: ON DELETE SET NULL.       *)
RemoveChat(d) ==
  LET c == remover[d].chat IN
  /\ remover[d].pc = "counted" /\ ~KeyShared(c)
  /\ remover' = [remover EXCEPT ![d].pc = "removed"]
  /\ chat' = [chat EXCEPT ![c] = "deleted"]
  /\ runRow' = [r \in NewRun |-> IF runRow[r].chat = c THEN [runRow[r] EXCEPT !.chat = Unset]
                                ELSE runRow[r]]
  /\ message' = {r \in message : starter[r].chat # c}
  /\ beingIn' = beingIn \ {c}
  /\ onRemove

(* createBeing: in a conversation that is given, or was just made.         *)
CreateBeing(c) ==
  /\ Kept(c) /\ ~ForUpdate(c) /\ c \notin beingIn
  /\ beingIn' = beingIn \cup {c}
  /\ UNCHANGED <<chat, runRow, starter, remover, message, recent, dropped, asked, patches>>

-----------------------------------------------------------------------------
(* The page. *)

offPage == UNCHANGED <<chat, runRow, starter, remover, message, beingIn>>
Unanswered == {q \in asked : q.seen = "asked"}

PageDrops_AtOnce(d) ==
  /\ d \in Ours /\ remover[d].pc \in {"locked", "counted", "removed"}
  /\ remover[d].chat \notin dropped
  /\ recent' = [recent EXCEPT ![remover[d].chat] = "off"]
  /\ dropped' = dropped \cup {remover[d].chat}
  /\ UNCHANGED <<asked, patches>> /\ offPage

(* removeConversation: off the list when the delete has succeeded.         *)
PageDrops(d) ==
  /\ d \in Ours /\ remover[d].pc = "removed" /\ remover[d].chat \notin dropped
  /\ recent' = [recent EXCEPT ![remover[d].chat] = "off"]
  /\ dropped' = dropped \cup {remover[d].chat}
  /\ UNCHANGED <<asked, patches>> /\ offPage

(* togglePin, and selectConversation's touch, which changes nothing here.  *)
Ask(c, to) ==
  /\ Cardinality(asked) < MaxRequest /\ patches < MaxPatch
  /\ patches' = patches + 1
  /\ asked' = asked \cup {[chat |-> c, to |-> to, seen |-> "asked", no |-> patches]}
  /\ UNCHANGED <<recent, dropped>> /\ offPage

TogglePin(c) == recent[c] # "off" /\ Ask(c, IF recent[c] = "pinned" THEN "plain" ELSE "pinned")
TouchChat(c) == recent[c] # "off" /\ Ask(c, "same")

(* update: the row as it is after the change, or 404.                      *)
UpdateChat(q) ==
  /\ q \in Unanswered /\ ~ForUpdate(q.chat)
  /\ chat' = IF Kept(q.chat) /\ q.to # "same" THEN [chat EXCEPT ![q.chat] = q.to] ELSE chat
  /\ asked' = (asked \ {q}) \cup {[q EXCEPT !.seen = chat'[q.chat]]}
  /\ UNCHANGED <<runRow, starter, remover, message, beingIn, recent, dropped, patches>>

(* Whatever is listed is replaced by the answer.                           *)
AnswerArrives(q) ==
  /\ q \in asked \ Unanswered
  /\ asked' = asked \ {q}
  /\ recent' = IF recent[q.chat] # "off" /\ q.seen # "deleted" THEN [recent EXCEPT ![q.chat] = q.seen]
             ELSE recent
  /\ UNCHANGED <<dropped, patches>> /\ offPage

StoreNext ==
  \/ \E r \in NewRun :
       \/ \E c \in Chat : AskRun(r, c)
       \/ \E s \in NewRun : RetryIn(r, s)
       \/ CheckChat(r) \/ InsertRun(r) \/ CommitRun(r) \/ SaveMessage(r) \/ EndRun(r)
  \/ \E d \in Remover :
       \/ \E c \in Chat : LockChat(d, c)
       \/ CountRuns(d) \/ RemoveChat(d) \/ PageDrops(d)
  \/ \E c \in Chat : CreateBeing(c) \/ TogglePin(c) \/ TouchChat(c)
  \/ \E q \in asked : UpdateChat(q) \/ AnswerArrives(q)

StoreSpec == StoreInit /\ [][StoreNext]_storeVars

-----------------------------------------------------------------------------
(* Properties. *)

(* A run that is not over has its conversation, and so has every message   *)
(* and every being: nothing slips in between the count of the active runs    *)
(* and the delete (deleteConversation, createRunWithCreatedEvent).         *)
RowsHaveTheirChat ==
  /\ \A r \in NewRun : runRow[r].state = "active" => runRow[r].chat # Unset /\ Kept(runRow[r].chat)
  /\ \A r \in message : Kept(starter[r].chat)
  /\ \A c \in beingIn : Kept(c)

(* The page takes a conversation off its list only when it is gone, and    *)
(* with one request at a time it shows what the table says of the others   *)
(* (removeConversation, togglePin).                                        *)
PageTellsTheTable ==
  /\ \A c \in dropped : chat[c] = "deleted"
  /\ asked = {} => \A c \in Chat : recent[c] # "off" /\ Kept(c) => recent[c] = chat[c]

ConversationsHoldTogether == RowsHaveTheirChat /\ PageTellsTheTable

(* The conversation of a run stays until the run's first message is saved. *)
(* No run checks it, for it is false: a run that is cancelled before that  *)
(* no longer counts, its conversation may be deleted, and the handler's    *)
(* insert is then refused by the foreign key (handleChatCommand).          *)
NothingSavedLate ==
  \A r \in NewRun : starter[r].pc = "created" => Kept(starter[r].chat)

-----------------------------------------------------------------------------
(* The inductive invariant behind ConversationsHoldTogether: the two locks *)
(* on a row exclude each other, a conversation that is being deleted has no *)
(* active run, and what was deleted stays so.                              *)
Named == Chat \cup {Unset}

ChatsTypeOK ==
  /\ chat \in [Chat -> {"unborn", "plain", "pinned", "deleted"}]
  /\ runRow \in [NewRun -> [state : {"none", "active", "ended"}, chat : Named]]
  /\ starter \in [NewRun -> [pc : {"idle", "named", "checked", "inserted", "created", "done",
                                   "refused"},
                             chat : Named]]
  /\ remover \in [Remover -> [pc : {"idle", "locked", "counted", "removed", "refused",
                                    "notFound"},
                              chat : Named]]
  /\ message \subseteq NewRun /\ beingIn \subseteq Chat /\ dropped \subseteq Chat
  /\ recent \in [Chat -> Shown]
  /\ asked \subseteq [chat : Chat, to : {"plain", "pinned", "same"},
                     seen : {"asked", "plain", "pinned", "deleted"}, no : Nat]
  /\ IsFiniteSet(asked) /\ patches \in Nat

LocksExclude ==
  /\ \A r \in NewRun : starter[r].pc # "idle" => starter[r].chat \in Chat
  /\ \A d \in Remover : remover[d].pc # "idle" => remover[d].chat \in Chat
  /\ \A c \in Chat : ~(KeyShared(c) /\ ForUpdate(c))
  /\ \A d, e \in Remover :
       remover[d].pc \in {"locked", "counted"} /\ remover[e].pc \in {"locked", "counted"}
         /\ remover[d].chat = remover[e].chat => d = e

DeletesAreClean ==
  /\ \A r \in NewRun : starter[r].pc = "inserted" => Kept(starter[r].chat)
  /\ \A r \in message : starter[r].pc = "done"
  /\ \A d \in Remover :
       LET c == remover[d].chat IN
       /\ remover[d].pc \in {"locked", "counted"} => Kept(c)
       /\ remover[d].pc = "counted" => ActiveIn(c) = {}
       /\ remover[d].pc = "removed" => chat[c] = "deleted"

ListedWasBorn ==
  /\ \A c \in Chat : recent[c] # "off" => chat[c] # "unborn"
  /\ \A q \in asked : chat[q.chat] # "unborn"
  /\ \A c \in dropped : chat[c] = "deleted"

ChatsInv ==
  ChatsTypeOK /\ LocksExclude /\ DeletesAreClean /\ ListedWasBorn /\ RowsHaveTheirChat

(* With one request at a time: what the page shows of a conversation is    *)
(* what the table says, or what the answer on its way will tell it.        *)
PageFollows ==
  /\ \A p, q \in asked : p = q
  /\ \A q \in asked : q.seen # "asked" => chat[q.chat] \in {q.seen, "deleted"}
  /\ \A c \in Chat : recent[c] # "off" /\ Kept(c) =>
       recent[c] = chat[c] \/ \E q \in asked : q.chat = c /\ q.seen = chat[c]
=============================================================================
