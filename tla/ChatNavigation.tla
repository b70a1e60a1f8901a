---------------------------- MODULE ChatNavigation ----------------------------
(***************************************************************************)
(* A page of the chat client and the conversations it moves between: the   *)
(* list and its refreshes, the message and active-run fetches of the       *)
(* conversation shown, the one socket, its subscriptions and reconnection, *)
(* and the events of runs, which the daemon sends to a connection that     *)
(* subscribed to the conversation or that started the run.                 *)
(*                                                                         *)
(* A conversation has one run, named by it.  A handler of the page is one  *)
(* step, with the render and the effects that follow it.  What messages    *)
(* say, titles, pins, sequence numbers and replays are left out (for these *)
(* see ChatClient and ChatSession).                                        *)
(***************************************************************************)
EXTENDS Naturals, Sequences, FiniteSets, SequencesExt

CONSTANTS
  Conv,       \* conversations
  Nowhere,    \* "": the new-chat page
  Local,      \* the mark of a message sent from there, conversationId "pending"
  Slow,       \* bound: what may be slow; in a behaviour, one of them is
  MaxClick,   \* bound: clicks of the user
  MaxStream,  \* bound: messages all runs start
  MaxOnWay,   \* bound: events on their way
  MaxLoss     \* bound: lost connections

ASSUME NavigationAssumption ==
  /\ Nowhere \notin Conv /\ Local \notin Conv /\ Local # Nowhere
  /\ Slow \subseteq {"list", "messages", "run", "added", "wire"}
  /\ {MaxClick, MaxStream, MaxOnWay, MaxLoss} \subseteq Nat

VARIABLES
  page,     \* the refs and the state of the hooks; out is what it wrote to its socket
  daemon,   \* runs, rows and the connection's subscriptions
  onWay,    \* events on their way to the page
  fresh,    \* the user went to the new-chat page and did nothing since
  slow,     \* the answers that may be late in this behaviour
  clicks, streams, losses

navVars == <<page, daemon, onWay, fresh, slow, clicks, streams, losses>>

NoRestore == [of |-> Nowhere, answer |-> "none"]

(* bound: activeRunIdRef; home: activeRunConversationIdRef; shut:          *)
(* subscribedConversationRef's effect left a cleanup; born: the            *)
(* conversation the socket's handlers close over.                          *)
NavigationInit ==
  /\ page = [shown |-> Nowhere, msgs |-> {}, asked |-> FALSE, first |-> TRUE,
             refreshing |-> <<Nowhere>>, reading |-> Nowhere, restoring |-> NoRestore,
             adding |-> {}, bound |-> Nowhere, home |-> Nowhere, locked |-> FALSE,
             sock |-> "off", again |-> FALSE, born |-> Nowhere, unsent |-> {},
             subscribed |-> Nowhere, cleans |-> FALSE, out |-> <<>>]
  /\ \E rows \in SUBSET Conv :
       daemon = [rows |-> rows, run |-> [c \in Conv |-> "none"], heard |-> {}, started |-> {}]
  /\ onWay = <<>> /\ fresh = TRUE /\ slow \in Slow
  /\ clicks = 0 /\ streams = 0 /\ losses = 0

Connected(p) == p.sock = "open"
Tell(do, c) == [do |-> do, of |-> c]
-----------------------------------------------------------------------------
(* ensureSocket *)
EnsureSocket(p) == IF p.sock # "off" THEN p ELSE [p EXCEPT !.sock = "connecting", !.born = p.shown]

(* The subscription effect: its clean-up, then the effect itself.          *)
Unsubscribe(p, c) == IF Connected(p) /\ c # Nowhere THEN <<Tell("unsubscribe", c)>> ELSE <<>>

Resubscribe(p, c) ==
  LET prev == IF p.cleans THEN Nowhere ELSE p.subscribed
      joins == Connected(p) /\ c # Nowhere
  IN  [p EXCEPT
         !.out = @ \o (IF p.cleans THEN Unsubscribe(p, p.subscribed) ELSE <<>>)
                   \o (IF prev # c THEN Unsubscribe(p, prev) ELSE <<>>)
                   \o (IF joins /\ c # prev THEN <<Tell("subscribe", c)>> ELSE <<>>),
         !.subscribed = IF joins THEN c ELSE prev,
         !.cleans = Connected(p)]

(* The reset effect keeps a run that was started in c while c had no name. *)

ResetRun(p, c) ==
  IF c # Nowhere /\ p.home = c THEN p
  ELSE [p EXCEPT !.bound = Nowhere, !.home = Nowhere, !.locked = FALSE]

(* The render after activeConversationId became c: the list is read again, *)
(* the fetches of the old conversation are aborted, those of c begin.      *)
ShowPage(p, c) ==
  IF c = p.shown THEN p
  ELSE [Resubscribe(ResetRun(p, c), c) EXCEPT
          !.shown = c, !.reading = c,
          !.refreshing = Append(@, c),
          !.restoring = IF c = Nowhere THEN NoRestore ELSE [of |-> c, answer |-> "asked"]]
-----------------------------------------------------------------------------
Click == clicks < MaxClick /\ clicks' = clicks + 1

NewChat ==
  /\ Click
  /\ page' = ShowPage([EnsureSocket(page) EXCEPT !.asked = TRUE, !.msgs = {}], Nowhere)
  /\ fresh' = (fresh \/ page.shown # Nowhere)
  /\ UNCHANGED <<daemon, onWay, streams, losses>>

SelectConversation(c) ==
  /\ c \in daemon.rows \ {page.shown} /\ Click
  /\ page' = ShowPage([EnsureSocket(page) EXCEPT !.msgs = {}], c)
  /\ fresh' = FALSE
  /\ UNCHANGED <<daemon, onWay, streams, losses>>

(* send: transmitted at once, or by the socket's open event.               *)
SendMessage ==
  /\ ~page.locked /\ Click
  /\ page' = [EnsureSocket(page) EXCEPT
                !.locked = TRUE,
                !.msgs = @ \cup {IF page.shown = Nowhere THEN Local ELSE page.shown},
                !.out = IF Connected(page) THEN Append(@, Tell("send", page.shown)) ELSE @,
                !.unsent = IF Connected(page) THEN @ ELSE @ \cup {page.shown}]
  /\ fresh' = FALSE
  /\ UNCHANGED <<daemon, onWay, streams, losses>>

(* The connection is gone; what was on its way is lost.                    *)
Disconnected(p) == [p EXCEPT !.sock = "off", !.locked = FALSE, !.out = <<>>, !.unsent = {}]
Forgotten(d) == [d EXCEPT !.heard = {}, !.started = {}]

(* stop: a page that is bound to no run, or has no open socket, closes it  *)
(* for good.                                                               *)
StopRun ==
  LET p == [page EXCEPT !.bound = Nowhere, !.home = Nowhere, !.locked = FALSE] IN
  /\ page.locked /\ Click
  /\ IF Connected(page) /\ page.bound # Nowhere
     THEN /\ page' = [p EXCEPT !.out = Append(@, Tell("stop", page.bound))]
          /\ UNCHANGED <<daemon, onWay, losses>>
     ELSE /\ page' = [Disconnected(p) EXCEPT !.again = FALSE]
          /\ daemon' = Forgotten(daemon) /\ onWay' = <<>>
          /\ losses' = IF page.sock = "off" THEN losses ELSE losses + 1
  /\ fresh' = FALSE
  /\ UNCHANGED streams
-----------------------------------------------------------------------------
Opened ==
  /\ page.sock = "connecting"
  /\ page' = [page EXCEPT
       !.sock = "open", !.unsent = {},
       !.subscribed = IF page.shown # Nowhere THEN page.shown ELSE @,
       !.out = (IF page.shown # Nowhere THEN <<Tell("subscribe", page.shown)>> ELSE <<>>)
               \o SetToSeq({Tell("send", c) : c \in page.unsent})]
  /\ UNCHANGED <<daemon, onWay, fresh, clicks, streams, losses>>

(* The close handler schedules a reconnection.                             *)
ConnectionLost ==
  /\ page.sock # "off" /\ losses < MaxLoss /\ losses' = losses + 1
  /\ page' = [Disconnected(page) EXCEPT !.again = TRUE]
  /\ daemon' = Forgotten(daemon) /\ onWay' = <<>>
  /\ UNCHANGED <<fresh, clicks, streams>>

(* The timer calls the ensureSocket that the lost socket was made by.      *)
Reconnect ==
  /\ page.again /\ page' = [page EXCEPT !.again = FALSE, !.sock = IF @ = "off" THEN "connecting" ELSE @]
  /\ UNCHANGED <<daemon, onWay, fresh, clicks, streams, losses>>
-----------------------------------------------------------------------------
(* refresh, as the render it was made in sees it.                          *)
RefreshAnswered(i) ==
  LET p == [page EXCEPT !.refreshing = RemoveAt(@, i), !.first = FALSE] IN
  /\ page' \in IF page.first THEN {p}
               ELSE LET q == [p EXCEPT !.asked = FALSE] IN
                    IF page.refreshing[i] = Nowhere /\ ~page.asked /\ daemon.rows # {}
                    THEN {ShowPage(q, c) : c \in daemon.rows} ELSE {q}
  /\ UNCHANGED <<daemon, onWay, fresh, clicks, streams, losses>>

(* addConversationById: the conversation is shown, found or not.           *)
AddAnswered(c) ==
  /\ c \in page.adding
  /\ page' = ShowPage([page EXCEPT !.adding = @ \ {c}], c)
  /\ UNCHANGED <<daemon, onWay, fresh, clicks, streams, losses>>

(* The message fetch: messages of other conversations go; a fetch that     *)
(* fails leaves what is there.                                             *)

MessagesAnswered ==
  /\ page.reading # Nowhere
  /\ page' = [page EXCEPT !.reading = Nowhere, !.msgs = {page.reading}]
  /\ UNCHANGED <<daemon, onWay, fresh, clicks, streams, losses>>

(* getActiveRun *)
ActiveRunRead ==
  /\ page.restoring.answer = "asked"
  /\ page' = [page EXCEPT !.restoring.answer = daemon.run[page.restoring.of]]
  /\ UNCHANGED <<daemon, onWay, fresh, clicks, streams, losses>>

ActiveRunAnswered ==
  LET c == page.restoring.of  p == [page EXCEPT !.restoring = NoRestore] IN
  /\ page.restoring.answer \notin {"none", "asked"} \/ (c # Nowhere /\ page.restoring.answer = "none")
  /\ page' = IF page.restoring.answer \in {"none", "ended"} \/ page.bound \notin {Nowhere, c} THEN p
             ELSE [p EXCEPT !.bound = c, !.home = c, !.locked = TRUE]
  /\ UNCHANGED <<daemon, onWay, fresh, clicks, streams, losses>>
-----------------------------------------------------------------------------
(* The event streamer, and the hooks of the request that started the run.  *)
Delivered(d, c, type) ==
  IF Connected(page) /\ c \in d.heard \cup d.started
  THEN Append(onWay, [type |-> type, of |-> c]) ELSE onWay

(* The daemon takes the page's next command.                               *)
Serve ==
  LET cmd == Head(page.out) IN
  /\ page.out # <<>> /\ Len(onWay) < MaxOnWay
  /\ page' = [page EXCEPT !.out = Tail(@)]
  /\ \/ /\ cmd.do = "send"
        /\ \E c \in IF cmd.of = Nowhere THEN Conv \ daemon.rows ELSE {cmd.of} :
             /\ daemon' = [daemon EXCEPT !.rows = @ \cup {c}, !.run[c] = "accepted",
                                         !.started = @ \cup {c}]
             /\ onWay' = Delivered(daemon', c, "run.created")
     \/ /\ cmd.do = "subscribe"
        /\ daemon' = [daemon EXCEPT !.heard = @ \cup {cmd.of}] /\ UNCHANGED onWay
     \/ /\ cmd.do = "unsubscribe"
        /\ daemon' = [daemon EXCEPT !.heard = @ \ {cmd.of}] /\ UNCHANGED onWay
     \/ /\ cmd.do = "stop"
        /\ daemon' = [daemon EXCEPT !.run[cmd.of] = "ended"]
        /\ onWay' = Delivered(daemon, cmd.of, "run.ended")
  /\ UNCHANGED <<fresh, clicks, streams, losses>>

(* A run begins, starts a message, asks for approval, goes on, ends.       *)
RunSteps(c, from, to, type) ==
  /\ daemon.run[c] = from /\ Len(onWay) < MaxOnWay
  /\ daemon' = [daemon EXCEPT !.run[c] = to]
  /\ onWay' = Delivered(daemon, c, type)
  /\ UNCHANGED <<page, fresh, clicks, losses>>

RunStreams(c) ==
  streams < MaxStream /\ streams' = streams + 1 /\ RunSteps(c, "running", "running", "message.started")

RunMoves(c) ==
  /\ \/ RunSteps(c, "accepted", "running", "run.started")
     \/ RunSteps(c, "approval", "running", "run.started")
     \/ RunSteps(c, "running", "approval", "approval.required")
     \/ RunSteps(c, "running", "ended", "run.ended")
  /\ UNCHANGED streams
-----------------------------------------------------------------------------
(* The guard against events of another conversation, or of another run.    *)
Ignored_Conversation(p, e) == p.bound \notin {Nowhere, e.of}

Ignored(p, e) == (p.shown # Nowhere /\ e.of # p.shown) \/ p.bound \notin {Nowhere, e.of}

RunCreated(p, c) ==
  ShowPage([p EXCEPT !.bound = c, !.home = c,
                 !.msgs = IF Local \in @ THEN (@ \ {Local}) \cup {c} ELSE @,
                 !.adding = IF p.born = Nowhere THEN @ \cup {c} ELSE @], c)

RunStarted(p, c) == ShowPage([p EXCEPT !.bound = c, !.home = c], c)

Applied(p, e) ==
  CASE e.type = "run.created" -> RunCreated(p, e.of)
    [] e.type = "run.started" -> RunStarted(p, e.of)
    [] e.type = "message.started" -> [p EXCEPT !.bound = e.of, !.msgs = @ \cup {e.of}]
    [] e.type = "approval.required" -> [p EXCEPT !.bound = e.of, !.locked = TRUE]
    [] e.type = "run.ended" /\ p.bound = e.of ->
         [p EXCEPT !.bound = Nowhere, !.home = Nowhere, !.locked = FALSE]
    [] OTHER -> p

EventArrives ==
  /\ onWay # <<>> /\ onWay' = Tail(onWay)
  /\ page' = IF Ignored(page, Head(onWay)) THEN page ELSE Applied(page, Head(onWay))
  /\ UNCHANGED <<daemon, fresh, clicks, streams, losses>>

(* What is on its way.  Only one kind of it is slow in a behaviour: the    *)
(* rest arrives before anything else happens.                              *)
Underway ==
  (IF page.refreshing # <<>> THEN {"list"} ELSE {})
    \cup (IF page.reading # Nowhere THEN {"messages"} ELSE {})
    \cup (IF page.restoring # NoRestore THEN {"run"} ELSE {})
    \cup (IF page.adding # {} THEN {"added"} ELSE {})
    \cup (IF page.out # <<>> \/ onWay # <<>> THEN {"wire"} ELSE {})

Arrives ==
  \/ Serve \/ EventArrives
  \/ MessagesAnswered \/ ActiveRunRead \/ ActiveRunAnswered
  \/ \E c \in Conv : AddAnswered(c)
  \/ \E i \in DOMAIN page.refreshing : RefreshAnswered(i)

Happens ==
  /\ Underway \subseteq {slow}
  /\ \/ NewChat \/ SendMessage \/ StopRun
     \/ Opened \/ ConnectionLost \/ Reconnect
     \/ \E c \in Conv : SelectConversation(c) \/ RunStreams(c) \/ RunMoves(c)

NavigationNext == UNCHANGED slow /\ (Arrives \/ Happens)

NavigationSpec == NavigationInit /\ [][NavigationNext]_navVars
-----------------------------------------------------------------------------
(* A page that shows a conversation is bound to no run of another, once    *)
(* its fetch is answered it shows no message of another, and as long as    *)
(* its socket was never replaced the daemon sends it the conversation's    *)
(* events.                                                                 *)
PageOfOneConversation ==
  page.shown # Nowhere =>
    /\ page.bound \in {Nowhere, page.shown}
    /\ page.reading = Nowhere => page.msgs \subseteq {page.shown}
    /\ losses = 0 /\ Connected(page) /\ page.out = <<>> => page.shown \in daemon.heard

(* A new-chat page the user went to is bound to no run until the user      *)
(* sends something.  useChat.ts:681 promises "Never let those events       *)
(* hijack the current page after a conversation switch"; the guard below   *)
(* it lets all events pass while the page shows no conversation.           *)
NeverHijacked == fresh /\ page.shown = Nowhere => page.bound = Nowhere

(* It stays the new-chat page, too.  Refuted: an older refresh takes the   *)
(* mark that the user asked for it, and the next one selects the first     *)
(* conversation (useConversations.ts:43), against the comment there,       *)
(* "Don't auto-select if user explicitly requested a new chat".            *)
NewChatStays == fresh => page.shown = Nowhere

(* Whatever became of the socket, an open page hears what it shows.  False *)
(* after a lost connection: the ref that says what the page subscribed to  *)
(* outlives the connection it was true of (useChat.ts:880).                *)
ShownIsHeard ==
  page.shown # Nowhere /\ Connected(page) /\ page.out = <<>> => page.shown \in daemon.heard
-----------------------------------------------------------------------------
(* The inductive invariant behind PageOfOneConversation: the hooks agree on *)
(* whose run, messages and answers they hold, and once the commands on the  *)
(* wire are taken the daemon sends the page the events of what it shows.    *)

Somewhere == Conv \cup {Nowhere}
RunStates == {"none", "accepted", "running", "approval", "ended"}
PageCommand ==
  [do : {"send"}, of : Somewhere] \cup [do : {"subscribe", "unsubscribe", "stop"}, of : Conv]
PageEvent ==
  [type : {"run.created", "run.started", "message.started", "approval.required", "run.ended"},
   of : Conv]

PageState ==
  [shown : Somewhere, msgs : SUBSET (Conv \cup {Local}), asked : BOOLEAN, first : BOOLEAN,
   refreshing : Seq(Somewhere), reading : Somewhere,
   restoring : [of : Somewhere, answer : RunStates \cup {"asked"}],
   adding : SUBSET Conv, bound : Somewhere, home : Somewhere, locked : BOOLEAN,
   sock : {"off", "connecting", "open"}, again : BOOLEAN, born : Somewhere,
   unsent : SUBSET Somewhere, subscribed : Somewhere, cleans : BOOLEAN, out : Seq(PageCommand)]

DaemonState ==
  [rows : SUBSET Conv, run : [Conv -> RunStates], heard : SUBSET Conv, started : SUBSET Conv]

NavigationTypeOK ==
  /\ page \in PageState /\ IsFiniteSet(page.unsent)
  /\ daemon \in DaemonState /\ onWay \in Seq(PageEvent)
  /\ losses \in Nat

(* A run with a home is bound; what is bound, asked for or read is of the  *)
(* conversation shown.                                                     *)
OfOneConversation(p) ==
  /\ p.home # Nowhere => p.bound = p.home
  /\ p.restoring.of \in {Nowhere, p.shown} /\ p.reading \in {Nowhere, p.shown}
  /\ p.restoring.answer # "none" => p.restoring.of # Nowhere
  /\ p.shown # Nowhere =>
       p.bound \in {Nowhere, p.shown} /\ (p.reading = Nowhere => p.msgs \subseteq {p.shown})

(* The daemon will send c's events once it has taken the page's commands.  *)
WillHear(out, subs, c) ==
  \/ c \in subs /\ \A j \in DOMAIN out : out[j] # Tell("unsubscribe", c)
  \/ \E i \in DOMAIN out : /\ out[i] = Tell("subscribe", c)
                           /\ \A j \in DOMAIN out : j > i => out[j] # Tell("unsubscribe", c)

(* A first connection: the effect knows what the page subscribed to.       *)
FirstConnection(p, subs) ==
  /\ ~Connected(p) => p.subscribed = Nowhere /\ ~p.cleans /\ p.out = <<>>
  /\ Connected(p) => /\ ~p.cleans => p.subscribed = p.shown
                     /\ p.shown # Nowhere => WillHear(p.out, subs, p.shown)

NavigationInv ==
  /\ NavigationTypeOK
  /\ OfOneConversation(page)
  /\ losses = 0 => FirstConnection(page, daemon.heard)
=============================================================================
