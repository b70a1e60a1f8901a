------------------------------ MODULE WorldSync ------------------------------
(***************************************************************************)
(* How the digital-world page of the web client keeps up with the daemon   *)
(* (useDigitalWorldBootstrap.ts): a WebSocket shared by every mounted hook *)
(* that asked for it, counted and re-opened five seconds after a loss; the *)
(* first fetch; and the polling effect, whose closure is torn down and     *)
(* rebuilt whenever the socket's state changes, while a fetch of the old   *)
(* closure may still be on its way.                                        *)
(*                                                                         *)
(* The browser's production build is modelled (IS_DEV is false).  The      *)
(* world of the daemon is a version: 0 is an empty answer, 1 has nodes and *)
(* no being yet, anything above is a world with a being.                   *)
(***************************************************************************)
EXTENDS Naturals, FiniteSetsExt

CONSTANTS
  Consumer,     \* mounted users of the socket hook
  WorldPage,    \* the one of them that fetches and polls
  MaxSock,      \* WebSocket objects alive at one time
  MaxClosure,   \* closures of the polling effect alive at one time
  MaxFetch,     \* requests in flight at one time
  MaxWorld      \* versions of the daemon's world

ASSUME SyncAssumption ==
  WorldPage \in Consumer /\ {MaxSock, MaxClosure, MaxFetch, MaxWorld} \subseteq Nat

VARIABLES
  holders,      \* the consumers whose acquire has no release yet
  sock,         \* the phase of every WebSocket object
  wired,        \* the sockets whose handlers are still set
  worldSocket,  \* the module variable of that name; 0 is null
  reconnect,    \* worldSocketReconnectTimer is set
  sockUp,       \* worldSocketConnected
  wsActive,     \* the page's copy of it, a React state
  world,        \* the daemon's world
  view,         \* what the page shows: [kind, ver]
  hidden,       \* document.hidden
  closure,      \* the closure of the polling effect in force; 0 is none
  seen,         \* the wsActive it captured
  timer,        \* the closures with a timer set
  fetch         \* the requests in flight

socketVars == <<holders, sock, wired, worldSocket, reconnect, sockUp>>
pollVars   == <<closure, seen, timer>>
syncVars   == <<socketVars, wsActive, world, view, hidden, pollVars, fetch>>

Sock    == 1..MaxSock
Closure == 1..MaxClosure
Fetch   == 1..MaxFetch

NoFetch == [kind |-> "none", by |-> 0, ver |-> 0]

\* A request of the page: the first fetch ("initial", or "dropped" once its
\* effect was cleaned up), a link of a closure's chain, or a single refresh.
FetchKinds == {"none", "initial", "dropped", "chain", "once"}

FreeSock  == {s \in Sock : sock[s] = "free"}
FreeFetch == {f \in Fetch : fetch[f] = NoFetch}

\* A first fetch whose effect is cleaned up is only marked cancelled.
Dropped(f) == IF fetch[f].kind = "initial"
                THEN [fetch[f] EXCEPT !.kind = "dropped"] ELSE fetch[f]

Loaded == view.kind # "loading"
Mounted == WorldPage \in holders

SyncInit ==
  /\ holders = {} /\ sock = [s \in Sock |-> "free"] /\ wired = {}
  /\ worldSocket = 0 /\ reconnect = FALSE /\ sockUp = FALSE
  /\ wsActive = FALSE
  /\ world = 0
  /\ view = [kind |-> "loading", ver |-> 0]
  /\ hidden \in BOOLEAN
  /\ closure = 0 /\ seen = FALSE /\ timer = {}
  /\ fetch = [f \in Fetch |-> NoFetch]

-----------------------------------------------------------------------------
(* The shared socket. *)

\* new WebSocket(url), or the constructor throws and a retry is scheduled if
\* anyone still holds the socket (h is who does after the step).
ConnectSocket(h) ==
  \/ /\ worldSocket # 0
     /\ UNCHANGED <<sock, wired, worldSocket>> /\ reconnect' = FALSE
  \/ /\ worldSocket = 0
     /\ FreeSock # {}
     /\ LET s == Min(FreeSock) IN /\ sock' = [sock EXCEPT ![s] = "opening"]
                                 /\ wired' = wired \cup {s}
                                 /\ worldSocket' = s
     /\ reconnect' = FALSE
  \/ /\ worldSocket = 0
     /\ UNCHANGED <<sock, wired, worldSocket>>
     /\ reconnect' = (h # {})

\* The request the page sends now reads the world as it is.
Ask(kind, by) ==
  /\ FreeFetch # {}
  /\ fetch' = [fetch EXCEPT ![Min(FreeFetch)] =
                 [kind |-> kind, by |-> by, ver |-> world]]

\* The effect of the hook runs: acquire (the pending retry is cleared), then
\* the page's copy of the state is brought up to date, and its first fetch is
\* sent.
Mount(c) ==
  /\ c \notin holders
  /\ holders' = holders \cup {c}
  /\ ConnectSocket(holders')
  /\ IF c = WorldPage
       THEN /\ wsActive' = sockUp
            /\ view' = [kind |-> "loading", ver |-> 0]
            /\ Ask("initial", 0)
       ELSE UNCHANGED <<wsActive, view, fetch>>
  /\ UNCHANGED <<sockUp, world, hidden, pollVars>>

\* The handlers are taken off a socket before it is closed.
Detached(s) == wired \ {s}

\* The last release clears the retry, takes the handlers off the socket before
\* closing it, and tells everyone it is down.  The page's polling effect and
\* its first fetch are cleaned up with it.
Unmount(c) ==
  /\ c \in holders
  /\ holders' = holders \ {c}
  /\ IF holders' = {}
       THEN /\ reconnect' = FALSE
            /\ sock' = [s \in Sock |-> IF s = worldSocket THEN "closing" ELSE sock[s]]
            /\ wired' = Detached(worldSocket)
            /\ worldSocket' = 0 /\ sockUp' = FALSE
       ELSE UNCHANGED <<reconnect, sock, wired, worldSocket, sockUp>>
  /\ IF c = WorldPage
       THEN /\ wsActive' = FALSE
            /\ timer' = timer \ {closure} /\ closure' = 0
            /\ fetch' = [f \in Fetch |-> Dropped(f)]
       ELSE /\ wsActive' = IF holders' = {} THEN FALSE ELSE wsActive
            /\ UNCHANGED <<timer, closure, fetch>>
  /\ UNCHANGED <<world, view, hidden, seen>>

\* onopen: only a socket with its handlers on tells the page.
SocketOpens(s) ==
  /\ sock[s] = "opening"
  /\ sock' = [sock EXCEPT ![s] = "open"]
  /\ IF s \in wired
       THEN sockUp' = TRUE /\ wsActive' = Mounted
       ELSE UNCHANGED <<sockUp, wsActive>>
  /\ UNCHANGED <<holders, wired, worldSocket, reconnect, world, view, hidden,
                 pollVars, fetch>>

\* onclose, after a loss, a refused connection or the page's own close: the
\* module's variable is cleared whichever socket this was.
SocketCloses(s) ==
  /\ sock[s] \in {"opening", "open", "closing"}
  /\ sock' = [sock EXCEPT ![s] = "free"]
  /\ wired' = wired \ {s}
  /\ IF s \in wired
       THEN /\ worldSocket' = 0 /\ sockUp' = FALSE
            /\ wsActive' = FALSE
            /\ reconnect' = (reconnect \/ holders # {})
       ELSE UNCHANGED <<worldSocket, sockUp, wsActive, reconnect>>
  /\ UNCHANGED <<holders, world, view, hidden, pollVars, fetch>>

ReconnectFires ==
  /\ reconnect
  /\ ConnectSocket(holders)
  /\ UNCHANGED <<holders, sockUp, wsActive, world, view, hidden, pollVars, fetch>>

\* world.state.changed reaches the page's listener, which is subscribed once
\* the page has loaded: one refresh.
WorldMessage ==
  /\ Mounted /\ Loaded
  /\ worldSocket \in wired /\ sock[worldSocket] = "open"
  /\ Ask("once", 0)
  /\ UNCHANGED <<socketVars, wsActive, world, view, hidden, pollVars>>

-----------------------------------------------------------------------------
(* Fetching and polling. *)

\* The page was re-keyed after the first being was created: the running first
\* fetch is cancelled and another one sent.
Refresh ==
  /\ Mounted /\ view.kind = "guide"
  /\ FreeFetch # {}
  /\ fetch' = [f \in Fetch |->
                 IF f = Min(FreeFetch)
                   THEN [kind |-> "initial", by |-> 0, ver |-> world]
                 ELSE Dropped(f)]
  /\ UNCHANGED <<socketVars, wsActive, world, view, hidden, pollVars>>

\* scheduleNext of closure c, unless its timer is set already.
Schedule(c) == timer' = timer \cup {c}

Shown(ver) == [kind |-> IF ver = 1 THEN "guide" ELSE "world", ver |-> ver]

\* A link of the chain schedules the next one, whatever came of its fetch.
ChainGoesOn_OnSuccess(f, ok) == fetch[f].kind = "chain" /\ ok
ChainGoesOn(f, ok) == fetch[f].kind = "chain"

\* The answer of request f is applied.  The first fetch also has an empty
\* state to show, for an empty world or none at all; a chain goes on in the
\* closure it started from.
FetchAnswered(f, ok) ==
  LET q == fetch[f] IN
  /\ q.kind # "none"
  /\ fetch' = [fetch EXCEPT ![f] = NoFetch]
  /\ view' = IF q.kind = "dropped" \/ ~Mounted THEN view
             ELSE IF ok /\ q.ver > 0 THEN Shown(q.ver)
             ELSE IF q.kind = "initial" THEN [kind |-> "error", ver |-> 0]
             ELSE view
  /\ IF ChainGoesOn(f, ok) THEN Schedule(q.by) ELSE UNCHANGED timer
  /\ UNCHANGED <<socketVars, wsActive, world, hidden, closure, seen>>

\* The polling effect runs again when the page has loaded or wsActive has
\* changed: the old closure's timer is cleared, a new closure starts.
PollEffect ==
  /\ Mounted /\ Loaded
  /\ closure # 0 => seen # wsActive
  /\ \E c \in Closure :
       /\ c # closure /\ c \notin timer
       /\ \A f \in Fetch : fetch[f].by # c
       /\ closure' = c
       /\ seen' = wsActive
       /\ timer' = (timer \ {closure}) \cup {c}
  /\ UNCHANGED <<socketVars, wsActive, world, view, hidden, fetch>>

PollTimerFires(c) ==
  /\ c \in timer
  /\ timer' = timer \ {c}
  /\ Ask("chain", c)
  /\ UNCHANGED <<socketVars, wsActive, world, view, hidden, closure, seen>>

\* visibilitychange, heard by the closure in force.
Hide ==
  /\ ~hidden /\ hidden' = TRUE
  /\ timer' = timer \ {closure}
  /\ UNCHANGED <<socketVars, wsActive, world, view, closure, seen, fetch>>

Show ==
  /\ hidden /\ hidden' = FALSE
  /\ IF closure = 0 THEN UNCHANGED <<timer, fetch>>
                    ELSE Schedule(closure) /\ Ask("once", 0)
  /\ UNCHANGED <<socketVars, wsActive, world, view, closure, seen>>

\* The daemon's world moves on.
WorldMoves ==
  /\ world < MaxWorld
  /\ world' = world + 1
  /\ UNCHANGED <<socketVars, wsActive, view, hidden, pollVars, fetch>>

SyncNext ==
  \/ \E c \in Consumer : Mount(c) \/ Unmount(c)
  \/ \E s \in Sock : SocketOpens(s) \/ SocketCloses(s)
  \/ ReconnectFires \/ WorldMessage \/ Refresh
  \/ \E f \in Fetch, ok \in BOOLEAN : FetchAnswered(f, ok)
  \/ PollEffect \/ \E c \in Closure : PollTimerFires(c)
  \/ Hide \/ Show \/ WorldMoves

SyncSpec == SyncInit /\ [][SyncNext]_syncVars

-----------------------------------------------------------------------------
(* Properties. *)

SocketTypeOK ==
  /\ holders \subseteq Consumer /\ wired \subseteq Sock
  /\ sock \in [Sock -> {"free", "opening", "open", "closing"}]
  /\ worldSocket \in 0..MaxSock
  /\ reconnect \in BOOLEAN /\ sockUp \in BOOLEAN

PageTypeOK ==
  /\ wsActive \in BOOLEAN /\ hidden \in BOOLEAN /\ seen \in BOOLEAN
  /\ world \in 0..MaxWorld
  /\ view \in [kind : {"loading", "guide", "world", "error"}, ver : 0..MaxWorld]
  /\ closure \in 0..MaxClosure /\ timer \subseteq Closure
  /\ fetch \in [Fetch -> [kind : FetchKinds, by : 0..MaxClosure, ver : 0..MaxWorld]]

SyncTypeOK == SocketTypeOK /\ PageTypeOK

\* SharedSocket: whatever the order of mounts, unmounts, losses and retries,
\* the only socket that can still call back is the one the module holds; with
\* no consumer there is neither socket nor retry, and with one there is always
\* a socket or a retry on its way (acquire, release, onclose).
SharedSocket ==
  /\ wired \subseteq {worldSocket}
  /\ worldSocket # 0 => sock[worldSocket] \in {"opening", "open"}
  /\ holders = {} => worldSocket = 0 /\ ~reconnect
  /\ holders # {} => worldSocket # 0 \/ reconnect
  /\ sockUp <=> worldSocket # 0 /\ sock[worldSocket] = "open"

\* PollingContinues: a visible page that has loaded always has its next poll
\* ahead of it - a timer of the closure in force or a link of its chain still
\* in flight - through failed fetches, tab switches and rebuilt closures.
PollingContinues ==
  Mounted /\ closure # 0 /\ ~hidden =>
    \/ closure \in timer
    \/ \E f \in Fetch : fetch[f].kind = "chain" /\ fetch[f].by = closure

\* WorldKeepsUp: the page has its way to the daemon's news, pushed and polled.
WorldKeepsUp == SharedSocket /\ PollingContinues

\* The inductive invariant behind it.  The socket the module holds has its
\* handlers on; a page that is not there has no closure in force; a link of a
\* chain knows its closure.
SocketInv == SocketTypeOK /\ SharedSocket /\ (worldSocket # 0 => worldSocket \in wired)

PollInv ==
  /\ PageTypeOK /\ PollingContinues
  /\ ~Mounted => closure = 0
  /\ \A f \in Fetch : fetch[f].kind = "chain" => fetch[f].by # 0

SyncInv == SocketInv /\ PollInv

-----------------------------------------------------------------------------
(* What comments of the file promise and the code does not keep; no run     *)
(* checks them.                                                             *)

\* HiddenPagesRest: "pause polling while the tab is hidden".  A link in flight
\* when the tab is hidden schedules the next one all the same.
HiddenPagesRest == hidden => closure \notin timer

\* OneChain: an effect that was cleaned up polls no more.  A link in flight
\* outlives its closure and schedules itself for ever.
OneChain == timer \subseteq {closure}
=============================================================================
