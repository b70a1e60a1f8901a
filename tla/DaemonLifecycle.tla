--------------------------- MODULE DaemonLifecycle ---------------------------
(***************************************************************************)
(* Daemons and the launcher: `sun start`, `stop` and `restart` find a      *)
(* daemon over its port and its pid file and talk to it by SIGTERM; a      *)
(* daemon recovers the runs it finds, binds the port, writes the pid file, *)
(* and only then listens to signals (launcher/src/index.ts, daemon main.ts *)
(* and the start and stop of server.ts).                                   *)
(*                                                                         *)
(* A daemon is numbered by its birth, which stands for the start ticks of  *)
(* its process; process ids are re-used, by daemons and by strangers.  The *)
(* runs are those of the shared database (AgentRuntime.tla has their life). *)
(***************************************************************************)
EXTENDS Naturals, FiniteSets

CONSTANTS
  Pid,          \* process ids
  MaxDaemon,    \* daemons born
  Shell,        \* shells a user runs the launcher in
  MaxCommand,   \* commands given
  AgentRun      \* runs of the database

ASSUME DaemonLimits == MaxDaemon \in Nat /\ MaxCommand \in Nat

Daemon == 1..MaxDaemon

\* A daemon's phases.  Between "bound" and "serving" no signal handler is set.
Phases == {"unborn", "preparing", "recovered", "bound", "starting", "serving",
           "stopping", "closed", "gone"}

NoFile == [pid |-> "none", ticks |-> 0]

VARIABLES
  at,           \* the phase of every daemon
  pidOf,        \* its process id, once it is born
  strangers,    \* the process ids other programs have
  port,         \* the daemon that listens, or 0
  pidFile,      \* paths.pidFile
  shell,        \* what every shell is doing
  commands,     \* commands given so far
  runAt,        \* the status of every run
  runBy,        \* the daemon whose loop executes it, or 0
  overlap       \* two daemons have been alive at one time

procVars   == <<at, pidOf, strangers, port, pidFile>>
runVars    == <<runAt, runBy>>
daemonVars == <<procVars, runVars, shell, commands, overlap>>

Alive == {d \in Daemon : at[d] \notin {"unborn", "gone"}}
Unborn == {d \in Daemon : at[d] = "unborn"}
FreePids == Pid \ (strangers \cup {pidOf[d] : d \in Alive})

DaemonInit ==
  /\ at = [d \in Daemon |-> "unborn"] /\ pidOf = [d \in Daemon |-> "none"]
  /\ strangers = {} /\ port = 0 /\ pidFile = NoFile
  /\ shell = [s \in Shell |-> "prompt"] /\ commands = 0
  /\ runAt = [r \in AgentRun |-> "none"] /\ runBy = [r \in AgentRun |-> 0]
  /\ overlap = FALSE

-----------------------------------------------------------------------------
(* The launcher. *)

\* startDaemon spawns a process and does not wait for it.
Spawn(s) ==
  /\ \E p \in FreePids, d \in Unborn :
       /\ \A later \in Unborn : d <= later
       /\ at' = [at EXCEPT ![d] = "preparing"]
       /\ pidOf' = [pidOf EXCEPT ![d] = p]
  /\ overlap' = (overlap \/ Alive # {})
  /\ shell' = [shell EXCEPT ![s] = "prompt"]
  /\ UNCHANGED <<strangers, port, pidFile, runVars, commands>>

\* killDaemon: the file's process is signalled if it is a daemon born when the
\* file says, and the file is removed whatever it said.
Verified(entry) ==
  entry.ticks # 0 /\ at[entry.ticks] \notin {"unborn", "gone"}
                  /\ pidOf[entry.ticks] = entry.pid

\* A process without handlers dies of the signal; one that is stopping
\* already ignores it.
AfterSignal(d) == CASE at[d] = "serving" -> "stopping"
                    [] at[d] \in {"stopping", "closed"} -> at[d]
                    [] OTHER -> "gone"

KillDaemon ==
  /\ pidFile' = NoFile
  /\ IF Verified(pidFile)
       THEN LET d == pidFile.ticks IN
            /\ at' = [at EXCEPT ![d] = AfterSignal(d)]
            /\ port' = IF at'[d] = "gone" /\ port = d THEN 0 ELSE port
       ELSE UNCHANGED <<at, port>>
  /\ UNCHANGED <<pidOf, strangers, runVars, overlap>>

Command(s, phase) ==
  /\ shell[s] = "prompt" /\ commands < MaxCommand
  /\ shell' = [shell EXCEPT ![s] = phase] /\ commands' = commands + 1

\* start: nothing happens if the daemon answers on its port.
Start(s) ==
  /\ Command(s, IF port = 0 THEN "spawn" ELSE "prompt")
  /\ UNCHANGED <<procVars, runVars, overlap>>

Stop(s) == Command(s, "prompt") /\ KillDaemon

Restart(s) == Command(s, "poll") /\ KillDaemon

\* The poll of a restart ends when the port is silent, or at its deadline.
PollEnds(s) ==
  /\ shell[s] = "poll"
  /\ shell' = [shell EXCEPT ![s] = "spawn"]
  /\ UNCHANGED <<procVars, runVars, commands, overlap>>

-----------------------------------------------------------------------------
(* A daemon. *)

Goes(d, from, to) == at[d] = from /\ at' = [at EXCEPT ![d] = to]
Others == UNCHANGED <<pidOf, strangers, shell, commands, overlap>>

Recover_RunningOnly(d) ==
  /\ Goes(d, "preparing", "recovered")
  /\ runAt' = [r \in AgentRun |-> IF runAt[r] = "running" THEN "interrupted" ELSE runAt[r]]
  /\ UNCHANGED <<runBy, port, pidFile>> /\ Others

\* createDaemon: approvals that are due expire, created runs fail and running
\* ones are interrupted, whoever executes them.
Recover(d) ==
  /\ Goes(d, "preparing", "recovered")
  /\ runAt' = [r \in AgentRun |-> CASE runAt[r] = "running" -> "interrupted"
                                    [] runAt[r] = "created" -> "failed"
                                    [] OTHER -> runAt[r]]
  /\ UNCHANGED <<runBy, port, pidFile>> /\ Others

\* listen binds the port, or the address is in use and the process ends.
Listen(d) ==
  /\ \/ port = 0 /\ Goes(d, "recovered", "bound") /\ port' = d
     \/ port # 0 /\ Goes(d, "recovered", "gone") /\ UNCHANGED port
  /\ UNCHANGED <<pidFile, runVars>> /\ Others

WritePidFile(d) ==
  /\ Goes(d, "bound", "starting")
  /\ pidFile' = [pid |-> pidOf[d], ticks |-> d]
  /\ UNCHANGED <<port, runVars>> /\ Others

\* The world is seeded and the start audited; then main.ts sets its handlers.
\* A write that fails takes the process with it.
Started(d) ==
  /\ Goes(d, "starting", "serving")
  /\ UNCHANGED <<port, pidFile, runVars>> /\ Others

\* stop(): workers and timers, then the sockets, the server and the port...
CloseApp(d) ==
  /\ Goes(d, "stopping", "closed")
  /\ port' = 0
  /\ UNCHANGED <<pidFile, runVars>> /\ Others

\* ...the database, and process.exit - or the guard's after ten seconds.  The
\* pid file stays.
Exit_RemovesPidFile(d) ==
  /\ at[d] \in {"stopping", "closed"}
  /\ at' = [at EXCEPT ![d] = "gone"]
  /\ port' = IF port = d THEN 0 ELSE port
  /\ pidFile' = NoFile
  /\ UNCHANGED runVars /\ Others

Exit(d) ==
  /\ at[d] \in {"stopping", "closed"}
  /\ at' = [at EXCEPT ![d] = "gone"]
  /\ port' = IF port = d THEN 0 ELSE port
  /\ UNCHANGED <<pidFile, runVars>> /\ Others

\* The process dies of something else.
Die(d) ==
  /\ d \in Alive
  /\ at' = [at EXCEPT ![d] = "gone"]
  /\ port' = IF port = d THEN 0 ELSE port
  /\ UNCHANGED <<pidFile, runVars>> /\ Others

-----------------------------------------------------------------------------
(* Runs, and the other programs of the machine. *)

\* A daemon that listens accepts a chat; its loops go on until the process
\* ends, whether it is stopping or not.
Accept(d, r) ==
  /\ port = d /\ runAt[r] = "none"
  /\ runAt' = [runAt EXCEPT ![r] = "created"] /\ runBy' = [runBy EXCEPT ![r] = d]
  /\ UNCHANGED <<at, port, pidFile>> /\ Others

RunSteps(d, r) ==
  /\ d \in Alive /\ runBy[r] = d
  /\ \/ runAt[r] = "created" /\ runAt' = [runAt EXCEPT ![r] = "running"]
     \/ runAt[r] = "running" /\ runAt' = [runAt EXCEPT ![r] = "ended"]
  /\ UNCHANGED <<runBy, at, port, pidFile>> /\ Others

Stranger(p) ==
  /\ \/ p \in FreePids /\ strangers' = strangers \cup {p}
     \/ p \in strangers /\ strangers' = strangers \ {p}
  /\ UNCHANGED <<at, pidOf, port, pidFile, runVars, shell, commands, overlap>>

DaemonNext ==
  \/ \E s \in Shell : \/ Start(s) \/ Stop(s) \/ Restart(s) \/ PollEnds(s)
                      \/ (shell[s] = "spawn" /\ Spawn(s))
  \/ \E d \in Daemon : \/ Recover(d) \/ Listen(d) \/ WritePidFile(d) \/ Started(d)
                       \/ CloseApp(d) \/ Exit(d) \/ Die(d)
                       \/ \E r \in AgentRun : Accept(d, r) \/ RunSteps(d, r)
  \/ \E p \in Pid : Stranger(p)

DaemonSpec == DaemonInit /\ [][DaemonNext]_daemonVars

-----------------------------------------------------------------------------
DaemonTypeOK ==
  /\ at \in [Daemon -> Phases] /\ pidOf \in [Daemon -> Pid \cup {"none"}]
  /\ strangers \subseteq Pid /\ port \in 0..MaxDaemon
  /\ pidFile \in [pid : Pid \cup {"none"}, ticks : 0..MaxDaemon]
  /\ runAt \in [AgentRun -> {"none", "created", "running", "ended", "interrupted", "failed"}]
  /\ runBy \in [AgentRun -> 0..MaxDaemon]
  /\ shell \in [Shell -> {"prompt", "spawn", "poll"}]
  /\ commands \in 0..MaxCommand /\ overlap \in BOOLEAN

\* ServingIsReachable: the daemon that has said it is up can be stopped - the
\* pid file names it, and its identity verifies, until it is told to stop -
\* whatever was started, restarted, killed or re-numbered before it
\* (writeFileSync in start, killDaemon).
ServingIsReachable ==
  \A d \in Daemon : at[d] \in {"starting", "serving"} =>
    port = d /\ pidFile = [pid |-> pidOf[d], ticks |-> d] /\ Verified(pidFile)

\* NothingLeftRunning: unless two daemons have been alive at one time, a
\* daemon never answers while a run is left unfinished by one that is gone,
\* and a run that was given up had no one left to execute it
\* (recoverAgentRuntimeRuns before listen).
NothingLeftRunning ==
  ~overlap => \A r \in AgentRun :
    /\ port # 0 /\ runAt[r] \in {"created", "running"} => at[runBy[r]] # "gone"
    /\ runAt[r] \in {"interrupted", "failed"} => at[runBy[r]] = "gone"

\* OneDaemonInCharge: a daemon that has started can be found by the next
\* command, and the runs it finds are its own or settled (start).
OneDaemonInCharge == ServingIsReachable /\ NothingLeftRunning

-----------------------------------------------------------------------------
(* What the code promises and does not keep; no run checks them.           *)

\* RestartIsSafe: "Daemon is down - safe to start a new one" (launcher,
\* restart).  The port is silent while the old process still executes, and
\* the recovery of the new one gives up the runs it is executing.
RestartIsSafe == \A r \in AgentRun : runAt[r] = "interrupted" => at[runBy[r]] = "gone"

-----------------------------------------------------------------------------
(* The inductive invariant behind OneDaemonInCharge: a daemon has the port  *)
(* from its listen to its close; a run is of a daemon that had the port;    *)
(* and unless two have been alive at one time, the one that is, once it has *)
(* recovered, finds no unfinished runs but its own.                         *)
PortIsHeld ==
  \A d \in Daemon : port = d <=> at[d] \in {"bound", "starting", "serving", "stopping"}

RunsHaveDaemon ==
  \A r \in AgentRun : runAt[r] # "none" =>
    runBy[r] \in Daemon /\ at[runBy[r]] \notin {"unborn", "preparing", "recovered"}

AloneWithItsRuns ==
  ~overlap =>
    /\ \A d, e \in Alive : d = e
    /\ \A d \in Alive, r \in AgentRun :
         at[d] # "preparing" /\ runAt[r] \in {"created", "running"} => runBy[r] = d

DaemonInv ==
  /\ DaemonTypeOK /\ PortIsHeld /\ RunsHaveDaemon
  /\ AloneWithItsRuns /\ ServingIsReachable /\ NothingLeftRunning
=============================================================================
