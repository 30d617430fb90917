------------------------------- MODULE Engine -------------------------------
(***************************************************************************)
(* The daemon as a process (daemon/src/server.ts, bin.ts): it listens,     *)
(* names itself in the info file, serves the sockets that windows open,    *)
(* and on SIGTERM closes them, removes the file and exits.  Its runs live  *)
(* and die with it.  A process id is not reused, and the file is read and  *)
(* written in one step.                                                    *)
(***************************************************************************)
EXTENDS Naturals

CONSTANTS
  Daemons,    \* the daemon processes there may be
  Windows,    \* the windows that open sockets, one each at a time
  Builds,     \* engine builds
  Nobody,     \* no daemon
  MaxOpens,   \* bound: workspaces opened over one socket
  MaxCrashes  \* bound: daemons that crash

VARIABLES
  proc,       \* each process: unborn, starting, up, stopping or dead
  build,      \* the build each runs
  info,       \* the daemon that daemon.json names
  work,       \* its run: none, awaiting (approval) or running
  socket,     \* the daemon each window has a socket to
  listeners,  \* event listeners each daemon keeps for each window
  crashes     \* daemons crashed so far

engineVars == <<proc, build, info, work, socket, listeners, crashes>>

Alive(d) == d # Nobody /\ proc[d] \in {"starting", "up", "stopping"}
Serves(d) == d # Nobody /\ proc[d] = "up"

\* Nothing runs, or somebody started a daemon by hand and left a run there.
EngineInit ==
  /\ build \in [Daemons -> Builds]
  /\ \/ /\ proc = [d \in Daemons |-> "unborn"]
        /\ info = Nobody
        /\ work = [d \in Daemons |-> "none"]
     \/ \E first \in Daemons, w \in {"none", "awaiting", "running"} :
          /\ proc = [d \in Daemons |-> IF d = first THEN "up" ELSE "unborn"]
          /\ info = first
          /\ work = [d \in Daemons |-> IF d = first THEN w ELSE "none"]
  /\ socket = [x \in Windows |-> Nobody]
  /\ listeners = [d \in Daemons |-> [x \in Windows |-> 0]]
  /\ crashes = 0

\* start: bound to its port, the daemon writes the file over whatever is there.
Listen(d) ==
  /\ proc[d] = "starting"
  /\ proc' = [proc EXCEPT ![d] = "up"]
  /\ info' = d
  /\ UNCHANGED <<build, work, socket, listeners, crashes>>

\* SIGTERM: the handlers are installed once the daemon is up; before, it dies.
Signalled(d) ==
  [proc EXCEPT ![d] = CASE @ = "up" -> "stopping" [] @ = "starting" -> "dead" [] OTHER -> @]

\* stop has closed the server: it removes the file, whichever daemon it names by
\* now, and the process exits with the runs it holds.
StopEnds(d) ==
  /\ proc[d] = "stopping"
  /\ proc' = [proc EXCEPT ![d] = "dead"]
  /\ info' = Nobody
  /\ work' = [work EXCEPT ![d] = "none"]
  /\ UNCHANGED <<build, socket, listeners, crashes>>

Crash(d) ==
  /\ Alive(d) /\ crashes < MaxCrashes
  /\ crashes' = crashes + 1
  /\ proc' = [proc EXCEPT ![d] = "dead"]
  /\ work' = [work EXCEPT ![d] = "none"]
  /\ UNCHANGED <<build, info, socket, listeners>>

\* sessions.active: a run counts from its proposal until it is done.
UnfinishedRun(d) == work[d] \in {"awaiting", "running"}

RunMoves(d, from, to) ==
  /\ proc[d] \in {"up", "stopping"}
  /\ work[d] = from
  /\ work' = [work EXCEPT ![d] = to]
  /\ UNCHANGED <<proc, build, info, socket, listeners, crashes>>

\* A window asks for a plan and approves or rejects it; a run ends by itself.
PlanMade(d) == (\E x \in Windows : socket[x] = d) /\ RunMoves(d, "none", "awaiting")
PlanApproved(d) == (\E x \in Windows : socket[x] = d) /\ RunMoves(d, "awaiting", "running")
PlanRejected(d) == (\E x \in Windows : socket[x] = d) /\ RunMoves(d, "awaiting", "none")
RunEnds(d) == RunMoves(d, "running", "none")

\* run.subscribe, which opening a workspace ends with, once more each time.
Subscribe(x) ==
  /\ Serves(socket[x]) /\ listeners[socket[x]][x] < MaxOpens
  /\ listeners' = [listeners EXCEPT ![socket[x]][x] = @ + 1]
  /\ UNCHANGED <<proc, build, info, work, socket, crashes>>

\* onClient's cleanup: the listeners of a socket go with it.
Cleanup(x) ==
  [d \in Daemons |-> [y \in Windows |-> IF y = x THEN 0 ELSE listeners[d][y]]]

EngineStep ==
  \/ \E d \in Daemons :
       \/ Listen(d) \/ StopEnds(d) \/ Crash(d)
       \/ PlanMade(d) \/ PlanApproved(d) \/ PlanRejected(d) \/ RunEnds(d)
  \/ \E x \in Windows : Subscribe(x)
=============================================================================
