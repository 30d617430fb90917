------------------------------- MODULE Desktop -------------------------------
(***************************************************************************)
(* The desktop application (desktop/src/main/index.ts) and the socket of   *)
(* its window (renderer/rpc.ts): it adopts the daemon the info file names, *)
(* replaces one of another build that holds no unfinished run, or spawns   *)
(* one.  An application has one window and is named by it; closing the     *)
(* window quits it, as on every platform but macOS.                        *)
(***************************************************************************)
EXTENDS Engine

CONSTANTS
  BuildOf,      \* the build each application was shipped with
  MaxLaunches,  \* bound: applications started in all
  MaxAttempts   \* reconnections before a window gives up (9 in the code)

VARIABLES
  main,       \* what the main process is doing
  target,     \* the daemon whose info main has read
  child,      \* the daemon this application spawned
  window,     \* closed, connecting (asks main), dialing, open, failed
  attempts,   \* RendererClient.reconnectAttempts
  launches

desktopVars == <<main, target, child, window, attempts, launches>>
vars == <<engineVars, desktopVars>>

Init ==
  /\ EngineInit
  /\ main = [x \in Windows |-> "off"]
  /\ target = [x \in Windows |-> Nobody]
  /\ child = [x \in Windows |-> Nobody]
  /\ window = [x \in Windows |-> "closed"]
  /\ attempts = [x \in Windows |-> 0]
  /\ launches = 0

\* The window's first call of daemonInfo comes with it.
Launch(x) ==
  /\ main[x] = "off" /\ launches < MaxLaunches
  /\ launches' = launches + 1
  /\ main' = [main EXCEPT ![x] = "looking"]
  /\ target' = [target EXCEPT ![x] = Nobody]
  /\ child' = [child EXCEPT ![x] = Nobody]
  /\ window' = [window EXCEPT ![x] = "connecting"]
  /\ attempts' = [attempts EXCEPT ![x] = 0]
  /\ UNCHANGED engineVars

MainGoes(x, from, to) == main[x] = from /\ main' = [main EXCEPT ![x] = to]

\* ensureDaemon returns the address of d, and the window dials it.
Answer(x, d) ==
  /\ target' = [target EXCEPT ![x] = d]
  /\ window' = [window EXCEPT ![x] = "dialing"]
  /\ UNCHANGED <<child, attempts, launches, engineVars>>

StayPut == UNCHANGED <<child, window, attempts, launches, engineVars>>

-----------------------------------------------------------------------------
(* ensureDaemon and replaceStaleDaemon. *)

\* The file names a living process of this build: it is adopted.
Adopt(x) ==
  /\ Alive(info) /\ build[info] = BuildOf[x]
  /\ MainGoes(x, "looking", "idle")
  /\ Answer(x, info)

\* The file names a living process of another build: it is asked first.
FindStale(x) ==
  /\ Alive(info) /\ build[info] # BuildOf[x]
  /\ MainGoes(x, "looking", "asking")
  /\ target' = [target EXCEPT ![x] = info]
  /\ StayPut

\* No file, or one whose process is dead.
FindNone(x) ==
  /\ ~Alive(info)
  /\ MainGoes(x, "looking", "spawning")
  /\ UNCHANGED target /\ StayPut

\* DaemonClient.connect reads the file anew.  Nobody answering there is taken
\* for the stale daemon being gone.
AskNobody(x) ==
  /\ ~Serves(info)
  /\ MainGoes(x, "asking", "spawning")
  /\ UNCHANGED target /\ StayPut

AskIdle(x) ==
  /\ Serves(info) /\ ~UnfinishedRun(info)
  /\ MainGoes(x, "asking", "killing")
  /\ UNCHANGED target /\ StayPut

\* An unfinished run keeps the stale daemon in office.
AskBusy(x) ==
  /\ Serves(info) /\ UnfinishedRun(info)
  /\ MainGoes(x, "asking", "idle")
  /\ Answer(x, target[x])

\* An engine that cannot say, or goes while it is asked, is preserved.
AskFails(x) ==
  /\ info # Nobody
  /\ MainGoes(x, "asking", "idle")
  /\ Answer(x, target[x])

Kill(x) ==
  /\ MainGoes(x, "killing", "dying")
  /\ proc' = Signalled(target[x])
  /\ UNCHANGED <<target, child, window, attempts, launches,
                 build, info, work, socket, listeners, crashes>>

Died(x) ==
  /\ ~Alive(target[x])
  /\ MainGoes(x, "dying", "spawning")
  /\ UNCHANGED target /\ StayPut

\* Five seconds: the daemon that was told to stop is adopted after all.
StillAlive(x) ==
  /\ Alive(target[x])
  /\ MainGoes(x, "dying", "idle")
  /\ Answer(x, target[x])

\* The file goes, whatever it says by now, and a daemon is born.
Spawn(x) ==
  \E d \in Daemons :
    /\ proc[d] = "unborn" /\ build[d] = BuildOf[x]
    /\ MainGoes(x, "spawning", "waiting")
    /\ proc' = [proc EXCEPT ![d] = "starting"]
    /\ info' = Nobody
    /\ child' = [child EXCEPT ![x] = d]
    /\ UNCHANGED <<target, window, attempts, launches, build, work, socket, listeners, crashes>>

\* Whichever daemon the file names by now is taken for the one spawned.
Appeared(x) ==
  /\ info # Nobody
  /\ MainGoes(x, "waiting", "idle")
  /\ Answer(x, info)

\* Twelve seconds without a file: the window's connect throws, and nothing tries
\* again.
NeverAppeared(x) ==
  /\ info = Nobody
  /\ MainGoes(x, "waiting", "idle")
  /\ window' = [window EXCEPT ![x] = "failed"]
  /\ UNCHANGED <<target, child, attempts, launches, engineVars>>

-----------------------------------------------------------------------------
(* The window's socket. *)

Dial(x) ==
  /\ window[x] = "dialing" /\ Serves(target[x])
  /\ window' = [window EXCEPT ![x] = "open"]
  /\ socket' = [socket EXCEPT ![x] = target[x]]
  /\ attempts' = [attempts EXCEPT ![x] = 0]
  /\ UNCHANGED <<main, target, child, launches,
                 proc, build, info, work, listeners, crashes>>

\* scheduleReconnect: connect asks main again, a few times.
Reconnecting(x) ==
  \/ /\ attempts[x] < MaxAttempts
     /\ attempts' = [attempts EXCEPT ![x] = @ + 1]
     /\ window' = [window EXCEPT ![x] = "connecting"]
     /\ main' = [main EXCEPT ![x] = "looking"]
  \/ /\ attempts[x] >= MaxAttempts
     /\ window' = [window EXCEPT ![x] = "failed"]
     /\ UNCHANGED <<attempts, main>>

\* Nobody listens there: onclose fires for the failed socket too.
DialFails(x) ==
  /\ window[x] = "dialing" /\ ~Serves(target[x])
  /\ Reconnecting(x)
  /\ UNCHANGED <<target, child, launches, engineVars>>

\* The daemon stops or dies under an open socket.
SocketCloses(x) ==
  /\ window[x] = "open" /\ ~Serves(socket[x])
  /\ Reconnecting(x)
  /\ socket' = [socket EXCEPT ![x] = Nobody]
  /\ listeners' = Cleanup(x)
  /\ UNCHANGED <<target, child, launches, proc, build, info, work, crashes>>

\* The window is closed, main quits, and before-quit stops the daemon it spawned.
Quit(x) ==
  /\ main[x] # "off"
  /\ main' = [main EXCEPT ![x] = "off"]
  /\ window' = [window EXCEPT ![x] = "closed"]
  /\ socket' = [socket EXCEPT ![x] = Nobody]
  /\ listeners' = Cleanup(x)
  /\ proc' = IF child[x] # Nobody THEN Signalled(child[x]) ELSE proc
  /\ UNCHANGED <<target, child, attempts, launches, build, info, work, crashes>>

Proceed(x) ==
  \/ Adopt(x) \/ FindStale(x) \/ FindNone(x) \/ AskNobody(x) \/ AskIdle(x) \/ AskBusy(x)
  \/ AskFails(x) \/ Kill(x) \/ Died(x) \/ StillAlive(x) \/ Spawn(x) \/ Appeared(x) \/ NeverAppeared(x)
  \/ Dial(x) \/ DialFails(x) \/ SocketCloses(x)

Next ==
  \/ EngineStep /\ UNCHANGED desktopVars
  \/ \E x \in Windows : Launch(x) \/ Proceed(x) \/ Quit(x)

Spec == Init /\ [][Next]_vars

-----------------------------------------------------------------------------
\* A daemon keeps listeners only for windows with a socket to it, or the next
\* connection hears every event once per past one (server.ts, cleanup).
ListenersHaveSockets ==
  \A d \in Daemons, x \in Windows : listeners[d][x] > 0 => socket[x] = d

\* Closing a window never stops a run ("closing the UI must not kill a running
\* DAG", index.ts; 04-interfaces.md says the same).
ClosingSparesRuns ==
  [][\A x \in Windows : (window[x] # "closed" /\ window'[x] = "closed") =>
       \A d \in Daemons : work[d] = "running" => proc'[d] = proc[d]]_vars
=============================================================================
