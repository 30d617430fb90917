------------------------------ MODULE Terminal ------------------------------
(***************************************************************************)
(* cli/src/tui/run-tui.tsx and app.tsx: the session at a terminal.  A line *)
(* begins a turn, of chat or, when it asks for work, of planning, approval *)
(* and a run; lines are taken also while a turn is going on.  One approval *)
(* at a time is on the screen, where it takes all keys.  Keys go by what   *)
(* was drawn last, which follows the state of the application later.  The  *)
(* keys that only move the focus or the view are left out; what chat does, *)
(* also with the flag of a cancellation, is in Conversation, a run as a    *)
(* whole in RunSupervisor.                                                 *)
(***************************************************************************)
EXTENDS Naturals, FiniteSets

CONSTANTS
  Turns,   \* lines that are submitted
  Nodes,   \* nodes of a plan
  Short, ShortPlan,  \* turns with a smaller plan, and its nodes
  Nothing  \* no request, no supervisor

ASSUME TerminalAssumption ==
  /\ "plan" \notin Nodes /\ Short \subseteq Turns /\ ShortPlan \subseteq Nodes
  /\ Nothing \notin Turns \cup (Turns \X (Nodes \cup {"plan"})) \cup {"run", "turn"}

VARIABLES
  busy, approval,             \* AppState
  screen,       \* busy and approval as they were drawn last, which the keys go by
  resolver, supervisor,  \* refs of Root
  turn,         \* where each turn is
  node,         \* [Turns -> [Nodes -> where the node is]]
  token,        \* turns whose supervisor was cancelled
  exited,
  mingled,      \* history: two turns went on at a time
  unheard,      \* history: requests whose resolver was overwritten
  yes,          \* history: requests that a yes was meant for
  told          \* history: what was last cancelled by Esc of each turn, its "run" or a "turn" without one

history == <<mingled, unheard, yes, told>>
vars == <<busy, approval, screen, resolver, supervisor, turn, node, token, exited, history>>

PlanOf(t) == <<t, "plan">>
NodesOf(t) == IF t \in Short THEN ShortPlan ELSE Nodes
NotPlanned == [n \in Nodes |-> "todo"]
Drawn == [busy |-> busy, approval |-> approval]
Active == {t \in Turns : turn[t] \notin {"idle", "ended"}}

Init ==
  /\ busy = FALSE /\ approval = Nothing
  /\ screen = Drawn
  /\ resolver = Nothing /\ supervisor = Nothing
  /\ turn = [t \in Turns |-> "idle"]
  /\ node = [t \in Turns |-> NotPlanned]
  /\ token = {} /\ exited = FALSE
  /\ mingled = FALSE /\ unheard = {} /\ yes = {} /\ told = [t \in Turns |-> Nothing]

-----------------------------------------------------------------------------
(* The keyboard, which an approval takes over once it is drawn. *)
Render ==
  /\ ~exited /\ screen # Drawn
  /\ screen' = Drawn
  /\ UNCHANGED <<busy, approval, resolver, supervisor, turn, node, token, exited, history>>

HasKeys == ~exited /\ screen.approval = Nothing

Submitted(t, work) ==
  /\ HasKeys /\ turn[t] = "idle"
  /\ turn' = [turn EXCEPT ![t] = IF work THEN "planning" ELSE "chatting"]
  /\ busy' = TRUE
  /\ mingled' = (mingled \/ Active # {})
  /\ UNCHANGED <<approval, screen, resolver, supervisor, node, token, exited, unheard, yes, told>>
SubmitQuestion(t) == Submitted(t, FALSE)
SubmitWork(t) == Submitted(t, TRUE)

\* Mutant of Cancelled: the run is not told.
TurnCancelled == token

\* Whose supervisor is cancelled: that of the run that is held.
Cancelled == IF supervisor = Nothing THEN token ELSE token \cup {supervisor}

\* Esc cancels while the screen says that something is going on, and quits when
\* it does not, whatever is going on.
Cancel ==
  /\ HasKeys /\ screen.busy
  /\ token' = Cancelled
  /\ told' = [t \in Turns |-> IF turn[t] = "running" THEN "run" ELSE IF t \in Active THEN "turn" ELSE told[t]]
  /\ UNCHANGED <<busy, approval, screen, resolver, supervisor, turn, node, exited, mingled, unheard, yes>>
Exit ==
  /\ HasKeys /\ ~screen.busy
  /\ exited' = TRUE
  /\ turn' = [t \in Turns |-> "ended"] /\ node' = [t \in Turns |-> NotPlanned]
  /\ token' = {} /\ supervisor' = Nothing
  /\ yes' = {} /\ told' = [t \in Turns |-> Nothing]
  /\ UNCHANGED <<busy, approval, screen, resolver, mingled, unheard>>

Ended(t) == turn' = [turn EXCEPT ![t] = "ended"]

\* No plan, no run.
PlanAnswered(t, granted) ==
  /\ turn' = [turn EXCEPT ![t] = IF granted THEN "building" ELSE "ended"]
  /\ busy' = (busy /\ granted)
  /\ UNCHANGED node
\* A tool that was refused has a result like any other and the node goes on; a
\* stuck node starts again or is given up.
NodeAnswered(t, n, granted) ==
  /\ node' = [node EXCEPT ![t][n] =
       IF @ = "stuck" THEN IF granted THEN "todo" ELSE "failed"
                      ELSE IF granted THEN "acting" ELSE "working"]
  /\ UNCHANGED <<turn, busy>>

\* Somebody waits for the answer to it, and has not lost the resolver to another.
Outstanding(request) ==
  /\ request \notin unheard
  /\ \E t \in Turns :
       \/ request = PlanOf(t) /\ turn[t] = "proposed"
       \/ \E n \in Nodes : request = <<t, n>> /\ node[t][n] \in {"asking", "stuck"}

\* Whom a key is meant for: the card it is pressed at; but when that was answered
\* or overwritten before and it is only not drawn yet, whoever is waited for now.
Meant == IF screen.approval = approval \/ Outstanding(screen.approval) THEN screen.approval ELSE resolver

\* a, A or r, at the card that is drawn, for whoever asked last.  The scope of A
\* is not looked at.
Answer(granted) ==
  /\ ~exited /\ screen.approval # Nothing
  /\ approval' = Nothing /\ resolver' = Nothing
  /\ yes' = IF granted THEN yes \cup {Meant} ELSE yes
  /\ IF resolver = Nothing THEN UNCHANGED <<turn, node, busy>>
     ELSE IF resolver = PlanOf(resolver[1]) THEN PlanAnswered(resolver[1], granted)
     ELSE NodeAnswered(resolver[1], resolver[2], granted)
  /\ UNCHANGED <<screen, supervisor, token, exited, mingled, unheard, told>>

-----------------------------------------------------------------------------
(* The turns. *)

\* Mutant of Request: the card that is up stays, the resolver is the new one.
RequestBehind(request) ==
  /\ approval' = IF approval = Nothing THEN request ELSE approval
  /\ resolver' = request
  /\ unheard' = unheard \cup ({resolver} \ {Nothing})

\* A request is to be on the screen, whatever is there.
Request(request) ==
  /\ approval' = request /\ resolver' = request
  /\ unheard' = unheard \cup ({resolver} \ {Nothing})

\* Mutant of Finally: an error leaves the screen busy.
FinallyUnlessThrown(t, thrown) == Ended(t) /\ busy' = (busy /\ thrown)

Finally(t, thrown) == Ended(t) /\ busy' = FALSE

\* Chat comes to its end, by an answer, an error or the flag.
ChatEnds(t) ==
  /\ ~exited /\ turn[t] = "chatting"
  /\ \E thrown \in BOOLEAN : Finally(t, thrown)
  /\ UNCHANGED <<approval, screen, resolver, supervisor, node, token, exited, history>>

\* Planning does not look at the flag.
PlanArrives(t) ==
  /\ ~exited /\ turn[t] = "planning"
  /\ turn' = [turn EXCEPT ![t] = "proposed"]
  /\ Request(PlanOf(t))
  /\ UNCHANGED <<busy, screen, supervisor, node, token, exited, mingled, yes, told>>
PlanFails(t) ==
  /\ ~exited /\ turn[t] = "planning"
  /\ Finally(t, TRUE)
  /\ UNCHANGED <<approval, screen, resolver, supervisor, node, token, exited, history>>

\* The runner was put together, which takes asking the providers: only now Esc
\* finds a supervisor.
Built(t) ==
  /\ ~exited /\ turn[t] = "building"
  /\ turn' = [turn EXCEPT ![t] = "running"]
  /\ supervisor' = t
  /\ UNCHANGED <<busy, approval, screen, resolver, node, token, exited, history>>

NodeStarts(t, n) ==
  /\ ~exited /\ turn[t] = "running" /\ node[t][n] = "todo" /\ t \notin token
  /\ node' = [node EXCEPT ![t][n] = "working"]
  /\ yes' = yes \ {<<t, n>>}
  /\ UNCHANGED <<busy, approval, screen, resolver, supervisor, turn, token, exited, mingled, unheard, told>>

\* A tool is about to do what cannot be undone, or the node is stuck: as often as it
\* comes to that.
NodeAsks(t, n) ==
  /\ ~exited /\ node[t][n] = "working"
  /\ \E why \in {"asking", "stuck"} : node' = [node EXCEPT ![t][n] = why]
  /\ Request(<<t, n>>)
  /\ UNCHANGED <<busy, screen, supervisor, turn, token, exited, mingled, yes, told>>

\* It is done, and the node has the tool's result: the yes was for this once.
NodeActs(t, n) ==
  /\ ~exited /\ node[t][n] = "acting"
  /\ node' = [node EXCEPT ![t][n] = "working"]
  /\ yes' = yes \ {<<t, n>>}
  /\ UNCHANGED <<busy, approval, screen, resolver, supervisor, turn, token, exited, mingled, unheard, told>>

\* A node that was cancelled stops where it is.
NodeEnds(t, n) ==
  /\ ~exited /\ node[t][n] = "working"
  /\ \E status \in {"done", "failed"} \cup (IF t \in token THEN {"stopped"} ELSE {}) :
       node' = [node EXCEPT ![t][n] = status]
  /\ UNCHANGED <<busy, approval, screen, resolver, supervisor, turn, token, exited, history>>

GoingOn(t) == {n \in Nodes : node[t][n] \in {"working", "asking", "stuck", "acting"}}

\* Mutant of Settles: a run waits for what can no longer come, because a node failed.
SettlesIfAllDone(t) ==
  \/ GoingOn(t) = {} /\ (t \in token \/ \A n \in NodesOf(t) : node[t][n] = "done")
  \/ \E n \in Nodes : node[t][n] = "stopped"

\* The run settles: nothing goes on and all is done, something failed or it was
\* cancelled; or a node stopped, whatever its neighbours do.
Settles(t) ==
  \/ GoingOn(t) = {} /\ (t \in token \/ (\A n \in NodesOf(t) : node[t][n] = "done") \/ (\E n \in Nodes : node[t][n] = "failed"))
  \/ \E n \in Nodes : node[t][n] = "stopped"
RunEnds(t) ==
  /\ ~exited /\ turn[t] = "running" /\ Settles(t)
  /\ Finally(t, FALSE)
  /\ supervisor' = Nothing
  /\ UNCHANGED <<approval, screen, resolver, node, token, exited, history>>

-----------------------------------------------------------------------------
Keys ==
  \/ Cancel \/ Exit
  \/ \E granted \in BOOLEAN : Answer(granted)
  \/ \E t \in Turns : SubmitQuestion(t) \/ SubmitWork(t)
NodeSteps(t) == \E n \in NodesOf(t) : NodeStarts(t, n) \/ NodeAsks(t, n) \/ NodeActs(t, n) \/ NodeEnds(t, n)
Going(t) == ChatEnds(t) \/ PlanArrives(t) \/ PlanFails(t) \/ Built(t) \/ RunEnds(t) \/ NodeSteps(t)
Next == Keys \/ Render \/ \E t \in Turns : Going(t)

\* Models answer, the screen is drawn, and somebody sits at the terminal.  A node
\* does not ask forever: its steps are counted, and a stuck one is given up in the end.
Fairness ==
  /\ \A t \in Turns : WF_vars(Going(t)) /\ \A n \in Nodes : SF_vars(NodeEnds(t, n))
  /\ WF_vars(Render)
  /\ WF_vars(\E granted \in BOOLEAN : Answer(granted))
Spec == Init /\ [][Next]_vars /\ Fairness

-----------------------------------------------------------------------------
(* Properties. *)

\* Nothing of a plan is executed, and nothing that needs a yes of its own is
\* done, unless a yes was meant just for that, this time, however many turns and
\* nodes ask at a time: a yes never passes over an asker that can still be heard
\* and whose card is on the screen, or is for anybody but that card once the screen
\* has caught up (planAndRun; onApproval, which does not look at the id it is given).
NothingRunsUnapproved ==
  \A t \in Turns :
    /\ turn[t] \in {"building", "running"} => PlanOf(t) \in yes
    /\ \A n \in Nodes : node[t][n] # "todo" => PlanOf(t) \in yes
    /\ \A n \in Nodes : node[t][n] = "acting" => <<t, n>> \in yes

\* As long as turns come one after the other, the terminal is busy exactly while
\* one goes on: Esc, once that is drawn, neither quits under it nor cancels what
\* has ended (onSubmit, the finally; App, key.escape).
BusyWhileATurnGoesOn == ~mingled => (busy <=> Active # {})

\* A run that Esc was pressed in starts no further node, as long as turns come
\* one after the other (onCancel, setSupervisor).
EscStopsTheRun ==
  [][\A t \in Turns, n \in Nodes :
       node[t][n] = "todo" /\ node'[t][n] # "todo" /\ ~mingled => told[t] # "run"]_vars

\* Every turn comes to an end, unless a request was overwritten: nothing
\* else makes an asker wait forever (Root, approvalResolver).
EveryTurnEnds ==
  \A t \in Turns : turn[t] # "idle" ~> (turn[t] = "ended" \/ unheard # {})

\* Whatever is let go was on the screen when the key was pressed: it is not, when a
\* key comes between a request and the drawing of its card.
GrantedOnSight ==
  [][\A t \in Turns :
       /\ turn[t] = "proposed" /\ turn'[t] = "building" => screen.approval = PlanOf(t)
       /\ \A n \in Nodes :
            node[t][n] = "asking" /\ node'[t][n] = "acting" => screen.approval = <<t, n>>]_vars

\* Whenever it is pressed in a turn, Esc cancels it.
EscIsHeeded ==
  [][\A t \in Turns, n \in Nodes :
       node[t][n] = "todo" /\ node'[t][n] # "todo" => told[t] = Nothing]_vars
=============================================================================
