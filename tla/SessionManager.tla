--------------------------- MODULE SessionManager ---------------------------
(***************************************************************************)
(* The runs of daemon/src/sessions.ts: plan, start, reject and cancel, as  *)
(* several clients call them.  A run object is named by the request that   *)
(* made it; its runId is the millisecond at which planning began, and both *)
(* maps are keyed by that id.  What happens inside a supervisor is left    *)
(* out.                                                                    *)
(***************************************************************************)
EXTENDS Naturals

CONSTANTS
  Objects,   \* the run objects that calls of plan create
  Ids,       \* the run ids the clock yields, as the instants 1, 2, ...
  Nothing,   \* no entry
  MaxStarts  \* bound: how often one run object is started

ASSUME SessionAssumption ==
  Ids \subseteq Nat /\ Nothing \notin Objects /\ MaxStarts \in Nat

VARIABLES
  now,        \* Date.now(), which may stand still between two calls
  runId,      \* the id of each object, once planning began
  stage,      \* where the object is: new, planning, then ActiveRun.status
  runs,       \* SessionManager.runs
  plans,      \* SessionManager.plans
  token,      \* the objects whose supervisor was cancelled
  starts,     \* how often each object was started
  active,     \* supervisor.run calls under way for each object
  rejected    \* history: objects turned down while they awaited approval

vars == <<now, runId, stage, runs, plans, token, starts, active, rejected>>

Stages == {"new", "planning", "no_plan", "awaiting_approval", "running", "done"}
Unset == 0

Init ==
  /\ now \in Ids
  /\ runId = [o \in Objects |-> Unset]
  /\ stage = [o \in Objects |-> "new"]
  /\ runs = [i \in Ids |-> Nothing]
  /\ plans = [i \in Ids |-> Nothing]
  /\ token = {}
  /\ starts = [o \in Objects |-> 0]
  /\ active = [o \in Objects |-> 0]
  /\ rejected = {}

\* Time passes between two calls, or does not.
Tick ==
  /\ now + 1 \in Ids
  /\ now' = now + 1
  /\ UNCHANGED <<runId, stage, runs, plans, token, starts, active, rejected>>

\* plan up to the planner's await: the id exists, the maps do not know it yet.
Plan(o) ==
  /\ stage[o] = "new"
  /\ stage' = [stage EXCEPT ![o] = "planning"]
  /\ runId' = [runId EXCEPT ![o] = now]
  /\ UNCHANGED <<now, runs, plans, token, starts, active, rejected>>

\* The planner threw; no entry is made.
PlanningFails(o) ==
  /\ stage[o] = "planning"
  /\ stage' = [stage EXCEPT ![o] = "no_plan"]
  /\ UNCHANGED <<now, runId, runs, plans, token, starts, active, rejected>>

Propose(o) ==
  /\ stage[o] = "planning"
  /\ stage' = [stage EXCEPT ![o] = "awaiting_approval"]
  /\ runs' = [runs EXCEPT ![runId[o]] = o]
  /\ plans' = [plans EXCEPT ![runId[o]] = o]
  /\ UNCHANGED <<now, runId, token, starts, active, rejected>>

\* Mutant of Start: a running object is started again.
StartAgain(i) ==
  LET o == plans[i] IN
  /\ o # Nothing
  /\ starts[o] < MaxStarts
  /\ stage' = [stage EXCEPT ![o] = "running"]
  /\ starts' = [starts EXCEPT ![o] = @ + 1]
  /\ active' = [active EXCEPT ![o] = @ + 1]
  /\ UNCHANGED <<now, runId, runs, plans, token, rejected>>

\* An unknown id throws and a running object answers "already running"; neither
\* changes anything.  A run that is done starts again.
Start(i) ==
  LET o == plans[i] IN
  /\ o # Nothing
  /\ stage[o] # "running"
  /\ starts[o] < MaxStarts
  /\ stage' = [stage EXCEPT ![o] = "running"]
  /\ starts' = [starts EXCEPT ![o] = @ + 1]
  /\ active' = [active EXCEPT ![o] = @ + 1]
  /\ UNCHANGED <<now, runId, runs, plans, token, rejected>>

\* Mutant of Reject: only the listing forgets the object.
RejectUnlisting(i) ==
  LET o == plans[i] IN
  /\ o # Nothing
  /\ runs' = [runs EXCEPT ![i] = Nothing]
  /\ rejected' = IF stage[o] = "awaiting_approval" THEN rejected \cup {o} ELSE rejected
  /\ UNCHANGED <<now, runId, stage, plans, token, starts, active>>

\* The status is not looked at: a running object is taken out of the maps too.
Reject(i) ==
  LET o == plans[i] IN
  /\ o # Nothing
  /\ plans' = [plans EXCEPT ![i] = Nothing]
  /\ runs' = [runs EXCEPT ![i] = Nothing]
  /\ rejected' = IF stage[o] = "awaiting_approval" THEN rejected \cup {o} ELSE rejected
  /\ UNCHANGED <<now, runId, stage, token, starts, active>>

\* cancel looks in runs only; an id it does not find is reported, not remembered.
Cancel(i) ==
  /\ runs[i] # Nothing
  /\ token' = token \cup {runs[i]}
  /\ UNCHANGED <<now, runId, stage, runs, plans, starts, active, rejected>>

\* Mutant of RunSettles: both handlers of one settlement run.
RunSettlesTwice(o) ==
  /\ active[o] > 0
  /\ active' = [active EXCEPT ![o] = @ - 2]
  /\ stage' = [stage EXCEPT ![o] = "done"]
  /\ UNCHANGED <<now, runId, runs, plans, token, starts, rejected>>

\* supervisor.run settles; the entries stay.
RunSettles(o) ==
  /\ active[o] > 0
  /\ active' = [active EXCEPT ![o] = @ - 1]
  /\ stage' = [stage EXCEPT ![o] = "done"]
  /\ UNCHANGED <<now, runId, runs, plans, token, starts, rejected>>

Next ==
  \/ Tick
  \/ \E o \in Objects : Plan(o) \/ PlanningFails(o) \/ Propose(o) \/ RunSettles(o)
  \/ \E i \in Ids : Start(i) \/ Reject(i) \/ Cancel(i)

Spec == Init /\ [][Next]_vars

-----------------------------------------------------------------------------
TypeOK ==
  /\ now \in Ids
  /\ runId \in [Objects -> Ids \cup {Unset}]
  /\ stage \in [Objects -> Stages]
  /\ runs \in [Ids -> Objects \cup {Nothing}]
  /\ plans \in [Ids -> Objects \cup {Nothing}]
  /\ token \in SUBSET Objects
  /\ starts \in [Objects -> 0 .. MaxStarts]
  /\ active \in [Objects -> 0 .. MaxStarts]
  /\ rejected \in SUBSET Objects

\* A plan is executed by one supervisor.run at a time, however many clients
\* approve it and however often it is started again: two would run the same
\* nodes under the same lock owners.
OneExecutionAtATime == \A o \in Objects : active[o] <= 1

\* A proposal that was turned down is never executed, whatever another client
\* still has on screen.
RejectedNeverRuns ==
  [][\A o \in rejected : active'[o] > 0 => active[o] > 0]_vars

\* A running run can be cancelled from a client (01-flow-review.md F14: without
\* "a way for a human to stop a run mid-flight" a desktop app is unusable).
RunningIsCancellable ==
  \A o \in Objects : active[o] > 0 => runs[runId[o]] = o

\* What is shown for approval can be approved: no other plan took its id
\* (sessions.ts, plan: `run-${Date.now()}`).
ProposalIsAnswerable ==
  \A o \in Objects \ rejected : stage[o] = "awaiting_approval" => plans[runId[o]] = o
=============================================================================
