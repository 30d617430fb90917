----------------------------- MODULE RunEvents -----------------------------
(***************************************************************************)
(* The run supervisor with the event log it writes: each step appends the  *)
(* events of supervisor.ts, locks.ts and the rollback hook, in order, and  *)
(* view is the fold of the log so far, window what the desktop shows.      *)
(***************************************************************************)
EXTENDS RunSupervisor, EventFold

VARIABLES
  view,    \* the run folded from the log
  window   \* what the desktop makes of the same events

eventVars == <<vars, view, window>>

Log(events) == view' = Fold(view, events) /\ window' = Show(window, events)

Unlogged == UNCHANGED <<view, window>>

Loggable(n) == {r \in HeldBy(locks, n) : ~locks[r].parked}

\* lock.released, unless release found no row to delete.
Freed(n) ==
  IF Loggable(n) = {} THEN <<>> ELSE <<Rows("lock.released", n, Loggable(n))>>

\* Mutant of Parked: parking is logged as a release, as in the original flow.
ParkedAsRelease(n) ==
  <<Event("node.parked", n), Rows("lock.released", n, HeldBy(locks, n)),
    Event("approval.requested", n)>>

\* The request itself is logged whether or not a hook waits for the answer.
Parked(n) == <<Event("node.parked", n), Event("approval.requested", n)>>

\* The rollback hook of cli/src/supervisor.ts logs node.rolled_back before
\* it returns; rollbackNode logs it again afterwards.
HookRollsBack(n) == <<Event("node.rolled_back", n)>>

FailureEvents(n, kind) ==
  LET action == Classify(kind, attempts[n] + 1, MaxAttempts)
      tail == [ retry |-> Freed(n) \o <<Counted("node.retried", n, attempts[n] + 1)>>,
                fallback_provider |-> Freed(n),
                widen_retrieval |-> <<>>,
                escalate_to_human |-> Parked(n),
                rollback |-> HookRollsBack(n) ]
  IN <<Event("node.failed", n)>> \o tail[action]

LoopEvent ==
  [ running |-> <<>>,
    completed |-> <<Event("run.completed", NoNode)>>,
    paused |-> <<Event("run.paused", NoNode)>>,
    failed |-> <<Event("run.failed", NoNode)>>,
    cancelled |-> <<Event("run.cancelled", NoNode)>> ]

\* Mutant of DirtiedEvents: the cascade is not logged.
NoDirtiedEvents(n) == <<>>

\* An event for each dirtied node; their order does not matter to the fold.
DirtiedEvents(n) == [i \in 1 .. Cardinality(DirtiedBy(n)) |->
                       Event("node.dirtied", SetToSeq(DirtiedBy(n))[i])]

\* The depth cap is reported as a failure of the run, which goes on.
TruncatedEvents(n) ==
  IF Truncated(n, Consumers, Feeds, Writers, MaxCascadeDepth)
  THEN <<Event("run.failed", NoNode)>> ELSE <<>>

-----------------------------------------------------------------------------
LoggedDispatch == Dispatch /\ Log(LoopEvent[loop'])

LoggedLaunch(n) ==
  /\ Launch(n)
  /\ Log(IF ~CanAcquire(locks, n)
            THEN <<Event("lock.contended", n), Event("node.blocked", n)>>
            ELSE <<Rows("lock.acquired", n, Writes[n]), Event("node.started", n)>> \o
                 IF exhausted
                 THEN <<Event("node.failed", n)>> \o HookRollsBack(n) ELSE <<>>)

LoggedPass(n) == ExecutePasses(n) /\ Unlogged

LoggedEscalation(n) ==
  GatesEscalate(n) /\ Log(<<Event("gate.failed", n)>> \o Parked(n))

LoggedFailure(n, kind) == ExecuteFails(n, kind) /\ Log(FailureEvents(n, kind))

LoggedCancellation(n) ==
  /\ ExecuteCancelled(n)
  /\ IF loop = "running" THEN Log(LoopEvent["cancelled"]) ELSE Unlogged

LoggedApproval(n) ==
  ReviewApproves(n) /\ Log(<<Event("review.approved", n), Event("node.done", n)>> \o Freed(n))

\* Mutant of LoggedRejection: the round after this one is logged.
LoggedNextRound(n, critique) ==
  /\ ReviewRejects(n, critique)
  /\ Log(<<Counted("review.rejected", n, rounds'[n] + 1)>> \o
            IF status'[n] = "parked" THEN Parked(n) ELSE Freed(n))

LoggedRejection(n, critique) ==
  /\ ReviewRejects(n, critique)
  /\ Log(<<Counted("review.rejected", n, rounds'[n])>> \o
            IF status'[n] = "parked" THEN Parked(n) ELSE Freed(n))

LoggedGrant(n) == HumanGrants(n) /\ Log(<<Event("approval.granted", n)>>)

\* Mutant of LoggedDenial: the denial is not logged.
LoggedRelease(n) == HumanDenies(n) /\ Log(<<Rows("lock.released", n, {})>>)

\* A forced release is logged without the resources it freed.
LoggedDenial(n) ==
  HumanDenies(n) /\ Log(<<Event("approval.denied", n), Rows("lock.released", n, {})>>)

LoggedWidening(n) == WideningDone(n) /\ Log(Freed(n))

LoggedRollback(n) ==
  /\ RollbackDone(n)
  /\ Log(Freed(n) \o <<Event("node.rolled_back", n)>> \o
            DirtiedEvents(n) \o TruncatedEvents(n))

Beginning == <<Event("run.started", NoNode)>>

EventInit ==
  /\ Init
  /\ view = Fold(EmptyView(Nodes), Beginning)
  /\ window = Show(Blank(Nodes), Beginning)

EventNext ==
  \/ LoggedDispatch
  \/ (Cancel \/ BudgetRunsOut) /\ Unlogged
  \/ \E n \in Nodes :
       \/ LoggedLaunch(n) \/ LoggedPass(n) \/ LoggedEscalation(n)
       \/ \E kind \in ErrorKinds : LoggedFailure(n, kind)
       \/ LoggedCancellation(n) \/ LoggedApproval(n)
       \/ \E c \in Critiques : LoggedRejection(n, c)
       \/ LoggedGrant(n) \/ LoggedDenial(n) \/ LoggedWidening(n) \/ LoggedRollback(n)

EventSpec == EventInit /\ [][EventNext]_eventVars

\* The event loop's fairness; logging adds no wait of its own.
EventFairSpec == EventSpec /\ Fairness

-----------------------------------------------------------------------------
ViewTypeOK ==
  view \in [ run : {"running"} \cup Endings,
             node : [Nodes -> Statuses \cup {"dirty"}],
             tries : [Nodes -> 0 .. MaxAttempts],
             rounds : [Nodes -> 0 .. MaxReviewRounds + 1],
             held : SUBSET Resources,
             asks : SUBSET Nodes ]

\* The log never forgets a row: whatever is in the lock table, the folded run
\* shows as held, although acquire and release log only what they changed.
HeldRowsAreShown == \A n \in Nodes : HeldBy(locks, n) \subseteq view.held

\* The log says done of exactly the nodes that are done, through review,
\* cascades that requeue a node and settlements that come after the run ended.
DoneIsShownExactly == \A n \in Nodes : view.node[n] = "done" <=> status[n] = "done"

\* The approvals shown as pending are those a node really waits for.
PendingIsShownExactly == view.asks = {n \in Nodes : pc[n] = "awaiting_human"}

\* The desktop's sign that a run is at work goes with the supervisor's loop: on
\* from the start, off as soon as the run ended in whichever way, although steps
\* that settle afterwards go on logging (event-lines.ts, "started and nothing has
\* ended it"); off too once the log has called the run failed, as a truncated
\* cascade does while the loop goes on.
ActivityIsShown == window.active <=> loop = "running" /\ view.run # "failed"

\* The lanes of the timeline, which knows neither retries nor cascades, are still
\* right about what is finished: every accepted node's lane says done, and a lane
\* that says so of another node is one the log has dirtied since (Timeline.tsx,
\* "Scrubbing replays the fold over the event log").
LanesKnowDone ==
  \A n \in Nodes :
    /\ status[n] = "done" => window.lanes[n] = "done"
    /\ window.lanes[n] = "done" => status[n] = "done" \/ view.node[n] = "dirty"

\* Replaying the log so far yields the status each node really has (fold.ts,
\* "replaying to sequence N yields exactly the state the run had at sequence N").
\* A dirtied node is a ready one.
ReplayYieldsStatus ==
  \A n \in Nodes :
    view.node[n] = status[n] \/ (view.node[n] = "dirty" /\ status[n] = "ready")

\* A run shown as failed has failed (supervisor.ts, "a terminal failure that the
\* daemon and desktop can represent honestly").
FailedIsTerminal == view.run = "failed" => loop = "failed"
=============================================================================
