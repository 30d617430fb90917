---------------------------- MODULE RunSupervisor ----------------------------
(***************************************************************************)
(* One run of core/src/run/supervisor.ts: the scheduling loop, the nodes   *)
(* in flight, and the way out of each failure.  The code is single         *)
(* threaded; control moves only at an await, so an action is what happens  *)
(* between two awaits.  pc[n] names the await at which node n is           *)
(* suspended.                                                              *)
(***************************************************************************)
EXTENDS LockTable, Recovery, FiniteSets

CONSTANTS
  Nodes,            \* the plan's nodes, owners of this run's rows
  Position,         \* Position[n]: place of n in the plan's list
  Deps,             \* Deps[n]: the nodes n waits for
  Width,            \* options.concurrency
  MaxAttempts,      \* options.maxAttempts
  MaxReviewRounds,  \* options.maxReviewRounds
  MaxCascadeDepth,  \* options.maxCascadeDepth
  Critiques,        \* what reviewers object to, up to semanticHash
  HasApprover,      \* the requestApproval hook is wired
  Budgeted,         \* a budget limit is configured
  MaxGrants,        \* bound: how often the human says yes in one run
  Leftover          \* rows earlier runs left in the database

ASSUME RunAssumption ==
  /\ Nodes \subseteq Owners
  /\ IsFiniteSet(Nodes)
  /\ \A m, n \in Nodes : NodeOf[m] = NodeOf[n] => m = n
  /\ Position \in [Nodes -> Nat]
  /\ \A m, n \in Nodes : Position[m] = Position[n] => m = n
  /\ Deps \in [Nodes -> SUBSET Nodes]
  /\ Width \in Nat \ {0}
  /\ MaxAttempts \in Nat \ {0}
  /\ MaxReviewRounds \in Nat
  /\ MaxCascadeDepth \in Nat
  /\ HasApprover \in BOOLEAN
  /\ Budgeted \in BOOLEAN
  /\ MaxGrants \in Nat
  /\ Leftover \in Tables
  /\ \A r \in Resources : Leftover[r].owner \notin Nodes

VARIABLES
  status,     \* node.status
  attempts,   \* node.attempts
  rounds,     \* ReviewLoop.rounds, counted up to one past the cap
  seen,       \* ReviewLoop.seen: critiques the node was already sent back with
  pc,         \* the await at which the node's runNode is suspended
  launching,  \* members of the batch whose runNode has not been called yet
  loop,       \* the scheduling loop: running, or how it ended
  cancelled,  \* CancellationToken.cancelled
  exhausted,  \* BudgetMeter.state() is "exceeded"
  grants,     \* approvals granted so far
  locks,      \* the lock table
  outdated    \* history: nodes that read, before it was rolled back, a write
              \* set that intersects their reads, and have not restarted since

vars == <<status, attempts, rounds, seen, pc, launching, loop, cancelled,
          exhausted, grants, locks, outdated>>
reviewVars == <<rounds, seen>>
loopVars == <<launching, cancelled, exhausted, grants>>

Statuses == {"pending", "blocked", "running", "parked", "ready", "done",
             "failed", "rolled_back"}
Suspensions == {"idle", "executing", "reviewing", "widening", "rolling_back",
                "awaiting_human"}
Endings == {"completed", "failed", "paused", "cancelled"}

InFlight == {n \in Nodes : pc[n] # "idle"}
SetsIntersect(a, b) == \E r \in a, s \in b : <<r, s>> \in Overlap
Feeds == {p \in Nodes \X Nodes : SetsIntersect(Reads[p[1]], Writes[p[2]])}

Init ==
  /\ status = [n \in Nodes |-> "pending"]
  /\ attempts = [n \in Nodes |-> 0]
  /\ rounds = [n \in Nodes |-> 0]
  /\ seen = [n \in Nodes |-> {}]
  /\ pc = [n \in Nodes |-> "idle"]
  /\ launching = {}
  /\ loop = "running"
  /\ cancelled = FALSE
  /\ exhausted = FALSE
  /\ grants = 0
  /\ locks = Leftover
  /\ outdated = {}

-----------------------------------------------------------------------------
(* The scheduling loop. *)

IsReady(n) ==
  /\ status[n] \in {"pending", "blocked", "ready"}
  /\ \A d \in Deps[n] : status[d] = "done"

Ready == {n \in Nodes : IsReady(n)}

\* ready.slice(0, width)
Batch == {n \in Ready : Cardinality({m \in Ready : Position[m] < Position[n]}) < Width}

\* Mutant of ThrowIfCancelled: the loop does not look at the token.
NeverThrows == FALSE

ThrowIfCancelled == cancelled

AllDone == \A n \in Nodes : status[n] = "done"

\* The top of the loop, reached when every runNode of the last batch has
\* settled: stop, or form the next batch.
Dispatch ==
  /\ loop = "running" /\ launching = {} /\ InFlight = {}
  /\ \/ /\ ThrowIfCancelled
        /\ loop' = "cancelled"
        /\ UNCHANGED launching
     \/ /\ ~ThrowIfCancelled
        /\ AllDone
        /\ loop' = "completed"
        /\ UNCHANGED launching
     \/ /\ ~ThrowIfCancelled
        /\ ~AllDone
        /\ Ready = {}
        /\ loop' = IF \E n \in Nodes : status[n] = "parked" THEN "paused" ELSE "failed"
        /\ UNCHANGED launching
     \/ /\ ~ThrowIfCancelled
        /\ Ready # {}
        /\ launching' = Batch
        /\ UNCHANGED loop
  /\ UNCHANGED <<status, attempts, reviewVars, pc, cancelled, exhausted, grants,
                 locks, outdated>>

\* runNode up to its first await.  The batch is launched by one synchronous
\* loop in plan order: while launching is not empty nothing else happens but
\* that the clock, which check() reads for each node, passes the limit.
Launch(n) ==
  /\ n \in launching
  /\ \A m \in launching : Position[n] <= Position[m]
  /\ launching' = launching \ {n}
  /\ locks' = Acquire(locks, n)
  /\ IF CanAcquire(locks, n)
     THEN /\ status' = [status EXCEPT ![n] = "running"]
          /\ outdated' = outdated \ {n}
          /\ IF exhausted
             THEN /\ attempts' = [attempts EXCEPT ![n] = @ + 1]
                  /\ pc' = [pc EXCEPT ![n] = "rolling_back"]
             ELSE /\ pc' = [pc EXCEPT ![n] = "executing"]
                  /\ UNCHANGED attempts
     ELSE /\ status' = [status EXCEPT ![n] = "blocked"]
          /\ UNCHANGED <<attempts, pc, outdated>>
  /\ UNCHANGED <<reviewVars, loop, cancelled, exhausted, grants>>

-----------------------------------------------------------------------------
(* The ways out of an await. *)

Resumes(n, await) == launching = {} /\ pc[n] = await

\* Runnable again, with its locks given back.
Requeue(n) ==
  /\ status' = [status EXCEPT ![n] = "ready"]
  /\ locks' = Release(locks, n)
  /\ pc' = [pc EXCEPT ![n] = "idle"]

ParkNode(n) ==
  /\ status' = [status EXCEPT ![n] = "parked"]
  /\ locks' = Park(locks, n)
  /\ pc' = [pc EXCEPT ![n] = IF HasApprover THEN "awaiting_human" ELSE "idle"]

\* handleFailure up to its first await.
HandleFailure(n, kind) ==
  LET action == Classify(kind, attempts[n] + 1, MaxAttempts) IN
  /\ attempts' = [attempts EXCEPT ![n] = @ + 1]
  /\ \/ action \in {"retry", "fallback_provider"} /\ Requeue(n)
     \/ action = "escalate_to_human" /\ ParkNode(n)
     \/ /\ action \in {"widen_retrieval", "rollback"}
        /\ pc' = [pc EXCEPT ![n] = IF action = "rollback" THEN "rolling_back" ELSE "widening"]
        /\ UNCHANGED <<status, locks>>

\* executeNode resolves with a gate vector that lets the node go to review.
ExecutePasses(n) ==
  /\ Resumes(n, "executing")
  /\ pc' = [pc EXCEPT ![n] = "reviewing"]
  /\ UNCHANGED <<status, attempts, reviewVars, loopVars, loop, locks, outdated>>

\* A blocking gate that no retry may fix sends the node to a human (F12).
GatesEscalate(n) ==
  /\ Resumes(n, "executing")
  /\ ParkNode(n)
  /\ UNCHANGED <<attempts, reviewVars, loopVars, loop, outdated>>

\* executeNode throws, or its retryable blocking gates fail.
ExecuteFails(n, kind) ==
  /\ Resumes(n, "executing")
  /\ HandleFailure(n, kind)
  /\ UNCHANGED <<reviewVars, loopVars, loop, outdated>>

\* executeNode notices the token: the error leaves runNode with the locks in
\* place, rejects Promise.all and ends the loop while siblings are in flight.
ExecuteCancelled(n) ==
  /\ Resumes(n, "executing")
  /\ cancelled
  /\ pc' = [pc EXCEPT ![n] = "idle"]
  /\ loop' = IF loop = "running" THEN "cancelled" ELSE loop
  /\ UNCHANGED <<status, attempts, reviewVars, loopVars, locks, outdated>>

\* Mutant of ReviewApproves: the locks are not given back.
ApproveKeepingLocks(n) ==
  /\ Resumes(n, "reviewing")
  /\ status' = [status EXCEPT ![n] = "done"]
  /\ pc' = [pc EXCEPT ![n] = "idle"]
  /\ UNCHANGED <<attempts, reviewVars, loopVars, loop, locks, outdated>>

\* The reviewer is satisfied, or the hook is not wired.
ReviewApproves(n) ==
  /\ Resumes(n, "reviewing")
  /\ status' = [status EXCEPT ![n] = "done"]
  /\ locks' = Release(locks, n)
  /\ pc' = [pc EXCEPT ![n] = "idle"]
  /\ UNCHANGED <<attempts, reviewVars, loopVars, loop, outdated>>

\* ReviewLoop.reject, rounds already counted: past the cap, or on a critique the
\* node was sent back with before, a human decides.
ReviewEscalates(n, critique) == rounds'[n] > MaxReviewRounds \/ critique \in seen[n]

ReviewRejects(n, critique) ==
  /\ Resumes(n, "reviewing")
  /\ rounds' = [rounds EXCEPT ![n] = IF @ > MaxReviewRounds THEN @ ELSE @ + 1]
  /\ \/ ReviewEscalates(n, critique) /\ ParkNode(n) /\ UNCHANGED seen
     \/ /\ ~ReviewEscalates(n, critique)
        /\ seen' = [seen EXCEPT ![n] = @ \cup {critique}]
        /\ Requeue(n)
  /\ UNCHANGED <<attempts, loopVars, loop, outdated>>

\* The approval hook grants: the locks stay with the node until it runs again.
HumanGrants(n) ==
  /\ Resumes(n, "awaiting_human")
  /\ grants < MaxGrants
  /\ grants' = grants + 1
  /\ locks' = Unpark(locks, n)
  /\ status' = [status EXCEPT ![n] = "ready"]
  /\ attempts' = [attempts EXCEPT ![n] = 0]
  /\ pc' = [pc EXCEPT ![n] = "idle"]
  /\ UNCHANGED <<reviewVars, launching, loop, cancelled, exhausted, outdated>>

\* Mutant of HumanDenies: release, which skips parked rows.
DenyReleasing(n) ==
  /\ Resumes(n, "awaiting_human")
  /\ locks' = Release(locks, n)
  /\ status' = [status EXCEPT ![n] = "failed"]
  /\ pc' = [pc EXCEPT ![n] = "idle"]
  /\ UNCHANGED <<attempts, reviewVars, loopVars, loop, outdated>>

HumanDenies(n) ==
  /\ Resumes(n, "awaiting_human")
  /\ locks' = ForceRelease(locks, n)
  /\ status' = [status EXCEPT ![n] = "failed"]
  /\ pc' = [pc EXCEPT ![n] = "idle"]
  /\ UNCHANGED <<attempts, reviewVars, loopVars, loop, outdated>>

WideningDone(n) ==
  /\ Resumes(n, "widening")
  /\ Requeue(n)
  /\ UNCHANGED <<attempts, reviewVars, loopVars, loop, outdated>>

\* What the cascade of n's rollback sends back to the queue.
Consumers == {m \in Nodes : status[m] \in ConsumedStatuses}
DirtiedBy(n) == Dirtied(n, Consumers, Feeds, MaxCascadeDepth)
Writers == {m \in Nodes : Writes[m] # {}}

\* Mutants of RollbackDone: the rows of dirtied nodes go too; a dirtied node gets
\* the status of its event.
RollbackFreeingDirtied(n) ==
  /\ Resumes(n, "rolling_back")
  /\ status' = [m \in Nodes |-> IF m \in DirtiedBy(n) THEN "ready"
                                ELSE IF m = n THEN "rolled_back" ELSE status[m]]
  /\ attempts' = [m \in Nodes |-> IF m \in DirtiedBy(n) THEN 0 ELSE attempts[m]]
  /\ locks' = [r \in Resources |->
                 IF locks[r].owner \in DirtiedBy(n) \cup {n} THEN Free ELSE locks[r]]
  /\ pc' = [pc EXCEPT ![n] = "idle"]
  /\ UNCHANGED <<reviewVars, loopVars, loop, outdated>>

RollbackMarkingDirty(n) ==
  /\ Resumes(n, "rolling_back")
  /\ status' = [m \in Nodes |-> IF m \in DirtiedBy(n) THEN "dirty"
                                ELSE IF m = n THEN "rolled_back" ELSE status[m]]
  /\ locks' = Release(locks, n)
  /\ pc' = [pc EXCEPT ![n] = "idle"]
  /\ UNCHANGED <<attempts, reviewVars, loopVars, loop, outdated>>

\* The rollback hook returned: give the locks back, then dirty every consumer,
\* one that is still in flight included.
RollbackDone(n) ==
  /\ Resumes(n, "rolling_back")
  /\ LET dirtied == DirtiedBy(n) IN
     /\ status' = [m \in Nodes |-> IF m \in dirtied THEN "ready"
                                   ELSE IF m = n THEN "rolled_back" ELSE status[m]]
     /\ attempts' = [m \in Nodes |-> IF m \in dirtied THEN 0 ELSE attempts[m]]
  /\ locks' = Release(locks, n)
  /\ pc' = [pc EXCEPT ![n] = "idle"]
  /\ outdated' = outdated \cup
       {m \in Nodes \ {n} : /\ <<m, n>> \in Feeds
                            /\ status[m] = "done" \/ pc[m] \in {"executing", "reviewing"}}
  /\ UNCHANGED <<reviewVars, loopVars, loop>>

-----------------------------------------------------------------------------
(* The world. *)

\* run.cancel: the token flips; whoever looks at it next stops.  The request
\* arrives through the event loop, which is idle only while a node is in flight:
\* from the last settlement to the next launch there are only microtasks.
Cancel ==
  /\ loop = "running" /\ launching = {} /\ InFlight # {}
  /\ ~cancelled
  /\ cancelled' = TRUE
  /\ UNCHANGED <<status, attempts, reviewVars, pc, launching, loop, exhausted,
                 grants, locks, outdated>>

\* A limit is passed: tokens were spent, or time went by, which it does between
\* two launches of one batch too.
BudgetRunsOut ==
  /\ Budgeted /\ loop = "running"
  /\ ~exhausted
  /\ exhausted' = TRUE
  /\ UNCHANGED <<status, attempts, reviewVars, pc, launching, loop, cancelled,
                 grants, locks, outdated>>

Settle(n) ==
  \/ ExecutePasses(n) \/ GatesEscalate(n) \/ ExecuteCancelled(n)
  \/ \E kind \in ErrorKinds : ExecuteFails(n, kind)
  \/ ReviewApproves(n) \/ \E c \in Critiques : ReviewRejects(n, c)
  \/ HumanGrants(n) \/ HumanDenies(n) \/ WideningDone(n) \/ RollbackDone(n)

Proceed == Dispatch \/ \E n \in Nodes : Launch(n) \/ Settle(n)

Next == Proceed \/ Cancel \/ BudgetRunsOut

Spec == Init /\ [][Next]_vars

\* The event loop runs what is runnable and every hook's promise settles (the
\* approval broker answers a silent human with a denial).  Which of the runnable
\* continuations runs is left open, and nobody must cancel.
Fairness == WF_vars(Proceed)

FairSpec == Spec /\ Fairness

\* The same, except that nobody answers a node that waits for a human: such a
\* step may stay enabled for ever.
ProceedUnattended ==
  \/ Dispatch
  \/ \E n \in Nodes : Launch(n) \/ (pc[n] # "awaiting_human" /\ Settle(n))
UnattendedSpec == Spec /\ WF_vars(ProceedUnattended)

-----------------------------------------------------------------------------
TypeOK ==
  /\ status \in [Nodes -> Statuses]
  /\ attempts \in [Nodes -> Nat]
  /\ rounds \in [Nodes -> 0 .. MaxReviewRounds + 1]
  /\ seen \in [Nodes -> SUBSET Critiques]
  /\ pc \in [Nodes -> Suspensions]
  /\ launching \in SUBSET Nodes
  /\ loop \in {"running"} \cup Endings
  /\ cancelled \in BOOLEAN
  /\ exhausted \in BOOLEAN
  /\ grants \in Nat
  /\ locks \in Tables
  /\ outdated \in SUBSET Nodes

\* A node in flight holds its whole write set, through review, retrieval
\* widening, rollback and the wait for a human, and through a cascade that
\* relabels it under way: nothing else may take its rows (supervisor.ts, F3).
InFlightHoldsItsWrites == \A n \in InFlight : HeldBy(locks, n) = Writes[n]

\* Nodes whose write sets conflict never overlap in time ("serialises nodes whose
\* write sets conflict rather than corrupting them", supervisor.test.ts).
ConflictsSerialize ==
  \A m, n \in InFlight : m # n => ~SetsIntersect(Writes[m], Writes[n])

\* A blocked, finished or failed node holds no row (supervisor.ts, "returns to
\* the queue holding nothing, so hold-and-wait cannot form").  Only a parked
\* node, a granted one and one that cancellation abandoned keep theirs while
\* they are not in flight.
WaitingHoldsNothing ==
  \A n \in Nodes :
    status[n] \in {"pending", "blocked", "done", "failed", "rolled_back"}
      => HeldBy(locks, n) = {}

\* From the moment a node parks until a human decides, its whole write set is
\* held by flagged rows, which no release can delete; no other row is flagged (F5).
ParkedKeepsLocks ==
  \A n \in Nodes :
    IF status[n] = "parked"
    THEN HeldBy(locks, n) = Writes[n] /\ \A r \in Writes[n] : locks[r].parked
    ELSE \A r \in HeldBy(locks, n) : ~locks[r].parked

\* A node that executes has an attempt left, whatever mixture of failures,
\* grants and cascades came before: the cap cannot be overrun (F1).
AttemptsCapped ==
  \A n \in Nodes :
    pc[n] \in {"executing", "reviewing", "widening"} => attempts[n] < MaxAttempts

\* A node never starts once the token is cancelled (F14, "checked at every await").
NoStartAfterCancel ==
  [][cancelled => \A n \in Nodes : pc'[n] = "executing" => pc[n] = "executing"]_vars

\* A node that read a write set which was then rolled back does not stay done:
\* the cascade requeues it (cascade.ts, "every node whose read set intersects the
\* rolled-back write set is marked dirty and requeued").
NoOutdatedResult == \A n \in outdated : status[n] # "done"

\* A cascade that is not cut short leaves nobody behind: no node is done after a
\* rollback that read what the rolled-back node wrote, or what a node wrote that
\* the same cascade requeued ("transitively, because a dirtied node's own writes
\* are now suspect", cascade.ts).
RollsBack(n) == pc[n] = "rolling_back" /\ pc'[n] = "idle"
CascadeLeavesNoReader ==
  [][\A n \in Nodes :
       RollsBack(n) /\ ~Truncated(n, Consumers, Feeds, Writers, MaxCascadeDepth) =>
         \A s \in DirtiedBy(n) \cup {n}, m \in Nodes \ {n} :
           <<m, s>> \in Feeds => status'[m] # "done"]_vars

\* A node the human refused is not run again.
DenialStands ==
  [][\A n \in Nodes : status[n] = "failed" => status'[n] = "failed"]_vars

\* No row of a run outlives it: once the loop has ended and its last node has
\* settled, only a node still waiting for a decision keeps rows
\* (07-implementation-status.md, "no locks survive a drain").
NoRowOutlivesTheRun ==
  loop # "running" /\ InFlight = {} =>
    \A n \in Nodes : status[n] # "parked" => HeldBy(locks, n) = {}

\* A run that completes or pauses leaves in the database what resuming it needs
\* and nothing that blocks the next one: each parked node has its whole write set,
\* and no other node has a row (supervisor.ts, the first and the third exit of
\* the loop, and parkNode without an approval hook).
LeavesOnlyItsParked ==
  loop \in {"completed", "paused"} =>
    \A n \in Nodes : HeldBy(locks, n) = IF status[n] = "parked" THEN Writes[n] ELSE {}

\* The run ends: retries, review rounds, cascades and a human who says yes a
\* bounded number of times cannot keep it going, and no set of locks can
\* (Project_context.md, "deadlock is impossible by construction").
RunEnds == <>(loop # "running")

\* Cancelling stops the loop, and does not need a human to answer first (F14,
\* "no way for a human to stop a run mid-flight"; 05-implementation-plan.md,
\* "esc mid-run stops within 2s").
CancelStopsTheLoop == cancelled ~> loop # "running"

\* The run takes and gives back whole write sets only, and takes one only while
\* nobody holds an intersecting row: it implements whole-set ownership.
Ownership == INSTANCE LockOwnership WITH owned <- [o \in Owners |-> HeldBy(locks, o)]
ImplementsOwnership == Ownership!Spec
=============================================================================
