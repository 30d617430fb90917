------------------------ MODULE RunSupervisor_proofs ------------------------
(***************************************************************************)
(* The run supervisor's guarantees for every plan, width, cap and number   *)
(* of approvals.                                                           *)
(***************************************************************************)
EXTENDS RunEvents, LockTable_proofs, FiniteSetTheorems, SequenceTheorems, WellFoundedInduction

-----------------------------------------------------------------------------
(* The inductive invariant.  What the lock table shows of a node fits what the *)
(* supervisor does with it: in flight or parked it has its whole write set,    *)
(* waiting it has nothing, and in between (granted, cancelled) one of the two, *)
(* which is why a refused acquire never leaves a part of the set behind.  A    *)
(* node that can start has an attempt left.                                    *)
Idlers == {"pending", "blocked", "done", "failed", "rolled_back"}
Busy == {"executing", "reviewing", "widening", "rolling_back"}

Fits(n, st, await, tries, t) ==
  /\ HeldBy(t, n) \in {{}, Writes[n]}
  /\ await # "idle" \/ st = "parked" => HeldBy(t, n) = Writes[n]
  /\ st \in Idlers => HeldBy(t, n) = {}
  /\ \A r \in HeldBy(t, n) : t[r].parked <=> st = "parked"
  /\ await = "awaiting_human" => st = "parked"
  /\ await \in Busy => st \in {"running", "ready"}
  /\ await = "rolling_back" \/ st \in {"parked", "failed", "rolled_back", "done"}
       \/ tries < MaxAttempts

NodesFit == \A n \in Nodes : Fits(n, status[n], pc[n], attempts[n], locks)

LaunchingIsStartable ==
  /\ \A n \in launching : pc[n] = "idle" /\ status[n] \in {"pending", "blocked", "ready"}
  /\ launching # {} => ~cancelled /\ loop = "running"

CompletedIsOver ==
  loop = "completed" =>
    launching = {} /\ \A n \in Nodes : status[n] = "done" /\ pc[n] = "idle"

SInv == TypeOK /\ Excludes(locks) /\ NodesFit /\ LaunchingIsStartable /\ CompletedIsOver

-----------------------------------------------------------------------------
(* A cascade requeues nodes of the plan that have consumed something, never one *)
(* that waits for a human. *)
LEMMA DirtiedAreConsumers ==
  ASSUME NEW n \in Nodes
  PROVE  DirtiedBy(n) \subseteq {m \in Nodes : status[m] \in ConsumedStatuses}
<1>1. DirtiedBy(n) \subseteq Consumers
  BY DEF DirtiedBy, Dirtied
<1> QED
  BY <1>1 DEF Consumers

-----------------------------------------------------------------------------
(* Type correctness. *)
LEMMA NodesAreOwners == \A n \in Nodes : n \in Owners /\ Writes[n] \in SUBSET Resources
BY RunAssumption, LockAssumption

LEMMA TypeInit == Init => TypeOK
<1> SUFFICES ASSUME Init PROVE TypeOK
  OBVIOUS
<1>1. rounds \in [Nodes -> 0 .. MaxReviewRounds + 1]
  <2>1. 0 \in 0 .. MaxReviewRounds + 1
    BY RunAssumption
  <2> QED
    BY <2>1 DEF Init
<1>2. locks \in Tables
  BY RunAssumption DEF Init
<1> QED
  BY <1>1, <1>2 DEF Init, TypeOK, Statuses, Suspensions

LEMMA ParkTyped ==
  ASSUME TypeOK, NEW n \in Nodes, ParkNode(n)
  PROVE  /\ status' \in [Nodes -> Statuses]
         /\ pc' \in [Nodes -> Suspensions]
         /\ locks' \in Tables
BY NodesAreOwners, OperationsTyped DEF TypeOK, ParkNode, Statuses, Suspensions

LEMMA RequeueTyped ==
  ASSUME TypeOK, NEW n \in Nodes, Requeue(n)
  PROVE  /\ status' \in [Nodes -> Statuses]
         /\ pc' \in [Nodes -> Suspensions]
         /\ locks' \in Tables
BY NodesAreOwners, OperationsTyped DEF TypeOK, Requeue, Statuses, Suspensions

LEMMA TypeStep == TypeOK /\ [Next]_vars => TypeOK'
<1> SUFFICES ASSUME TypeOK, [Next]_vars PROVE TypeOK'
  OBVIOUS
<1>1. CASE UNCHANGED vars
  BY <1>1 DEF TypeOK, vars
<1>2. CASE Dispatch
  <2>1. launching' \in SUBSET Nodes
    BY <1>2 DEF Dispatch, TypeOK, Batch, Ready
  <2>2. loop' \in {"running"} \cup Endings
    BY <1>2 DEF Dispatch, TypeOK, Endings
  <2> QED
    BY <1>2, <2>1, <2>2 DEF Dispatch, TypeOK, reviewVars
<1>3. ASSUME NEW n \in Nodes, Launch(n) PROVE TypeOK'
  <2>1. locks' \in Tables
    BY <1>3, NodesAreOwners, OperationsTyped DEF Launch, TypeOK
  <2>2. status' \in [Nodes -> Statuses] /\ attempts' \in [Nodes -> Nat]
        /\ pc' \in [Nodes -> Suspensions] /\ outdated' \in SUBSET Nodes
    BY <1>3 DEF Launch, TypeOK, Statuses, Suspensions
  <2>3. launching' \in SUBSET Nodes
    BY <1>3 DEF Launch, TypeOK
  <2> QED
    BY <1>3, <2>1, <2>2, <2>3 DEF Launch, TypeOK, reviewVars
<1>4. ASSUME NEW n \in Nodes, ExecutePasses(n) \/ ExecuteCancelled(n) PROVE TypeOK'
  BY <1>4 DEF ExecutePasses, ExecuteCancelled, TypeOK, Suspensions, Endings, reviewVars, loopVars
<1>5. ASSUME NEW n \in Nodes, GatesEscalate(n) PROVE TypeOK'
  BY <1>5, ParkTyped DEF GatesEscalate, TypeOK, reviewVars, loopVars
<1>6. ASSUME NEW n \in Nodes, NEW kind \in ErrorKinds, ExecuteFails(n, kind) PROVE TypeOK'
  <2>1. attempts' \in [Nodes -> Nat]
    BY <1>6 DEF ExecuteFails, HandleFailure, TypeOK
  <2>2. Requeue(n) \/ ParkNode(n) \/ (pc' \in [Nodes -> Suspensions] /\ UNCHANGED <<status, locks>>)
    BY <1>6 DEF ExecuteFails, HandleFailure, TypeOK, Suspensions
  <2>3. /\ status' \in [Nodes -> Statuses]
        /\ pc' \in [Nodes -> Suspensions]
        /\ locks' \in Tables
    BY <2>2, ParkTyped, RequeueTyped DEF TypeOK
  <2> QED
    BY <1>6, <2>1, <2>3 DEF ExecuteFails, TypeOK, reviewVars, loopVars
<1>7. ASSUME NEW n \in Nodes, ReviewApproves(n) PROVE TypeOK'
  BY <1>7, NodesAreOwners, OperationsTyped
     DEF ReviewApproves, TypeOK, Statuses, Suspensions, reviewVars, loopVars
<1>8. ASSUME NEW n \in Nodes, NEW c \in Critiques, ReviewRejects(n, c) PROVE TypeOK'
  <2>1. rounds' \in [Nodes -> 0 .. MaxReviewRounds + 1]
    BY <1>8, RunAssumption DEF ReviewRejects, TypeOK
  <2>2. seen' \in [Nodes -> SUBSET Critiques]
    BY <1>8 DEF ReviewRejects, TypeOK
  <2>3. /\ status' \in [Nodes -> Statuses]
        /\ pc' \in [Nodes -> Suspensions]
        /\ locks' \in Tables
    BY <1>8, ParkTyped, RequeueTyped DEF ReviewRejects
  <2> QED
    BY <1>8, <2>1, <2>2, <2>3 DEF ReviewRejects, TypeOK, loopVars
<1>9. ASSUME NEW n \in Nodes, HumanGrants(n) PROVE TypeOK'
  BY <1>9, NodesAreOwners, OperationsTyped
     DEF HumanGrants, TypeOK, Statuses, Suspensions, reviewVars
<1>10. ASSUME NEW n \in Nodes, HumanDenies(n) PROVE TypeOK'
  BY <1>10, NodesAreOwners, OperationsTyped
     DEF HumanDenies, TypeOK, Statuses, Suspensions, reviewVars, loopVars
<1>11. ASSUME NEW n \in Nodes, WideningDone(n) PROVE TypeOK'
  BY <1>11, RequeueTyped DEF WideningDone, TypeOK, reviewVars, loopVars
<1>12. ASSUME NEW n \in Nodes, RollbackDone(n) PROVE TypeOK'
  <2>1. status' \in [Nodes -> Statuses] /\ attempts' \in [Nodes -> Nat]
    BY <1>12 DEF RollbackDone, TypeOK, Statuses
  <2>2. locks' \in Tables /\ pc' \in [Nodes -> Suspensions] /\ outdated' \in SUBSET Nodes
    BY <1>12, NodesAreOwners, OperationsTyped DEF RollbackDone, TypeOK, Suspensions
  <2> QED
    BY <1>12, <2>1, <2>2 DEF RollbackDone, TypeOK, reviewVars, loopVars
<1>13. CASE Cancel \/ BudgetRunsOut
  BY <1>13 DEF Cancel, BudgetRunsOut, TypeOK, reviewVars
<1> QED
  BY <1>1, <1>2, <1>3, <1>4, <1>5, <1>6, <1>7, <1>8, <1>9, <1>10, <1>11, <1>12, <1>13
     DEF Next, Proceed, Settle

(* Every variable keeps its type (supervisor.ts, the fields of a run). *)
THEOREM RunTypeCorrect == Spec => []TypeOK
BY TypeInit, TypeStep, PTL DEF Spec

-----------------------------------------------------------------------------
(* What each operation on the table does to the fit of its node. *)
LEMMA ReleaseFits ==
  ASSUME NEW t \in Tables, NEW n \in Nodes, NEW st, NEW await, NEW tries,
         Fits(n, st, await, tries, t), st # "parked",
         NEW st2, NEW tries2,
         st2 \in {"done", "rolled_back"} \/ (st2 = "ready" /\ tries2 < MaxAttempts)
  PROVE  Fits(n, st2, "idle", tries2, Release(t, n))
<1>1. HeldBy(Release(t, n), n) = {}
  BY NodesAreOwners, LockAssumption DEF Fits, Release, HeldBy, Free
<1> QED
  BY <1>1 DEF Fits, Idlers, Busy

LEMMA ParkFits ==
  ASSUME NEW t \in Tables, NEW n \in Nodes, NEW st, NEW await, NEW tries,
         Fits(n, st, await, tries, t), await # "idle",
         NEW await2 \in {"idle", "awaiting_human"}, NEW tries2
  PROVE  Fits(n, "parked", await2, tries2, Park(t, n))
<1>1. HeldBy(Park(t, n), n) = Writes[n]
  BY DEF Fits, Park, HeldBy
<1>2. \A r \in HeldBy(Park(t, n), n) : Park(t, n)[r].parked
  BY NodesAreOwners, LockAssumption DEF Park, HeldBy
<1> QED
  BY <1>1, <1>2 DEF Fits, Idlers, Busy

LEMMA UnparkFits ==
  ASSUME NEW t \in Tables, NEW n \in Nodes, NEW st, NEW await, NEW tries,
         Fits(n, st, await, tries, t), await # "idle"
  PROVE  Fits(n, "ready", "idle", 0, Unpark(t, n))
<1>1. HeldBy(Unpark(t, n), n) = Writes[n]
  BY DEF Fits, Unpark, HeldBy
<1>2. \A r \in HeldBy(Unpark(t, n), n) : ~Unpark(t, n)[r].parked
  BY NodesAreOwners, LockAssumption DEF Unpark, HeldBy
<1>3. 0 < MaxAttempts
  BY RunAssumption
<1> QED
  BY <1>1, <1>2, <1>3 DEF Fits, Idlers, Busy

LEMMA ForceReleaseFits ==
  ASSUME NEW t \in Tables, NEW n \in Nodes, NEW tries
  PROVE  Fits(n, "failed", "idle", tries, ForceRelease(t, n))
<1>1. HeldBy(ForceRelease(t, n), n) = {}
  BY NodesAreOwners, LockAssumption DEF ForceRelease, HeldBy, Free
<1> QED
  BY <1>1 DEF Fits, Idlers, Busy

LEMMA AcquireFits ==
  ASSUME NEW t \in Tables, NEW n \in Nodes, Excludes(t),
         NEW st \in {"pending", "blocked", "ready"}, NEW tries,
         Fits(n, st, "idle", tries, t)
  PROVE  /\ ~CanAcquire(t, n) => Fits(n, "blocked", "idle", tries, Acquire(t, n))
         /\ CanAcquire(t, n) => Fits(n, "running", "executing", tries, Acquire(t, n))
         /\ CanAcquire(t, n) =>
              \A more : Fits(n, "running", "rolling_back", more, Acquire(t, n))
<1>1. HeldBy(Acquire(t, n), n) = IF CanAcquire(t, n) THEN Writes[n] ELSE {}
  BY NodesAreOwners, AcquireIsAllOrNothing DEF Fits
<1>2. CanAcquire(t, n) => \A r \in HeldBy(Acquire(t, n), n) : ~Acquire(t, n)[r].parked
  BY <1>1, NodesAreOwners DEF Acquire, HeldBy
<1>3. tries < MaxAttempts
  BY DEF Fits
<1> QED
  BY <1>1, <1>2, <1>3 DEF Fits, Idlers, Busy

(* A step that changes one node, and the rows of that node only, leaves every *)
(* other node fitting. *)
LEMMA OneNodeStep ==
  ASSUME NodesFit, NEW n \in Nodes,
         Fits(n, status'[n], pc'[n], attempts'[n], locks'),
         \A m \in Nodes \ {n} :
           /\ status'[m] = status[m] /\ pc'[m] = pc[m] /\ attempts'[m] = attempts[m]
           /\ HeldBy(locks', m) = HeldBy(locks, m)
           /\ \A r \in HeldBy(locks, m) : locks'[r] = locks[r]
  PROVE  NodesFit'
<1> SUFFICES ASSUME NEW m \in Nodes
             PROVE  Fits(m, status'[m], pc'[m], attempts'[m], locks')
  BY DEF NodesFit, Fits, HeldBy
<1>1. CASE m = n
  BY <1>1
<1>2. CASE m # n
  BY <1>2 DEF NodesFit, Fits
<1> QED
  BY <1>1, <1>2

(* The rows of the other nodes stay as they are under every operation. *)
LEMMA OperationsSpareNodes ==
  ASSUME NEW t \in Tables, NEW n \in Nodes, NEW m \in Nodes \ {n},
         NEW u \in {t, Acquire(t, n), Release(t, n), Park(t, n), Unpark(t, n), ForceRelease(t, n)}
  PROVE  /\ HeldBy(u, m) = HeldBy(t, m)
         /\ \A r \in HeldBy(t, m) : u[r] = t[r]
BY NodesAreOwners, RunAssumption, AcquireSparesOthers, OthersSpareOthers

-----------------------------------------------------------------------------
(* The steps of the supervisor preserve the fit. *)
LEMMA LaunchFits ==
  ASSUME SInv, NEW n \in Nodes, Launch(n)
  PROVE  NodesFit'
<1>1. /\ locks \in Tables /\ Excludes(locks) /\ NodesFit
      /\ pc[n] = "idle" /\ status[n] \in {"pending", "blocked", "ready"}
      /\ Fits(n, status[n], "idle", attempts[n], locks)
  BY DEF SInv, TypeOK, NodesFit, LaunchingIsStartable, Launch
<1>2. locks' = Acquire(locks, n)
  BY DEF Launch
<1>3. \A m \in Nodes \ {n} :
        /\ status'[m] = status[m] /\ pc'[m] = pc[m] /\ attempts'[m] = attempts[m]
        /\ HeldBy(locks', m) = HeldBy(locks, m)
        /\ \A r \in HeldBy(locks, m) : locks'[r] = locks[r]
  <2>1. \A m \in Nodes \ {n} :
          status'[m] = status[m] /\ pc'[m] = pc[m] /\ attempts'[m] = attempts[m]
    BY DEF Launch, SInv, TypeOK
  <2> QED
    BY <1>1, <1>2, <2>1, OperationsSpareNodes
<1>4. Fits(n, status'[n], pc'[n], attempts'[n], locks')
  <2>1. CASE ~CanAcquire(locks, n)
    <3>1. status'[n] = "blocked" /\ pc'[n] = "idle" /\ attempts'[n] = attempts[n]
      BY <1>1, <2>1 DEF Launch, SInv, TypeOK
    <3> QED
      BY <1>1, <1>2, <2>1, <3>1, AcquireFits
  <2>2. CASE CanAcquire(locks, n) /\ exhausted
    <3>1. status'[n] = "running" /\ pc'[n] = "rolling_back"
      BY <2>2 DEF Launch, SInv, TypeOK
    <3> QED
      BY <1>1, <1>2, <2>2, <3>1, AcquireFits
  <2>3. CASE CanAcquire(locks, n) /\ ~exhausted
    <3>1. status'[n] = "running" /\ pc'[n] = "executing" /\ attempts'[n] = attempts[n]
      BY <2>3 DEF Launch, SInv, TypeOK
    <3> QED
      BY <1>1, <1>2, <2>3, <3>1, AcquireFits
  <2> QED
    BY <2>1, <2>2, <2>3
<1> QED
  BY <1>1, <1>3, <1>4, OneNodeStep

(* A node that leaves an await by one operation on its own rows. *)
LEMMA SettleFits ==
  ASSUME SInv, NEW n \in Nodes, pc[n] # "idle",
         \/ ExecutePasses(n) \/ GatesEscalate(n) \/ ExecuteCancelled(n)
         \/ \E kind \in ErrorKinds : ExecuteFails(n, kind)
         \/ ReviewApproves(n) \/ \E c \in Critiques : ReviewRejects(n, c)
         \/ HumanGrants(n) \/ HumanDenies(n) \/ WideningDone(n)
  PROVE  NodesFit'
<1>1. /\ locks \in Tables /\ NodesFit
      /\ status \in [Nodes -> Statuses] /\ pc \in [Nodes -> Suspensions]
      /\ attempts \in [Nodes -> Nat]
      /\ Fits(n, status[n], pc[n], attempts[n], locks)
  BY DEF SInv, TypeOK, NodesFit
<1>2. pc[n] \in Busy => status[n] \in {"running", "ready"} /\ status[n] # "parked"
  BY <1>1 DEF Fits
<1>3. ASSUME locks' \in {locks, Release(locks, n), Park(locks, n), Unpark(locks, n),
                         ForceRelease(locks, n)},
             \A m \in Nodes \ {n} :
               status'[m] = status[m] /\ pc'[m] = pc[m] /\ attempts'[m] = attempts[m],
             Fits(n, status'[n], pc'[n], attempts'[n], locks')
      PROVE  NodesFit'
  BY <1>1, <1>3, OneNodeStep, OperationsSpareNodes
<1>4. ASSUME ParkNode(n), attempts' \in [Nodes -> Nat],
             \A m \in Nodes \ {n} : attempts'[m] = attempts[m]
      PROVE  NodesFit'
  <2>1. status'[n] = "parked" /\ pc'[n] \in {"idle", "awaiting_human"} /\ locks' = Park(locks, n)
    BY <1>1, <1>4 DEF ParkNode
  <2>2. Fits(n, status'[n], pc'[n], attempts'[n], locks')
    BY <1>1, <2>1, ParkFits
  <2> QED
    BY <1>1, <1>3, <1>4, <2>1, <2>2 DEF ParkNode
<1>5. ASSUME Requeue(n), attempts' \in [Nodes -> Nat], pc[n] \in Busy, attempts'[n] < MaxAttempts,
             \A m \in Nodes \ {n} : attempts'[m] = attempts[m]
      PROVE  NodesFit'
  <2>1. status'[n] = "ready" /\ pc'[n] = "idle" /\ locks' = Release(locks, n)
    BY <1>1, <1>5 DEF Requeue
  <2>2. Fits(n, status'[n], pc'[n], attempts'[n], locks')
    BY <1>1, <1>2, <1>5, <2>1, ReleaseFits
  <2> QED
    BY <1>1, <1>3, <1>5, <2>1, <2>2 DEF Requeue
<1>6. pc[n] \in {"executing", "reviewing", "widening"} => attempts[n] < MaxAttempts
  BY <1>1, <1>2 DEF Fits, Busy
<1>7. CASE ExecutePasses(n)
  <2>1. /\ locks' = locks /\ status' = status /\ attempts' = attempts
        /\ pc[n] = "executing" /\ pc' = [pc EXCEPT ![n] = "reviewing"]
    BY <1>7 DEF ExecutePasses, Resumes
  <2>2. Fits(n, status'[n], pc'[n], attempts'[n], locks')
    BY <1>1, <2>1 DEF Fits, Busy
  <2> QED
    BY <1>1, <1>3, <2>1, <2>2
<1>8. CASE GatesEscalate(n)
  BY <1>1, <1>4, <1>8 DEF GatesEscalate
<1>9. CASE ExecuteCancelled(n)
  <2>1. /\ locks' = locks /\ status' = status /\ attempts' = attempts
        /\ pc[n] = "executing" /\ pc' = [pc EXCEPT ![n] = "idle"]
    BY <1>9 DEF ExecuteCancelled, Resumes
  <2>2. Fits(n, status'[n], pc'[n], attempts'[n], locks')
    BY <1>1, <2>1 DEF Fits, Busy
  <2> QED
    BY <1>1, <1>3, <2>1, <2>2
<1>10. ASSUME NEW kind \in ErrorKinds, ExecuteFails(n, kind) PROVE NodesFit'
  <2> DEFINE action == Classify(kind, attempts[n] + 1, MaxAttempts)
  <2>1. /\ pc[n] = "executing" /\ attempts' = [attempts EXCEPT ![n] = @ + 1]
        /\ \/ action \in {"retry", "fallback_provider"} /\ Requeue(n)
           \/ action = "escalate_to_human" /\ ParkNode(n)
           \/ /\ action \in {"widen_retrieval", "rollback"}
              /\ pc' = [pc EXCEPT ![n] = IF action = "rollback" THEN "rolling_back" ELSE "widening"]
              /\ UNCHANGED <<status, locks>>
    BY <1>10 DEF ExecuteFails, HandleFailure, Resumes
  <2>2. /\ attempts' \in [Nodes -> Nat] /\ attempts'[n] = attempts[n] + 1
        /\ \A m \in Nodes \ {n} : attempts'[m] = attempts[m]
    BY <1>1, <2>1
  <2>3. action # "rollback" => attempts'[n] < MaxAttempts
    BY <1>1, <2>2, RunAssumption DEF Classify, Exhausted
  <2> HIDE DEF action
  <2>4. CASE action \in {"retry", "fallback_provider"} /\ Requeue(n)
    BY <1>5, <2>1, <2>2, <2>3, <2>4 DEF Busy
  <2>5. CASE action = "escalate_to_human" /\ ParkNode(n)
    BY <1>4, <2>2, <2>5
  <2>6. CASE /\ action \in {"widen_retrieval", "rollback"}
             /\ pc' = [pc EXCEPT ![n] = IF action = "rollback" THEN "rolling_back" ELSE "widening"]
             /\ UNCHANGED <<status, locks>>
    <3>1. pc'[n] \in {"rolling_back", "widening"} /\ (pc'[n] = "widening" => action # "rollback")
      BY <1>1, <2>6
    <3>2. Fits(n, status'[n], pc'[n], attempts'[n], locks')
      BY <1>1, <1>2, <2>1, <2>3, <2>6, <3>1 DEF Fits, Busy
    <3> QED
      BY <1>1, <1>3, <2>2, <2>6, <3>2
  <2> QED
    BY <2>1, <2>4, <2>5, <2>6
<1>11. CASE ReviewApproves(n)
  <2>1. /\ pc[n] = "reviewing" /\ attempts' = attempts
        /\ status' = [status EXCEPT ![n] = "done"] /\ pc' = [pc EXCEPT ![n] = "idle"]
        /\ locks' = Release(locks, n)
    BY <1>11 DEF ReviewApproves, Resumes
  <2>2. status'[n] = "done" /\ pc'[n] = "idle" /\ status[n] # "parked"
    BY <1>1, <1>2, <2>1 DEF Busy
  <2>3. Fits(n, status'[n], pc'[n], attempts'[n], locks')
    BY <1>1, <2>1, <2>2, ReleaseFits
  <2> QED
    BY <1>1, <1>3, <2>1, <2>3
<1>12. ASSUME NEW c \in Critiques, ReviewRejects(n, c) PROVE NodesFit'
  <2>1. pc[n] = "reviewing" /\ attempts' = attempts /\ (ParkNode(n) \/ Requeue(n))
    BY <1>12 DEF ReviewRejects, Resumes
  <2> QED
    BY <1>1, <1>4, <1>5, <1>6, <2>1 DEF Busy
<1>13. CASE HumanGrants(n)
  <2>1. /\ attempts' = [attempts EXCEPT ![n] = 0]
        /\ status' = [status EXCEPT ![n] = "ready"] /\ pc' = [pc EXCEPT ![n] = "idle"]
        /\ locks' = Unpark(locks, n)
    BY <1>13 DEF HumanGrants
  <2>2. Fits(n, status'[n], pc'[n], attempts'[n], locks')
    BY <1>1, <2>1, UnparkFits
  <2> QED
    BY <1>1, <1>3, <2>1, <2>2
<1>14. CASE HumanDenies(n)
  <2>1. /\ attempts' = attempts
        /\ status' = [status EXCEPT ![n] = "failed"] /\ pc' = [pc EXCEPT ![n] = "idle"]
        /\ locks' = ForceRelease(locks, n)
    BY <1>14 DEF HumanDenies
  <2>2. Fits(n, status'[n], pc'[n], attempts'[n], locks')
    BY <1>1, <2>1, ForceReleaseFits
  <2> QED
    BY <1>1, <1>3, <2>1, <2>2
<1>15. CASE WideningDone(n)
  <2>1. pc[n] = "widening" /\ attempts' = attempts /\ Requeue(n)
    BY <1>15 DEF WideningDone, Resumes
  <2> QED
    BY <1>1, <1>5, <1>6, <2>1 DEF Busy
<1> QED
  BY <1>7, <1>8, <1>9, <1>10, <1>11, <1>12, <1>13, <1>14, <1>15

(* A rollback gives back the rows of its node and relabels consumers, none of *)
(* which is parked; those in flight keep their rows. *)
LEMMA RollbackFits ==
  ASSUME SInv, NEW n \in Nodes, RollbackDone(n)
  PROVE  NodesFit'
<1>1. /\ locks \in Tables /\ NodesFit
      /\ status \in [Nodes -> Statuses] /\ pc \in [Nodes -> Suspensions]
      /\ attempts \in [Nodes -> Nat]
  BY DEF SInv, TypeOK
<1>2. /\ pc[n] = "rolling_back"
      /\ locks' = Release(locks, n)
      /\ pc' = [pc EXCEPT ![n] = "idle"]
      /\ \A m \in Nodes :
           /\ status'[m] = IF m \in DirtiedBy(n) THEN "ready"
                           ELSE IF m = n THEN "rolled_back" ELSE status[m]
           /\ attempts'[m] = IF m \in DirtiedBy(n) THEN 0 ELSE attempts[m]
  BY DEF RollbackDone, Resumes
<1>3. 0 < MaxAttempts
  BY RunAssumption
<1> SUFFICES ASSUME NEW m \in Nodes
             PROVE  Fits(m, status'[m], pc'[m], attempts'[m], locks')
  BY DEF NodesFit, Fits, HeldBy
<1>4. Fits(m, status[m], pc[m], attempts[m], locks)
  BY <1>1 DEF NodesFit
<1>5. CASE m = n
  <2>1. status[n] # "parked"
    BY <1>2, <1>4, <1>5 DEF Fits, Busy
  <2>2. pc'[n] = "idle"
    BY <1>1, <1>2
  <2>3. CASE n \in DirtiedBy(n)
    <3>1. status'[n] = "ready" /\ attempts'[n] < MaxAttempts
      BY <1>2, <1>3, <2>3
    <3> QED
      BY <1>1, <1>2, <1>4, <1>5, <2>1, <2>2, <3>1, ReleaseFits
  <2>4. CASE n \notin DirtiedBy(n)
    <3>1. status'[n] = "rolled_back"
      BY <1>2, <2>4
    <3> QED
      BY <1>1, <1>2, <1>4, <1>5, <2>1, <2>2, <3>1, ReleaseFits
  <2> QED
    BY <2>3, <2>4
<1>6. CASE m # n
  <2>1. /\ HeldBy(locks', m) = HeldBy(locks, m)
        /\ \A r \in HeldBy(locks, m) : locks'[r] = locks[r]
    BY <1>1, <1>2, <1>6, OperationsSpareNodes
  <2>2. pc'[m] = pc[m]
    BY <1>1, <1>2, <1>6
  <2>3. CASE m \in DirtiedBy(n)
    <3>1. status[m] \in ConsumedStatuses /\ status[m] # "parked"
      BY <2>3, DirtiedAreConsumers DEF ConsumedStatuses
    <3>2. status'[m] = "ready" /\ attempts'[m] < MaxAttempts
      BY <1>2, <1>3, <2>3
    <3> QED
      BY <1>4, <2>1, <2>2, <3>1, <3>2 DEF Fits, Idlers, Busy
  <2>4. CASE m \notin DirtiedBy(n)
    <3>1. status'[m] = status[m] /\ attempts'[m] = attempts[m]
      BY <1>2, <1>6, <2>4
    <3> QED
      BY <1>4, <2>1, <2>2, <3>1 DEF Fits
  <2> QED
    BY <2>3, <2>4
<1> QED
  BY <1>5, <1>6

-----------------------------------------------------------------------------
(* The whole inductive invariant. *)

(* Every step changes the table by at most one operation of one node. *)
LEMMA StepTouchesOneOwner ==
  ASSUME [Next]_vars
  PROVE  \/ locks' = locks
         \/ \E n \in Nodes :
              locks' \in {Acquire(locks, n), Release(locks, n), Park(locks, n),
                         Unpark(locks, n), ForceRelease(locks, n)}
<1>1. CASE UNCHANGED vars \/ Dispatch \/ Cancel \/ BudgetRunsOut
  BY <1>1 DEF vars, Dispatch, Cancel, BudgetRunsOut
<1>2. ASSUME NEW n \in Nodes, Launch(n)
      PROVE  locks' = Acquire(locks, n)
  BY <1>2 DEF Launch
<1>3. ASSUME NEW n \in Nodes, Settle(n)
      PROVE  locks' \in {locks, Release(locks, n), Park(locks, n), Unpark(locks, n),
                        ForceRelease(locks, n)}
  BY <1>3 DEF Settle, ExecutePasses, GatesEscalate, ExecuteCancelled, ExecuteFails,
              HandleFailure, ReviewApproves, ReviewRejects, HumanGrants, HumanDenies,
              WideningDone, RollbackDone, ParkNode, Requeue
<1> QED
  BY <1>1, <1>2, <1>3 DEF Next, Proceed

LEMMA ExclusionStep ==
  ASSUME TypeOK, Excludes(locks), [Next]_vars
  PROVE  Excludes(locks')
<1>1. locks \in Tables
  BY DEF TypeOK
<1>2. ASSUME NEW n \in Nodes,
             locks' \in {Acquire(locks, n), Release(locks, n), Park(locks, n),
                        Unpark(locks, n), ForceRelease(locks, n)}
      PROVE  Excludes(locks')
  BY <1>1, <1>2, NodesAreOwners, AcquireExcludes, OthersExclude
<1> QED
  BY <1>2, StepTouchesOneOwner

LEMMA SettleResumes ==
  ASSUME NEW n \in Nodes, Settle(n)
  PROVE  pc[n] # "idle" /\ launching = {}
BY DEF Settle, Resumes, ExecutePasses, GatesEscalate, ExecuteCancelled, ExecuteFails,
       ReviewApproves, ReviewRejects, HumanGrants, HumanDenies, WideningDone, RollbackDone

LEMMA SettleMovesOne ==
  ASSUME NEW n \in Nodes, Settle(n)
  PROVE  \E next : pc' = [pc EXCEPT ![n] = next]
<1>1. CASE ExecutePasses(n) \/ GatesEscalate(n) \/ ExecuteCancelled(n)
           \/ HumanGrants(n) \/ HumanDenies(n) \/ ReviewApproves(n)
  BY <1>1 DEF ExecutePasses, GatesEscalate, ExecuteCancelled, HumanGrants, HumanDenies,
              ReviewApproves, ParkNode
<1>2. CASE \E kind \in ErrorKinds : ExecuteFails(n, kind)
  BY <1>2 DEF ExecuteFails, HandleFailure, ParkNode, Requeue
<1>3. CASE WideningDone(n) \/ RollbackDone(n) \/ \E c \in Critiques : ReviewRejects(n, c)
  BY <1>3 DEF ReviewRejects, WideningDone, RollbackDone, ParkNode, Requeue
<1> QED
  BY <1>1, <1>2, <1>3 DEF Settle

LEMMA NodesFitStep ==
  ASSUME SInv, [Next]_vars
  PROVE  NodesFit'
<1>1. CASE UNCHANGED vars \/ Dispatch \/ Cancel \/ BudgetRunsOut
  <2>1. UNCHANGED <<status, pc, attempts, locks>>
    BY <1>1 DEF vars, Dispatch, Cancel, BudgetRunsOut
  <2> QED
    BY <2>1 DEF SInv, NodesFit, Fits, HeldBy
<1>2. ASSUME NEW n \in Nodes, Launch(n) PROVE NodesFit'
  BY <1>2, LaunchFits
<1>3. ASSUME NEW n \in Nodes, Settle(n) PROVE NodesFit'
  <2>1. pc[n] # "idle"
    BY <1>3, SettleResumes
  <2> QED
    BY <1>3, <2>1, SettleFits, RollbackFits DEF Settle
<1> QED
  BY <1>1, <1>2, <1>3 DEF Next, Proceed

LEMMA LaunchingStep ==
  ASSUME SInv, [Next]_vars
  PROVE  LaunchingIsStartable'
<1>1. CASE UNCHANGED vars
  BY <1>1 DEF SInv, LaunchingIsStartable, vars
<1>2. CASE Dispatch
  <2>1. \A n \in launching' : n \in Nodes /\ IsReady(n)
    BY <1>2 DEF Dispatch, Batch, Ready
  <2>2. \A n \in Nodes : pc[n] = "idle"
    BY <1>2 DEF Dispatch, InFlight
  <2>3. launching' # {} => ~cancelled /\ loop' = "running"
    BY <1>2 DEF Dispatch, ThrowIfCancelled
  <2>4. UNCHANGED <<status, pc, cancelled>>
    BY <1>2 DEF Dispatch
  <2> QED
    BY <2>1, <2>2, <2>3, <2>4 DEF LaunchingIsStartable, IsReady
<1>3. ASSUME NEW n \in Nodes, Launch(n) PROVE LaunchingIsStartable'
  <2>1. launching' = launching \ {n} /\ UNCHANGED <<cancelled, loop>>
    BY <1>3 DEF Launch
  <2>2. \A m \in Nodes \ {n} : pc'[m] = pc[m] /\ status'[m] = status[m]
    BY <1>3 DEF Launch, SInv, TypeOK
  <2> QED
    BY <2>1, <2>2 DEF SInv, TypeOK, LaunchingIsStartable
<1>4. ASSUME NEW n \in Nodes, Settle(n) PROVE LaunchingIsStartable'
  <2>1. launching' = launching
    BY <1>4 DEF Settle, ExecutePasses, GatesEscalate, ExecuteCancelled, ExecuteFails,
                ReviewApproves, ReviewRejects, HumanGrants, HumanDenies, WideningDone,
                RollbackDone, loopVars
  <2> QED
    BY <1>4, <2>1, SettleResumes DEF LaunchingIsStartable
<1>5. CASE Cancel \/ BudgetRunsOut
  BY <1>5 DEF Cancel, BudgetRunsOut, SInv, LaunchingIsStartable
<1> QED
  BY <1>1, <1>2, <1>3, <1>4, <1>5 DEF Next, Proceed

LEMMA CompletedStep ==
  ASSUME SInv, [Next]_vars
  PROVE  CompletedIsOver'
<1>1. CASE UNCHANGED vars
  BY <1>1 DEF SInv, CompletedIsOver, vars
<1>2. CASE Dispatch
  <2>1. CASE loop' = "completed"
    BY <1>2, <2>1 DEF Dispatch, AllDone, InFlight, CompletedIsOver
  <2> QED
    BY <2>1 DEF CompletedIsOver
<1>3. ASSUME NEW n \in Nodes, Launch(n) PROVE CompletedIsOver'
  <2>1. loop' = "running"
    BY <1>3 DEF Launch, SInv, LaunchingIsStartable
  <2> QED
    BY <2>1 DEF CompletedIsOver
<1>4. ASSUME NEW n \in Nodes, Settle(n) PROVE CompletedIsOver'
  <2>1. loop # "completed"
    BY <1>4, SettleResumes DEF SInv, CompletedIsOver
  <2>2. loop' \in {loop, "cancelled"}
    BY <1>4 DEF Settle, ExecutePasses, GatesEscalate, ExecuteCancelled, ExecuteFails,
                ReviewApproves, ReviewRejects, HumanGrants, HumanDenies, WideningDone,
                RollbackDone, loopVars
  <2> QED
    BY <2>1, <2>2 DEF CompletedIsOver
<1>5. CASE Cancel \/ BudgetRunsOut
  BY <1>5 DEF Cancel, BudgetRunsOut, SInv, CompletedIsOver
<1> QED
  BY <1>1, <1>2, <1>3, <1>4, <1>5 DEF Next, Proceed

LEMMA SInvInit ==
  ASSUME Excludes(Leftover)
  PROVE  Init => SInv
<1> SUFFICES ASSUME Init PROVE SInv
  OBVIOUS
<1>1. \A n \in Nodes : HeldBy(locks, n) = {}
  BY RunAssumption DEF Init, HeldBy
<1>2. 0 < MaxAttempts
  BY RunAssumption
<1>3. NodesFit
  BY <1>1, <1>2 DEF Init, NodesFit, Fits, Idlers, Busy
<1>4. Excludes(locks) /\ LaunchingIsStartable /\ CompletedIsOver
  BY DEF Init, LaunchingIsStartable, CompletedIsOver
<1> QED
  BY <1>3, <1>4, TypeInit DEF SInv

LEMMA SInvStep == SInv /\ [Next]_vars => SInv'
<1> SUFFICES ASSUME SInv, [Next]_vars PROVE SInv'
  OBVIOUS
<1>1. TypeOK' /\ Excludes(locks)'
  BY TypeStep, ExclusionStep DEF SInv
<1>2. NodesFit' /\ LaunchingIsStartable' /\ CompletedIsOver'
  BY NodesFitStep, LaunchingStep, CompletedStep
<1> QED
  BY <1>1, <1>2 DEF SInv

(* The strengthening is an invariant of every run that starts on a table whose *)
(* rows exclude each other, under whatever node ids earlier runs left them. *)
THEOREM RunInvariant ==
  ASSUME Excludes(Leftover)
  PROVE  Spec => []SInv
BY SInvInit, SInvStep, PTL DEF Spec

-----------------------------------------------------------------------------
(* What the invariant says to a reader of supervisor.ts. *)

(* A node in flight holds exactly its write set until its await is over *)
(* (supervisor.ts, runNode: the locks are given back only on the way out). *)
THEOREM InFlightHolds ==
  ASSUME Excludes(Leftover)
  PROVE  Spec => []InFlightHoldsItsWrites
<1>1. SInv => InFlightHoldsItsWrites
  BY DEF SInv, NodesFit, Fits, InFlightHoldsItsWrites, InFlight
<1> QED
  BY <1>1, RunInvariant, PTL

(* Nodes with conflicting write sets are never in flight together, whatever the *)
(* width (supervisor.ts, "serialises nodes whose write sets conflict"). *)
THEOREM ConflictsAreSerialized ==
  ASSUME Excludes(Leftover)
  PROVE  Spec => []ConflictsSerialize
<1>1. SInv => ConflictsSerialize
  <2> SUFFICES ASSUME SInv, NEW m \in InFlight, NEW n \in InFlight, m # n,
                      NEW r \in Writes[m], NEW s \in Writes[n], <<r, s>> \in Overlap
               PROVE  FALSE
    BY DEF ConflictsSerialize, SetsIntersect
  <2>1. HeldBy(locks, m) = Writes[m] /\ HeldBy(locks, n) = Writes[n]
    BY DEF SInv, NodesFit, Fits, InFlight
  <2>2. m \in Owners /\ n \in Owners
    BY NodesAreOwners DEF InFlight
  <2>3. r \in Resources /\ s \in Resources /\ locks[r].owner = m /\ locks[s].owner = n
    BY <2>1 DEF HeldBy
  <2> QED
    BY <2>2, <2>3, LockAssumption, RunAssumption DEF SInv, Excludes, InFlight
<1> QED
  BY <1>1, RunInvariant, PTL

(* A node that waits in the queue or is over holds no row (supervisor.ts, *)
(* "returns to the queue holding nothing"). *)
THEOREM WaitersHoldNothing ==
  ASSUME Excludes(Leftover)
  PROVE  Spec => []WaitingHoldsNothing
<1>1. SInv => WaitingHoldsNothing
  BY DEF SInv, NodesFit, Fits, Idlers, WaitingHoldsNothing
<1> QED
  BY <1>1, RunInvariant, PTL

(* A parked node keeps its whole write set under the flag that release skips, *)
(* and nobody else's rows carry it (locks.ts, park and release; F5). *)
THEOREM ParkedKeeps ==
  ASSUME Excludes(Leftover)
  PROVE  Spec => []ParkedKeepsLocks
<1>1. SInv => ParkedKeepsLocks
  BY DEF SInv, NodesFit, Fits, ParkedKeepsLocks
<1> QED
  BY <1>1, RunInvariant, PTL

(* No mixture of failures, grants and cascades runs a node whose attempts are *)
(* used up (classifier.ts, "exhaustion first"; F1). *)
THEOREM AttemptsStayCapped ==
  ASSUME Excludes(Leftover)
  PROVE  Spec => []AttemptsCapped
<1>1. SInv => AttemptsCapped
  BY DEF SInv, NodesFit, Fits, Busy, AttemptsCapped
<1> QED
  BY <1>1, RunInvariant, PTL

(* After a cancellation no node starts to execute: the loop looks at the token *)
(* between the last settlement and the next launch (F14). *)
THEOREM CancelStopsStarts ==
  ASSUME Excludes(Leftover)
  PROVE  Spec => NoStartAfterCancel
<1> DEFINE NoStart == cancelled => \A n \in Nodes : pc'[n] = "executing" => pc[n] = "executing"
<1>1. SInv /\ [Next]_vars => [NoStart]_vars
  <2> SUFFICES ASSUME SInv, Next, cancelled,
                      NEW m \in Nodes, pc'[m] = "executing", pc[m] # "executing"
               PROVE  FALSE
    OBVIOUS
  <2>1. pc \in [Nodes -> Suspensions]
    BY DEF SInv, TypeOK
  <2>2. CASE Dispatch \/ Cancel \/ BudgetRunsOut
    BY <2>2 DEF Dispatch, Cancel, BudgetRunsOut
  <2>3. ASSUME NEW n \in Nodes, Launch(n) PROVE FALSE
    BY <2>3 DEF Launch, SInv, LaunchingIsStartable
  <2>4. ASSUME NEW n \in Nodes, Settle(n) PROVE FALSE
    <3>1. \E next \in Suspensions \ {"executing"} : pc' = [pc EXCEPT ![n] = next]
      BY <2>4 DEF Settle, ExecutePasses, GatesEscalate, ExecuteCancelled, ExecuteFails,
                  HandleFailure, ReviewApproves, ReviewRejects, HumanGrants, HumanDenies,
                  WideningDone, RollbackDone, ParkNode, Requeue, Suspensions
    <3> QED
      BY <2>1, <3>1
  <2> QED
    BY <2>2, <2>3, <2>4 DEF Next, Proceed
<1>2. NoStartAfterCancel <=> [][NoStart]_vars
  BY DEF NoStartAfterCancel
<1> QED
  BY <1>1, <1>2, RunInvariant, PTL DEF Spec

-----------------------------------------------------------------------------
(* Refinement: every step takes a whole uncontested write set, gives a whole one *)
(* back, or moves no row. *)

LEMMA SettleMovesOwnRows ==
  ASSUME NEW n \in Nodes, Settle(n)
  PROVE  locks' \in {locks, Release(locks, n), Park(locks, n), Unpark(locks, n),
                     ForceRelease(locks, n)}
BY DEF Settle, ExecutePasses, GatesEscalate, ExecuteCancelled, ExecuteFails,
       HandleFailure, ReviewApproves, ReviewRejects, HumanGrants, HumanDenies,
       WideningDone, RollbackDone, ParkNode, Requeue

LEMMA SettleGivesBackAll ==
  ASSUME SInv, NEW n \in Nodes, Settle(n)
  PROVE  HeldBy(locks', n) \in {HeldBy(locks, n), {}}
<1>1. \/ locks' \in {locks, Park(locks, n), Unpark(locks, n), ForceRelease(locks, n)}
      \/ locks' = Release(locks, n) /\ pc[n] \in Busy
  <2>1. CASE ExecutePasses(n) \/ GatesEscalate(n) \/ ExecuteCancelled(n)
             \/ HumanGrants(n) \/ HumanDenies(n)
    BY <2>1 DEF ExecutePasses, GatesEscalate, ExecuteCancelled, HumanGrants, HumanDenies, ParkNode
  <2>2. CASE \E kind \in ErrorKinds : ExecuteFails(n, kind)
    BY <2>2 DEF ExecuteFails, HandleFailure, ParkNode, Requeue, Resumes, Busy
  <2>3. CASE ReviewApproves(n) \/ WideningDone(n) \/ RollbackDone(n)
             \/ \E c \in Critiques : ReviewRejects(n, c)
    BY <2>3 DEF ReviewApproves, ReviewRejects, WideningDone, RollbackDone, ParkNode,
                Requeue, Resumes, Busy
  <2> QED
    BY <2>1, <2>2, <2>3 DEF Settle
<1>2. HeldBy(Park(locks, n), n) = HeldBy(locks, n) /\ HeldBy(Unpark(locks, n), n) = HeldBy(locks, n)
  BY DEF HeldBy, Park, Unpark
<1>3. HeldBy(ForceRelease(locks, n), n) = {}
  BY NodesAreOwners, LockAssumption DEF HeldBy, ForceRelease, Free
<1>4. pc[n] \in Busy => HeldBy(Release(locks, n), n) = {}
  BY NodesAreOwners, LockAssumption
     DEF SInv, NodesFit, Fits, Busy, HeldBy, Release, Free
<1> QED
  BY <1>1, <1>2, <1>3, <1>4

(* A run that starts on an empty table meets rows of its own nodes only. *)
RowsAreOfNodes == \A r \in Resources : locks[r].owner \in Nodes \cup {NoOwner}

LEMMA RowsStayOfNodes ==
  ASSUME \A r \in Resources : Leftover[r] = Free
  PROVE  Spec => []RowsAreOfNodes
<1>1. Init => RowsAreOfNodes
  BY DEF Init, RowsAreOfNodes, Free
<1>2. RowsAreOfNodes /\ [Next]_vars => RowsAreOfNodes'
  <2> SUFFICES ASSUME RowsAreOfNodes, [Next]_vars PROVE RowsAreOfNodes'
    OBVIOUS
  <2>1. CASE locks' = locks
    BY <2>1 DEF RowsAreOfNodes
  <2>2. ASSUME NEW n \in Nodes,
               locks' \in {Acquire(locks, n), Release(locks, n), Park(locks, n),
                          Unpark(locks, n), ForceRelease(locks, n)}
        PROVE  RowsAreOfNodes'
    BY <2>2 DEF RowsAreOfNodes, Acquire, Release, Park, Unpark, ForceRelease, Free
  <2>3. CASE UNCHANGED vars \/ Dispatch \/ Cancel \/ BudgetRunsOut
    BY <2>1, <2>3 DEF vars, Dispatch, Cancel, BudgetRunsOut
  <2>4. ASSUME NEW n \in Nodes, Launch(n) PROVE RowsAreOfNodes'
    BY <2>2, <2>4 DEF Launch
  <2>5. ASSUME NEW n \in Nodes, Settle(n) PROVE RowsAreOfNodes'
    <3>1. locks' \in {locks, Release(locks, n), Park(locks, n), Unpark(locks, n),
                     ForceRelease(locks, n)}
      BY <2>5, SettleMovesOwnRows
    <3> QED
      BY <2>1, <2>2, <3>1
  <2> QED
    BY <2>3, <2>4, <2>5 DEF Next, Proceed
<1> QED
  BY <1>1, <1>2, PTL DEF Spec

(* The run implements whole-set ownership when the table is empty at its start *)
(* (locks.ts, "hold-and-wait never forms"). *)
THEOREM RunImplementsOwnership ==
  ASSUME \A r \in Resources : Leftover[r] = Free
  PROVE  Spec => ImplementsOwnership
<1> DEFINE own == [o \in Owners |-> HeldBy(locks, o)]
<1>1. Excludes(Leftover)
  BY DEF Excludes, Free
<1>2. Init => Ownership!Init
  BY LockAssumption DEF Init, Ownership!Init, HeldBy, Free
<1>3. ASSUME NEW n \in Nodes, NEW mine \in SUBSET Resources, own' = [own EXCEPT ![n] = mine]
      PROVE  {} \in Ownership!Losers(n) /\ Ownership!Claim(n, mine, {})
  BY <1>3, NodesAreOwners DEF Ownership!Losers, Ownership!Claim
<1>4. SInv /\ RowsAreOfNodes /\ [Next]_vars => [Ownership!Next]_own
  <2> SUFFICES ASSUME SInv, RowsAreOfNodes, [Next]_vars PROVE [Ownership!Next]_own
    OBVIOUS
  <2>1. CASE locks' = locks
    BY <2>1 DEF HeldBy
  <2>2. ASSUME NEW n \in Nodes,
               locks' \in {Acquire(locks, n), Release(locks, n), Park(locks, n),
                          Unpark(locks, n), ForceRelease(locks, n)}
        PROVE  own' = [own EXCEPT ![n] = HeldBy(locks', n)]
    <3>1. locks \in Tables /\ n \in Owners
      BY NodesAreOwners DEF SInv, TypeOK
    <3>2. ASSUME NEW p \in Owners \ {n} PROVE HeldBy(locks', p) = HeldBy(locks, p)
      <4>1. CASE p \in Nodes
        BY <2>2, <3>1, <4>1, OperationsSpareNodes
      <4>2. CASE p \notin Nodes
        <5>1. HeldBy(locks, p) = {}
          BY <4>2, LockAssumption DEF RowsAreOfNodes, HeldBy
        <5>2. HeldBy(locks', p) \subseteq HeldBy(locks, p)
          BY <2>2, <3>1, AcquireGivesNobody, OthersSpareOthers
        <5> QED
          BY <5>1, <5>2
      <4> QED
        BY <4>1, <4>2
    <3> QED
      BY <3>1, <3>2
  <2>3. ASSUME NEW n \in Nodes, Launch(n) PROVE [Ownership!Next]_own
    <3>1. /\ locks' = Acquire(locks, n) /\ locks \in Tables /\ Excludes(locks) /\ n \in Owners
          /\ HeldBy(locks, n) \in {{}, Writes[n]} /\ Writes[n] \in SUBSET Resources
      BY <2>3, NodesAreOwners DEF Launch, SInv, TypeOK, NodesFit, Fits
    <3>2. own' = [own EXCEPT ![n] = IF CanAcquire(locks, n) THEN Writes[n] ELSE {}]
      <4>1. HeldBy(locks', n) = IF CanAcquire(locks, n) THEN Writes[n] ELSE {}
        BY <3>1, AcquireIsAllOrNothing
      <4> QED
        BY <2>2, <3>1, <4>1
    <3>3. CASE ~CanAcquire(locks, n)
      BY <1>3, <3>1, <3>2, <3>3 DEF Ownership!Next, Ownership!Drop
    <3>4. CASE CanAcquire(locks, n)
      <4>1. ASSUME NEW p \in Owners, NodeOf[p] # NodeOf[n],
                   NEW r \in HeldBy(locks, p), NEW w \in Writes[n]
            PROVE  <<r, w>> \notin Overlap
        <5>1. w \notin Contended(locks, n, Writes[n] \cup Reads[n]) /\ w \in Resources
          BY <3>1, <3>4, LockAssumption DEF CanAcquire
        <5>2. FindConflict(locks, w, n) = {}
          BY <5>1 DEF Contended
        <5> QED
          BY <4>1, <5>2, LockAssumption DEF FindConflict, HeldBy
      <4>2. {} \in Ownership!Losers(n) /\ Ownership!Claim(n, Writes[n], {})
        BY <1>3, <3>1, <3>2, <3>4
      <4> QED
        BY <3>1, <4>1, <4>2 DEF Ownership!Next, Ownership!Take
    <3> QED
      BY <3>3, <3>4
  <2>4. ASSUME NEW n \in Nodes, Settle(n), locks' # locks PROVE [Ownership!Next]_own
    <3>1. locks' \in {Release(locks, n), Park(locks, n), Unpark(locks, n), ForceRelease(locks, n)}
      BY <2>4, SettleMovesOwnRows
    <3>2. own' = [own EXCEPT ![n] = HeldBy(locks', n)] /\ n \in Owners
      BY <2>2, <3>1, NodesAreOwners
    <3>3. HeldBy(locks', n) \in {HeldBy(locks, n), {}}
      BY <2>4, SettleGivesBackAll
    <3>4. CASE HeldBy(locks', n) = HeldBy(locks, n)
      BY <3>2, <3>4
    <3>5. CASE HeldBy(locks', n) = {}
      BY <1>3, <3>2, <3>5 DEF Ownership!Next, Ownership!Drop
    <3> QED
      BY <3>3, <3>4, <3>5
  <2>5. CASE UNCHANGED vars \/ Dispatch \/ Cancel \/ BudgetRunsOut
    BY <2>1, <2>5 DEF vars, Dispatch, Cancel, BudgetRunsOut
  <2> QED
    BY <2>1, <2>3, <2>4, <2>5 DEF Next, Proceed
<1>5. ImplementsOwnership <=> Ownership!Spec
  BY DEF ImplementsOwnership
<1> QED
  BY <1>1, <1>2, <1>4, <1>5, RunInvariant, RowsStayOfNodes, PTL DEF Spec, Ownership!Spec

-----------------------------------------------------------------------------
(* What a run leaves behind.  Only an approval or a cancellation                *)
(* lets an idle node keep rows without being parked: with the hook wired a      *)
(* parked node is never idle, so the loop cannot pause; without it nobody       *)
(* grants; and a cancelled loop does not pause. *)
Retains(n, st, await, t, gone) ==
  /\ await = "awaiting_human" => HasApprover
  /\ st = "parked" /\ HasApprover => await = "awaiting_human"
  /\ await = "idle" /\ st # "parked" /\ HeldBy(t, n) # {} => HasApprover \/ gone

PausedIsOver ==
  loop = "paused" =>
    /\ launching = {} /\ ~cancelled
    /\ \A n \in Nodes : pc[n] = "idle"
    /\ \E n \in Nodes : status[n] = "parked"

PInv ==
  /\ SInv
  /\ \A n \in Nodes : Retains(n, status[n], pc[n], locks, cancelled)
  /\ PausedIsOver

(* A node that settles either stays at an await of its own, or goes back to the *)
(* queue with nothing, or is parked, granted or cancelled. *)
LEMMA SettlesRetaining ==
  ASSUME PInv, NEW n \in Nodes, Settle(n)
  PROVE  Retains(n, status'[n], pc'[n], locks', cancelled')
<1>1. /\ status \in [Nodes -> Statuses] /\ pc \in [Nodes -> Suspensions]
      /\ Retains(n, status[n], pc[n], locks, cancelled)
      /\ Fits(n, status[n], pc[n], attempts[n], locks)
  BY DEF PInv, SInv, TypeOK, NodesFit
<1>2. pc[n] \in Busy =>
        status[n] \in {"running", "ready"} /\ HeldBy(Release(locks, n), n) = {}
  BY <1>1, NodesAreOwners, LockAssumption DEF Fits, Busy, HeldBy, Release, Free
<1>3. ASSUME ParkNode(n) PROVE Retains(n, status'[n], pc'[n], locks', cancelled')
  <2>1. status'[n] = "parked" /\ pc'[n] = IF HasApprover THEN "awaiting_human" ELSE "idle"
    BY <1>1, <1>3 DEF ParkNode
  <2> QED
    BY <2>1, RunAssumption DEF Retains
<1>4. ASSUME Requeue(n), pc[n] \in Busy
      PROVE  Retains(n, status'[n], pc'[n], locks', cancelled')
  <2>1. status'[n] = "ready" /\ pc'[n] = "idle" /\ HeldBy(locks', n) = {}
    BY <1>1, <1>2, <1>4 DEF Requeue
  <2> QED
    BY <2>1 DEF Retains
<1>5. ASSUME NEW next, next \in Busy, pc' = [pc EXCEPT ![n] = next], UNCHANGED status,
             pc[n] \in Busy
      PROVE  Retains(n, status'[n], pc'[n], locks', cancelled')
  BY <1>1, <1>2, <1>5 DEF Retains, Busy
<1>6. CASE ExecutePasses(n)
  BY <1>5, <1>6 DEF ExecutePasses, Resumes, Busy
<1>7. CASE GatesEscalate(n)
  BY <1>3, <1>7 DEF GatesEscalate
<1>8. CASE ExecuteCancelled(n)
  <2>1. /\ pc[n] = "executing" /\ pc'[n] = "idle" /\ status'[n] = status[n]
        /\ cancelled' = TRUE
    BY <1>1, <1>8 DEF ExecuteCancelled, Resumes, loopVars, PInv, SInv, TypeOK
  <2> QED
    BY <1>2, <2>1 DEF Retains, Busy
<1>9. ASSUME NEW kind \in ErrorKinds, ExecuteFails(n, kind)
      PROVE  Retains(n, status'[n], pc'[n], locks', cancelled')
  <2>1. pc[n] \in Busy
    BY <1>9 DEF ExecuteFails, Resumes, Busy
  <2>2. \/ Requeue(n) \/ ParkNode(n)
        \/ \E next \in Busy : pc' = [pc EXCEPT ![n] = next] /\ UNCHANGED status
    BY <1>9 DEF ExecuteFails, HandleFailure, Busy
  <2> QED
    BY <1>3, <1>4, <1>5, <2>1, <2>2
<1>10. CASE ReviewApproves(n) \/ RollbackDone(n)
  <2>1. pc[n] \in Busy /\ locks' = Release(locks, n) /\ pc'[n] = "idle"
    BY <1>1, <1>10 DEF ReviewApproves, RollbackDone, Resumes, Busy
  <2>2. status'[n] # "parked"
    BY <1>1, <1>2, <1>10, <2>1 DEF ReviewApproves, RollbackDone
  <2> QED
    BY <1>2, <2>1, <2>2 DEF Retains
<1>11. ASSUME NEW c \in Critiques, ReviewRejects(n, c)
       PROVE  Retains(n, status'[n], pc'[n], locks', cancelled')
  <2>1. pc[n] \in Busy /\ (ParkNode(n) \/ Requeue(n))
    BY <1>11 DEF ReviewRejects, Resumes, Busy
  <2> QED
    BY <1>3, <1>4, <2>1
<1>12. CASE HumanGrants(n)
  <2>1. pc'[n] = "idle" /\ status'[n] = "ready" /\ HasApprover
    BY <1>1, <1>12 DEF HumanGrants, Resumes, Retains
  <2> QED
    BY <2>1 DEF Retains
<1>13. CASE HumanDenies(n)
  <2>1. pc'[n] = "idle" /\ status'[n] = "failed" /\ HeldBy(locks', n) = {}
    BY <1>1, <1>13, NodesAreOwners, LockAssumption DEF HumanDenies, HeldBy, ForceRelease, Free
  <2> QED
    BY <2>1 DEF Retains
<1>14. CASE WideningDone(n)
  BY <1>4, <1>14 DEF WideningDone, Resumes, Busy
<1> QED
  BY <1>6, <1>7, <1>8, <1>9, <1>10, <1>11, <1>12, <1>13, <1>14 DEF Settle

(* What a settlement does to the other nodes: a cascade may requeue one that is *)
(* not parked, and nothing more. *)
LEMMA SettleSparesNodes ==
  ASSUME SInv, NEW n \in Nodes, Settle(n), NEW m \in Nodes \ {n}
  PROVE  /\ pc'[m] = pc[m]
         /\ HeldBy(locks', m) = HeldBy(locks, m)
         /\ \/ status'[m] = status[m]
            \/ status'[m] = "ready" /\ status[m] \in ConsumedStatuses
<1>1. status \in [Nodes -> Statuses] /\ pc \in [Nodes -> Suspensions] /\ locks \in Tables
  BY DEF SInv, TypeOK
<1>2. /\ \E next : pc' = [pc EXCEPT ![n] = next]
      /\ locks' \in {locks, Release(locks, n), Park(locks, n), Unpark(locks, n),
                     ForceRelease(locks, n)}
  BY SettleMovesOne
     DEF Settle, ExecutePasses, GatesEscalate, ExecuteCancelled, ExecuteFails, HandleFailure,
         ReviewApproves, ReviewRejects, HumanGrants, HumanDenies, WideningDone, RollbackDone,
         ParkNode, Requeue
<1>3. HeldBy(locks', m) = HeldBy(locks, m)
  BY <1>1, <1>2, OperationsSpareNodes
<1>4. CASE RollbackDone(n)
  <2>1. status'[m] = IF m \in DirtiedBy(n) THEN "ready" ELSE status[m]
    BY <1>4 DEF RollbackDone
  <2> QED
    BY <1>1, <1>2, <1>3, <2>1, DirtiedAreConsumers
<1>5. CASE ~RollbackDone(n)
  <2>1. \E word : status' \in {status, [status EXCEPT ![n] = word]}
    <3>1. CASE ExecutePasses(n) \/ GatesEscalate(n) \/ ExecuteCancelled(n)
               \/ HumanGrants(n) \/ HumanDenies(n) \/ ReviewApproves(n)
      BY <3>1 DEF ExecutePasses, GatesEscalate, ExecuteCancelled, HumanGrants, HumanDenies,
                  ReviewApproves, ParkNode
    <3>2. CASE WideningDone(n) \/ (\E kind \in ErrorKinds : ExecuteFails(n, kind))
               \/ \E c \in Critiques : ReviewRejects(n, c)
      BY <3>2 DEF ExecuteFails, HandleFailure, ReviewRejects, WideningDone, ParkNode, Requeue
    <3> QED
      BY <1>5, <3>1, <3>2 DEF Settle
  <2> QED
    BY <1>1, <1>2, <1>3, <2>1
<1> QED
  BY <1>4, <1>5

LEMMA PInvStep == PInv /\ [Next]_vars => PInv'
<1> SUFFICES ASSUME PInv, [Next]_vars PROVE PInv'
  OBVIOUS
<1>1. SInv /\ SInv'
  BY SInvStep DEF PInv
<1>2. status \in [Nodes -> Statuses] /\ pc \in [Nodes -> Suspensions] /\ locks \in Tables
  BY <1>1 DEF SInv, TypeOK
<1>3. ASSUME \A n \in Nodes : Retains(n, status'[n], pc'[n], locks', cancelled'), PausedIsOver'
      PROVE  PInv'
  BY <1>1, <1>3 DEF PInv, Retains, HeldBy
<1>4. CASE UNCHANGED vars \/ Dispatch \/ Cancel \/ BudgetRunsOut
  <2>1. UNCHANGED <<status, pc, locks>> /\ (cancelled => cancelled')
    BY <1>4 DEF vars, Dispatch, Cancel, BudgetRunsOut
  <2>2. \A n \in Nodes : Retains(n, status'[n], pc'[n], locks', cancelled')
    BY <2>1 DEF PInv, Retains
  <2>3. PausedIsOver'
    <3>1. CASE UNCHANGED vars
      BY <3>1 DEF vars, PInv, PausedIsOver
    <3>2. CASE Dispatch
      <4>1. CASE loop' = "paused"
        BY <3>2, <4>1 DEF Dispatch, ThrowIfCancelled, InFlight, PausedIsOver
      <4> QED
        BY <4>1 DEF PausedIsOver
    <3>3. CASE Cancel \/ BudgetRunsOut
      BY <3>3 DEF Cancel, BudgetRunsOut, PausedIsOver
    <3> QED
      BY <1>4, <3>1, <3>2, <3>3
  <2> QED
    BY <1>3, <2>2, <2>3
<1>5. ASSUME NEW n \in Nodes, Launch(n) PROVE PInv'
  <2>1. /\ locks' = Acquire(locks, n) /\ cancelled' = cancelled /\ loop' = loop
        /\ loop = "running"
        /\ Excludes(locks) /\ HeldBy(locks, n) \in {{}, Writes[n]} /\ n \in Owners
    BY <1>1, <1>5, NodesAreOwners DEF Launch, SInv, LaunchingIsStartable, NodesFit, Fits
  <2>2. PausedIsOver'
    BY <2>1 DEF PausedIsOver
  <2>3. Retains(n, status'[n], pc'[n], locks', cancelled')
    <3>1. CASE CanAcquire(locks, n)
      <4>1. status'[n] = "running" /\ pc'[n] \in {"rolling_back", "executing"}
        BY <1>2, <1>5, <3>1 DEF Launch
      <4> QED
        BY <4>1 DEF Retains
    <3>2. CASE ~CanAcquire(locks, n)
      <4>1. status'[n] = "blocked" /\ pc'[n] = pc[n] /\ HeldBy(locks', n) = {}
        BY <1>2, <1>5, <2>1, <3>2, AcquireIsAllOrNothing DEF Launch
      <4> QED
        BY <4>1 DEF Retains, PInv
    <3> QED
      BY <3>1, <3>2
  <2>4. ASSUME NEW m \in Nodes \ {n} PROVE Retains(m, status'[m], pc'[m], locks', cancelled')
    <3>1. status'[m] = status[m] /\ pc'[m] = pc[m]
      BY <1>2, <1>5 DEF Launch
    <3>2. HeldBy(locks', m) = HeldBy(locks, m)
      BY <1>2, <2>1, OperationsSpareNodes
    <3> QED
      BY <2>1, <3>1, <3>2 DEF PInv, Retains
  <2> QED
    BY <1>3, <2>2, <2>3, <2>4
<1>6. ASSUME NEW n \in Nodes, Settle(n) PROVE PInv'
  <2>1. cancelled' = cancelled /\ loop' \in {loop, "cancelled"}
    BY <1>6 DEF Settle, ExecutePasses, GatesEscalate, ExecuteCancelled, ExecuteFails,
                ReviewApproves, ReviewRejects, HumanGrants, HumanDenies, WideningDone,
                RollbackDone, loopVars
  <2>2. loop # "paused"
    BY <1>6, SettleResumes DEF PInv, PausedIsOver
  <2>3. PausedIsOver'
    BY <2>1, <2>2 DEF PausedIsOver
  <2>4. ASSUME NEW m \in Nodes \ {n} PROVE Retains(m, status'[m], pc'[m], locks', cancelled')
    BY <1>1, <1>6, <2>1, SettleSparesNodes DEF PInv, Retains, ConsumedStatuses
  <2> QED
    BY <1>3, <1>6, <2>3, <2>4, SettlesRetaining
<1> QED
  BY <1>4, <1>5, <1>6 DEF Next, Proceed

(* A run that completes or pauses has its parked nodes' whole write sets in the *)
(* table and no other row: nothing is left that nobody will give back. *)
THEOREM RunLeavesOnlyItsParked ==
  ASSUME Excludes(Leftover)
  PROVE  Spec => []LeavesOnlyItsParked
<1>1. Init => PInv
  <2> SUFFICES ASSUME Init PROVE PInv
    OBVIOUS
  <2>1. \A n \in Nodes : HeldBy(locks, n) = {}
    BY RunAssumption DEF Init, HeldBy
  <2>2. \A n \in Nodes : status[n] = "pending" /\ pc[n] = "idle"
    BY DEF Init
  <2>3. \A n \in Nodes : Retains(n, status[n], pc[n], locks, cancelled)
    BY <2>1, <2>2 DEF Retains
  <2>4. PausedIsOver
    BY DEF Init, PausedIsOver
  <2> QED
    BY <2>3, <2>4, SInvInit DEF PInv
<1>2. PInv => LeavesOnlyItsParked
  <2> SUFFICES ASSUME PInv, loop \in {"completed", "paused"}, NEW n \in Nodes
               PROVE  HeldBy(locks, n) = IF status[n] = "parked" THEN Writes[n] ELSE {}
    BY DEF LeavesOnlyItsParked
  <2>1. Fits(n, status[n], pc[n], attempts[n], locks)
    BY DEF PInv, SInv, NodesFit
  <2>2. CASE loop = "completed"
    <3>1. status[n] = "done"
      BY <2>2 DEF PInv, SInv, CompletedIsOver
    <3> QED
      BY <2>1, <3>1 DEF Fits, Idlers
  <2>3. CASE loop = "paused"
    <3>1. ~cancelled /\ ~HasApprover /\ pc[n] = "idle"
      BY <2>3 DEF PInv, PausedIsOver, Retains
    <3>2. status[n] = "parked" => HeldBy(locks, n) = Writes[n]
      BY <2>1 DEF Fits
    <3>3. status[n] # "parked" => HeldBy(locks, n) = {}
      BY <3>1 DEF PInv, Retains
    <3> QED
      BY <3>2, <3>3
  <2> QED
    BY <2>2, <2>3
<1> QED
  BY <1>1, <1>2, PInvStep, PTL DEF Spec

-----------------------------------------------------------------------------
(* Induction over the natural numbers, for a set. *)
LEMMA Induction ==
  ASSUME NEW T, 0 \in T, \A k \in Nat : k \in T => k + 1 \in T
  PROVE  Nat \subseteq T
<1> SUFFICES ASSUME Nat \ T # {} PROVE FALSE
  OBVIOUS
<1> DEFINE R == OpToRel(<, Nat)
<1>1. IsWellFoundedOn(R, Nat)
  BY NatLessThanWellFounded
<1>2. \E x \in Nat \ T : \A y \in Nat \ T : ~(<<y, x>> \in R)
  <2> HIDE DEF R
  <2> QED
    BY <1>1, WFMin
<1>3. PICK x \in Nat \ T : \A y \in Nat \ T : ~(<<y, x>> \in R)
  BY <1>2
<1>4. x # 0
  OBVIOUS
<1>5. x - 1 \in Nat /\ x - 1 + 1 = x
  BY <1>4
<1>6. x - 1 \in Nat \ T
  BY <1>5
<1>7. <<x - 1, x>> \in R
  BY <1>5 DEF OpToRel
<1> QED
  BY <1>3, <1>6, <1>7

LEMMA MaxIs ==
  ASSUME NEW k \in Nat, NEW s \in SUBSET (1 .. k + 1), k + 1 \in s
  PROVE  Max(s) = k + 1
<1>1. \A y \in s : y \in Nat /\ k + 1 >= y
  OBVIOUS
<1>2. \E x \in s : \A y \in s : x >= y
  BY <1>1
<1>3. Max(s) \in s /\ \A y \in s : Max(s) >= y
  BY <1>2 DEF Max
<1> HIDE DEF Max
<1>4. Max(s) >= k + 1 /\ k + 1 >= Max(s) /\ Max(s) \in Nat
  BY <1>1, <1>3
<1> QED
  BY <1>4


-----------------------------------------------------------------------------
(* The cascade.  The levels of its search exist, each is found from the one    *)
(* before it, and so the readers of the origin are in from the first level on. *)
Found(prev, origin, consumers, feedsOn) ==
  prev \cup {m \in consumers \ {origin} : \E s \in prev \cup {origin} : <<m, s>> \in feedsOn}

Levels(f, origin, consumers, feedsOn, n) ==
  f = [d \in 0 .. n |-> IF d = 0 THEN {} ELSE Found(f[d - 1], origin, consumers, feedsOn)]

LEMMA LevelsExist ==
  ASSUME NEW origin, NEW consumers, NEW feedsOn, NEW n \in Nat
  PROVE  \E f : Levels(f, origin, consumers, feedsOn, n)
<1> DEFINE T == {k \in Nat : \E f : Levels(f, origin, consumers, feedsOn, k)}
<1>1. 0 \in T
  <2>1. Levels([d \in 0 .. 0 |-> {}], origin, consumers, feedsOn, 0)
    <3>1. \A d \in 0 .. 0 : d = 0
      OBVIOUS
    <3> QED
      BY <3>1 DEF Levels
  <2> QED
    BY <2>1
<1>2. ASSUME NEW k \in Nat, k \in T
      PROVE  k + 1 \in T
  <2>1. PICK f : Levels(f, origin, consumers, feedsOn, k)
    BY <1>2
  <2> DEFINE last == Found(f[k], origin, consumers, feedsOn)
             g == [d \in 0 .. k + 1 |-> IF d = k + 1 THEN last ELSE f[d]]
  <2> HIDE DEF last
  <2>2. ASSUME NEW d \in 0 .. k + 1
        PROVE  g[d] = IF d = 0 THEN {} ELSE Found(g[d - 1], origin, consumers, feedsOn)
    <3>1. CASE d = k + 1
      <4>1. d - 1 = k /\ k \in 0 .. k + 1 /\ k # k + 1 /\ d # 0
        BY <3>1
      <4>2. g[d] = last /\ g[d - 1] = f[k]
        BY <3>1, <4>1
      <4> QED
        BY <4>1, <4>2 DEF last
    <3>2. CASE d # k + 1
      <4>1. d \in 0 .. k /\ (d # 0 => d - 1 \in 0 .. k + 1 /\ d - 1 # k + 1)
        BY <3>2
      <4>2. f[d] = IF d = 0 THEN {} ELSE Found(f[d - 1], origin, consumers, feedsOn)
        BY <2>1, <4>1 DEF Levels
      <4>3. g[d] = f[d] /\ (d # 0 => g[d - 1] = f[d - 1])
        BY <3>2, <4>1
      <4> HIDE DEF g
      <4> QED
        BY <4>2, <4>3
    <3> QED
      BY <3>1, <3>2
  <2>3. g = [d \in 0 .. k + 1 |-> g[d]]
    OBVIOUS
  <2> HIDE DEF g
  <2>4. Levels(g, origin, consumers, feedsOn, k + 1)
    BY <2>2, <2>3 DEF Levels
  <2> QED
    BY <2>4
<1> HIDE DEF T
<1>3. Nat \subseteq T
  BY <1>1, <1>2, Induction
<1> QED
  BY <1>3 DEF T

LEMMA ReachedByLevels ==
  ASSUME NEW origin, NEW consumers, NEW feedsOn, NEW maxDepth \in Nat, maxDepth # 0
  PROVE  LET reached == Reached(origin, consumers, feedsOn, maxDepth)
         IN reached[maxDepth] = Found(reached[maxDepth - 1], origin, consumers, feedsOn)
<1> DEFINE Is(f) == Levels(f, origin, consumers, feedsOn, maxDepth)
           f == CHOOSE g : Is(g)
<1>1. Is(f)
  <2>1. \E g : Is(g)
    BY LevelsExist
  <2> HIDE DEF Is
  <2> QED
    BY <2>1
<1>2. Reached(origin, consumers, feedsOn, maxDepth) = f
  BY DEF Reached, Levels, Found
<1> HIDE DEF f
<1>3. f[maxDepth] = Found(f[maxDepth - 1], origin, consumers, feedsOn)
  <2>1. maxDepth \in 0 .. maxDepth
    OBVIOUS
  <2> QED
    BY <1>1, <2>1, Zenon DEF Levels
<1> QED
  BY <1>2, <1>3

LEMMA ReadersAreDirtied ==
  ASSUME NEW origin, NEW consumers, NEW feedsOn, NEW maxDepth \in Nat, maxDepth # 0,
         NEW m \in consumers \ {origin}, <<m, origin>> \in feedsOn
  PROVE  m \in Dirtied(origin, consumers, feedsOn, maxDepth)
BY ReachedByLevels DEF Dirtied, Found

(* A search that is not cut short has found every reader of what it found: the *)
(* last level added nobody who writes. *)
LEMMA CascadeCloses ==
  ASSUME NEW origin, NEW consumers, NEW feedsOn, NEW writers, NEW maxDepth \in Nat,
         ~Truncated(origin, consumers, feedsOn, writers, maxDepth),
         NEW s \in Dirtied(origin, consumers, feedsOn, maxDepth) \cup {origin}, s \in writers,
         NEW m \in consumers \ {origin}, <<m, s>> \in feedsOn
  PROVE  m \in Dirtied(origin, consumers, feedsOn, maxDepth)
<1> DEFINE reached == Reached(origin, consumers, feedsOn, maxDepth)
<1>1. maxDepth # 0 /\ reached[maxDepth] \cap writers = reached[maxDepth - 1] \cap writers
  BY DEF Truncated
<1>2. reached[maxDepth] = Found(reached[maxDepth - 1], origin, consumers, feedsOn)
  BY <1>1, ReachedByLevels
<1>3. Dirtied(origin, consumers, feedsOn, maxDepth) = consumers \cap reached[maxDepth]
  BY DEF Dirtied
<1> HIDE DEF reached
<1>4. s \in reached[maxDepth - 1] \cup {origin}
  BY <1>1, <1>3
<1>5. m \in reached[maxDepth]
  BY <1>2, <1>4 DEF Found
<1> QED
  BY <1>3, <1>5

(* A rollback whose cascade reaches its end leaves no node done that read what *)
(* is gone, or what somebody wrote who has to do it again (cascade.ts, "every  *)
(* node whose read set intersects ... transitively"), whatever runs beside it. *)
THEOREM CascadeLeavesNobody == Spec => CascadeLeavesNoReader
<1> DEFINE NoReader ==
      \A n \in Nodes :
        RollsBack(n) /\ ~Truncated(n, Consumers, Feeds, Writers, MaxCascadeDepth) =>
          \A s \in DirtiedBy(n) \cup {n}, m \in Nodes \ {n} :
            <<m, s>> \in Feeds => status'[m] # "done"
<1>1. TypeOK /\ [Next]_vars => [NoReader]_vars
  <2> SUFFICES ASSUME TypeOK, Next, NEW n \in Nodes, RollsBack(n),
                      ~Truncated(n, Consumers, Feeds, Writers, MaxCascadeDepth),
                      NEW s \in DirtiedBy(n) \cup {n}, NEW m \in Nodes \ {n},
                      <<m, s>> \in Feeds, status'[m] = "done"
               PROVE  FALSE
    OBVIOUS
  <2>1. RollbackDone(n)
    <3>1. pc \in [Nodes -> Suspensions] /\ pc[n] = "rolling_back" /\ pc'[n] = "idle"
      BY DEF TypeOK, RollsBack
    <3>2. ~(Dispatch \/ Cancel \/ BudgetRunsOut)
      BY <3>1 DEF Dispatch, Cancel, BudgetRunsOut
    <3>3. ASSUME NEW k \in Nodes, Launch(k) PROVE FALSE
      BY <3>1, <3>3 DEF Launch
    <3>4. ASSUME NEW k \in Nodes, Settle(k) PROVE k = n
      <4>1. \E next : pc' = [pc EXCEPT ![k] = next]
        BY <3>4, SettleMovesOne
      <4> QED
        BY <3>1, <4>1
    <3>5. Settle(n)
      BY <3>2, <3>3, <3>4 DEF Next, Proceed
    <3> QED
      BY <3>1, <3>5 DEF Settle, Resumes, ExecutePasses, GatesEscalate, ExecuteCancelled,
                        ExecuteFails, ReviewApproves, ReviewRejects, HumanGrants, HumanDenies,
                        WideningDone
  <2>2. s \in Writers
    <3>1. s \in Nodes
      BY DEF DirtiedBy, Dirtied, Consumers
    <3>2. SetsIntersect(Reads[m], Writes[s])
      BY DEF Feeds
    <3> QED
      BY <3>1, <3>2 DEF Writers, SetsIntersect
  <2>3. status'[m] = IF m \in DirtiedBy(n) THEN "ready" ELSE status[m]
    BY <2>1 DEF RollbackDone
  <2>4. m \in Consumers \ {n}
    BY <2>3 DEF Consumers, ConsumedStatuses
  <2>5. m \in DirtiedBy(n)
    BY <2>2, <2>4, CascadeCloses, RunAssumption DEF DirtiedBy
  <2> QED
    BY <2>3, <2>5
<1>2. CascadeLeavesNoReader <=> [][NoReader]_vars
  BY DEF CascadeLeavesNoReader
<1> QED
  BY <1>1, <1>2, RunTypeCorrect, PTL DEF Spec

(* Cut short or not, it requeues whoever is done and read what is rolled back:  *)
(* what the cascade misses is in flight. *)
LEMMA CascadeReachesTheDone ==
  ASSUME TypeOK, MaxCascadeDepth # 0, NEW n \in Nodes, RollbackDone(n),
         NEW m \in Nodes \ {n}, <<m, n>> \in Feeds, status[m] = "done"
  PROVE  status'[m] = "ready"
<1>1. m \in Consumers
  BY DEF Consumers, ConsumedStatuses
<1>2. m \in DirtiedBy(n)
  BY <1>1, ReadersAreDirtied, RunAssumption DEF DirtiedBy
<1> QED
  BY <1>2 DEF RollbackDone

-----------------------------------------------------------------------------
(* A run of width one.  A batch is one node, so while a node rolls back every *)
(* other node is at rest. *)
LEMMA BatchOfOne ==
  ASSUME Width = 1, NEW m \in Batch, NEW n \in Batch
  PROVE  m = n
<1>1. ASSUME NEW a \in Batch, NEW b \in Batch, Position[a] < Position[b]
      PROVE  FALSE
  <2> DEFINE before == {k \in Ready : Position[k] < Position[b]}
  <2>1. a \in before /\ before \subseteq Nodes
    BY <1>1 DEF Batch, Ready
  <2>2. IsFiniteSet(before) /\ Cardinality(before) < 1
    BY <2>1, FS_Subset, RunAssumption DEF Batch
  <2> HIDE DEF before
  <2>3. Cardinality(before) = 0
    BY <2>2, FS_CardinalityType
  <2> QED
    BY <2>1, <2>2, <2>3, FS_EmptySet
<1>2. m \in Nodes /\ n \in Nodes
  BY DEF Batch, Ready
<1>3. Position[m] \in Nat /\ Position[n] \in Nat
  BY <1>2, RunAssumption
<1>4. Position[m] = Position[n]
  BY <1>1, <1>3
<1> QED
  BY <1>2, <1>4, RunAssumption

Alone == \A m, n \in launching \cup InFlight : m = n

OutdatedWait == \A n \in outdated : status[n] # "done" /\ pc[n] = "idle"

WInv == TypeOK /\ Alone /\ OutdatedWait

(* A settlement starts nobody. *)
LEMMA SettleStartsNobody ==
  ASSUME TypeOK, NEW n \in Nodes, Settle(n)
  PROVE  launching' = launching /\ InFlight' \subseteq InFlight
<1>1. launching' = launching
  BY DEF Settle, ExecutePasses, GatesEscalate, ExecuteCancelled, ExecuteFails,
         ReviewApproves, ReviewRejects, HumanGrants, HumanDenies, WideningDone,
         RollbackDone, loopVars
<1>2. \E next : pc' = [pc EXCEPT ![n] = next]
  BY SettleMovesOne
<1>3. pc[n] # "idle"
  BY SettleResumes
<1> QED
  BY <1>1, <1>2, <1>3 DEF InFlight, TypeOK

(* A step of the other nodes leaves a node that waits to run again as it is, or *)
(* requeues it. *)
LEMMA OutdatedStep ==
  ASSUME WInv, MaxCascadeDepth # 0, SInv, NEW n \in Nodes, Settle(n)
  PROVE  OutdatedWait'
<1>1. pc[n] # "idle" /\ pc \in [Nodes -> Suspensions] /\ outdated \subseteq Nodes
  BY SettleResumes DEF WInv, TypeOK
<1>2. ASSUME NEW m \in outdated
      PROVE  status'[m] # "done" /\ pc'[m] = "idle"
  <2>1. m \in Nodes \ {n} /\ status[m] # "done" /\ pc[m] = "idle"
    BY <1>1, <1>2 DEF WInv, OutdatedWait
  <2> QED
    BY <2>1, SettleSparesNodes
<1>3. CASE ~RollbackDone(n)
  <2>1. outdated' = outdated
    BY <1>3 DEF Settle, ExecutePasses, GatesEscalate, ExecuteCancelled, ExecuteFails,
         ReviewApproves, ReviewRejects, HumanGrants, HumanDenies, WideningDone
  <2> QED
    BY <1>2, <2>1 DEF OutdatedWait
<1>4. CASE RollbackDone(n)
  <2>1. ASSUME NEW m \in Nodes \ {n}, <<m, n>> \in Feeds,
               status[m] = "done" \/ pc[m] \in {"executing", "reviewing"}
        PROVE  status'[m] # "done" /\ pc'[m] = "idle"
    <3>1. pc[m] = "idle"
      BY <1>1, <2>1 DEF WInv, Alone, InFlight
    <3>2. status[m] = "done"
      BY <2>1, <3>1
    <3>3. status'[m] = "ready"
      BY <1>4, <2>1, <3>2, CascadeReachesTheDone DEF WInv
    <3> QED
      BY <2>1, <3>1, <3>3, SettleSparesNodes
  <2>2. outdated' = outdated \cup
          {m \in Nodes \ {n} : /\ <<m, n>> \in Feeds
                               /\ status[m] = "done" \/ pc[m] \in {"executing", "reviewing"}}
    BY <1>4 DEF RollbackDone
  <2> QED
    BY <1>2, <2>1, <2>2 DEF OutdatedWait
<1> QED
  BY <1>3, <1>4

LEMMA WInvStep ==
  ASSUME Width = 1, MaxCascadeDepth # 0
  PROVE  SInv /\ WInv /\ [Next]_vars => WInv'
<1> SUFFICES ASSUME SInv, WInv, [Next]_vars PROVE WInv'
  OBVIOUS
<1>1. TypeOK /\ TypeOK'
  BY TypeStep DEF SInv
<1>2. CASE UNCHANGED vars \/ Cancel \/ BudgetRunsOut
  <2>1. UNCHANGED <<launching, pc, status, outdated>>
    BY <1>2 DEF vars, Cancel, BudgetRunsOut
  <2> QED
    BY <1>1, <2>1 DEF WInv, Alone, OutdatedWait, InFlight
<1>3. CASE Dispatch
  <2>1. /\ InFlight = {} /\ launching = {} /\ launching' \in {launching, Batch}
        /\ UNCHANGED <<pc, status, outdated>>
    BY <1>3 DEF Dispatch
  <2>2. InFlight' = {}
    BY <2>1 DEF InFlight
  <2>3. Alone'
    BY <2>1, <2>2, BatchOfOne DEF Alone
  <2> QED
    BY <1>1, <2>1, <2>3 DEF WInv, OutdatedWait
<1>4. ASSUME NEW n \in Nodes, Launch(n) PROVE WInv'
  <2>1. /\ n \in launching /\ launching' = launching \ {n}
        /\ \A m \in Nodes \ {n} : pc'[m] = pc[m] /\ status'[m] = status[m]
    BY <1>1, <1>4 DEF Launch, TypeOK
  <2>2. Alone'
    <3>1. launching' = {} /\ \A m \in Nodes \ {n} : pc'[m] = "idle"
      BY <1>1, <2>1 DEF WInv, Alone, InFlight, TypeOK
    <3> QED
      BY <3>1 DEF Alone, InFlight
  <2>3. OutdatedWait'
    <3>1. CASE CanAcquire(locks, n)
      <4>1. outdated' = outdated \ {n} /\ outdated \subseteq Nodes
        BY <1>1, <1>4, <3>1 DEF Launch, TypeOK
      <4> QED
        BY <2>1, <4>1 DEF WInv, OutdatedWait
    <3>2. CASE ~CanAcquire(locks, n)
      <4>1. outdated' = outdated /\ pc' = pc /\ status'[n] = "blocked" /\ outdated \subseteq Nodes
        BY <1>1, <1>4, <3>2 DEF Launch, TypeOK
      <4> QED
        BY <2>1, <4>1 DEF WInv, OutdatedWait
    <3> QED
      BY <3>1, <3>2
  <2> QED
    BY <1>1, <2>2, <2>3 DEF WInv
<1>5. ASSUME NEW n \in Nodes, Settle(n) PROVE WInv'
  <2>1. Alone'
    BY <1>1, <1>5, SettleStartsNobody DEF WInv, Alone
  <2> QED
    BY <1>1, <1>5, <2>1, OutdatedStep DEF WInv
<1> QED
  BY <1>2, <1>3, <1>4, <1>5 DEF Next, Proceed

(* With one node at a time the cascade misses nobody: no node stays done that   *)
(* read what was rolled back (cascade.ts, "every node whose read set intersects *)
(* the rolled-back write set is marked dirty and requeued").  What the promise  *)
(* fails on with a greater width is a reader in flight. *)
THEOREM WidthOneMissesNobody ==
  ASSUME Excludes(Leftover), Width = 1, MaxCascadeDepth # 0
  PROVE  Spec => []NoOutdatedResult
<1>1. Init => WInv
  BY TypeInit DEF Init, WInv, Alone, OutdatedWait, InFlight
<1>2. WInv => NoOutdatedResult
  BY DEF WInv, OutdatedWait, NoOutdatedResult
<1> QED
  BY <1>1, <1>2, WInvStep, RunInvariant, PTL DEF Spec

-----------------------------------------------------------------------------
(* Folding a sequence of events, into the run and the sign of activity at once. *)
Both(p, e) == <<Apply(p[1], e), ActiveAfter(p[2], e)>>
Folded(p, s) == <<Fold(p[1], s), FoldLeft(ActiveAfter, p[2], s)>>

Steps(f, s, n) == \A i \in 1 .. n : f[i] = Both(f[i - 1], s[i])
Trail(f, p, s) == f[0] = p /\ Steps(f, s, Len(s))

Solves(g, v, a, s, n) ==
  g = [x \in SUBSET (1 .. n) |->
         IF x = {} THEN <<v, a>> ELSE Both(g[x \ {Max(x)}], s[Max(x)])]

LEMMA BothIs ==
  ASSUME NEW v, NEW a, NEW e
  PROVE  Both(<<v, a>>, e) = <<Apply(v, e), ActiveAfter(a, e)>>
BY DEF Both

\* The recursion of a fold over the first k events has a solution.
LEMMA FoldExists ==
  ASSUME NEW v, NEW a, NEW s, NEW k \in Nat
  PROVE  \E g : Solves(g, v, a, s, k)
<1> DEFINE Is(g, n) == Solves(g, v, a, s, n)
           T == {n \in Nat : \E g : Is(g, n)}
<1>1. 0 \in T
  <2> DEFINE g == [x \in SUBSET (1 .. 0) |-> <<v, a>>]
  <2>1. SUBSET (1 .. 0) = {{}}
    OBVIOUS
  <2>2. Is(g, 0)
    BY <2>1 DEF Solves
  <2> QED
    BY <2>2
<1>2. ASSUME NEW n \in Nat, n \in T
      PROVE  n + 1 \in T
  <2>1. PICK g : Is(g, n)
    BY <1>2
  <2> DEFINE h == [x \in SUBSET (1 .. n + 1) |->
                     IF n + 1 \in x THEN Both(g[x \ {n + 1}], s[n + 1]) ELSE g[x]]
  <2>2. ASSUME NEW x \in SUBSET (1 .. n + 1)
        PROVE  h[x] = IF x = {} THEN <<v, a>> ELSE Both(h[x \ {Max(x)}], s[Max(x)])
    <3>1. CASE n + 1 \in x
      <4>1. Max(x) = n + 1
        BY <3>1, MaxIs
      <4>2. x \ {n + 1} \in SUBSET (1 .. n + 1) /\ n + 1 \notin x \ {n + 1}
        OBVIOUS
      <4>3. h[x \ {n + 1}] = g[x \ {n + 1}]
        BY <4>2
      <4>4. h[x] = Both(g[x \ {n + 1}], s[n + 1])
        BY <3>1
      <4> HIDE DEF h
      <4> QED
        BY <3>1, <4>1, <4>3, <4>4
    <3>2. CASE n + 1 \notin x
      <4>1. x \in SUBSET (1 .. n)
        BY <3>2
      <4>2. g[x] = IF x = {} THEN <<v, a>> ELSE Both(g[x \ {Max(x)}], s[Max(x)])
        BY <2>1, <4>1 DEF Solves
      <4>3. x \ {Max(x)} \in SUBSET (1 .. n + 1) /\ n + 1 \notin x \ {Max(x)}
        BY <3>2
      <4>4. h[x \ {Max(x)}] = g[x \ {Max(x)}] /\ h[x] = g[x]
        BY <3>2, <4>3
      <4> HIDE DEF h
      <4> QED
        BY <4>2, <4>4
    <3> QED
      BY <3>1, <3>2
  <2>3. h = [x \in SUBSET (1 .. n + 1) |->
                IF x = {} THEN <<v, a>> ELSE Both(h[x \ {Max(x)}], s[Max(x)])]
    BY <2>2
  <2> HIDE DEF h
  <2>4. \E g2 : Is(g2, n + 1)
    BY <2>3 DEF Solves
  <2> HIDE DEF Is
  <2> QED
    BY <2>4
<1> HIDE DEF T
<1>3. Nat \subseteq T
  BY <1>1, <1>2, Induction
<1> QED
  BY <1>3 DEF T

\* A fold takes one event after the other.
LEMMA FoldTrail ==
  ASSUME NEW v, NEW a, NEW S, NEW s \in Seq(S)
  PROVE  \E f : Trail(f, <<v, a>>, s) /\ Folded(<<v, a>>, s) = f[Len(s)]
<1> DEFINE N == Len(s)
           IsV(g) == g = [x \in SUBSET (1 .. N) |->
                            IF x = {} THEN v ELSE Apply(g[x \ {Max(x)}], s[Max(x)])]
           IsA(g) == g = [x \in SUBSET (1 .. N) |->
                            IF x = {} THEN a ELSE ActiveAfter(g[x \ {Max(x)}], s[Max(x)])]
<1>1. N \in Nat /\ DOMAIN s = 1 .. N
  BY LenProperties
<1>2. PICK g : Solves(g, v, a, s, N)
  BY <1>1, FoldExists
<1>3. \A x \in SUBSET (1 .. N) : x \ {Max(x)} \in SUBSET (1 .. N)
  OBVIOUS
<1>4. \E gv : IsV(gv)
  <2> DEFINE gv == [x \in SUBSET (1 .. N) |-> g[x][1]]
  <2>1. ASSUME NEW x \in SUBSET (1 .. N)
        PROVE  gv[x] = IF x = {} THEN v ELSE Apply(gv[x \ {Max(x)}], s[Max(x)])
    <3>1. gv[x \ {Max(x)}] = g[x \ {Max(x)}][1] /\ gv[x] = g[x][1]
      BY <1>3
    <3>2. g[x] = IF x = {} THEN <<v, a>> ELSE Both(g[x \ {Max(x)}], s[Max(x)])
      BY <1>2 DEF Solves
    <3> HIDE DEF gv
    <3> QED
      BY <3>1, <3>2 DEF Both
  <2>2. gv = [x \in SUBSET (1 .. N) |-> IF x = {} THEN v ELSE Apply(gv[x \ {Max(x)}], s[Max(x)])]
    BY <2>1
  <2> HIDE DEF gv
  <2> QED
    BY <2>2
<1>5. \E ga : IsA(ga)
  <2> DEFINE ga == [x \in SUBSET (1 .. N) |-> g[x][2]]
  <2>1. ASSUME NEW x \in SUBSET (1 .. N)
        PROVE  ga[x] = IF x = {} THEN a ELSE ActiveAfter(ga[x \ {Max(x)}], s[Max(x)])
    <3>1. ga[x \ {Max(x)}] = g[x \ {Max(x)}][2] /\ ga[x] = g[x][2]
      BY <1>3
    <3>2. g[x] = IF x = {} THEN <<v, a>> ELSE Both(g[x \ {Max(x)}], s[Max(x)])
      BY <1>2 DEF Solves
    <3> HIDE DEF ga
    <3> QED
      BY <3>1, <3>2 DEF Both
  <2>2. ga = [x \in SUBSET (1 .. N) |->
                IF x = {} THEN a ELSE ActiveAfter(ga[x \ {Max(x)}], s[Max(x)])]
    BY <2>1
  <2> HIDE DEF ga
  <2> QED
    BY <2>2
<1> DEFINE iv == CHOOSE gv : IsV(gv)
           ia == CHOOSE ga : IsA(ga)
<1>6. IsV(iv)
  BY <1>4
<1>7. IsA(ia)
  BY <1>5
<1>8. Fold(v, s) = iv[1 .. N]
  BY <1>1 DEF Fold, FoldLeft, MapThenFoldSet
<1>9. FoldLeft(ActiveAfter, a, s) = ia[1 .. N]
  BY <1>1 DEF FoldLeft, MapThenFoldSet
<1> HIDE DEF iv, ia
<1> DEFINE f == [i \in 0 .. N |-> <<iv[1 .. i], ia[1 .. i]>>]
<1>10. f[0] = <<v, a>>
  <2>1. 1 .. 0 = {} /\ {} \in SUBSET (1 .. N)
    OBVIOUS
  <2>2. iv[{}] = v /\ ia[{}] = a
    BY <1>6, <1>7, <2>1
  <2> QED
    BY <1>1, <2>1, <2>2
<1>11. ASSUME NEW i \in 1 .. N
       PROVE  f[i] = Both(f[i - 1], s[i])
  <2>1. 1 .. i \in SUBSET (1 .. N) /\ i \in 1 .. i /\ (1 .. i) \ {i} = 1 .. i - 1
    BY <1>1
  <2>2. Max(1 .. i) = i
    <3>1. i - 1 \in Nat /\ i - 1 + 1 = i
      BY <1>1
    <3> QED
      BY <2>1, <3>1, MaxIs
  <2>3. iv[1 .. i] = Apply(iv[(1 .. i) \ {i}], s[i])
    BY <1>6, <2>1, <2>2
  <2>4. ia[1 .. i] = ActiveAfter(ia[(1 .. i) \ {i}], s[i])
    BY <1>7, <2>1, <2>2
  <2>5. i \in 0 .. N /\ i - 1 \in 0 .. N
    BY <1>1
  <2>6. f[i] = <<iv[1 .. i], ia[1 .. i]>> /\ f[i - 1] = <<iv[1 .. i - 1], ia[1 .. i - 1]>>
    BY <2>5
  <2> HIDE DEF f, IsV, IsA, N
  <2>7. iv[1 .. i] = Apply(iv[1 .. i - 1], s[i])
    BY <2>1, <2>3
  <2>8. ia[1 .. i] = ActiveAfter(ia[1 .. i - 1], s[i])
    BY <2>1, <2>4
  <2>9. Both(f[i - 1], s[i]) = <<Apply(iv[1 .. i - 1], s[i]), ActiveAfter(ia[1 .. i - 1], s[i])>>
    BY <2>6, BothIs
  <2> QED
    BY <2>6, <2>7, <2>8, <2>9
<1>12. Folded(<<v, a>>, s) = f[N]
  BY <1>1, <1>8, <1>9 DEF Folded
<1> HIDE DEF f
<1> QED
  BY <1>10, <1>11, <1>12 DEF Trail, Steps

\* What two trails have in common.
LEMMA TrailsAgree ==
  ASSUME NEW f, NEW g, NEW s, NEW N \in Nat, f[0] = g[0],
         Steps(f, s, N), Steps(g, s, N)
  PROVE  \A i \in 0 .. N : f[i] = g[i]
<1> DEFINE T == {k \in Nat : k <= N => f[k] = g[k]}
<1>1. 0 \in T
  OBVIOUS
<1>2. ASSUME NEW k \in Nat, k \in T
      PROVE  k + 1 \in T
  <2>1. SUFFICES ASSUME k + 1 <= N
                 PROVE  f[k + 1] = g[k + 1]
    OBVIOUS
  <2>2. f[k] = g[k] /\ k + 1 \in 1 .. N /\ k + 1 - 1 = k
    BY <1>2, <2>1
  <2> QED
    BY <2>2 DEF Steps
<1> HIDE DEF T
<1>3. Nat \subseteq T
  BY <1>1, <1>2, Induction
<1> QED
  BY <1>3 DEF T

\* Two sequences in a row.
LEMMA FoldThen ==
  ASSUME NEW v, NEW a, NEW S, NEW s \in Seq(S), NEW t \in Seq(S)
  PROVE  Folded(<<v, a>>, s \o t) = Folded(Folded(<<v, a>>, s), t)
<1> DEFINE m == Len(s)
           n == Len(t)
           p == Folded(<<v, a>>, s)
<1>1. /\ m \in Nat /\ n \in Nat /\ s \o t \in Seq(S) /\ Len(s \o t) = m + n
      /\ \A i \in 1 .. m + n : (s \o t)[i] = IF i <= m THEN s[i] ELSE t[i - m]
  BY LenProperties, ConcatProperties
<1>2. PICK f : Trail(f, <<v, a>>, s \o t) /\ Folded(<<v, a>>, s \o t) = f[m + n]
  BY <1>1, FoldTrail
<1>3. PICK g : Trail(g, <<v, a>>, s) /\ p = g[m]
  BY FoldTrail
<1>4. PICK h : Trail(h, p, t) /\ Folded(p, t) = h[n]
  <2>1. p = <<p[1], p[2]>>
    BY DEF Folded
  <2> HIDE DEF p
  <2> QED
    BY <2>1, FoldTrail
<1> HIDE DEF p
<1>5. f[m] = g[m]
  <2>1. Steps(f, s, m) /\ Steps(g, s, m)
    BY <1>1, <1>2, <1>3 DEF Trail, Steps
  <2>2. f[0] = g[0]
    BY <1>2, <1>3 DEF Trail
  <2>3. \A i \in 0 .. m : f[i] = g[i]
    BY <1>1, <2>1, <2>2, TrailsAgree
  <2> QED
    BY <1>1, <2>3
<1>6. f[m + n] = h[n]
  <2> DEFINE r == [i \in 0 .. n |-> f[m + i]]
  <2>1. ASSUME NEW i \in 1 .. n
        PROVE  r[i] = Both(r[i - 1], t[i]) /\ h[i] = Both(h[i - 1], t[i])
    <3>1. /\ m + i \in 1 .. m + n /\ ~(m + i <= m) /\ m + i - m = i
          /\ i \in 0 .. n /\ i - 1 \in 0 .. n /\ m + i - 1 = m + (i - 1)
      BY <1>1
    <3>2. f[m + i] = Both(f[m + i - 1], t[i])
      BY <1>1, <1>2, <3>1 DEF Trail, Steps
    <3> QED
      BY <1>4, <3>1, <3>2 DEF Trail, Steps
  <2>2. r[0] = h[0]
    BY <1>1, <1>3, <1>4, <1>5 DEF Trail
  <2>3. r[n] = f[m + n]
    BY <1>1
  <2> HIDE DEF r
  <2>4. Steps(r, t, n) /\ Steps(h, t, n)
    BY <2>1 DEF Steps
  <2>5. \A i \in 0 .. n : r[i] = h[i]
    BY <1>1, <2>4, <2>2, TrailsAgree
  <2> QED
    BY <1>1, <2>3, <2>5
<1> QED
  BY <1>2, <1>4, <1>6 DEF p

LEMMA OneIsSeq ==
  ASSUME NEW e
  PROVE  <<e>> \in Seq({e}) /\ Len(<<e>>) = 1 /\ <<e>>[1] = e
OBVIOUS

LEMMA FoldNone ==
  ASSUME NEW v, NEW a
  PROVE  Folded(<<v, a>>, <<>>) = <<v, a>>
<1>1. <<>> \in Seq({}) /\ Len(<<>>) = 0
  OBVIOUS
<1>2. \E f : Trail(f, <<v, a>>, <<>>) /\ Folded(<<v, a>>, <<>>) = f[Len(<<>>)]
  BY <1>1, FoldTrail, Zenon
<1> QED
  BY <1>1, <1>2 DEF Trail

LEMMA FoldOne ==
  ASSUME NEW v, NEW a, NEW e
  PROVE  Folded(<<v, a>>, <<e>>) = Both(<<v, a>>, e)
<1>1. PICK f : Trail(f, <<v, a>>, <<e>>) /\ Folded(<<v, a>>, <<e>>) = f[Len(<<e>>)]
  BY OneIsSeq, FoldTrail, Zenon
<1>2. 1 \in 1 .. 1 /\ 1 - 1 = 0
  OBVIOUS
<1> QED
  BY <1>1, <1>2, OneIsSeq DEF Trail, Steps

-----------------------------------------------------------------------------
(* What a sequence of events says: the statuses it gives to nodes, whom it *)
(* makes wait for a human and whom no longer, and nothing of the run.      *)
Words == Statuses \cup {"dirty"}
Mark(N, word) == [m \in N |-> word]
Unmarked == Mark({}, "ready")
Over(first, then) == [m \in DOMAIN first \cup DOMAIN then |->
                        IF m \in DOMAIN then THEN then[m] ELSE first[m]]
Marked(old, marks) == [m \in Nodes |-> IF m \in DOMAIN marks THEN marks[m] ELSE old[m]]

IsLog(s) == \E S : s \in Seq(S)

Makes(p, q, marks, asks, answers) ==
  /\ q[1].node = Marked(p[1].node, marks)
  /\ q[1].asks = (p[1].asks \cup asks) \ answers
  /\ q[1].run = p[1].run
  /\ q[2] = p[2]

Tells(s, marks, asks, answers) ==
  /\ IsLog(s)
  /\ \A m \in DOMAIN marks : marks[m] \in Words
  /\ \A v, a : v.node \in [Nodes -> Words] =>
       Makes(<<v, a>>, Folded(<<v, a>>, s), marks, asks, answers)

LEMMA FoldedIsPair ==
  ASSUME NEW p, NEW s
  PROVE  Folded(p, s) = <<Folded(p, s)[1], Folded(p, s)[2]>>
BY DEF Folded

LEMMA LogsJoin ==
  ASSUME NEW s, NEW t, IsLog(s), IsLog(t)
  PROVE  \E S : s \in Seq(S) /\ t \in Seq(S) /\ s \o t \in Seq(S)
<1>1. PICK A : s \in Seq(A)
  BY DEF IsLog
<1>2. PICK B : t \in Seq(B)
  BY DEF IsLog
<1>3. s \in Seq(A \cup B)
  BY <1>1, SeqMonotonic
<1>4. t \in Seq(A \cup B)
  BY <1>2, SeqMonotonic
<1>5. s \o t \in Seq(A \cup B)
  BY <1>3, <1>4, ConcatProperties
<1> QED
  BY <1>3, <1>4, <1>5

LEMMA TellsThen ==
  ASSUME NEW s, NEW m1, NEW p1, NEW q1, Tells(s, m1, p1, q1),
         NEW t, NEW m2, NEW p2, NEW q2, Tells(t, m2, p2, q2),
         q1 \cap p2 = {}
  PROVE  Tells(s \o t, Over(m1, m2), p1 \cup p2, q1 \cup q2)
<1>1. PICK S : s \in Seq(S) /\ t \in Seq(S) /\ s \o t \in Seq(S)
  BY LogsJoin DEF Tells
<1>2. IsLog(s \o t)
  BY <1>1 DEF IsLog
<1>3. \A m \in DOMAIN Over(m1, m2) : Over(m1, m2)[m] \in Words
  BY DEF Tells, Over
<1>4. ASSUME NEW v, NEW a, v.node \in [Nodes -> Words]
      PROVE  Makes(<<v, a>>, Folded(<<v, a>>, s \o t), Over(m1, m2), p1 \cup p2, q1 \cup q2)
  <2> DEFINE q == Folded(<<v, a>>, s)
  <2>1. Folded(<<v, a>>, s \o t) = Folded(q, t) /\ q = <<q[1], q[2]>>
    BY <1>1, FoldThen, FoldedIsPair
  <2>2. Makes(<<v, a>>, q, m1, p1, q1)
    BY <1>4 DEF Tells
  <2> HIDE DEF q
  <2>3. q[1].node \in [Nodes -> Words]
    <3>1. \A m \in DOMAIN m1 : m1[m] \in Words
      BY DEF Tells
    <3>2. Marked(v.node, m1) \in [Nodes -> Words]
      BY <1>4, <3>1 DEF Marked
    <3> QED
      BY <2>2, <3>2 DEF Makes
  <2>4. Makes(q, Folded(q, t), m2, p2, q2)
    BY <2>1, <2>3 DEF Tells
  <2>5. Marked(Marked(v.node, m1), m2) = Marked(v.node, Over(m1, m2))
    BY DEF Marked, Over
  <2>6. \A A : (((A \cup p1) \ q1) \cup p2) \ q2 = (A \cup (p1 \cup p2)) \ (q1 \cup q2)
    OBVIOUS
  <2> QED
    BY <2>1, <2>2, <2>4, <2>5, <2>6 DEF Makes
<1> QED
  BY <1>2, <1>3, <1>4 DEF Tells

LEMMA OneTells ==
  ASSUME NEW e, NEW marks, NEW asks, NEW answers,
         \A m \in DOMAIN marks : marks[m] \in Words,
         \A v, a : v.node \in [Nodes -> Words] =>
           Makes(<<v, a>>, <<Apply(v, e), ActiveAfter(a, e)>>, marks, asks, answers)
  PROVE  Tells(<<e>>, marks, asks, answers)
<1>1. IsLog(<<e>>)
  BY OneIsSeq DEF IsLog
<1>2. ASSUME NEW v, NEW a
      PROVE  Folded(<<v, a>>, <<e>>) = <<Apply(v, e), ActiveAfter(a, e)>>
  <2>1. Folded(<<v, a>>, <<e>>) = Both(<<v, a>>, e)
    BY FoldOne
  <2>2. Both(<<v, a>>, e) = <<Apply(v, e), ActiveAfter(a, e)>>
    BY BothIs
  <2> QED
    BY <2>1, <2>2
<1> QED
  BY <1>1, <1>2 DEF Tells

LEMMA NoneTells == Tells(<<>>, Unmarked, {}, {})
<1>1. IsLog(<<>>)
  <2>1. <<>> \in Seq({})
    OBVIOUS
  <2> QED
    BY <2>1 DEF IsLog
<1>2. ASSUME NEW v, v.node \in [Nodes -> Words]
      PROVE  Marked(v.node, Unmarked) = v.node
  BY <1>2 DEF Marked, Mark, Unmarked
<1>3. \A m \in DOMAIN Unmarked : Unmarked[m] \in Words
  BY DEF Mark, Unmarked
<1>4. ASSUME NEW v, NEW a, v.node \in [Nodes -> Words]
      PROVE  Makes(<<v, a>>, Folded(<<v, a>>, <<>>), Unmarked, {}, {})
  <2>1. Makes(<<v, a>>, <<v, a>>, Unmarked, {}, {})
    BY <1>2, <1>4 DEF Makes
  <2> QED
    BY <2>1, FoldNone
<1> QED
  BY <1>1, <1>3, <1>4 DEF Tells

\* The events that say nothing of a node's status, of the run or of a question.
Silent == {"lock.contended", "lock.acquired", "lock.released", "node.retried", "gate.failed",
           "review.approved", "review.rejected"}

LEMMA SilentTells ==
  ASSUME NEW e, e.type \in Silent
  PROVE  Tells(<<e>>, Unmarked, {}, {})
<1>1. \A v : Apply(v, e).node = v.node /\ Apply(v, e).asks = v.asks /\ Apply(v, e).run = v.run
  BY DEF Apply, RunStatusAfter, NodeStatusAfter, Silent
<1>2. \A a : ActiveAfter(a, e) = a
  BY DEF ActiveAfter, Silent
<1>3. ASSUME NEW v, v.node \in [Nodes -> Words]
      PROVE  Marked(v.node, Unmarked) = v.node
  BY <1>3 DEF Marked, Mark, Unmarked
<1>4. \A m \in DOMAIN Unmarked : Unmarked[m] \in Words
  BY DEF Mark, Unmarked
<1>5. \A v, a : v.node \in [Nodes -> Words] =>
        Makes(<<v, a>>, <<Apply(v, e), ActiveAfter(a, e)>>, Unmarked, {}, {})
  BY <1>1, <1>2, <1>3 DEF Makes
<1> QED
  BY <1>4, <1>5, OneTells

LEMMA StatusTells ==
  ASSUME NEW n \in Nodes, NEW type \in DOMAIN NodeStatusAfter
  PROVE  Tells(<<Event(type, n)>>, Mark({n}, NodeStatusAfter[type]), {}, {})
<1> DEFINE e == Event(type, n)
           marks == Mark({n}, NodeStatusAfter[type])
<1>1. e.type = type /\ e.node = n
  BY DEF Event
<1>2. /\ type \notin DOMAIN RunStatusAfter
      /\ type \notin {"approval.requested", "approval.granted", "approval.denied"}
      /\ NodeStatusAfter[type] \in Words
  BY DEF RunStatusAfter, NodeStatusAfter, Words, Statuses
<1> HIDE DEF e
<1>3. \A v : /\ Apply(v, e).node = [v.node EXCEPT ![n] = NodeStatusAfter[type]]
             /\ Apply(v, e).asks = v.asks /\ Apply(v, e).run = v.run
  BY <1>1, <1>2 DEF Apply
<1>4. \A a : ActiveAfter(a, e) = a
  BY <1>1 DEF ActiveAfter, NodeStatusAfter
<1>5. ASSUME NEW v, v.node \in [Nodes -> Words]
      PROVE  Marked(v.node, marks) = [v.node EXCEPT ![n] = NodeStatusAfter[type]]
  BY <1>5 DEF Marked, Mark
<1>6. \A m \in DOMAIN marks : marks[m] \in Words
  BY <1>2 DEF Mark
<1> HIDE DEF marks
<1>7. \A v, a : v.node \in [Nodes -> Words] =>
        Makes(<<v, a>>, <<Apply(v, e), ActiveAfter(a, e)>>, marks, {}, {})
  BY <1>3, <1>4, <1>5 DEF Makes
<1> QED
  BY <1>6, <1>7, OneTells DEF e, marks

LEMMA QuestionTells ==
  ASSUME NEW n \in Nodes
  PROVE  /\ Tells(<<Event("approval.requested", n)>>, Unmarked, {n}, {})
         /\ Tells(<<Event("approval.granted", n)>>, Unmarked, {}, {n})
         /\ Tells(<<Event("approval.denied", n)>>, Unmarked, {}, {n})
<1>1. ASSUME NEW e, e.type \in {"approval.requested", "approval.granted", "approval.denied"},
             e.node = n, NEW asks, NEW answers,
             \A v : Apply(v, e).asks = (v.asks \cup asks) \ answers
      PROVE  Tells(<<e>>, Unmarked, asks, answers)
  <2>1. \A v : Apply(v, e).node = v.node /\ Apply(v, e).run = v.run
    BY <1>1 DEF Apply, RunStatusAfter, NodeStatusAfter
  <2>2. \A a : ActiveAfter(a, e) = a
    BY <1>1 DEF ActiveAfter
  <2>3. ASSUME NEW v, v.node \in [Nodes -> Words]
        PROVE  Marked(v.node, Unmarked) = v.node
    BY <2>3 DEF Marked, Mark, Unmarked
  <2>4. \A m \in DOMAIN Unmarked : Unmarked[m] \in Words
    BY DEF Mark, Unmarked
  <2>5. \A v, a : v.node \in [Nodes -> Words] =>
          Makes(<<v, a>>, <<Apply(v, e), ActiveAfter(a, e)>>, Unmarked, asks, answers)
    BY <1>1, <2>1, <2>2, <2>3 DEF Makes
  <2> QED
    BY <2>4, <2>5, OneTells
<1>2. \A v : Apply(v, Event("approval.requested", n)).asks = (v.asks \cup {n}) \ {}
  BY DEF Apply, Event
<1>3. \A v : /\ Apply(v, Event("approval.granted", n)).asks = (v.asks \cup {}) \ {n}
             /\ Apply(v, Event("approval.denied", n)).asks = (v.asks \cup {}) \ {n}
  BY DEF Apply, Event
<1>4. \A type : Event(type, n).type = type /\ Event(type, n).node = n
  BY DEF Event
<1> QED
  BY <1>1, <1>2, <1>3, <1>4

\* Each element of a finite set is somewhere in the sequence of them.
LEMMA SetToSeqIsOnto ==
  ASSUME NEW D, IsFiniteSet(D)
  PROVE  /\ Cardinality(D) \in Nat
         /\ SetToSeq(D) \in [1 .. Cardinality(D) -> D]
         /\ \A d \in D : \E i \in 1 .. Cardinality(D) : SetToSeq(D)[i] = d
<1> DEFINE N == Cardinality(D)
<1>1. N \in Nat /\ ExistsBijection(1 .. N, D)
  BY FS_CardinalityType
<1>2. \E f \in [1 .. N -> D] : IsInjective(f)
  BY <1>1 DEF ExistsBijection, Bijection, Injection
<1>3. SetToSeq(D) \in [1 .. N -> D] /\ IsInjective(SetToSeq(D))
  BY <1>2 DEF SetToSeq
<1> HIDE DEF N
<1>4. SetToSeq(D) \in Injection(1 .. N, D)
  BY <1>3 DEF Injection
<1>5. Cardinality(1 .. N) = N
  BY <1>1, FS_Interval
<1>6. SetToSeq(D) \in Surjection(1 .. N, D)
  BY <1>4, <1>5, FS_Injection DEF N
<1> QED
  BY <1>1, <1>3, <1>6 DEF Surjection, N

\* The events of a cascade make every node dirty that it reached.
LEMMA CascadeTells ==
  ASSUME NEW n \in Nodes
  PROVE  Tells(DirtiedEvents(n), Mark(DirtiedBy(n), "dirty"), {}, {})
<1> DEFINE D == DirtiedBy(n)
           N == Cardinality(D)
           q == SetToSeq(D)
           s == DirtiedEvents(n)
           marks == Mark(D, "dirty")
<1>1. D \subseteq Nodes /\ IsFiniteSet(D)
  <2>1. D \subseteq Nodes
    BY DirtiedAreConsumers
  <2> QED
    BY <2>1, RunAssumption, FS_Subset
<1>2. N \in Nat /\ q \in [1 .. N -> D] /\ \A d \in D : \E i \in 1 .. N : q[i] = d
  BY <1>1, SetToSeqIsOnto
<1>3. s = [i \in 1 .. N |-> Event("node.dirtied", q[i])]
  BY DEF DirtiedEvents
<1> HIDE DEF D, N, q, s
<1> DEFINE Evs == {Event("node.dirtied", m) : m \in D}
<1>4. s \in Seq(Evs) /\ Len(s) = N
  <2>1. s \in [1 .. N -> Evs]
    BY <1>2, <1>3
  <2> HIDE DEF Evs
  <2> QED
    BY <1>2, <2>1
<1>5. ASSUME NEW v, NEW a, v.node \in [Nodes -> Words]
      PROVE  Makes(<<v, a>>, Folded(<<v, a>>, s), marks, {}, {})
  <2>1. PICK f : Trail(f, <<v, a>>, s) /\ Folded(<<v, a>>, s) = f[N]
    BY <1>4, FoldTrail
  <2> DEFINE Past(k) == Mark({q[i] : i \in 1 .. k}, "dirty")
             T == {k \in Nat : k <= N => Makes(<<v, a>>, f[k], Past(k), {}, {})}
  <2>2. 0 \in T
    <3>1. f[0] = <<v, a>>
      BY <2>1 DEF Trail
    <3>2. Marked(v.node, Past(0)) = v.node
      BY <1>5 DEF Marked, Mark
    <3> HIDE DEF Past
    <3>3. Makes(<<v, a>>, f[0], Past(0), {}, {})
      BY <3>1, <3>2 DEF Makes
    <3> QED
      BY <3>3
  <2>3. ASSUME NEW k \in Nat, k \in T
        PROVE  k + 1 \in T
    <3> SUFFICES ASSUME k + 1 <= N
                 PROVE  Makes(<<v, a>>, f[k + 1], Past(k + 1), {}, {})
      OBVIOUS
    <3>1. Makes(<<v, a>>, f[k], Past(k), {}, {})
      BY <1>2, <2>3
    <3>2. k + 1 \in 1 .. N /\ k + 1 - 1 = k
      BY <1>2
    <3> DEFINE m == q[k + 1]
               e == Event("node.dirtied", m)
    <3>3. m \in Nodes /\ s[k + 1] = e
      BY <1>1, <1>2, <1>3, <3>2
    <3>4. f[k + 1] = <<Apply(f[k][1], e), ActiveAfter(f[k][2], e)>>
      BY <1>4, <2>1, <3>2, <3>3 DEF Trail, Steps, Both
    <3>5. /\ Apply(f[k][1], e).node = [f[k][1].node EXCEPT ![m] = "dirty"]
          /\ Apply(f[k][1], e).asks = f[k][1].asks
          /\ Apply(f[k][1], e).run = f[k][1].run
          /\ ActiveAfter(f[k][2], e) = f[k][2]
      BY DEF Apply, ActiveAfter, Event, RunStatusAfter, NodeStatusAfter
    <3>6. [Marked(v.node, Past(k)) EXCEPT ![m] = "dirty"] = Marked(v.node, Past(k + 1))
      <4>1. {q[i] : i \in 1 .. k + 1} = {q[i] : i \in 1 .. k} \cup {m}
        OBVIOUS
      <4> HIDE DEF m
      <4> QED
        BY <3>3, <4>1 DEF Marked, Mark
    <3> HIDE DEF Past, m, e
    <3> QED
      BY <3>1, <3>4, <3>5, <3>6 DEF Makes
  <2> HIDE DEF T
  <2>4. Nat \subseteq T
    BY <2>2, <2>3, Induction
  <2>5. Makes(<<v, a>>, f[N], Past(N), {}, {})
    <3>1. N \in T /\ N <= N
      BY <1>2, <2>4
    <3> HIDE DEF Past
    <3> QED
      BY <3>1 DEF T
  <2>6. Past(N) = marks
    <3>1. {q[i] : i \in 1 .. N} = D
      BY <1>2
    <3> QED
      BY <3>1
  <2> QED
    BY <2>1, <2>5, <2>6
<1>6. \A m \in DOMAIN marks : marks[m] \in Words
  BY DEF Words, Mark
<1>7. IsLog(s)
  BY <1>4 DEF IsLog
<1> HIDE DEF marks
<1>8. Tells(s, marks, {}, {})
  BY <1>5, <1>6, <1>7 DEF Tells
<1> QED
  BY <1>8 DEF s, marks, D

LEMMA TwoInARow ==
  ASSUME NEW e, NEW f
  PROVE  <<e, f>> = <<e>> \o <<f>>
<1> DEFINE S == {e, f}
           s == <<e>>
           t == <<f>>
           u == <<e, f>>
<1>1. s \in Seq(S) /\ t \in Seq(S) /\ Len(s) = 1 /\ Len(t) = 1 /\ s[1] = e /\ t[1] = f
  OBVIOUS
<1>2. u \in Seq(S) /\ Len(u) = 2 /\ u[1] = e /\ u[2] = f
  OBVIOUS
<1> HIDE DEF S, s, t, u
<1>3. /\ s \o t \in Seq(S) /\ Len(s \o t) = 2
      /\ \A i \in 1 .. 2 : (s \o t)[i] = IF i <= 1 THEN s[i] ELSE t[i - 1]
  BY <1>1, ConcatProperties
<1>4. \A i \in 1 .. 2 : u[i] = (s \o t)[i]
  <2>1. (s \o t)[1] = e /\ (s \o t)[2] = f
    BY <1>1, <1>3
  <2>2. 1 .. 2 = {1, 2}
    OBVIOUS
  <2> QED
    BY <1>2, <2>1, <2>2
<1>5. u = s \o t
  BY <1>2, <1>3, <1>4, SeqEqual
<1> QED
  BY <1>5 DEF s, t, u

LEMMA OverIs ==
  ASSUME NEW N, NEW word, NEW other
  PROVE  /\ Over(Mark(N, word), Unmarked) = Mark(N, word)
         /\ Over(Unmarked, Mark(N, word)) = Mark(N, word)
         /\ Over(Mark(N, other), Mark(N, word)) = Mark(N, word)
         /\ Over(Unmarked, Unmarked) = Unmarked
BY DEF Over, Mark, Unmarked

\* What was said stays when nothing is added, before or behind.
LEMMA TellsMore ==
  ASSUME NEW s, NEW t, NEW N, NEW word, NEW asks, NEW answers
  PROVE  /\ Tells(s, Mark(N, word), asks, answers) /\ Tells(t, Unmarked, {}, {})
              => Tells(s \o t, Mark(N, word), asks, answers)
         /\ Tells(s, Unmarked, {}, {}) /\ Tells(t, Mark(N, word), asks, answers)
              => Tells(s \o t, Mark(N, word), asks, answers)
         /\ Tells(s, Unmarked, {}, {}) /\ Tells(t, Unmarked, asks, answers)
              => Tells(s \o t, Unmarked, asks, answers)
<1>1. ASSUME Tells(s, Mark(N, word), asks, answers), Tells(t, Unmarked, {}, {})
      PROVE  Tells(s \o t, Mark(N, word), asks, answers)
  <2>1. answers \cap {} = {} /\ asks \cup {} = asks /\ answers \cup {} = answers
    OBVIOUS
  <2>2. Tells(s \o t, Over(Mark(N, word), Unmarked), asks \cup {}, answers \cup {})
    BY <1>1, <2>1, TellsThen, Zenon
  <2> QED
    BY <2>1, <2>2, OverIs
<1>2. ASSUME NEW marks, Tells(s, Unmarked, {}, {}), Tells(t, marks, asks, answers),
             Over(Unmarked, marks) = marks
      PROVE  Tells(s \o t, marks, asks, answers)
  <2>1. {} \cap asks = {} /\ {} \cup asks = asks /\ {} \cup answers = answers
    OBVIOUS
  <2>2. Tells(s \o t, Over(Unmarked, marks), {} \cup asks, {} \cup answers)
    BY <1>2, <2>1, TellsThen, Zenon
  <2> QED
    BY <1>2, <2>1, <2>2
<1> QED
  BY <1>1, <1>2, OverIs

LEMMA EventsTell ==
  ASSUME NEW n \in Nodes
  PROVE  /\ Tells(<<Event("node.started", n)>>, Mark({n}, "running"), {}, {})
         /\ Tells(<<Event("node.blocked", n)>>, Mark({n}, "blocked"), {}, {})
         /\ Tells(<<Event("node.parked", n)>>, Mark({n}, "parked"), {}, {})
         /\ Tells(<<Event("node.done", n)>>, Mark({n}, "done"), {}, {})
         /\ Tells(<<Event("node.failed", n)>>, Mark({n}, "failed"), {}, {})
         /\ Tells(<<Event("node.rolled_back", n)>>, Mark({n}, "rolled_back"), {}, {})
<1>1. \A type \in DOMAIN NodeStatusAfter :
        Tells(<<Event(type, n)>>, Mark({n}, NodeStatusAfter[type]), {}, {})
  BY StatusTells
<1>2. /\ {"node.started", "node.blocked", "node.parked", "node.done", "node.failed",
          "node.rolled_back"} \subseteq DOMAIN NodeStatusAfter
      /\ NodeStatusAfter["node.started"] = "running"
      /\ NodeStatusAfter["node.blocked"] = "blocked"
      /\ NodeStatusAfter["node.parked"] = "parked"
      /\ NodeStatusAfter["node.done"] = "done"
      /\ NodeStatusAfter["node.failed"] = "failed"
      /\ NodeStatusAfter["node.rolled_back"] = "rolled_back"
  BY DEF NodeStatusAfter
<1> HIDE DEF NodeStatusAfter
<1> QED
  BY <1>1, <1>2

LEMMA FreedTells ==
  ASSUME NEW n \in Nodes
  PROVE  Tells(Freed(n), Unmarked, {}, {})
<1>1. Rows("lock.released", n, Loggable(n)).type \in Silent
  BY DEF Rows, Silent
<1>2. Tells(<<Rows("lock.released", n, Loggable(n))>>, Unmarked, {}, {})
  BY <1>1, SilentTells
<1> QED
  BY <1>2, NoneTells DEF Freed

LEMMA ParkedTells ==
  ASSUME NEW n \in Nodes
  PROVE  Tells(Parked(n), Mark({n}, "parked"), {n}, {})
<1>1. Tells(<<Event("node.parked", n)>>, Mark({n}, "parked"), {}, {})
  BY EventsTell
<1>2. Tells(<<Event("approval.requested", n)>>, Unmarked, {n}, {})
  BY QuestionTells
<1>3. {} \cap {n} = {} /\ {} \cup {n} = {n} /\ {} \cup {} = {}
  OBVIOUS
<1>4. Tells(<<Event("node.parked", n)>> \o <<Event("approval.requested", n)>>,
            Over(Mark({n}, "parked"), Unmarked), {} \cup {n}, {} \cup {})
  BY <1>1, <1>2, <1>3, TellsThen, Zenon
<1> QED
  BY <1>3, <1>4, TwoInARow, OverIs DEF Parked
-----------------------------------------------------------------------------
(* The log and the run.  A node is suspended only with the statuses of that  *)
(* await, and one about to be launched is not suspended: what settles is     *)
(* never a node already done, whose log would then say otherwise.            *)
AwaitsFit ==
  \A n \in Nodes :
    /\ pc[n] \in Busy => status[n] \in {"running", "ready"}
    /\ pc[n] = "awaiting_human" => status[n] = "parked"

LaunchersIdle == \A n \in launching : pc[n] = "idle"

ShownTyped == view.node \in [Nodes -> Words] /\ window.active \in BOOLEAN

LogInv ==
  /\ TypeOK /\ AwaitsFit /\ LaunchersIdle /\ ShownTyped
  /\ DoneIsShownExactly /\ ActivityIsShown
  /\ HasApprover => PendingIsShownExactly

LEMMA EventStepIsStep == [EventNext]_eventVars => [Next]_vars
<1>1. EventNext => Next
  BY DEF EventNext, Next, Proceed, Settle, LoggedDispatch, LoggedLaunch, LoggedPass,
         LoggedEscalation, LoggedFailure, LoggedCancellation, LoggedApproval, LoggedRejection,
         LoggedGrant, LoggedDenial, LoggedWidening, LoggedRollback
<1>2. UNCHANGED eventVars => UNCHANGED vars
  BY DEF eventVars
<1> QED
  BY <1>1, <1>2

LEMMA AwaitsStep ==
  ASSUME TypeOK, AwaitsFit, LaunchersIdle, [Next]_vars
  PROVE  AwaitsFit' /\ LaunchersIdle'
<1>1. CASE UNCHANGED vars \/ Cancel \/ BudgetRunsOut
  <2>1. UNCHANGED <<pc, status, launching>>
    BY <1>1 DEF vars, Cancel, BudgetRunsOut
  <2> QED
    BY <2>1 DEF AwaitsFit, LaunchersIdle
<1>2. CASE Dispatch
  <2>1. UNCHANGED <<pc, status>> /\ launching' \subseteq Nodes /\ \A n \in Nodes : pc[n] = "idle"
    BY <1>2 DEF Dispatch, Batch, Ready, InFlight
  <2> QED
    BY <2>1 DEF AwaitsFit, LaunchersIdle
<1>3. ASSUME NEW n \in Nodes, Launch(n) PROVE AwaitsFit' /\ LaunchersIdle'
  <2>1. launching' = launching \ {n} /\ pc[n] = "idle"
    BY <1>3 DEF Launch, LaunchersIdle
  <2>2. \/ /\ status' = [status EXCEPT ![n] = "running"]
           /\ \/ pc' = [pc EXCEPT ![n] = "rolling_back"]
              \/ pc' = [pc EXCEPT ![n] = "executing"]
        \/ status' = [status EXCEPT ![n] = "blocked"] /\ pc' = pc
    BY <1>3 DEF Launch
  <2>3. AwaitsFit'
    BY <2>1, <2>2 DEF TypeOK, AwaitsFit, Busy
  <2>4. LaunchersIdle'
    BY <2>1, <2>2 DEF TypeOK, LaunchersIdle
  <2> QED
    BY <2>3, <2>4
<1>4. ASSUME NEW n \in Nodes, Settle(n) PROVE AwaitsFit' /\ LaunchersIdle'
  <2>1. launching = {} /\ launching' = {}
    BY <1>4 DEF Settle, Resumes, ExecutePasses, GatesEscalate, ExecuteCancelled, ExecuteFails,
                ReviewApproves, ReviewRejects, HumanGrants, HumanDenies, WideningDone,
                RollbackDone, loopVars
  <2>2. LaunchersIdle'
    BY <2>1 DEF LaunchersIdle
  <2>3. ASSUME Requeue(n) PROVE AwaitsFit'
    BY <2>3 DEF Requeue, AwaitsFit, TypeOK, Busy
  <2>4. ASSUME ParkNode(n) PROVE AwaitsFit'
    BY <2>4 DEF ParkNode, AwaitsFit, TypeOK, Busy
  <2>5. ASSUME ExecutePasses(n) \/ ExecuteCancelled(n) PROVE AwaitsFit'
    BY <2>5 DEF ExecutePasses, ExecuteCancelled, Resumes, AwaitsFit, TypeOK, Busy
  <2>6. ASSUME GatesEscalate(n) \/ WideningDone(n) PROVE AwaitsFit'
    BY <2>3, <2>4, <2>6 DEF GatesEscalate, WideningDone
  <2>7. ASSUME NEW kind \in ErrorKinds, ExecuteFails(n, kind) PROVE AwaitsFit'
    <3>1. ASSUME pc' = [pc EXCEPT ![n] = "rolling_back"] \/ pc' = [pc EXCEPT ![n] = "widening"],
                 UNCHANGED status, pc[n] = "executing"
          PROVE  AwaitsFit'
      BY <3>1 DEF AwaitsFit, TypeOK, Busy
    <3> QED
      BY <2>3, <2>4, <2>7, <3>1 DEF ExecuteFails, HandleFailure, Resumes
  <2>8. ASSUME NEW c \in Critiques, ReviewRejects(n, c) PROVE AwaitsFit'
    BY <2>3, <2>4, <2>8 DEF ReviewRejects
  <2>9. ASSUME ReviewApproves(n) \/ HumanGrants(n) \/ HumanDenies(n) PROVE AwaitsFit'
    BY <2>9 DEF ReviewApproves, HumanGrants, HumanDenies, AwaitsFit, TypeOK, Busy
  <2>10. ASSUME RollbackDone(n) PROVE AwaitsFit'
    <3>1. DirtiedBy(n) \subseteq {m \in Nodes : status[m] \in ConsumedStatuses}
      BY DirtiedAreConsumers
    <3>2. \A m \in Nodes : m \in DirtiedBy(n) => status[m] # "parked"
      BY <3>1 DEF ConsumedStatuses
    <3>3. \A m \in Nodes : status'[m] = IF m \in DirtiedBy(n) THEN "ready"
                                        ELSE IF m = n THEN "rolled_back" ELSE status[m]
      BY <2>10 DEF RollbackDone
    <3>4. pc' = [pc EXCEPT ![n] = "idle"]
      BY <2>10 DEF RollbackDone
    <3> QED
      BY <3>2, <3>3, <3>4 DEF AwaitsFit, TypeOK, Busy
  <2> QED
    BY <1>4, <2>2, <2>5, <2>6, <2>7, <2>8, <2>9, <2>10 DEF Settle
<1> QED
  BY <1>1, <1>2, <1>3, <1>4 DEF Next, Proceed

-----------------------------------------------------------------------------
(* A step and what it logs agree: a node is marked done exactly when it becomes *)
(* so, the questions asked and answered are those of the nodes that start and   *)
(* stop waiting, and the run is said to end only when it does.                  *)
Waiting == {n \in Nodes : pc[n] = "awaiting_human"}

DoneAs(marks) ==
  \A m \in Nodes :
    status'[m] = "done" <=> IF m \in DOMAIN marks THEN marks[m] = "done" ELSE status[m] = "done"

WaitsAs(asks, answers) == HasApprover => Waiting' = (Waiting \cup asks) \ answers

ShownAs(marks, asks, answers) ==
  /\ \A m \in DOMAIN marks : marks[m] \in Words
  /\ view'.node = Marked(view.node, marks)
  /\ view'.asks = (view.asks \cup asks) \ answers
  /\ DoneAs(marks) /\ WaitsAs(asks, answers)
  /\ \/ loop' = loop /\ view'.run = view.run /\ window'.active = window.active
     \/ window'.active = FALSE /\ (loop' # "running" \/ view'.run = "failed")

LEMMA ShownKeeps ==
  ASSUME LogInv, [Next]_vars, NEW marks, NEW asks, NEW answers, ShownAs(marks, asks, answers)
  PROVE  LogInv'
<1>1. TypeOK' /\ AwaitsFit' /\ LaunchersIdle'
  BY TypeStep, AwaitsStep DEF LogInv
<1>2. ShownTyped'
  <2>1. view'.node \in [Nodes -> Words]
    BY DEF ShownAs, LogInv, ShownTyped, Marked
  <2>2. window'.active \in BOOLEAN
    BY DEF ShownAs, LogInv, ShownTyped
  <2> QED
    BY <2>1, <2>2 DEF ShownTyped
<1>3. DoneIsShownExactly'
  BY DEF ShownAs, DoneAs, LogInv, DoneIsShownExactly, Marked
<1>4. ActivityIsShown'
  BY DEF ShownAs, LogInv, ActivityIsShown, ShownTyped
<1>5. HasApprover' => PendingIsShownExactly'
  BY DEF ShownAs, WaitsAs, Waiting, LogInv, PendingIsShownExactly
<1> QED
  BY <1>1, <1>2, <1>3, <1>4, <1>5 DEF LogInv

LEMMA LogIsFolded ==
  ASSUME NEW s, Log(s)
  PROVE  <<view', window'.active>> = Folded(<<view, window.active>>, s)
BY DEF Log, Folded, Show

LEMMA TellsShows ==
  ASSUME LogInv, NEW s, NEW marks, NEW asks, NEW answers, Tells(s, marks, asks, answers),
         Log(s), DoneAs(marks), WaitsAs(asks, answers), loop' = loop
  PROVE  ShownAs(marks, asks, answers)
<1>1. Makes(<<view, window.active>>, <<view', window'.active>>, marks, asks, answers)
  BY LogIsFolded DEF Tells, LogInv, ShownTyped
<1>2. /\ view'.node = Marked(view.node, marks)
      /\ view'.asks = (view.asks \cup asks) \ answers
      /\ view'.run = view.run /\ window'.active = window.active
  BY <1>1 DEF Makes
<1> QED
  BY <1>2 DEF ShownAs, Tells

\* The end of a run, with or without its nodes' events before it.
LEMMA EndShows ==
  ASSUME LogInv, NEW s, NEW marks, NEW asks, NEW answers, Tells(s, marks, asks, answers),
         NEW type \in {"run.completed", "run.paused", "run.failed", "run.cancelled"},
         Log(s \o <<Event(type, NoNode)>>), DoneAs(marks), WaitsAs(asks, answers),
         loop' # "running" \/ type = "run.failed"
  PROVE  ShownAs(marks, asks, answers)
<1> DEFINE e == Event(type, NoNode)
           p == <<view, window.active>>
           q == Folded(p, s)
<1>1. e.type = type
  BY DEF Event
<1>2. Makes(p, q, marks, asks, answers)
  BY DEF Tells, LogInv, ShownTyped
<1>3. <<view', window'.active>> = <<Apply(q[1], e), ActiveAfter(q[2], e)>>
  <2>1. IsLog(s) /\ IsLog(<<e>>)
    BY OneIsSeq DEF Tells, IsLog
  <2>2. PICK S : s \in Seq(S) /\ <<e>> \in Seq(S)
    BY <2>1, LogsJoin
  <2>3. Folded(p, s \o <<e>>) = Folded(q, <<e>>)
    <3>1. ASSUME NEW t, t \in Seq(S)
          PROVE  Folded(p, s \o t) = Folded(q, t)
      BY <2>2, <3>1, FoldThen
    <3> QED
      BY <2>2, <3>1, Zenon
  <2>4. q = <<q[1], q[2]>>
    BY FoldedIsPair
  <2> HIDE DEF e, q
  <2>5. Folded(q, <<e>>) = <<Apply(q[1], e), ActiveAfter(q[2], e)>>
    BY <2>4, FoldOne, BothIs
  <2>6. Log(s \o <<e>>)
    BY DEF e
  <2> QED
    BY <2>3, <2>5, <2>6, LogIsFolded
<1> HIDE DEF e, q
<1>4. /\ Apply(q[1], e).node = q[1].node /\ Apply(q[1], e).asks = q[1].asks
      /\ type = "run.failed" => Apply(q[1], e).run = "failed"
      /\ ActiveAfter(q[2], e) = FALSE
  BY <1>1 DEF Apply, ActiveAfter, NodeStatusAfter, RunStatusAfter
<1>5. view' = Apply(q[1], e) /\ window'.active = FALSE
  BY <1>3, <1>4
<1>6. /\ view'.node = Marked(view.node, marks)
      /\ view'.asks = (view.asks \cup asks) \ answers
  BY <1>2, <1>4, <1>5 DEF Makes
<1>7. loop' # "running" \/ view'.run = "failed"
  BY <1>4, <1>5
<1> QED
  BY <1>5, <1>6, <1>7 DEF ShownAs, Tells

LEMMA NothingShows ==
  ASSUME LogInv, Unlogged, UNCHANGED loop, DoneAs(Unmarked), WaitsAs({}, {})
  PROVE  ShownAs(Unmarked, {}, {})
<1>1. Marked(view.node, Unmarked) = view.node
  BY DEF LogInv, ShownTyped, Marked, Unmarked, Mark
<1>2. \A m \in DOMAIN Unmarked : Unmarked[m] \in Words
  BY DEF Unmarked, Mark
<1>3. (view.asks \cup {}) \ {} = view.asks
  OBVIOUS
<1> QED
  BY <1>1, <1>2, <1>3 DEF Unlogged, ShownAs

LEMMA DispatchShown ==
  ASSUME LogInv, LoggedDispatch
  PROVE  LogInv'
<1>1. UNCHANGED <<status, pc>> /\ loop' \in {"running"} \cup Endings /\ loop = "running"
  BY DEF LoggedDispatch, Dispatch, Endings
<1>2. DoneAs(Unmarked) /\ WaitsAs({}, {})
  BY <1>1 DEF DoneAs, WaitsAs, Waiting, Unmarked, Mark
<1>3. [Next]_vars
  BY DEF LoggedDispatch, Next, Proceed
<1>4. CASE loop' = "running"
  <2>1. Log(<<>>)
    BY <1>4 DEF LoggedDispatch, LoopEvent
  <2>2. ShownAs(Unmarked, {}, {})
    BY <1>1, <1>2, <1>4, <2>1, NoneTells, TellsShows
  <2> QED
    BY <1>3, <2>2, ShownKeeps
<1>5. CASE loop' \in Endings
  <2>1. PICK type \in {"run.completed", "run.paused", "run.failed", "run.cancelled"} :
          Log(<<Event(type, NoNode)>>)
    BY <1>5 DEF LoggedDispatch, LoopEvent, Endings
  <2>2. <<>> \o <<Event(type, NoNode)>> = <<Event(type, NoNode)>>
    BY OneIsSeq, ConcatEmptySeq
  <2>3. loop' # "running"
    BY <1>5 DEF Endings
  <2>4. ShownAs(Unmarked, {}, {})
    BY <1>2, <2>1, <2>2, <2>3, NoneTells, EndShows
  <2> QED
    BY <1>3, <2>4, ShownKeeps
<1> QED
  BY <1>1, <1>4, <1>5

\* The last word on a node counts.
LEMMA FollowsUp ==
  ASSUME NEW s, NEW t, NEW n, NEW word, NEW last, NEW asks,
         Tells(s, Mark({n}, word), {}, {}), Tells(t, Mark({n}, last), asks, {})
  PROVE  Tells(s \o t, Mark({n}, last), asks, {})
<1>1. {} \cap asks = {} /\ {} \cup asks = asks /\ {} \cup {} = {}
  OBVIOUS
<1>2. Tells(s \o t, Over(Mark({n}, word), Mark({n}, last)), {} \cup asks, {} \cup {})
  BY <1>1, TellsThen, Zenon
<1> QED
  BY <1>1, <1>2, OverIs

LEMMA LaunchShown ==
  ASSUME LogInv, NEW n \in Nodes, LoggedLaunch(n)
  PROVE  LogInv'
<1>1. pc[n] = "idle" /\ [Next]_vars /\ loop' = loop /\ Launch(n)
  BY DEF LoggedLaunch, Launch, LogInv, LaunchersIdle, Next, Proceed
<1>2. WaitsAs({}, {})
  <2>1. pc' = pc \/ pc' = [pc EXCEPT ![n] = "rolling_back"] \/ pc' = [pc EXCEPT ![n] = "executing"]
    BY <1>1 DEF Launch
  <2>2. Waiting' = Waiting
    BY <1>1, <2>1 DEF Waiting, LogInv, TypeOK
  <2> QED
    BY <2>2 DEF WaitsAs
<1>3. ASSUME NEW word \in Words, word # "done", status'[n] # "done"
      PROVE  DoneAs(Mark({n}, word))
  <2>1. \A m \in Nodes \ {n} : status'[m] = status[m]
    BY <1>1 DEF Launch, LogInv, TypeOK
  <2> QED
    BY <1>3, <2>1 DEF DoneAs, Mark
<1>4. status'[n] \in {"running", "blocked"}
  BY <1>1 DEF Launch, LogInv, TypeOK
<1>5. CASE ~CanAcquire(locks, n)
  <2>1. Log(<<Event("lock.contended", n), Event("node.blocked", n)>>)
    BY <1>5 DEF LoggedLaunch
  <2>2. Tells(<<Event("lock.contended", n)>>, Unmarked, {}, {})
    BY SilentTells DEF Silent, Event
  <2>3. Tells(<<Event("lock.contended", n), Event("node.blocked", n)>>,
              Mark({n}, "blocked"), {}, {})
    BY <2>2, EventsTell, TellsMore, TwoInARow
  <2>4. ShownAs(Mark({n}, "blocked"), {}, {})
    BY <1>1, <1>2, <1>3, <1>4, <2>1, <2>3, TellsShows DEF Words, Statuses
  <2> QED
    BY <1>1, <2>4, ShownKeeps
<1>6. CASE CanAcquire(locks, n)
  <2> DEFINE begun == <<Rows("lock.acquired", n, Writes[n]), Event("node.started", n)>>
             spent == <<Event("node.failed", n)>> \o HookRollsBack(n)
  <2>1. Tells(begun, Mark({n}, "running"), {}, {})
    <3>1. Tells(<<Rows("lock.acquired", n, Writes[n])>>, Unmarked, {}, {})
      BY SilentTells DEF Silent, Rows
    <3> QED
      BY <3>1, EventsTell, TellsMore, TwoInARow
  <2>2. Tells(spent, Mark({n}, "rolled_back"), {}, {})
    BY EventsTell, FollowsUp DEF HookRollsBack
  <2>3. Tells(begun \o <<>>, Mark({n}, "running"), {}, {})
    BY <2>1, NoneTells, TellsMore
  <2>4. Tells(begun \o spent, Mark({n}, "rolled_back"), {}, {})
    BY <2>1, <2>2, FollowsUp
  <2>5. Log(begun \o IF exhausted THEN spent ELSE <<>>)
    BY <1>6 DEF LoggedLaunch
  <2> HIDE DEF begun, spent
  <2>6. ASSUME NEW s, NEW word \in {"running", "rolled_back"}, Log(s),
               Tells(s, Mark({n}, word), {}, {})
        PROVE  LogInv'
    <3>1. ShownAs(Mark({n}, word), {}, {})
      BY <1>1, <1>2, <1>3, <1>4, <2>6, TellsShows DEF Words, Statuses
    <3> QED
      BY <1>1, <3>1, ShownKeeps
  <2>7. CASE exhausted
    BY <2>4, <2>5, <2>6, <2>7
  <2>8. CASE ~exhausted
    BY <2>3, <2>5, <2>6, <2>8
  <2> QED
    BY <2>7, <2>8
<1> QED
  BY <1>5, <1>6

\* What follows from a step that touches one node only.
LEMMA OneShown ==
  ASSUME NEW n \in Nodes,
         \A m \in Nodes \ {n} : status'[m] = status[m] /\ pc'[m] = pc[m]
  PROVE  /\ (status'[n] = "done" <=> status[n] = "done") => DoneAs(Unmarked)
         /\ \A word : (status'[n] = "done" <=> word = "done") => DoneAs(Mark({n}, word))
         /\ pc'[n] # "awaiting_human" => WaitsAs({}, {n})
         /\ pc[n] # "awaiting_human" /\ pc'[n] # "awaiting_human" => WaitsAs({}, {})
         /\ (HasApprover => pc'[n] = "awaiting_human") => WaitsAs({n}, {})
<1>1. (status'[n] = "done" <=> status[n] = "done") => DoneAs(Unmarked)
  BY DEF DoneAs, Unmarked, Mark
<1>2. \A word : (status'[n] = "done" <=> word = "done") => DoneAs(Mark({n}, word))
  BY DEF DoneAs, Mark
<1>3. pc'[n] # "awaiting_human" => WaitsAs({}, {n})
  BY DEF WaitsAs, Waiting
<1>4. pc[n] # "awaiting_human" /\ pc'[n] # "awaiting_human" => WaitsAs({}, {})
  BY DEF WaitsAs, Waiting
<1>5. (HasApprover => pc'[n] = "awaiting_human") => WaitsAs({n}, {})
  BY DEF WaitsAs, Waiting
<1> QED
  BY <1>1, <1>2, <1>3, <1>4, <1>5

LEMMA ParkingShown ==
  ASSUME LogInv, [Next]_vars, UNCHANGED loop, NEW n \in Nodes, ParkNode(n),
         NEW s, Tells(s, Mark({n}, "parked"), {n}, {}), Log(s)
  PROVE  LogInv'
<1>1. \A m \in Nodes \ {n} : status'[m] = status[m] /\ pc'[m] = pc[m]
  BY DEF ParkNode, LogInv, TypeOK
<1>2. status'[n] = "parked" /\ (HasApprover => pc'[n] = "awaiting_human")
  BY DEF ParkNode, LogInv, TypeOK
<1>3. DoneAs(Mark({n}, "parked")) /\ WaitsAs({n}, {})
  BY <1>1, <1>2, OneShown
<1> QED
  BY <1>3, TellsShows, ShownKeeps

LEMMA RequeueShown ==
  ASSUME LogInv, [Next]_vars, UNCHANGED loop, NEW n \in Nodes, Requeue(n), pc[n] \in Busy,
         NEW s, Tells(s, Unmarked, {}, {}) \/ Tells(s, Mark({n}, "failed"), {}, {}), Log(s)
  PROVE  LogInv'
<1>1. \A m \in Nodes \ {n} : status'[m] = status[m] /\ pc'[m] = pc[m]
  BY DEF Requeue, LogInv, TypeOK
<1>2. status'[n] = "ready" /\ pc'[n] = "idle"
  BY DEF Requeue, LogInv, TypeOK
<1>3. status[n] # "done" /\ pc[n] # "awaiting_human"
  BY DEF LogInv, AwaitsFit, Busy
<1>4. DoneAs(Unmarked) /\ DoneAs(Mark({n}, "failed")) /\ WaitsAs({}, {})
  BY <1>1, <1>2, <1>3, OneShown
<1> QED
  BY <1>4, TellsShows, ShownKeeps

LEMMA PassShown ==
  ASSUME LogInv, NEW n \in Nodes, LoggedPass(n)
  PROVE  LogInv'
<1>1. ExecutePasses(n) /\ Unlogged /\ [Next]_vars
  BY DEF LoggedPass, Next, Proceed, Settle
<1>2. UNCHANGED <<status, loop>> /\ pc[n] = "executing" /\ pc' = [pc EXCEPT ![n] = "reviewing"]
  BY <1>1 DEF ExecutePasses, Resumes
<1>3. DoneAs(Unmarked) /\ WaitsAs({}, {})
  BY <1>2, OneShown DEF LogInv, TypeOK
<1> QED
  BY <1>1, <1>2, <1>3, NothingShows, ShownKeeps

LEMMA EscalationShown ==
  ASSUME LogInv, NEW n \in Nodes, LoggedEscalation(n)
  PROVE  LogInv'
<1>1. [Next]_vars /\ UNCHANGED loop /\ ParkNode(n)
  BY DEF LoggedEscalation, GatesEscalate, Next, Proceed, Settle
<1>2. Tells(<<Event("gate.failed", n)>>, Unmarked, {}, {})
  BY SilentTells DEF Silent, Event
<1>3. Tells(<<Event("gate.failed", n)>> \o Parked(n), Mark({n}, "parked"), {n}, {})
  BY <1>2, ParkedTells, TellsMore
<1> QED
  BY <1>1, <1>3, ParkingShown DEF LoggedEscalation

LEMMA FailureShown ==
  ASSUME LogInv, NEW n \in Nodes, NEW kind \in ErrorKinds, LoggedFailure(n, kind)
  PROVE  LogInv'
<1> DEFINE action == Classify(kind, attempts[n] + 1, MaxAttempts)
           failed == <<Event("node.failed", n)>>
           tail == [ retry |-> Freed(n) \o <<Counted("node.retried", n, attempts[n] + 1)>>,
                     fallback_provider |-> Freed(n),
                     widen_retrieval |-> <<>>,
                     escalate_to_human |-> Parked(n),
                     rollback |-> HookRollsBack(n) ]
<1>1. [Next]_vars /\ UNCHANGED loop /\ pc[n] = "executing" /\ HandleFailure(n, kind)
  BY DEF LoggedFailure, ExecuteFails, Resumes, Next, Proceed, Settle
<1>2. action \in Actions
  BY DEF Classify, ErrorKinds, ActionFor, Actions
<1>3. Tells(failed, Mark({n}, "failed"), {}, {})
  BY EventsTell
<1>4. /\ action = "retry" => Log(failed \o
                                (Freed(n) \o <<Counted("node.retried", n, attempts[n] + 1)>>))
      /\ action = "fallback_provider" => Log(failed \o Freed(n))
      /\ action = "widen_retrieval" => Log(failed \o <<>>)
      /\ action = "escalate_to_human" => Log(failed \o Parked(n))
      /\ action = "rollback" => Log(failed \o HookRollsBack(n))
  <2>1. Log(failed \o tail[action])
    BY DEF LoggedFailure, FailureEvents
  <2>2. /\ tail["retry"] = Freed(n) \o <<Counted("node.retried", n, attempts[n] + 1)>>
        /\ tail["fallback_provider"] = Freed(n)
        /\ tail["widen_retrieval"] = <<>>
        /\ tail["escalate_to_human"] = Parked(n)
        /\ tail["rollback"] = HookRollsBack(n)
    OBVIOUS
  <2> HIDE DEF failed, action, tail
  <2> QED
    BY <2>1, <2>2, Zenon
<1>5. /\ action \in {"retry", "fallback_provider"} => Requeue(n)
      /\ action = "escalate_to_human" => ParkNode(n)
      /\ action = "widen_retrieval"
           => pc' = [pc EXCEPT ![n] = "widening"] /\ UNCHANGED status
      /\ action = "rollback"
           => pc' = [pc EXCEPT ![n] = "rolling_back"] /\ UNCHANGED status
  BY <1>1 DEF HandleFailure
<1> HIDE DEF action, failed
<1>6. Tells(failed \o Freed(n), Mark({n}, "failed"), {}, {})
  BY <1>3, FreedTells, TellsMore
<1>7. CASE action = "retry"
  <2>1. Tells(<<Counted("node.retried", n, attempts[n] + 1)>>, Unmarked, {}, {})
    BY SilentTells DEF Silent, Counted
  <2>2. Tells(Freed(n) \o <<Counted("node.retried", n, attempts[n] + 1)>>, Unmarked, {}, {})
    BY <2>1, FreedTells, TellsMore
  <2>3. Tells(failed \o (Freed(n) \o <<Counted("node.retried", n, attempts[n] + 1)>>),
              Mark({n}, "failed"), {}, {})
    BY <1>3, <2>2, TellsMore
  <2> QED
    BY <1>1, <1>4, <1>5, <1>7, <2>3, RequeueShown DEF Busy
<1>8. CASE action = "fallback_provider"
  BY <1>1, <1>4, <1>5, <1>6, <1>8, RequeueShown DEF Busy
<1>9. CASE action = "escalate_to_human"
  <2>1. Tells(failed \o Parked(n), Mark({n}, "parked"), {n}, {})
    BY <1>3, ParkedTells, FollowsUp
  <2> QED
    BY <1>1, <1>4, <1>5, <1>9, <2>1, ParkingShown
<1>10. ASSUME NEW s, NEW word, word \in {"failed", "rolled_back"}, Log(s),
              Tells(s, Mark({n}, word), {}, {}), UNCHANGED status,
              NEW next, next \in {"widening", "rolling_back"}, pc' = [pc EXCEPT ![n] = next]
       PROVE  LogInv'
  <2>1. status[n] # "done"
    BY <1>1 DEF LogInv, AwaitsFit, Busy
  <2>2. DoneAs(Mark({n}, word)) /\ WaitsAs({}, {})
    BY <1>1, <1>10, <2>1, OneShown DEF LogInv, TypeOK
  <2> QED
    BY <1>1, <1>10, <2>2, TellsShows, ShownKeeps
<1>11. CASE action = "widen_retrieval"
  <2>1. Tells(failed \o <<>>, Mark({n}, "failed"), {}, {})
    BY <1>3, NoneTells, TellsMore
  <2> QED
    BY <1>4, <1>5, <1>10, <1>11, <2>1
<1>12. CASE action = "rollback"
  <2>1. Tells(failed \o HookRollsBack(n), Mark({n}, "rolled_back"), {}, {})
    BY <1>3, EventsTell, FollowsUp DEF HookRollsBack
  <2> QED
    BY <1>4, <1>5, <1>10, <1>12, <2>1
<1> QED
  BY <1>2, <1>7, <1>8, <1>9, <1>11, <1>12 DEF Actions

LEMMA CancellationShown ==
  ASSUME LogInv, NEW n \in Nodes, LoggedCancellation(n)
  PROVE  LogInv'
<1>1. [Next]_vars /\ ExecuteCancelled(n)
  BY DEF LoggedCancellation, Next, Proceed, Settle
<1>2. UNCHANGED status /\ pc[n] = "executing" /\ pc' = [pc EXCEPT ![n] = "idle"]
  BY <1>1 DEF ExecuteCancelled, Resumes
<1>3. DoneAs(Unmarked) /\ WaitsAs({}, {})
  BY <1>2, OneShown DEF LogInv, TypeOK
<1>4. CASE loop = "running"
  <2>1. loop' = "cancelled"
    BY <1>1, <1>4 DEF ExecuteCancelled
  <2>2. Log(<<Event("run.cancelled", NoNode)>>)
    BY <1>4 DEF LoggedCancellation, LoopEvent
  <2>3. <<>> \o <<Event("run.cancelled", NoNode)>> = <<Event("run.cancelled", NoNode)>>
    BY OneIsSeq, ConcatEmptySeq
  <2>4. ShownAs(Unmarked, {}, {})
    BY <1>3, <2>1, <2>2, <2>3, NoneTells, EndShows
  <2> QED
    BY <1>1, <2>4, ShownKeeps
<1>5. CASE loop # "running"
  <2>1. Unlogged /\ UNCHANGED loop
    BY <1>1, <1>5 DEF LoggedCancellation, ExecuteCancelled
  <2> QED
    BY <1>1, <1>3, <2>1, NothingShows, ShownKeeps
<1> QED
  BY <1>4, <1>5

LEMMA ApprovalShown ==
  ASSUME LogInv, NEW n \in Nodes, LoggedApproval(n)
  PROVE  LogInv'
<1>1. [Next]_vars /\ ReviewApproves(n)
  BY DEF LoggedApproval, Next, Proceed, Settle
<1>2. /\ UNCHANGED loop /\ pc[n] = "reviewing" /\ pc' = [pc EXCEPT ![n] = "idle"]
      /\ status' = [status EXCEPT ![n] = "done"]
  BY <1>1 DEF ReviewApproves, Resumes
<1>3. DoneAs(Mark({n}, "done")) /\ WaitsAs({}, {})
  BY <1>2, OneShown DEF LogInv, TypeOK
<1> DEFINE said == <<Event("review.approved", n), Event("node.done", n)>>
<1>4. Tells(<<Event("review.approved", n)>>, Unmarked, {}, {})
  BY SilentTells DEF Silent, Event
<1>5. Tells(said, Mark({n}, "done"), {}, {})
  BY <1>4, EventsTell, TellsMore, TwoInARow
<1>6. Log(said \o Freed(n))
  BY DEF LoggedApproval
<1> HIDE DEF said
<1>7. Tells(said \o Freed(n), Mark({n}, "done"), {}, {})
  BY <1>5, FreedTells, TellsMore
<1> QED
  BY <1>1, <1>2, <1>3, <1>6, <1>7, TellsShows, ShownKeeps

LEMMA RejectionShown ==
  ASSUME LogInv, NEW n \in Nodes, NEW c \in Critiques, LoggedRejection(n, c)
  PROVE  LogInv'
<1> DEFINE said == <<Counted("review.rejected", n, rounds'[n])>>
<1>1. [Next]_vars /\ ReviewRejects(n, c)
  BY DEF LoggedRejection, Next, Proceed, Settle
<1>2. UNCHANGED loop /\ pc[n] = "reviewing" /\ (ParkNode(n) \/ Requeue(n))
  BY <1>1 DEF ReviewRejects, Resumes
<1>3. Log(said \o (IF status'[n] = "parked" THEN Parked(n) ELSE Freed(n)))
  BY DEF LoggedRejection
<1>4. Tells(said, Unmarked, {}, {})
  BY SilentTells DEF Silent, Counted
<1> HIDE DEF said
<1>5. CASE ParkNode(n)
  <2>1. status'[n] = "parked"
    BY <1>5 DEF ParkNode, LogInv, TypeOK
  <2>2. Tells(said \o Parked(n), Mark({n}, "parked"), {n}, {})
    BY <1>4, ParkedTells, TellsMore
  <2>3. Log(said \o Parked(n))
    BY <1>3, <2>1
  <2> QED
    BY <1>1, <1>2, <1>5, <2>2, <2>3, ParkingShown
<1>6. CASE Requeue(n)
  <2>1. status'[n] = "ready"
    BY <1>6 DEF Requeue, LogInv, TypeOK
  <2>2. Tells(said \o Freed(n), Unmarked, {}, {})
    BY <1>4, FreedTells, TellsMore
  <2>3. Log(said \o Freed(n))
    BY <1>3, <2>1
  <2> QED
    BY <1>1, <1>2, <1>6, <2>2, <2>3, RequeueShown DEF Busy
<1> QED
  BY <1>2, <1>5, <1>6

\* A node that waited had not been shown as done, and is not done now.
LEMMA AnswerShown ==
  ASSUME LogInv, [Next]_vars, UNCHANGED loop, NEW n \in Nodes, pc[n] = "awaiting_human",
         pc' = [pc EXCEPT ![n] = "idle"],
         status' = [status EXCEPT ![n] = "ready"] \/ status' = [status EXCEPT ![n] = "failed"],
         NEW s, Tells(s, Unmarked, {}, {n}), Log(s)
  PROVE  LogInv'
<1>1. \A m \in Nodes \ {n} : status'[m] = status[m] /\ pc'[m] = pc[m]
  BY DEF LogInv, TypeOK
<1>2. status'[n] # "done" /\ status[n] # "done" /\ pc'[n] # "awaiting_human"
  BY DEF LogInv, TypeOK, AwaitsFit
<1>3. DoneAs(Unmarked) /\ WaitsAs({}, {n})
  BY <1>1, <1>2, OneShown
<1> QED
  BY <1>3, TellsShows, ShownKeeps

LEMMA AnswersShown ==
  ASSUME LogInv, NEW n \in Nodes, LoggedGrant(n) \/ LoggedDenial(n)
  PROVE  LogInv'
<1>1. [Next]_vars
  BY DEF LoggedGrant, LoggedDenial, Next, Proceed, Settle
<1>2. CASE LoggedGrant(n)
  BY <1>1, <1>2, QuestionTells, AnswerShown DEF LoggedGrant, HumanGrants, Resumes
<1>3. CASE LoggedDenial(n)
  <2>1. Tells(<<Rows("lock.released", n, {})>>, Unmarked, {}, {})
    BY SilentTells DEF Silent, Rows
  <2>2. Tells(<<Event("approval.denied", n)>>, Unmarked, {}, {n})
    BY QuestionTells
  <2>3. {n} \cap {} = {} /\ {} \cup {} = {} /\ {n} \cup {} = {n}
    OBVIOUS
  <2>4. Tells(<<Event("approval.denied", n)>> \o <<Rows("lock.released", n, {})>>,
              Over(Unmarked, Unmarked), {} \cup {}, {n} \cup {})
    BY <2>1, <2>2, <2>3, TellsThen, Zenon
  <2>5. Tells(<<Event("approval.denied", n), Rows("lock.released", n, {})>>, Unmarked, {}, {n})
    BY <2>3, <2>4, TwoInARow, OverIs
  <2>6. /\ UNCHANGED loop /\ pc[n] = "awaiting_human" /\ pc' = [pc EXCEPT ![n] = "idle"]
        /\ status' = [status EXCEPT ![n] = "failed"]
        /\ Log(<<Event("approval.denied", n), Rows("lock.released", n, {})>>)
    BY <1>3 DEF LoggedDenial, HumanDenies, Resumes
  <2> QED
    BY <1>1, <2>5, <2>6, AnswerShown
<1> QED
  BY <1>2, <1>3

LEMMA WideningShown ==
  ASSUME LogInv, NEW n \in Nodes, LoggedWidening(n)
  PROVE  LogInv'
<1>1. [Next]_vars /\ UNCHANGED loop /\ pc[n] = "widening" /\ Requeue(n) /\ Log(Freed(n))
  BY DEF LoggedWidening, WideningDone, Resumes, Next, Proceed, Settle
<1> QED
  BY <1>1, FreedTells, RequeueShown DEF Busy

LEMMA RollbackShown ==
  ASSUME LogInv, NEW n \in Nodes, LoggedRollback(n)
  PROVE  LogInv'
<1> DEFINE D == DirtiedBy(n)
           back == <<Event("node.rolled_back", n)>>
           said == (Freed(n) \o back) \o DirtiedEvents(n)
           marks == Over(Mark({n}, "rolled_back"), Mark(D, "dirty"))
<1>1. [Next]_vars /\ RollbackDone(n)
  BY DEF LoggedRollback, Next, Proceed, Settle
<1>2. UNCHANGED loop /\ pc[n] = "rolling_back" /\ pc' = [pc EXCEPT ![n] = "idle"]
  BY <1>1 DEF RollbackDone, Resumes
<1>3. \A m \in Nodes : status'[m] = IF m \in D THEN "ready"
                                    ELSE IF m = n THEN "rolled_back" ELSE status[m]
  BY <1>1 DEF RollbackDone
<1>4. Tells(Freed(n) \o back, Mark({n}, "rolled_back"), {}, {})
  BY FreedTells, EventsTell, TellsMore
<1>5. {} \cap {} = {} /\ {} \cup {} = {}
  OBVIOUS
<1>6. Tells(said, marks, {} \cup {}, {} \cup {})
  BY <1>4, <1>5, CascadeTells, TellsThen, Zenon
<1>7. Log(said \o TruncatedEvents(n))
  BY DEF LoggedRollback
<1> HIDE DEF D, said
<1>8. DoneAs(marks)
  BY <1>3 DEF DoneAs, Over, Mark
<1>9. WaitsAs({}, {})
  BY <1>2 DEF WaitsAs, Waiting, LogInv, TypeOK
<1> HIDE DEF marks
<1>10. Tells(said, marks, {}, {})
  BY <1>5, <1>6
<1>11. CASE TruncatedEvents(n) = <<>>
  <2>1. said \o <<>> = said
    BY <1>10, ConcatEmptySeq DEF Tells, IsLog
  <2>2. Log(said)
    BY <1>7, <1>11, <2>1
  <2> QED
    BY <1>1, <1>2, <1>8, <1>9, <1>10, <2>2, TellsShows, ShownKeeps
<1>12. CASE TruncatedEvents(n) = <<Event("run.failed", NoNode)>>
  <2>1. ShownAs(marks, {}, {})
    BY <1>7, <1>8, <1>9, <1>10, <1>12, EndShows
  <2> QED
    BY <1>1, <2>1, ShownKeeps
<1> QED
  BY <1>11, <1>12 DEF TruncatedEvents

LEMMA OthersShown ==
  ASSUME LogInv, ((Cancel \/ BudgetRunsOut) /\ Unlogged) \/ UNCHANGED eventVars
  PROVE  LogInv'
<1>1. [Next]_vars /\ Unlogged /\ UNCHANGED <<status, pc, loop>>
  BY DEF Next, Unlogged, eventVars, vars, Cancel, BudgetRunsOut
<1>2. DoneAs(Unmarked) /\ WaitsAs({}, {})
  BY <1>1 DEF DoneAs, WaitsAs, Waiting, Unmarked, Mark
<1> QED
  BY <1>1, <1>2, NothingShows, ShownKeeps

LEMMA LogStep == LogInv /\ [EventNext]_eventVars => LogInv'
BY DispatchShown, LaunchShown, PassShown, EscalationShown, FailureShown, CancellationShown,
   ApprovalShown, RejectionShown, AnswersShown, WideningShown, RollbackShown, OthersShown
   DEF EventNext

LEMMA LogInit == EventInit => LogInv
<1> SUFFICES ASSUME EventInit PROVE LogInv
  OBVIOUS
<1> DEFINE e == Event("run.started", NoNode)
           v == EmptyView(Nodes)
<1>1. Init /\ TypeOK
  BY TypeInit DEF EventInit
<1>2. view = Apply(v, e) /\ window.active = ActiveAfter(FALSE, e)
  <2>1. /\ view = Fold(v, <<e>>)
        /\ window.active = FoldLeft(ActiveAfter, FALSE, <<e>>)
    BY DEF EventInit, Beginning, Show, Blank
  <2> HIDE DEF v, e
  <2>2. \A a : Folded(<<v, a>>, <<e>>) = <<Apply(v, e), ActiveAfter(a, e)>>
    BY FoldOne, BothIs
  <2>3. Folded(<<v, FALSE>>, <<e>>) = <<Apply(v, e), ActiveAfter(FALSE, e)>>
    BY <2>2, Zenon
  <2> QED
    BY <2>1, <2>3 DEF Folded
<1>3. /\ view.node = [n \in Nodes |-> "pending"] /\ view.asks = {}
      /\ view.run = "running" /\ window.active = TRUE
  BY <1>2 DEF Apply, ActiveAfter, EmptyView, Event, NodeStatusAfter, RunStatusAfter
<1>4. AwaitsFit /\ LaunchersIdle
  BY <1>1 DEF Init, AwaitsFit, LaunchersIdle, Busy
<1>5. ShownTyped /\ DoneIsShownExactly /\ ActivityIsShown /\ PendingIsShownExactly
  BY <1>1, <1>3 DEF Init, ShownTyped, DoneIsShownExactly, ActivityIsShown,
                    PendingIsShownExactly, Words, Statuses
<1> QED
  BY <1>1, <1>4, <1>5 DEF LogInv

LEMMA LogIsFaithful == EventSpec => []LogInv
BY LogInit, LogStep, PTL DEF EventSpec

(* The log says done of exactly the nodes that are done (fold.ts, "replaying to *)
(* sequence N yields exactly the state the run had at sequence N"), through     *)
(* reviews, cascades and settlements after the end, whatever the plan. *)
THEOREM DoneIsAlwaysShown == EventSpec => []DoneIsShownExactly
<1>1. LogInv => DoneIsShownExactly
  BY DEF LogInv
<1> QED
  BY <1>1, LogIsFaithful, PTL

(* With the approval hook wired, the approvals a screen shows as pending are those *)
(* some node waits for (supervisor.ts, parkNode and the two ways out of it). *)
THEOREM PendingIsAlwaysShown ==
  ASSUME HasApprover
  PROVE  EventSpec => []PendingIsShownExactly
<1>1. LogInv => PendingIsShownExactly
  BY DEF LogInv
<1> QED
  BY <1>1, LogIsFaithful, PTL

(* The sign that a run is at work goes out exactly when the loop ends or the log *)
(* has called the run failed (event-lines.ts, runIsActive). *)
THEOREM ActivityIsAlwaysShown == EventSpec => []ActivityIsShown
<1>1. LogInv => ActivityIsShown
  BY DEF LogInv
<1> QED
  BY <1>1, LogIsFaithful, PTL
=============================================================================
