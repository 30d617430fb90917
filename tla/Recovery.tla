------------------------------ MODULE Recovery ------------------------------
(***************************************************************************)
(* What follows a failure: the taxonomy of core/src/recovery/classifier.ts *)
(* and, after a rollback, cascadeInvalidate of core/src/scheduler/         *)
(* cascade.ts.  An error is abstracted to the first test of classify it    *)
(* satisfies; messages and the patterns that recognise them are left out.  *)
(***************************************************************************)
EXTENDS Naturals

\* The action each kind of error leads to while attempts remain.
ActionFor ==
  [ gate_failure        |-> "retry",
    contract_unmet      |-> "retry",
    write_set_violation |-> "rollback",
    capability_mismatch |-> "fallback_provider",
    permission          |-> "escalate_to_human",
    provider_down       |-> "fallback_provider",
    retrieval_miss      |-> "widen_retrieval",
    transient           |-> "retry",
    budget_exceeded     |-> "rollback",
    other               |-> "rollback" ]

ErrorKinds == DOMAIN ActionFor

Actions == {"retry", "fallback_provider", "widen_retrieval", "escalate_to_human", "rollback"}

\* Mutant of Exhausted: one attempt too many.
ExhaustedLate(attempts, maxAttempts) == attempts > maxAttempts

\* Exhaustion is tested before the taxonomy (F1).
Exhausted(attempts, maxAttempts) == attempts >= maxAttempts

Classify(kind, attempts, maxAttempts) ==
  IF Exhausted(attempts, maxAttempts) THEN "rollback" ELSE ActionFor[kind]

-----------------------------------------------------------------------------
(* Which nodes a rollback sends back to the queue.                         *)

\* Statuses of nodes that have read something a rollback can take away.
ConsumedStatuses == {"done", "review", "running", "failed"}

\* Mutant of Reached: whoever reads what a dirtied node wrote is left alone.
ReachedDirectly(origin, consumers, feedsOn, maxDepth) ==
  [d \in 0 .. maxDepth |->
     IF d = 0 THEN {} ELSE {m \in consumers \ {origin} : <<m, origin>> \in feedsOn}]

\* The nodes found within d levels of the breadth-first search.  <<m, s>> in
\* feedsOn says that m's read set intersects s's write set.  A level visits only the
\* newest nodes; the readers of older ones are already in.
Reached(origin, consumers, feedsOn, maxDepth) ==
  LET reached[d \in 0 .. maxDepth] ==
        IF d = 0 THEN {}
        ELSE reached[d - 1] \cup
             {m \in consumers \ {origin} :
                \E s \in reached[d - 1] \cup {origin} : <<m, s>> \in feedsOn}
  IN reached

Dirtied(origin, consumers, feedsOn, maxDepth) ==
  consumers \cap Reached(origin, consumers, feedsOn, maxDepth)[maxDepth]

\* The search stops at maxDepth with a level still to visit: the last level
\* found a node that writes something.
Truncated(origin, consumers, feedsOn, writers, maxDepth) ==
  LET reached == Reached(origin, consumers, feedsOn, maxDepth)
  IN IF maxDepth = 0 THEN TRUE
     ELSE reached[maxDepth] \cap writers # reached[maxDepth - 1] \cap writers
=============================================================================
