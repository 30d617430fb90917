------------------------------ MODULE PlanRules ------------------------------
(***************************************************************************)
(* core/src/plan/normalize.ts and validate.ts: what becomes of the graph a *)
(* model returned before it may be proposed.  A graph is a sequence of     *)
(* nodes; what the model put into "deps" is split into the ids it named    *)
(* and the paths it named by mistake.  Whether a contract permits no       *)
(* change, and whether the criteria are mentioned, is text: a field and a  *)
(* constant.                                                               *)
(***************************************************************************)
EXTENDS ResourceNames, FiniteSets

CONSTANTS
  Writers,    \* personas that are permitted a mutating tool
  MaxWrites   \* MAX_WRITES_PER_NODE

Ids(dag) == {dag[i].id : i \in DOMAIN dag}

\* Looked up through a Map: of two nodes with one id the later one counts.
DepsOf(dag, id) ==
  LET same == {i \in DOMAIN dag : dag[i].id = id}
  IN IF same = {} THEN {} ELSE dag[CHOOSE i \in same : \A j \in same : j <= i].deps

\* Paths named among the dependencies are reads; a contract that permits no
\* change makes the write optional.
NormalizeDag(dag) ==
  [i \in DOMAIN dag |->
     [dag[i] EXCEPT !.reads = @ \cup dag[i].misplaced,
                    !.misplaced = {},
                    !.policy = IF dag[i].noop THEN "optional" ELSE @]]

\* Mutant of FindCycle: only the node the walk began with closes a cycle.
FindLoop(dag) == \E i \in DOMAIN dag : dag[i].id \in DepsOf(dag, dag[i].id)

\* Depth first along the dependencies: from which nodes a walk that is visiting
\* some meets one of these again.  (Nodes that are done are not walked again:
\* that only saves work.)
FindCycle(dag) ==
  LET meets[visiting \in SUBSET Ids(dag)] ==
        {id \in Ids(dag) \ visiting :
           \E dep \in DepsOf(dag, id) \cap Ids(dag) :
             dep \in visiting \cup {id} \/ dep \in meets[visiting \cup {id}]}
  IN meets[{}] # {}

\* Is "to" another node that "from" waits for?  Breadth first, a level at a time.
Reachable(dag, from, to) ==
  LET level[n \in 0..Len(dag)] ==
        IF n = 0 THEN {from}
        ELSE level[n - 1] \cup UNION {DepsOf(dag, id) : id \in level[n - 1]}
  IN to # from /\ to \in level[Len(dag)]

\* The spellings of a write that are refused, and with which complaint.
OutsideWorkspace(w) ==
  LET norm == NormalizeResource(w) IN norm[1] = ".." \/ (norm[1] = Empty /\ Len(norm) > 1)

CoversEverything(w) == NormalizeResource(w) \in {<<"**">>, <<".">>, Root}

\* Mutant of Overlapping: equal names only.
OverlappingByName(dag, i, j) ==
  /\ i < j
  /\ dag[i].writes \cap dag[j].writes # {}
  /\ ~Reachable(dag, dag[i].id, dag[j].id)
  /\ ~Reachable(dag, dag[j].id, dag[i].id)

\* Two writers of one resource that are not ordered by their dependencies.
Overlapping(dag, i, j) ==
  /\ i < j
  /\ SetsIntersect(dag[i].writes, dag[j].writes)
  /\ ~Reachable(dag, dag[i].id, dag[j].id)
  /\ ~Reachable(dag, dag[j].id, dag[i].id)

Errors(dag) ==
  {<<"duplicate", dag[i].id>> : i \in {k \in DOMAIN dag : \E j \in 1..(k - 1) : dag[j].id = dag[k].id}}
  \cup {<<"unknown", dag[i].id>> : i \in {k \in DOMAIN dag : dag[k].deps \ Ids(dag) # {}}}
  \cup {<<"self", dag[i].id>> : i \in {k \in DOMAIN dag : dag[k].id \in dag[k].deps}}
  \cup (IF FindCycle(dag) THEN {<<"cycle", "plan">>} ELSE {})
  \cup {<<"outside", dag[i].id>> : i \in {k \in DOMAIN dag : \E w \in dag[k].writes : OutsideWorkspace(w)}}
  \cup {<<"everything", dag[i].id>> : i \in {k \in DOMAIN dag : \E w \in dag[k].writes : CoversEverything(w)}}
  \cup {<<"persona", dag[i].id>> : i \in {k \in DOMAIN dag : dag[k].writes # {} /\ dag[k].persona \notin Writers}}

Warnings(dag) ==
  {<<"idle", dag[i].id>> :
      i \in {k \in DOMAIN dag : dag[k].persona # "reviewer" /\ dag[k].writes = {} /\ dag[k].deps = {}}}
  \cup {<<"wide", dag[i].id>> : i \in {k \in DOMAIN dag : Cardinality(dag[k].writes) > MaxWrites}}
  \cup {<<"overlap", dag[j].id>> : j \in {k \in DOMAIN dag : \E i \in DOMAIN dag : Overlapping(dag, i, k)}}

\* The model's output on the shape the supervisor runs: names in their normal
\* form, without the empty one.
ToPlan(dag) ==
  [i \in DOMAIN dag |->
     [id |-> dag[i].id, persona |-> dag[i].persona, deps |-> dag[i].deps,
      read |-> Canonical(dag[i].reads) \ {Root},
      write |-> Canonical(dag[i].writes) \ {Root},
      policy |-> dag[i].policy, noop |-> dag[i].noop]]

-----------------------------------------------------------------------------
\* What the supervisor needs of a plan: in some order every node finds its
\* dependencies finished.
Finished(plan) ==
  LET after[n \in 0..Len(plan)] ==
        IF n = 0 THEN {}
        ELSE {i \in DOMAIN plan : \A d \in plan[i].deps :
                \E j \in after[n - 1] : plan[j].id = d}
  IN after[Len(plan)]

Precedes(plan, a, b) == Reachable(plan, b, a)
=============================================================================
