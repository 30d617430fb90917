------------------------------- MODULE Planner -------------------------------
(***************************************************************************)
(* core/src/plan/planner.ts over cli/src/generator.ts and                  *)
(* providers/src/structured.ts: sessions that plan at the same time through*)
(* the one router of a workspace, while models.probe (daemon/src/          *)
(* methods-session.ts) measures its models.  A step is the code between    *)
(* two awaits: the listing of the providers and each reply of a model.     *)
(***************************************************************************)
EXTENDS PlanRules, ModelRouter

CONSTANTS
  Sessions,    \* calls of Planner.plan
  Dags,        \* graphs a model may answer with
  MaxRepairs,  \* rounds after the first for a graph that does not validate
  MaxFixes,    \* replies after the first for output that does not parse
  Abilities,   \* what models may be like: [tools, structured, recall]
  Files,       \* paths below the workspace, as sequences of names
  MaxProbes,   \* bound: calls of models.probe
  MaxTime      \* bound on the clock

NodeFields == {"id", "persona", "deps", "misplaced", "reads", "writes", "policy", "noop"}

\* A workspace lists finitely many models, somebody plans, and what a model
\* answers with is a list of nodes (DagSchema).  Files are found by their names.
ASSUME PlannerAssumption ==
  /\ IsFiniteSet(Models) /\ IsFiniteSet(Sessions) /\ Sessions # {}
  /\ \A dag \in Dags :
       /\ Len(dag) \in Nat /\ DOMAIN dag = 1..Len(dag)
       /\ \A i \in DOMAIN dag : DOMAIN dag[i] = NodeFields
  /\ Files \subseteq Seq(Segments)

VARIABLES
  now,     \* Date.now()
  router,  \* the workspace's ModelRouter
  calls,   \* [Sessions -> where the call of plan() is]
  probe,   \* models.probe: what is left to measure, and the table of cards
  late     \* history: per model, the attempts that ended while its breaker was open

vars == <<now, router, calls, probe, late>>

NoPlan == <<>>
NotAsked == [step |-> "idle", stage |-> "spec", round |-> 0, fixes |-> 0,
             todo |-> <<>>, plan |-> NoPlan, warned |-> {}]
Ended == {"planned", "invalid", "failed"}

SpecNeeds == [privacy |-> "prefer-local", needsTools |-> FALSE, needsStructured |-> TRUE,
              minContext |-> 8192, exclude |-> {}]
DagNeeds == [SpecNeeds EXCEPT !.minContext = 16384]
Needs(s) == IF calls[s].stage = "spec" THEN SpecNeeds ELSE DagNeeds

Init ==
  /\ now = 0
  /\ router = NewRouter
  /\ calls = [s \in Sessions |-> NotAsked]
  /\ probe = [step |-> "idle", todo |-> {}, caps |-> <<>>, table |-> [m \in Models |-> NoCard], runs |-> 0]
  /\ late = [m \in Models |-> 0]

Goto(s, call) == calls' = [calls EXCEPT ![s] = call]
Asks(call) == [call EXCEPT !.step = "route", !.todo = <<>>, !.fixes = 0]
Ends(step) == [NotAsked EXCEPT !.step = step]

Plan(s) ==
  /\ calls[s].step = "idle"
  /\ Goto(s, Asks(NotAsked))
  /\ UNCHANGED <<now, router, probe, late>>

\* route() with a catalogue at hand: rank what may serve, or give the call up.
Ranked(s, r) ==
  LET able == Eligible(r, r.cache.caps, Needs(s), now)
  IN \/ /\ able = {}
        /\ Goto(s, Ends("failed"))
     \/ /\ able # {}
        /\ \E ranking \in Rankings(able) :
             Goto(s, [calls[s] EXCEPT !.step = "ask", !.todo = ranking, !.fixes = 0])

\* The catalogue is the kept one while it is fresh.  A call that found it old
\* waits for the providers and lists again, whatever others kept meanwhile.
Route(s) ==
  /\ calls[s].step = "route"
  /\ \/ /\ IsFresh(router, now)
        /\ Ranked(s, router)
        /\ UNCHANGED router
     \/ \E up \in SUBSET {ProviderOf[m] : m \in Models} :
          /\ router' = Listed(router, up, now)
          /\ Ranked(s, Listed(router, up, now))
  /\ UNCHANGED <<now, probe, late>>

Asked(s) == Head(calls[s].todo)

\* History only: an attempt that ends counts while the breaker is open.
Reached(s) ==
  late' = [m \in Models |->
             IF ~IsOpen(router', m, now) THEN 0
             ELSE IF m = Asked(s) /\ IsOpen(router, m, now) THEN late[m] + 1 ELSE late[m]]

\* The reply does not parse, is cut off or does not validate, and may be fixed.
Malformed(s) ==
  /\ calls[s].step = "ask" /\ calls[s].fixes < MaxFixes
  /\ Goto(s, [calls[s] EXCEPT !.fixes = @ + 1])
  /\ UNCHANGED <<now, router, probe, late>>

\* The provider threw, or the last fix was no better: the next candidate.
AttemptFails(s) ==
  /\ calls[s].step = "ask"
  /\ router' = RecordFailure(router, Asked(s), now)
  /\ IF Len(calls[s].todo) = 1 THEN Goto(s, Ends("failed"))
     ELSE Goto(s, [calls[s] EXCEPT !.todo = Tail(@), !.fixes = 0])
  /\ Reached(s)
  /\ UNCHANGED <<now, probe>>

SpecArrives(s) ==
  /\ calls[s].step = "ask" /\ calls[s].stage = "spec"
  /\ router' = RecordSuccess(router, Asked(s))
  /\ Goto(s, Asks([calls[s] EXCEPT !.stage = "dag"]))
  /\ Reached(s)
  /\ UNCHANGED <<now, probe>>

\* What becomes of each answer, once for all sessions.
Verdicts ==
  [dag \in Dags |->
     LET fixed == NormalizeDag(dag)
     IN [errors |-> Errors(fixed),
         proposal |-> [Ends("planned") EXCEPT !.plan = ToPlan(fixed), !.warned = Warnings(fixed)]]]

\* Mutant of Judged: rounds are not counted.
JudgedForever(call, verdict) ==
  IF verdict.errors = {} THEN verdict.proposal ELSE Asks(call)

\* Propose it, send it back with its errors, or give up.
Judged(call, verdict) ==
  IF verdict.errors = {} THEN verdict.proposal
  ELSE IF call.round < MaxRepairs THEN Asks([call EXCEPT !.round = @ + 1])
  ELSE Ends("invalid")

DagArrives(s) ==
  /\ calls[s].step = "ask" /\ calls[s].stage = "dag"
  /\ \E dag \in Dags : Goto(s, Judged(calls[s], Verdicts[dag]))
  /\ router' = RecordSuccess(router, Asked(s))
  /\ Reached(s)
  /\ UNCHANGED <<now, probe>>

-----------------------------------------------------------------------------
\* models.probe asks for the catalogue afresh and measures what is in it.
ProbeStart ==
  /\ probe.step = "idle" /\ probe.runs < MaxProbes
  /\ \E up \in SUBSET {ProviderOf[m] : m \in Models} :
       /\ router' = Listed(router, up, now)
       /\ probe' = [probe EXCEPT !.step = "run", !.caps = Listing(router, up),
                                 !.todo = DOMAIN Listing(router, up), !.runs = @ + 1]
  /\ UNCHANGED <<now, calls, late>>

\* One model is measured and its card saved.  Nothing throws: a call that
\* does is a trial that failed.
ProbeModel ==
  /\ probe.step = "run" /\ probe.todo # {}
  /\ LET m == CHOOSE k \in probe.todo : TRUE
     IN \E able \in Abilities :
          probe' = [probe EXCEPT !.todo = @ \ {m}, !.table[m] = Probed(probe.caps[m], able)]
  /\ UNCHANGED <<now, router, calls, late>>

ProbeEnd ==
  /\ probe.step = "run" /\ probe.todo = {}
  /\ router' = ApplyScorecards(router, probe.table)
  /\ probe' = [probe EXCEPT !.step = "idle", !.caps = <<>>]
  /\ UNCHANGED <<now, calls, late>>

\* Time passes, and breakers close.
Tick ==
  /\ now < MaxTime
  /\ now' = now + 1
  /\ late' = [m \in Models |-> IF IsOpen(router, m, now + 1) THEN late[m] ELSE 0]
  /\ UNCHANGED <<router, calls, probe>>

Turn(s) ==
  \/ Route(s) \/ Malformed(s) \/ AttemptFails(s) \/ SpecArrives(s) \/ DagArrives(s)

Next ==
  \/ \E s \in Sessions : Plan(s) \/ Turn(s)
  \/ ProbeStart \/ ProbeModel \/ ProbeEnd
  \/ Tick

Spec == Init /\ [][Next]_vars

\* Every provider call returns or throws: fetch has a timeout or the stream ends.
FairSpec == Spec /\ \A s \in Sessions : WF_vars(Turn(s))

-----------------------------------------------------------------------------
Proposals == {Verdicts[dag].proposal : dag \in {d \in Dags : Verdicts[d].errors = {}}}

Runnable == {call \in Proposals : /\ Cardinality(Ids(call.plan)) = Len(call.plan)
                                  /\ Finished(call.plan) = DOMAIN call.plan}

\* A plan that is proposed can be run: its ids are distinct (locks and events
\* go by them), and in some order every node finds its dependencies finished.
AcceptedPlanCanFinish ==
  \A s \in Sessions : calls[s].step = "planned" => calls[s] \in Runnable

MayMeet(a, b) == \E f \in Files, w \in a.write, x \in b.write : Touches(w, f) /\ Touches(x, f)

Ordered(call) ==
  \A i, j \in DOMAIN call.plan :
    i < j /\ MayMeet(call.plan[i], call.plan[j]) =>
      \/ Precedes(call.plan, call.plan[i].id, call.plan[j].id)
      \/ Precedes(call.plan, call.plan[j].id, call.plan[i].id)
      \/ <<"overlap", call.plan[j].id>> \in call.warned

InOrder == {call \in Proposals : Ordered(call)}

\* Answers whose writers spell plain names, and none of which declares a directory
\* to one writer and a pattern of one below it to another.
PlainDags ==
  \A dag \in Dags : \A i \in DOMAIN dag : \A a \in dag[i].writes :
    /\ a \in Spellings /\ Plain(a)
    /\ \A j \in DOMAIN dag \ {i} : \A b \in dag[j].writes : ~Missed(a, b)

\* Two nodes of a proposed plan that may write one file, however they spelled
\* it, are ordered by their dependencies or the human is told.
WritersAreOrdered == \A s \in Sessions : calls[s].step = "planned" => calls[s] \in InOrder

\* What the router keeps of a listing is what it has measured, whichever of
\* the listing and the probe came back first.
CacheIsMeasured ==
  router.cache.kept =>
    \A m \in DOMAIN router.cache.caps : router.cache.caps[m] = Measured(router, m)

\* An open breaker keeps calls away: only those that were ranked before it
\* opened still reach the model, each once.
OpenBreakerIsRespected ==
  \A m \in Models : late[m] < Cardinality(Sessions)

\* Planning ends, with a plan, as invalid or as failed, whatever models answer.
PlanningEnds ==
  \A s \in Sessions : calls[s].step = "route" ~> calls[s].step \in Ended

\* A model that has not changed keeps its measurement when it is probed again
\* (the number "the router should filter on", probe.ts:224).
ProbingTwiceAgrees ==
  [][\A m \in Models : probe.table[m].known => probe'.table[m] = probe.table[m]]_vars
=============================================================================
