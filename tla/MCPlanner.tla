------------------------------ MODULE MCPlanner ------------------------------
(* Two sessions, two models of two providers; graphs of two and three nodes. *)
EXTENDS Planner, Personas

CONSTANTS m1, m2

Names == {"", ".", "*", "**", "a", "b"}
Listers == m1 :> "lmstudio" @@ m2 :> "lmstudio"
Claims ==
  m1 :> [tools |-> "native", structured |-> "json_schema", window |-> 262144, tier |-> "local"] @@
  m2 :> [tools |-> "shim", structured |-> "json_mode", window |-> 32768, tier |-> "local"]
Needles == <<4000, 16000, 32000>>
Able == {[tools |-> 1, structured |-> 1, recall |-> 20000]}
SteadyAble == {[tools |-> 3, structured |-> 3, recall |-> 20000]}

Node(id, deps, writes) ==
  [id |-> id, persona |-> "coder", deps |-> deps, misplaced |-> {}, reads |-> {},
   writes |-> writes, policy |-> "required", noop |-> FALSE]

Apart == <<Node("n1", {}, {<<"a", "", "b">>}), Node("n2", {}, {<<".", ".", "a", "*">>}),
           Node("n3", {}, {<<"*">>})>>
Three == <<Node("n1", {}, {<<".", "a", "">>}),
           [Node("n2", {"n1"}, {}) EXCEPT !.misplaced = {<<".", "a">>}, !.noop = TRUE],
           Node("n3", {"n2"}, {<<"*">>})>>
Twins == <<Node("n1", {}, {<<"a">>}), Node("n1", {}, {<<"b">>})>>
Ring == <<Node("n1", {"n2"}, {<<"a">>}), Node("n2", {"n1"}, {<<"b">>})>>
Wrong == <<[Node("n1", {"n9"}, {<<"a">>}) EXCEPT !.persona = "planner"],
           Node("n2", {}, {<<".", "**">>})>>

Nested == <<Node("n1", {}, {<<"a", "">>}), Node("n2", {}, {<<"a", "b", "**">>})>>

Answers == {Apart, Three, Twins, Ring, Wrong}
Tree == {<<"a">>, <<"b">>, <<"a", "b">>, <<"a", "a">>}
\* resourcesIntersect against what the names mean, on every pair of plain
\* spellings of up to three segments: two that reach one file intersect,
\* except for a directory and a pattern below it, which the code misses.
Bounded == UNION {[1..n -> Names] : n \in 1..3}
PlainNames == {x \in Bounded : Plain(x)}
ASSUME Conservative ==
  \A a, b \in PlainNames :
    (\E f \in Tree : Touches(a, f) /\ Touches(b, f)) =>
      ResourcesIntersect(a, b) \/ Missed(a, b) \/ Missed(b, a)

\* The writers of the answers spell plain names; of a directory above another
\* writer's pattern the human is not told.
ASSUME AnswersArePlain == PlainDags
ASSUME NestedIsMissed ==
  LET fixed == NormalizeDag(Nested)
  IN /\ Errors(fixed) = {}
     /\ ~Ordered([plan |-> ToPlan(fixed), warned |-> Warnings(fixed)])

\* A persona may declare writes exactly if it has a tool to make them with, and
\* one that needs a model with tools has tools.
ASSUME WritersHaveTools ==
  /\ {p \in DOMAIN PERSONAS : PERSONAS[p].canWrite} = Writers
  /\ \A p \in DOMAIN PERSONAS :
       /\ PERSONAS[p].canWrite <=> \E t \in Editing : ResolvePermission(p, t) = "allow"
       /\ PERSONAS[p].needsTools => \E t \in Tools : ResolvePermission(p, t) = "allow"

\* Every card a probe can make of the two models.
Cards == {NoCard} \cup {Probed(caps, [tools |-> t, structured |-> 1, recall |-> c]) :
            caps \in {Claims[m] : m \in Models}, t \in {0, 1, 3}, c \in {0, 5000, 20000, 40000}}
Routers == {[NewRouter EXCEPT !.cards = cards] : cards \in [Models -> Cards]}

\* Nothing a node's coder ran on reviews it.
ASSUME ReviewIsIndependent ==
  \A r \in Routers : \A used \in SUBSET Models :
    Eligible(r, Listing(r, {"lmstudio"}), RequirementFor("reviewer", FALSE, used), 0)
      \cap used = {}

\* The simulation shows what the router does with closed breakers and nothing
\* pinned, for all that may call tools, except of a card that did not measure
\* the window.
ASSUME SimulationMirrors ==
  \A r \in Routers : \A m \in Models : \A window \in {4000, 16000, 16384} :
    \A p \in {"coder", "tester", "chat", "summarizer"} :
      (r.cards[m].known => r.cards[m].window > 0) =>
        (Simulated(r, m, PERSONAS[p].purpose, window, TRUE) <=>
         Serves(r, Measured(r, m), AskedAs(p, window, TRUE), m, 0))

ASSUME Canonicalises ==
  \A a \in Bounded : NormalizeResource(NormalizeResource(a)) = NormalizeResource(a)
=============================================================================
