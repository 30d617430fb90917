------------------------------ MODULE Personas ------------------------------
(***************************************************************************)
(* core/src/persona/registry.ts and the matrix of tools/src/registry.ts:   *)
(* what each persona needs of a model and which tools it may call; and the *)
(* routing simulation of desktop views/Models.tsx, the router's hard       *)
(* filter re-implemented beside it on the same cards.  Embedding models    *)
(* are no candidates of either and are left out.                           *)
(***************************************************************************)
EXTENDS ModelRouter, TLC

\* PERSONAS: [purpose, needsTools, needsStructured, minContext, quality,
\* canWrite, independent]; all prefer a local model.
Persona(purpose, tools, structured, window, quality) ==
  [purpose |-> purpose, needsTools |-> tools, needsStructured |-> structured,
   minContext |-> window, quality |-> quality, canWrite |-> FALSE, independent |-> FALSE]

PERSONAS ==
  [ planner |-> Persona("plan", FALSE, TRUE, 16384, "critical"),
    coder |-> [Persona("code", TRUE, FALSE, 16384, "critical") EXCEPT !.canWrite = TRUE],
    tester |-> [Persona("code", TRUE, FALSE, 16384, "standard") EXCEPT !.canWrite = TRUE],
    reviewer |-> [Persona("review", TRUE, TRUE, 32768, "critical") EXCEPT !.independent = TRUE],
    summarizer |-> Persona("summarize", FALSE, FALSE, 8192, "draft"),
    chat |-> Persona("chat", TRUE, FALSE, 8192, "standard") ]

\* An unknown persona is a coder to the router ...
Named(name) == PERSONAS[IF name \in DOMAIN PERSONAS THEN name ELSE "coder"]

RequirementFor(name, localOnly, used) ==
  LET persona == Named(name)
  IN [purpose |-> persona.purpose, needsTools |-> persona.needsTools,
      needsStructured |-> persona.needsStructured, minContext |-> persona.minContext,
      privacy |-> IF localOnly THEN "local-only" ELSE "prefer-local",
      exclude |-> IF persona.independent THEN used ELSE {}]

Reading == {"read_file", "read_artifact", "list_dir", "glob", "grep"}
Editing == {"write_file", "edit_file"}
Tools == Reading \cup Editing \cup {"run_command", "git_commit", "git_push"}

\* DEFAULT_MATRIX: what is allowed; a coder's push is asked about.
Allowed ==
  [ planner |-> Reading,
    coder |-> Tools \ {"git_push"},
    tester |-> Reading \cup {"write_file", "run_command"},
    reviewer |-> Reading,
    summarizer |-> {},
    chat |-> Reading ]

\* ... and nobody to the permission matrix.
ResolvePermission(name, tool) ==
  IF name \notin DOMAIN Allowed THEN "deny"
  ELSE IF tool \in Allowed[name] THEN "allow"
  ELSE IF name = "coder" /\ tool = "git_push" THEN "ask" ELSE "deny"

-----------------------------------------------------------------------------
\* A card's window counts even when it says 0, that is, not measured.
Simulated(r, m, purpose, minContext, localOnly) ==
  LET card == r.cards[m]
      tools == IF card.known THEN card.tools ELSE Advertised[m].tools
      window == IF card.known THEN card.window ELSE Advertised[m].window
  IN /\ localOnly => Advertised[m].tier = "local"
     /\ tools = "none" => purpose = "summarize"
     /\ window >= minContext

\* What the router is asked for a node of that purpose, with the view's window.
AskedAs(name, minContext, localOnly) ==
  [RequirementFor(name, localOnly, {}) EXCEPT !.minContext = minContext]
=============================================================================
