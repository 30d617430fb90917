--------------------------- MODULE Terminal_proofs ---------------------------
(***************************************************************************)
(* What a yes and an Esc mean at the terminal, for any turns and nodes.    *)
(***************************************************************************)
EXTENDS Terminal, TLAPS

-----------------------------------------------------------------------------
(* The inductive invariant: the resolver that is held is that of the card    *)
(* that is to be drawn, of somebody who waits; whoever else waits has lost   *)
(* his to a later request, so a key at a card that is not drawn any more     *)
(* never passes over one that can be heard; while turns come one after the   *)
(* other, the supervisor that is held is that of the run, and Esc in it has  *)
(* reached it.                                                               *)
Places == {"idle", "chatting", "planning", "proposed", "building", "running", "ended"}
States == {"todo", "working", "asking", "stuck", "acting", "done", "failed", "stopped"}
Cards == Turns \X (Nodes \cup {"plan"})

Shape ==
  /\ turn \in [Turns -> Places] /\ node \in [Turns -> [Nodes -> States]]
  /\ told \in [Turns -> {"run", "turn", Nothing}] /\ mingled \in BOOLEAN
  /\ resolver \in Cards \cup {Nothing} /\ exited \in BOOLEAN

CardIsOfResolver ==
  /\ approval = resolver
  /\ \A t \in Turns : ~exited /\ resolver = PlanOf(t) => turn[t] = "proposed"
  /\ \A t \in Turns, n \in Nodes : ~exited /\ resolver = <<t, n>> => node[t][n] \in {"asking", "stuck"}

HeardOrLost ==
  ~exited =>
    \A t \in Turns :
      /\ turn[t] = "proposed" => PlanOf(t) \in unheard \cup {resolver}
      /\ \A n \in Nodes : node[t][n] \in {"asking", "stuck"} => <<t, n>> \in unheard \cup {resolver}

OneTurn == ~mingled => \A t, u \in Active : t = u

EscIsHeard ==
  \A t \in Turns :
    /\ ~mingled /\ turn[t] = "running" => supervisor = t
    /\ told[t] = "run" => turn[t] \in {"running", "ended"}
    /\ told[t] = "run" /\ ~mingled /\ turn[t] = "running" => t \in token

SInv == Shape /\ CardIsOfResolver /\ HeardOrLost /\ OneTurn /\ EscIsHeard /\ NothingRunsUnapproved

LEMMA SInvInit == Init => SInv
<1> SUFFICES ASSUME Init
             PROVE  SInv
  OBVIOUS
<1>1. \A t \in Turns : turn[t] = "idle" /\ told[t] = Nothing /\ \A n \in Nodes : node[t][n] = "todo"
  BY DEF Init, NotPlanned
<1>2. Shape
  BY DEF Init, NotPlanned, Shape, Places, States
<1>3. \A t \in Turns : Nothing # PlanOf(t) /\ \A n \in Nodes : Nothing # <<t, n>>
  BY TerminalAssumption DEF PlanOf
<1>4. CardIsOfResolver /\ HeardOrLost /\ OneTurn
  BY <1>1, <1>3 DEF Init, CardIsOfResolver, HeardOrLost, OneTurn, Active
<1>5. EscIsHeard
  <2>1. \A t \in Turns : turn[t] # "running" /\ told[t] # "run"
    BY TerminalAssumption, <1>1
  <2> QED
    BY <2>1 DEF EscIsHeard
<1>6. NothingRunsUnapproved
  BY <1>1 DEF NothingRunsUnapproved
<1> QED
  BY <1>2, <1>4, <1>5, <1>6 DEF SInv

\* What a step leaves alone goes on to hold.
LEMMA NothingNew ==
  ASSUME SInv, UNCHANGED <<approval, resolver, turn, node, exited, unheard>>, yes' = yes
  PROVE  CardIsOfResolver' /\ HeardOrLost' /\ NothingRunsUnapproved'
BY DEF SInv, CardIsOfResolver, HeardOrLost, NothingRunsUnapproved, PlanOf

\* A turn comes to its end, whatever asked in it.
LEMMA TurnEnds ==
  ASSUME SInv, NEW t \in Turns, turn[t] # "proposed", turn' = [turn EXCEPT ![t] = "ended"],
         UNCHANGED <<approval, resolver, node, token, exited, mingled, unheard, yes, told>>,
         turn[t] = "running" \/ supervisor' = supervisor
  PROVE  SInv'
<1> USE DEF SInv
<1>1. turn'[t] = "ended" /\ \A u \in Turns \ {t} : turn'[u] = turn[u]
  BY DEF Shape
<1>2. Shape'
  BY DEF Shape, Places
<1>3. CardIsOfResolver' /\ HeardOrLost'
  BY <1>1 DEF CardIsOfResolver, HeardOrLost, PlanOf
<1>4. Active' \subseteq Active
  BY <1>1 DEF Active
<1>5. OneTurn'
  BY <1>4 DEF OneTurn
<1>6. EscIsHeard'
  <2>1. ASSUME NEW u \in Turns, ~mingled, turn'[u] = "running"
        PROVE  supervisor' = supervisor
    <3>1. turn[t] # "running"
      <4>1. u # t /\ turn[u] = "running"
        BY <1>1, <2>1
      <4> QED
        BY <2>1, <4>1 DEF OneTurn, Active
    <3> QED
      BY <3>1
  <2>2. \A u \in Turns : turn'[u] = turn[u] \/ turn'[u] = "ended"
    BY <1>1
  <2> QED
    BY <2>1, <2>2 DEF EscIsHeard
<1>7. NothingRunsUnapproved'
  BY <1>1 DEF NothingRunsUnapproved, PlanOf
<1> QED
  BY <1>2, <1>3, <1>5, <1>6, <1>7

\* A yes that lets somebody go is meant for him.
LEMMA MeantIsHeard ==
  ASSUME SInv, ~exited, resolver # Nothing
  PROVE  Meant = resolver
<1>1. approval = resolver
  BY DEF SInv, CardIsOfResolver
<1>2. ASSUME Outstanding(screen.approval)
      PROVE  screen.approval = resolver
  <2>1. PICK t \in Turns :
          \/ screen.approval = PlanOf(t) /\ turn[t] = "proposed"
          \/ \E n \in Nodes : screen.approval = <<t, n>> /\ node[t][n] \in {"asking", "stuck"}
    BY <1>2 DEF Outstanding
  <2> QED
    BY <1>2, <2>1 DEF Outstanding, SInv, HeardOrLost
<1> QED
  BY <1>1, <1>2 DEF Meant

\* What the terminal answers goes to whoever asked last, and that is who was meant.
LEMMA AnswerKeeps ==
  ASSUME SInv, NEW granted \in BOOLEAN, Answer(granted)
  PROVE  SInv'
<1> USE DEF SInv
<1>1. /\ ~exited /\ approval = resolver /\ resolver \in Cards \cup {Nothing}
      /\ approval' = Nothing /\ resolver' = Nothing
      /\ yes' = (IF granted THEN yes \cup {Meant} ELSE yes)
      /\ UNCHANGED <<supervisor, token, exited, mingled, unheard, told>>
  BY DEF Answer, CardIsOfResolver, Shape
<1>2. \A t \in Turns : Nothing # PlanOf(t) /\ \A n \in Nodes : Nothing # <<t, n>>
  BY TerminalAssumption DEF PlanOf
<1>3. CardIsOfResolver'
  BY <1>1, <1>2 DEF CardIsOfResolver, PlanOf
<1>4. yes \subseteq yes' /\ (granted /\ resolver # Nothing => resolver \in yes')
  BY <1>1, MeantIsHeard
<1>5. CASE resolver = Nothing
  <2>1. UNCHANGED <<turn, node>>
    BY <1>5 DEF Answer
  <2>2. Shape' /\ HeardOrLost' /\ OneTurn' /\ EscIsHeard'
    BY <1>1, <1>5, <2>1 DEF Shape, HeardOrLost, PlanOf, OneTurn, EscIsHeard, Active
  <2>3. NothingRunsUnapproved'
    <3> DEFINE P(u) == PlanOf(u)
    <3>1. ASSUME NEW u \in Turns
          PROVE  /\ turn[u] \in {"building", "running"} => P(u) \in yes
                 /\ \A m \in Nodes : node[u][m] # "todo" => P(u) \in yes
                 /\ \A m \in Nodes : node[u][m] = "acting" => <<u, m>> \in yes
      BY DEF NothingRunsUnapproved
    <3> HIDE DEF P
    <3>2. ASSUME NEW u \in Turns
          PROVE  /\ turn[u] \in {"building", "running"} => P(u) \in yes'
                 /\ \A m \in Nodes : node[u][m] # "todo" => P(u) \in yes'
                 /\ \A m \in Nodes : node[u][m] = "acting" => <<u, m>> \in yes'
      BY <1>4, <3>1
    <3> QED
      BY <2>1, <3>2 DEF NothingRunsUnapproved, PlanOf, P
  <2> QED
    BY <1>3, <2>2, <2>3
<1> SUFFICES ASSUME resolver # Nothing
             PROVE  SInv'
  BY <1>5
<1>6. PICK t \in Turns, n \in Nodes \cup {"plan"} : resolver = <<t, n>>
  BY <1>1 DEF Cards
<1>7. CASE resolver = PlanOf(resolver[1])
  <2>1. resolver = PlanOf(t)
    BY <1>6, <1>7 DEF PlanOf
  <2>2. turn[t] = "proposed"
    BY <1>1, <2>1 DEF CardIsOfResolver
  <2>3. turn' = [turn EXCEPT ![t] = IF granted THEN "building" ELSE "ended"] /\ node' = node
    BY <1>6, <1>7 DEF Answer, PlanAnswered
  <2>4. /\ turn'[t] = (IF granted THEN "building" ELSE "ended")
        /\ \A u \in Turns \ {t} : turn'[u] = turn[u]
    BY <2>3 DEF Shape
  <2>5. Shape'
    BY <1>1, <2>3 DEF Shape, Places
  <2>6. Active' \subseteq Active
    BY <2>2, <2>4 DEF Active
  <2>7. OneTurn'
    BY <1>1, <2>6 DEF OneTurn
  <2>8. EscIsHeard'
    BY <1>1, <2>2, <2>4 DEF EscIsHeard
  <2>9. HeardOrLost'
    <3>1. ASSUME NEW u \in Turns, NEW m \in Nodes
          PROVE  <<u, m>> # resolver
      BY TerminalAssumption, <2>1 DEF PlanOf
    <3>2. \A u \in Turns \ {t} : PlanOf(u) # resolver
      BY <2>1 DEF PlanOf
    <3>3. ASSUME NEW u \in Turns, turn'[u] = "proposed"
          PROVE  PlanOf(u) \in unheard
      <4>1. u # t /\ turn[u] = "proposed"
        BY <2>4, <3>3
      <4>2. PlanOf(u) \in unheard \cup {resolver}
        BY <1>1, <4>1 DEF HeardOrLost
      <4> QED
        BY <3>2, <4>1, <4>2
    <3>4. ASSUME NEW u \in Turns, NEW m \in Nodes, node[u][m] \in {"asking", "stuck"}
          PROVE  <<u, m>> \in unheard
      BY <1>1, <3>1, <3>4 DEF HeardOrLost
    <3> QED
      BY <1>1, <2>3, <3>3, <3>4 DEF HeardOrLost, PlanOf
  <2>10. NothingRunsUnapproved'
    <3>1. granted => PlanOf(t) \in yes'
      BY <1>4, <2>1
    <3> DEFINE P(u) == PlanOf(u)
    <3>2. ASSUME NEW u \in Turns
          PROVE  /\ turn'[u] \in {"building", "running"} => P(u) \in yes'
                 /\ \A m \in Nodes : node[u][m] # "todo" => P(u) \in yes'
                 /\ \A m \in Nodes : node[u][m] = "acting" => <<u, m>> \in yes'
      <4>1. /\ turn[u] \in {"building", "running"} => P(u) \in yes
            /\ \A m \in Nodes : node[u][m] # "todo" => P(u) \in yes
            /\ \A m \in Nodes : node[u][m] = "acting" => <<u, m>> \in yes
        BY DEF NothingRunsUnapproved
      <4>2. P(t) \in yes' \/ ~granted
        BY <3>1
      <4> HIDE DEF P
      <4> QED
        BY <1>4, <2>4, <4>1, <4>2
    <3> QED
      BY <2>3, <3>2 DEF NothingRunsUnapproved, PlanOf
  <2> QED
    BY <1>3, <2>5, <2>7, <2>8, <2>9, <2>10
<1>8. CASE resolver # PlanOf(resolver[1])
  <2>1. n \in Nodes
    BY <1>6, <1>8 DEF PlanOf
  <2> DEFINE now == IF node[t][n] = "stuck" THEN IF granted THEN "todo" ELSE "failed"
                                            ELSE IF granted THEN "acting" ELSE "working"
  <2>2. /\ node' = [node EXCEPT ![t][n] = now]
        /\ turn' = turn
    BY <1>6, <1>8, <2>1 DEF Answer, NodeAnswered, Shape
  <2>3. node[t][n] # "todo"
    BY <1>1, <1>6, <2>1 DEF CardIsOfResolver
  <2>4. /\ now \in {"todo", "failed", "acting", "working"}
        /\ now = "acting" => granted
    OBVIOUS
  <2> HIDE DEF now
  <2>5. \A u \in Turns, m \in Nodes :
          IF u = t /\ m = n THEN node'[u][m] = now ELSE node'[u][m] = node[u][m]
    BY <2>1, <2>2 DEF Shape
  <2>6. Shape'
    BY <1>1, <2>1, <2>2, <2>4 DEF Shape, States
  <2>7. OneTurn' /\ EscIsHeard'
    BY <1>1, <2>2 DEF OneTurn, EscIsHeard, Active
  <2>8. HeardOrLost'
    <3>1. \A u \in Turns : PlanOf(u) # resolver
      BY <1>6, <1>8 DEF PlanOf
    <3>2. \A u \in Turns, m \in Nodes : <<u, m>> = resolver => u = t /\ m = n
      BY <1>6
    <3> QED
      BY <1>1, <2>2, <2>4, <2>5, <3>1, <3>2 DEF HeardOrLost, PlanOf
  <2>9. NothingRunsUnapproved'
    <3>1. granted => <<t, n>> \in yes'
      BY <1>4, <1>6
    <3>2. PlanOf(t) \in yes
      BY <2>1, <2>3 DEF NothingRunsUnapproved
    <3> DEFINE P(u) == PlanOf(u)
    <3>3. ASSUME NEW u \in Turns
          PROVE  /\ turn[u] \in {"building", "running"} => P(u) \in yes'
                 /\ \A m \in Nodes : node'[u][m] # "todo" => P(u) \in yes'
                 /\ \A m \in Nodes : node'[u][m] = "acting" => <<u, m>> \in yes'
      <4>1. /\ turn[u] \in {"building", "running"} => P(u) \in yes
            /\ \A m \in Nodes : node[u][m] # "todo" => P(u) \in yes
            /\ \A m \in Nodes : node[u][m] = "acting" => <<u, m>> \in yes
        BY DEF NothingRunsUnapproved
      <4>2. P(t) \in yes
        BY <3>2
      <4> HIDE DEF P
      <4>3. \A m \in Nodes : node'[u][m] # "todo" => P(u) \in yes'
        BY <1>4, <2>5, <4>1, <4>2
      <4>4. \A m \in Nodes : node'[u][m] = "acting" => <<u, m>> \in yes'
        BY <1>4, <2>4, <2>5, <3>1, <4>1
      <4> QED
        BY <1>4, <4>1, <4>3, <4>4
    <3> QED
      BY <2>2, <3>3 DEF NothingRunsUnapproved, PlanOf
  <2> QED
    BY <1>3, <2>6, <2>7, <2>8, <2>9
<1> QED
  BY <1>7, <1>8

LEMMA KeysKeep ==
  ASSUME SInv, Keys
  PROVE  SInv'
<1> USE DEF SInv
<1>1. CASE Cancel
  <2>1. /\ UNCHANGED <<approval, resolver, supervisor, turn, node, exited, mingled, unheard, yes>>
        /\ token' = Cancelled
        /\ told' = [t \in Turns |-> IF turn[t] = "running" THEN "run"
                                   ELSE IF t \in Active THEN "turn" ELSE told[t]]
    BY <1>1 DEF Cancel
  <2>2. Shape'
    BY <2>1 DEF Shape
  <2>3. OneTurn'
    BY <2>1 DEF OneTurn, Active
  <2>4. EscIsHeard'
    <3>1. ASSUME NEW t \in Turns, ~mingled, turn[t] = "running"
          PROVE  t \in token'
      <4>1. supervisor = t /\ t # Nothing
        BY TerminalAssumption, <3>1 DEF EscIsHeard
      <4> QED
        BY <2>1, <4>1 DEF Cancelled
    <3>2. \A t \in Turns : told'[t] = "run" => turn[t] \in {"running", "ended"}
      BY <2>1 DEF EscIsHeard
    <3> QED
      BY <2>1, <3>1, <3>2 DEF EscIsHeard
  <2> QED
    BY <2>1, <2>2, <2>3, <2>4, NothingNew
<1>2. CASE Exit
  <2>1. /\ exited' = TRUE /\ turn' = [t \in Turns |-> "ended"]
        /\ node' = [t \in Turns |-> NotPlanned] /\ told' = [t \in Turns |-> Nothing]
        /\ UNCHANGED <<approval, resolver, mingled>>
    BY <1>2 DEF Exit, HasKeys
  <2>2. Shape'
    BY <2>1 DEF Shape, NotPlanned, Places, States
  <2>3. CardIsOfResolver' /\ HeardOrLost'
    BY <2>1 DEF CardIsOfResolver, HeardOrLost, PlanOf
  <2>4. OneTurn'
    BY <2>1 DEF OneTurn, Active
  <2>5. \A t \in Turns : turn'[t] = "ended" /\ told'[t] # "run" /\ \A n \in Nodes : node'[t][n] = "todo"
    BY TerminalAssumption, <2>1 DEF NotPlanned
  <2>6. EscIsHeard' /\ NothingRunsUnapproved'
    BY <2>5 DEF EscIsHeard, NothingRunsUnapproved
  <2> QED
    BY <2>2, <2>3, <2>4, <2>6
<1>3. ASSUME NEW t \in Turns, NEW work \in BOOLEAN, Submitted(t, work)
      PROVE  SInv'
  <2>1. /\ turn[t] = "idle" /\ mingled' = (mingled \/ Active # {})
        /\ turn' = [turn EXCEPT ![t] = IF work THEN "planning" ELSE "chatting"]
        /\ UNCHANGED <<approval, resolver, supervisor, node, token, exited, unheard, yes, told>>
    BY <1>3 DEF Submitted
  <2>2. /\ turn'[t] \in {"planning", "chatting"}
        /\ \A u \in Turns \ {t} : turn'[u] = turn[u]
    BY <2>1 DEF Shape
  <2>3. Shape'
    BY <2>1 DEF Shape, Places
  <2>4. CardIsOfResolver' /\ HeardOrLost'
    BY <2>1, <2>2 DEF CardIsOfResolver, HeardOrLost, PlanOf
  <2>5. ~mingled' => ~mingled /\ Active' \subseteq {t}
    BY <2>1, <2>2 DEF Active
  <2>6. OneTurn'
    BY <2>5 DEF OneTurn
  <2>7. EscIsHeard'
    BY <2>1, <2>2, <2>5 DEF EscIsHeard
  <2>8. NothingRunsUnapproved'
    BY <2>1, <2>2 DEF NothingRunsUnapproved, PlanOf
  <2> QED
    BY <2>3, <2>4, <2>6, <2>7, <2>8
<1> QED
  BY <1>1, <1>2, <1>3, AnswerKeeps DEF Keys, SubmitQuestion, SubmitWork

\* A request goes to the screen with its resolver; whoever had it has lost it.
LEMMA RequestKeeps ==
  ASSUME SInv, NEW t \in Turns, NEW n \in Nodes \cup {"plan"},
         Request(<<t, n>>), UNCHANGED <<exited, told, mingled, token, supervisor, yes>>,
         \/ n = "plan" /\ turn[t] = "planning" /\ turn' = [turn EXCEPT ![t] = "proposed"]
            /\ node' = node
         \/ n \in Nodes /\ node[t][n] = "working" /\ turn' = turn
            /\ \E why \in {"asking", "stuck"} : node' = [node EXCEPT ![t][n] = why]
  PROVE  SInv'
<1> USE DEF SInv
<1>1. /\ approval' = <<t, n>> /\ resolver' = <<t, n>>
      /\ \A u \in Turns, m \in Nodes \cup {"plan"} :
           <<u, m>> \in unheard \cup {resolver} => <<u, m>> \in unheard' \cup {resolver'}
  BY TerminalAssumption DEF Request
<1>2. CASE n = "plan" /\ turn[t] = "planning" /\ turn' = [turn EXCEPT ![t] = "proposed"] /\ node' = node
  <2>1. turn'[t] = "proposed" /\ \A u \in Turns \ {t} : turn'[u] = turn[u]
    BY <1>2 DEF Shape
  <2>2. Shape'
    BY <1>1, <1>2 DEF Shape, Places, Cards
  <2>3. CardIsOfResolver'
    <3>1. \A u \in Turns : resolver' = PlanOf(u) => u = t
      BY <1>1 DEF PlanOf
    <3>2. \A u \in Turns, m \in Nodes : resolver' # <<u, m>>
      BY TerminalAssumption, <1>1, <1>2
    <3> QED
      BY <1>1, <2>1, <3>1, <3>2 DEF CardIsOfResolver, PlanOf
  <2> HeardOrLost'
    BY <1>1, <1>2, <2>1 DEF HeardOrLost, PlanOf
  <2>4. Active' \subseteq Active
    BY <1>2, <2>1 DEF Active
  <2>5. OneTurn' /\ EscIsHeard'
    BY <1>2, <2>1, <2>4 DEF OneTurn, EscIsHeard
  <2>6. NothingRunsUnapproved'
    BY <1>2, <2>1 DEF NothingRunsUnapproved, PlanOf
  <2> QED
    BY <2>2, <2>3, <2>5, <2>6
<1>3. ASSUME n \in Nodes, node[t][n] = "working", turn' = turn, NEW why \in {"asking", "stuck"},
             node' = [node EXCEPT ![t][n] = why]
      PROVE  SInv'
  <2>1. \A u \in Turns, m \in Nodes :
          IF u = t /\ m = n THEN node'[u][m] = why ELSE node'[u][m] = node[u][m]
    BY <1>3 DEF Shape
  <2>2. Shape'
    BY <1>1, <1>3 DEF Shape, States, Cards
  <2>3. CardIsOfResolver'
    <3>1. \A u \in Turns : resolver' # PlanOf(u)
      BY TerminalAssumption, <1>1, <1>3 DEF PlanOf
    <3>2. \A u \in Turns, m \in Nodes : resolver' = <<u, m>> => u = t /\ m = n
      BY <1>1
    <3> QED
      BY <1>1, <2>1, <3>1, <3>2 DEF CardIsOfResolver, PlanOf
  <2> HeardOrLost'
    BY <1>1, <1>3, <2>1 DEF HeardOrLost, PlanOf
  <2>4. OneTurn' /\ EscIsHeard'
    BY <1>3 DEF OneTurn, EscIsHeard, Active
  <2>5. NothingRunsUnapproved'
    BY <1>3, <2>1 DEF NothingRunsUnapproved, PlanOf
  <2> QED
    BY <2>2, <2>3, <2>4, <2>5
<1> QED
  BY <1>2, <1>3

LEMMA GoingKeeps ==
  ASSUME SInv, NEW t \in Turns, Going(t)
  PROVE  SInv'
<1> USE DEF SInv
<1>1. CASE ChatEnds(t) \/ PlanFails(t) \/ RunEnds(t)
  BY <1>1, TurnEnds DEF ChatEnds, PlanFails, RunEnds, Finally, Ended, history
<1>2. CASE PlanArrives(t)
  BY <1>2, RequestKeeps DEF PlanArrives, PlanOf
<1>3. CASE Built(t)
  <2>1. /\ turn[t] = "building" /\ turn' = [turn EXCEPT ![t] = "running"] /\ supervisor' = t
        /\ UNCHANGED <<approval, resolver, node, token, exited, mingled, unheard, yes, told>>
    BY <1>3 DEF Built, history
  <2>2. turn'[t] = "running" /\ \A u \in Turns \ {t} : turn'[u] = turn[u]
    BY <2>1 DEF Shape
  <2>3. Shape'
    BY <2>1 DEF Shape, Places
  <2>4. CardIsOfResolver' /\ HeardOrLost'
    BY <2>1, <2>2 DEF CardIsOfResolver, HeardOrLost, PlanOf
  <2>5. Active' \subseteq Active /\ t \in Active
    BY <2>1, <2>2 DEF Active
  <2>6. OneTurn'
    BY <2>1, <2>5 DEF OneTurn
  <2>7. EscIsHeard'
    <3>1. \A u \in Turns : ~mingled /\ turn'[u] = "running" => u = t
      BY <2>2, <2>5 DEF OneTurn, Active
    <3>2. told[t] # "run"
      BY <2>1 DEF EscIsHeard
    <3> QED
      BY <2>1, <2>2, <3>1, <3>2 DEF EscIsHeard
  <2>8. NothingRunsUnapproved'
    BY <2>1, <2>2 DEF NothingRunsUnapproved, PlanOf
  <2> QED
    BY <2>3, <2>4, <2>6, <2>7, <2>8
<1>4. ASSUME NEW n \in Nodes, NEW s \in States \ {"todo", "acting", "asking", "stuck"},
             node[t][n] \notin {"asking", "stuck"},
             node' = [node EXCEPT ![t][n] = s], PlanOf(t) \in yes,
             yes' = yes \/ yes' = yes \ {<<t, n>>},
             UNCHANGED <<approval, resolver, supervisor, turn, token, exited, mingled,
                         unheard, told>>
      PROVE  SInv'
  <2>1. \A u \in Turns, m \in Nodes :
          IF u = t /\ m = n THEN node'[u][m] = s ELSE node'[u][m] = node[u][m]
    BY <1>4 DEF Shape
  <2>2. Shape'
    BY <1>4 DEF Shape
  <2>3. CardIsOfResolver' /\ HeardOrLost' /\ OneTurn' /\ EscIsHeard'
    BY <1>4, <2>1 DEF CardIsOfResolver, HeardOrLost, OneTurn, EscIsHeard, Active, PlanOf
  <2>4. NothingRunsUnapproved'
    <3>1. \A u \in Turns : PlanOf(u) \in yes => PlanOf(u) \in yes'
      BY <1>4, TerminalAssumption DEF PlanOf
    <3>2. \A u \in Turns, m \in Nodes : <<u, m>> \in yes /\ ~(u = t /\ m = n) => <<u, m>> \in yes'
      BY <1>4
    <3> QED
      BY <1>4, <2>1, <3>1, <3>2 DEF NothingRunsUnapproved, PlanOf
  <2> QED
    BY <2>2, <2>3, <2>4
<1>5. ASSUME NEW n \in Nodes, NodeStarts(t, n)
      PROVE  SInv'
  <2>1. PlanOf(t) \in yes
    BY <1>5 DEF NodeStarts, NothingRunsUnapproved
  <2>2. "working" \in States \ {"todo", "acting", "asking", "stuck"}
    BY DEF States
  <2> QED
    BY <1>4, <1>5, <2>1, <2>2 DEF NodeStarts
<1>6. ASSUME NEW n \in Nodes, NodeAsks(t, n)
      PROVE  SInv'
  BY <1>6, RequestKeeps DEF NodeAsks
<1>7. ASSUME NEW n \in Nodes, NodeEnds(t, n)
      PROVE  SInv'
  <2>1. PlanOf(t) \in yes
    BY <1>7 DEF NodeEnds, NothingRunsUnapproved
  <2>2. PICK s \in {"done", "failed", "stopped"} : node' = [node EXCEPT ![t][n] = s]
    BY <1>7 DEF NodeEnds
  <2>3. s \in States \ {"todo", "acting", "asking", "stuck"}
    BY DEF States
  <2> QED
    BY <1>4, <1>7, <2>1, <2>2, <2>3 DEF NodeEnds, history
<1>8. ASSUME NEW n \in Nodes, NodeActs(t, n)
      PROVE  SInv'
  <2>1. PlanOf(t) \in yes
    BY <1>8 DEF NodeActs, NothingRunsUnapproved
  <2>2. "working" \in States \ {"todo", "acting", "asking", "stuck"}
    BY DEF States
  <2> QED
    BY <1>4, <1>8, <2>1, <2>2 DEF NodeActs
<1>9. NodesOf(t) \subseteq Nodes
  BY TerminalAssumption DEF NodesOf
<1> QED
  BY <1>1, <1>2, <1>3, <1>5, <1>6, <1>7, <1>8, <1>9 DEF Going, NodeSteps

LEMMA SInvStep == SInv /\ [Next]_vars => SInv'
<1> SUFFICES ASSUME SInv, [Next]_vars
             PROVE  SInv'
  OBVIOUS
<1>1. CASE UNCHANGED vars
  BY <1>1, NothingNew
  DEF vars, history, SInv, Shape, OneTurn, EscIsHeard, Active
<1>2. CASE Render
  BY <1>2, NothingNew
  DEF Render, history, SInv, Shape, OneTurn, EscIsHeard, Active
<1> QED
  BY <1>1, <1>2, KeysKeep, GoingKeeps DEF Next

\* For any turns and nodes, however many ask at a time: nothing of a plan is executed, and
\* nothing that needs a yes of its own is done, unless a yes was meant for just that: one
\* at its card, or at a card that was answered or overwritten before and only not drawn
\* away yet, never at the card of another who can still be heard (run-tui.tsx, planAndRun
\* and onApproval; app.tsx, useInput).
THEOREM NothingIsRunUnasked == Spec => []NothingRunsUnapproved
<1>1. Init => SInv
  BY SInvInit
<1>2. SInv /\ [Next]_vars => SInv'
  BY SInvStep
<1>3. SInv => NothingRunsUnapproved
  BY DEF SInv
<1> QED
  BY <1>1, <1>2, <1>3, PTL DEF Spec

\* As long as turns come one after the other, a run that Esc was pressed in starts no
\* further node (run-tui.tsx, onCancel and setSupervisor).
THEOREM EscStopsAnyRun == Spec => EscStopsTheRun
<1> DEFINE Stopped == \A t \in Turns, n \in Nodes :
             node[t][n] = "todo" /\ node'[t][n] # "todo" /\ ~mingled => told[t] # "run"
<1>1. Init => SInv
  BY SInvInit
<1>2. SInv /\ [Next]_vars => SInv'
  BY SInvStep
<1>3. SInv /\ [Next]_vars => [Stopped]_vars
  <2> SUFFICES ASSUME SInv, Next, NEW t \in Turns, NEW n \in Nodes,
                      node[t][n] = "todo", node'[t][n] # "todo", ~mingled
               PROVE  told[t] # "run"
    OBVIOUS
  <2>1. node' # node
    OBVIOUS
  <2>2. CASE NodeStarts(t, n)
    BY <2>2 DEF NodeStarts, SInv, EscIsHeard
  <2>3. ASSUME NEW u \in Turns, NEW m \in Nodes, NEW s, node' = [node EXCEPT ![u][m] = s],
               node[u][m] # "todo"
        PROVE  FALSE
    BY <2>3 DEF SInv, Shape
  <2>4. ASSUME NEW u \in Turns, NEW m \in Nodes, NodeStarts(u, m)
        PROVE  u = t /\ m = n
    BY <2>4 DEF NodeStarts, SInv, Shape
  <2>5. ASSUME NEW u \in Turns, Going(u)
        PROVE  told[t] # "run"
    <3>1. ASSUME NEW m \in Nodes, NodeAsks(u, m) \/ NodeActs(u, m) \/ NodeEnds(u, m)
          PROVE  FALSE
      BY <2>3, <3>1 DEF NodeAsks, NodeActs, NodeEnds
    <3>2. PICK m \in Nodes : NodeStarts(u, m)
      <4>1. NodesOf(u) \subseteq Nodes
        BY TerminalAssumption DEF NodesOf
      <4> QED
        BY <2>1, <2>5, <3>1, <4>1
        DEF Going, NodeSteps, ChatEnds, PlanArrives, PlanFails, Built, RunEnds
    <3> QED
      BY <2>2, <2>4, <3>2
  <2>6. CASE Exit
    BY <2>6 DEF Exit, NotPlanned
  <2>7. ASSUME NEW granted \in BOOLEAN, Answer(granted)
        PROVE  FALSE
    <3>1. PICK u \in Turns, m \in Nodes \cup {"plan"} : resolver = <<u, m>>
      BY <2>1, <2>7 DEF SInv, Shape, Cards, Answer
    <3>2. NodeAnswered(u, m, granted) /\ m \in Nodes
      BY <2>1, <2>7, <3>1 DEF Answer, PlanAnswered, PlanOf
    <3>3. node[u][m] # "todo"
      BY <2>7, <3>1, <3>2 DEF SInv, CardIsOfResolver, Answer
    <3> QED
      BY <2>3, <3>2, <3>3 DEF NodeAnswered
  <2> QED
    BY <2>1, <2>5, <2>6, <2>7
    DEF Next, Keys, Render, Cancel, SubmitQuestion, SubmitWork, Submitted
<1>4. EscStopsTheRun <=> [][Stopped]_vars
  BY DEF EscStopsTheRun
<1> QED
  BY <1>1, <1>2, <1>3, <1>4, PTL DEF Spec
=============================================================================
