----------------------------- MODULE Desk_proofs -----------------------------
(***************************************************************************)
(* What the session manager guarantees however many clients, plans and     *)
(* equal run ids there are.  The windows add nothing to that: whatever     *)
(* users type and click, and whatever is lost on the way, what the daemon  *)
(* does with its runs is a behaviour of the session manager, so its        *)
(* guarantees hold at the desk.  What the windows show is, for any number  *)
(* of them and of frames under way, the one stream the daemon speaks, and  *)
(* no call is forgotten.                                                   *)
(***************************************************************************)
EXTENDS Desk, TLAPS, SequenceTheorems, WellFoundedInduction

-----------------------------------------------------------------------------
(* The inductive invariant: an object executes exactly while its status says  *)
(* so; the map of plans names an object under its own id only, and only one    *)
(* that was proposed; what was turned down has not started and is in no map.   *)
ExecutesWhileRunning ==
  \A o \in Objects : active[o] = IF stage[o] = "running" THEN 1 ELSE 0

PlansAreProposed ==
  \A i \in Ids : plans[i] # Nothing =>
    /\ runId[plans[i]] = i
    /\ stage[plans[i]] \in {"awaiting_approval", "running", "done"}

RejectedIsForgotten ==
  \A o \in rejected : /\ stage[o] = "awaiting_approval"
                      /\ \A i \in Ids : plans[i] # o

MInv == TypeOK /\ ExecutesWhileRunning /\ PlansAreProposed /\ RejectedIsForgotten

LEMMA MInvInit == Init => MInv
BY SessionAssumption
   DEF Init, MInv, TypeOK, Stages, Unset, ExecutesWhileRunning, PlansAreProposed,
       RejectedIsForgotten

LEMMA MInvStep == MInv /\ [Next]_vars => MInv'
<1> SUFFICES ASSUME MInv, [Next]_vars PROVE MInv'
  OBVIOUS
<1>1. Ids \subseteq Nat /\ MaxStarts \in Nat /\ Nothing \notin Objects
  BY SessionAssumption
<1> USE DEF MInv, ExecutesWhileRunning, PlansAreProposed, RejectedIsForgotten
<1>2. CASE UNCHANGED vars
  BY <1>2 DEF vars, TypeOK
<1>3. CASE Tick
  BY <1>3 DEF Tick, TypeOK
<1>4. ASSUME NEW o \in Objects, Plan(o) PROVE MInv'
  <2>1. TypeOK'
    BY <1>4 DEF Plan, TypeOK, Stages
  <2>2. \A i \in Ids : plans[i] # o
    BY <1>1, <1>4 DEF Plan
  <2> QED
    BY <1>1, <1>4, <2>1, <2>2 DEF Plan, TypeOK
<1>5. ASSUME NEW o \in Objects, PlanningFails(o) PROVE MInv'
  <2>1. TypeOK'
    BY <1>5 DEF PlanningFails, TypeOK, Stages
  <2> QED
    BY <1>1, <1>5, <2>1 DEF PlanningFails, TypeOK
<1>6. ASSUME NEW o \in Objects, Propose(o) PROVE MInv'
  <2>1. TypeOK'
    BY <1>6 DEF Propose, TypeOK, Stages
  <2>2. o \notin rejected
    BY <1>6 DEF Propose
  <2>3. ExecutesWhileRunning' /\ RejectedIsForgotten'
    BY <1>1, <1>6, <2>2 DEF Propose, TypeOK
  <2>4. PlansAreProposed'
    BY <1>1, <1>6 DEF Propose, TypeOK
  <2> QED
    BY <2>1, <2>3, <2>4
<1>7. ASSUME NEW i \in Ids, Start(i) PROVE MInv'
  <2> DEFINE o == plans[i]
  <2>1. o \in Objects /\ o # Nothing /\ stage[o] # "running" /\ active[o] = 0
        /\ starts[o] < MaxStarts
    BY <1>7 DEF Start, TypeOK
  <2>2. /\ stage' = [stage EXCEPT ![o] = "running"]
        /\ starts' = [starts EXCEPT ![o] = @ + 1]
        /\ active' = [active EXCEPT ![o] = @ + 1]
        /\ UNCHANGED <<now, runId, runs, plans, token, rejected>>
    BY <1>7 DEF Start
  <2>3. 1 <= MaxStarts
    BY <1>1, <2>1 DEF TypeOK
  <2>4. TypeOK'
    BY <1>1, <2>1, <2>2, <2>3 DEF TypeOK, Stages
  <2>5. o \notin rejected
    OBVIOUS
  <2> QED
    BY <1>1, <2>1, <2>2, <2>4, <2>5 DEF TypeOK
<1>8. ASSUME NEW i \in Ids, Reject(i) PROVE MInv'
  <2>1. plans[i] \in Objects
    BY <1>8 DEF Reject, TypeOK
  <2>2. TypeOK'
    BY <1>8, <2>1 DEF Reject, TypeOK
  <2>3. \A j \in Ids : plans'[j] # plans[i]
    BY <1>1, <1>8, <2>1 DEF Reject, TypeOK
  <2>4. ExecutesWhileRunning' /\ PlansAreProposed'
    BY <1>8 DEF Reject, TypeOK
  <2>5. RejectedIsForgotten'
    BY <1>1, <1>8, <2>1, <2>3 DEF Reject, TypeOK
  <2> QED
    BY <2>2, <2>4, <2>5
<1>9. ASSUME NEW i \in Ids, Cancel(i) PROVE MInv'
  <2>1. TypeOK'
    BY <1>9 DEF Cancel, TypeOK
  <2> QED
    BY <1>9, <2>1 DEF Cancel
<1>10. ASSUME NEW o \in Objects, RunSettles(o) PROVE MInv'
  <2>1. stage[o] = "running" /\ active[o] = 1
    BY <1>10 DEF RunSettles
  <2>2. TypeOK'
    BY <1>1, <1>10, <2>1 DEF RunSettles, TypeOK, Stages
  <2> QED
    BY <1>1, <1>10, <2>1, <2>2 DEF RunSettles, TypeOK
<1> QED
  BY <1>2, <1>3, <1>4, <1>5, <1>6, <1>7, <1>8, <1>9, <1>10 DEF Next

(* The maps, the statuses and the executions under way agree at every moment, *)
(* whatever clients call (sessions.ts, the maps runs and plans).               *)
THEOREM SessionInvariant == Spec => []MInv
BY MInvInit, MInvStep, PTL DEF Spec

(* The maps hold ids and objects, and the counters stay within the bound. *)
THEOREM SessionTypeCorrect == Spec => []TypeOK
BY SessionInvariant, PTL DEF MInv

(* However many clients approve a plan, and however often it is started again, *)
(* one supervisor.run of it is under way at a time (sessions.ts, start). *)
THEOREM ExecutesOnce == Spec => []OneExecutionAtATime
<1>1. MInv => OneExecutionAtATime
  <2> SUFFICES ASSUME MInv, NEW o \in Objects PROVE active[o] <= 1
    BY DEF OneExecutionAtATime
  <2>1. active[o] = 1 \/ active[o] = 0
    BY DEF MInv, ExecutesWhileRunning
  <2> QED
    BY <2>1
<1> QED
  BY <1>1, SessionInvariant, PTL

(* No later call executes a proposal that was turned down, even when two       *)
(* proposals share a run id (sessions.ts, reject).                             *)
THEOREM RejectionStands == Spec => RejectedNeverRuns
<1> DEFINE Stands == \A o \in rejected : active'[o] > 0 => active[o] > 0
<1>1. MInv /\ [Next]_vars => [Stands]_vars
  <2> SUFFICES ASSUME MInv, Next PROVE Stands
    OBVIOUS
  <2>1. ASSUME NEW i \in Ids, Start(i) PROVE Stands
    <3>1. plans[i] \notin rejected
      BY DEF MInv, RejectedIsForgotten
    <3> QED
      BY <2>1, <3>1 DEF Start, MInv, TypeOK
  <2>2. ASSUME NEW o \in Objects, RunSettles(o) PROVE Stands
    BY <2>2 DEF RunSettles, MInv, TypeOK
  <2>3. CASE active' = active
    BY <2>3
  <2> QED
    BY <2>1, <2>2, <2>3 DEF Next, Tick, Plan, PlanningFails, Propose, Reject, Cancel
<1>2. RejectedNeverRuns <=> [][Stands]_vars
  BY DEF RejectedNeverRuns
<1> QED
  BY <1>1, <1>2, SessionInvariant, PTL DEF Spec
-----------------------------------------------------------------------------
(* The desk. *)

LEMMA DispatchIsASessionStep ==
  ASSUME NEW w \in Windows, Dispatch(w)
  PROVE  [Next]_vars
<1> DEFINE call == Head(uplink[w])
<1>1. CASE Refused(w, call)
  BY <1>1 DEF Refused
<1>2. CASE PlanAsked(call)
  BY <1>2 DEF PlanAsked, Next
<1>3. CASE ChatAsked(call)
  BY <1>3 DEF ChatAsked
<1>4. CASE StartAsked(w, call)
  BY <1>4 DEF StartAsked, Next
<1>5. CASE RejectAsked(w, call)
  BY <1>5 DEF RejectAsked, Next
<1>6. CASE CancelAsked(w, call)
  BY <1>6 DEF CancelAsked, Next
<1>7. CASE NodesAsked(w, call)
  BY <1>7 DEF NodesAsked
<1> QED
  BY <1>1, <1>2, <1>3, <1>4, <1>5, <1>6, <1>7 DEF Dispatch

LEMMA ChatIsNoSessionStep ==
  ASSUME NEW c \in Chats, ChatStep(c)
  PROVE  UNCHANGED vars
BY DEF ChatStep, Delta, ChatThrows, Round, ToolReturns, Settle, ChatMoves

LEMMA WindowIsNoSessionStep ==
  ASSUME NEW w \in Windows,
         \/ Receive(w) \/ Close(w) \/ Reconnect(w)
         \/ Approve(w) \/ TurnDown(w) \/ PressCancel(w)
         \/ \E m \in Messages : Send(w, m)
  PROVE  UNCHANGED vars
BY DEF Receive, Close, Reconnect, Approve, TurnDown, PressCancel, Send, WindowOnly

LEMMA DeskStepIsASessionStep == [DeskNext]_allVars => [Next]_vars
<1> SUFFICES ASSUME [DeskNext]_allVars PROVE [Next]_vars
  OBVIOUS
<1>1. CASE UNCHANGED allVars
  BY <1>1 DEF allVars
<1>2. CASE Tick /\ UNCHANGED deskVars
  BY <1>2 DEF Next
<1>3. ASSUME NEW o \in Objects, PlanFails(o) \/ PlanProposed(o) \/ RunFinishes(o)
      PROVE  [Next]_vars
  BY <1>3 DEF PlanFails, PlanProposed, RunFinishes, Next
<1>4. ASSUME NEW c \in Chats, ChatStep(c) PROVE [Next]_vars
  BY <1>4, ChatIsNoSessionStep
<1>5. ASSUME NEW w \in Windows, Dispatch(w) PROVE [Next]_vars
  BY <1>5, DispatchIsASessionStep
<1>6. ASSUME NEW w \in Windows,
             \/ Receive(w) \/ Close(w) \/ Reconnect(w)
             \/ Approve(w) \/ TurnDown(w) \/ PressCancel(w)
             \/ \E m \in Messages : Send(w, m)
      PROVE  [Next]_vars
  BY <1>6, WindowIsNoSessionStep
<1> QED
  BY <1>1, <1>2, <1>3, <1>4, <1>5, <1>6 DEF DeskNext

\* What the daemon does with its runs under any windows, however their calls and
\* frames race and get lost, is something the session manager may do by itself.
THEOREM DeskImplementsSessions == DeskSpec => Spec
<1>1. DeskInit => Init
  BY DEF DeskInit
<1> QED
  BY <1>1, DeskStepIsASessionStep, PTL DEF DeskSpec, Spec

\* However many windows approve a plan, one supervisor.run of it is under way.
THEOREM DeskExecutesOnce == DeskSpec => []OneExecutionAtATime
BY DeskImplementsSessions, ExecutesOnce, PTL

\* A plan that one window turned down is not executed by a click in another,
\* which may still show its card.
THEOREM DeskRejectionStands == DeskSpec => RejectedNeverRuns
BY DeskImplementsSessions, RejectionStands, PTL

-----------------------------------------------------------------------------
(* Induction over the natural numbers, for a set. *)
LEMMA Induction ==
  ASSUME NEW T, 0 \in T, \A k \in Nat : k \in T => k + 1 \in T
  PROVE  Nat \subseteq T
<1> SUFFICES ASSUME Nat \ T # {} PROVE FALSE
  OBVIOUS
<1> DEFINE R == OpToRel(<, Nat)
<1>1. IsWellFoundedOn(R, Nat)
  BY NatLessThanWellFounded
<1>2. \E x \in Nat \ T : \A y \in Nat \ T : ~(<<y, x>> \in R)
  <2> HIDE DEF R
  <2> QED
    BY <1>1, WFMin
<1>3. PICK x \in Nat \ T : \A y \in Nat \ T : ~(<<y, x>> \in R)
  BY <1>2
<1>4. x # 0
  OBVIOUS
<1>5. x - 1 \in Nat /\ x - 1 + 1 = x
  BY <1>4
<1>6. x - 1 \in Nat \ T
  BY <1>5
<1>7. <<x - 1, x>> \in R
  BY <1>5 DEF OpToRel
<1> QED
  BY <1>3, <1>6, <1>7

-----------------------------------------------------------------------------
(* Flattening a sequence of sequences puts one behind the other. *)
Rests(g, s, n) == g[0] = <<>> /\ \A i \in 1 .. n : g[i] = g[i - 1] \o s[i]

Flattens(f, s, n) == f = [i \in 1 .. n |-> IF i = 1 THEN s[i] ELSE f[i - 1] \o s[i]]

LEMMA FlattenExists ==
  ASSUME NEW s, NEW k \in Nat
  PROVE  \E f : Flattens(f, s, k)
<1> DEFINE T == {n \in Nat : \E f : Flattens(f, s, n)}
<1>1. 0 \in T
  <2> DEFINE f == [i \in 1 .. 0 |-> s[i]]
  <2>1. Flattens(f, s, 0)
    BY DEF Flattens
  <2> QED
    BY <2>1
<1>2. ASSUME NEW n \in Nat, n \in T
      PROVE  n + 1 \in T
  <2>1. PICK f : Flattens(f, s, n)
    BY <1>2
  <2> DEFINE h == [i \in 1 .. n + 1 |->
                     IF i = n + 1 THEN IF i = 1 THEN s[i] ELSE f[n] \o s[i] ELSE f[i]]
  <2>2. ASSUME NEW i \in 1 .. n + 1
        PROVE  h[i] = IF i = 1 THEN s[i] ELSE h[i - 1] \o s[i]
    <3>1. CASE i = n + 1
      <4>1. i # 1 => n \in 1 .. n + 1 /\ n # n + 1 /\ i - 1 = n
        BY <3>1
      <4> QED
        BY <3>1, <4>1
    <3>2. CASE i # n + 1
      <4>1. i \in 1 .. n
        BY <3>2
      <4>2. f[i] = IF i = 1 THEN s[i] ELSE f[i - 1] \o s[i]
        BY <2>1, <4>1 DEF Flattens
      <4>3. i # 1 => i - 1 \in 1 .. n + 1 /\ i - 1 # n + 1
        BY <4>1
      <4> QED
        BY <3>2, <4>2, <4>3
    <3> QED
      BY <3>1, <3>2
  <2>3. h = [i \in 1 .. n + 1 |-> IF i = 1 THEN s[i] ELSE h[i - 1] \o s[i]]
    BY <2>2
  <2> HIDE DEF h
  <2>4. \E f2 : Flattens(f2, s, n + 1)
    BY <2>3 DEF Flattens
  <2> QED
    BY <2>4
<1> HIDE DEF T
<1>3. Nat \subseteq T
  BY <1>1, <1>2, Induction
<1> QED
  BY <1>3 DEF T

LEMMA FlattenRests ==
  ASSUME NEW S, NEW s \in Seq(Seq(S))
  PROVE  \E g \in [0 .. Len(s) -> Seq(S)] : Rests(g, s, Len(s)) /\ FlattenSeq(s) = g[Len(s)]
<1> DEFINE N == Len(s)
<1>1. N \in Nat /\ DOMAIN s = 1 .. N /\ \A i \in 1 .. N : s[i] \in Seq(S)
  BY LenProperties, ElementOfSeq
<1> DEFINE f == CHOOSE f : Flattens(f, s, N)
<1>2. Flattens(f, s, N)
  BY <1>1, FlattenExists
<1>3. FlattenSeq(s) = IF N = 0 THEN s ELSE f[N]
  BY <1>1 DEF FlattenSeq, Flattens
<1> HIDE DEF f
<1> DEFINE g == [i \in 0 .. N |-> IF i = 0 THEN <<>> ELSE f[i]]
<1>4. ASSUME NEW i \in 1 .. N
      PROVE  f[i] = IF i = 1 THEN s[i] ELSE f[i - 1] \o s[i]
  BY <1>2 DEF Flattens
<1> DEFINE T == {n \in Nat : n <= N => g[n] \in Seq(S)}
<1>5. 0 \in T
  BY <1>1
<1>6. ASSUME NEW n \in Nat, n \in T
      PROVE  n + 1 \in T
  <2> SUFFICES ASSUME n + 1 <= N
               PROVE  g[n + 1] \in Seq(S)
    OBVIOUS
  <2>1. n + 1 \in 1 .. N /\ n \in 0 .. N /\ n + 1 - 1 = n
    BY <1>1
  <2>2. g[n] \in Seq(S)
    BY <1>1, <1>6
  <2>3. g[n + 1] = IF n + 1 = 1 THEN s[n + 1] ELSE f[n] \o s[n + 1]
    BY <1>4, <2>1
  <2>4. CASE n = 0
    BY <1>1, <2>1, <2>3, <2>4
  <2>5. CASE n # 0
    <3>1. f[n] \in Seq(S) /\ s[n + 1] \in Seq(S)
      BY <1>1, <2>1, <2>2, <2>5
    <3>2. f[n] \o s[n + 1] \in Seq(S)
      BY <3>1, ConcatProperties
    <3>3. n + 1 # 1
      BY <2>5
    <3>4. g[n + 1] = f[n] \o s[n + 1]
      BY <2>3, <3>3, Zenon
    <3> QED
      BY <3>2, <3>4, Zenon
  <2> QED
    BY <2>4, <2>5
<1> HIDE DEF T
<1>7. Nat \subseteq T
  BY <1>5, <1>6, Induction
<1>8. g \in [0 .. N -> Seq(S)]
  <2>1. \A i \in 0 .. N : i \in T /\ i <= N
    BY <1>1, <1>7
  <2>2. \A i \in 0 .. N : g[i] \in Seq(S)
    <3> HIDE DEF g
    <3> QED
      BY <2>1 DEF T
  <2> QED
    BY <2>2
<1>9. Rests(g, s, N)
  <2>1. ASSUME NEW i \in 1 .. N
        PROVE  g[i] = g[i - 1] \o s[i]
    <3>1. CASE i = 1
      <4>1. g[1] = s[1] /\ g[0] = <<>>
        BY <1>1, <1>4, <3>1
      <4>2. <<>> \o s[1] = s[1]
        BY <1>1, <3>1, ConcatEmptySeq
      <4>3. i - 1 = 0
        BY <3>1
      <4> HIDE DEF g
      <4> QED
        BY <3>1, <4>1, <4>2, <4>3
    <3>2. CASE i # 1
      <4>1. i \in 0 .. N /\ i - 1 \in 0 .. N /\ i # 0 /\ i - 1 # 0
        BY <1>1, <3>2
      <4> QED
        BY <1>4, <3>2, <4>1
    <3> QED
      BY <3>1, <3>2
  <2>2. g[0] = <<>>
    BY <1>1
  <2> HIDE DEF g
  <2> QED
    BY <2>1, <2>2 DEF Rests
<1>10. FlattenSeq(s) = g[N]
  <2>1. N = 0 => s = <<>>
    BY <1>1
  <2> QED
    BY <1>1, <1>3, <2>1
<1> HIDE DEF g
<1> QED
  BY <1>8, <1>9, <1>10

LEMMA RestsAgree ==
  ASSUME NEW g, NEW h, NEW s, NEW N \in Nat, Rests(g, s, N), Rests(h, s, N)
  PROVE  g[N] = h[N]
<1> DEFINE T == {n \in Nat : n <= N => g[n] = h[n]}
<1>1. 0 \in T
  BY DEF Rests
<1>2. ASSUME NEW n \in Nat, n \in T
      PROVE  n + 1 \in T
  <2> SUFFICES ASSUME n + 1 <= N
               PROVE  g[n + 1] = h[n + 1]
    OBVIOUS
  <2>1. PICK i \in 1 .. N : i = n + 1 /\ i - 1 = n
    OBVIOUS
  <2>2. g[n] = h[n]
    BY <1>2
  <2>3. g[i] = g[i - 1] \o s[i] /\ h[i] = h[i - 1] \o s[i]
    BY Zenon DEF Rests
  <2> QED
    BY <2>1, <2>2, <2>3
<1> HIDE DEF T
<1>3. Nat \subseteq T
  BY <1>1, <1>2, Induction
<1>4. N \in T
  BY <1>3
<1> QED
  BY <1>4 DEF T

LEMMA Associates ==
  ASSUME NEW S
  PROVE  \A x, y, z \in Seq(S) : x \o (y \o z) = (x \o y) \o z
BY ConcatAssociative

LEMMA FlattenThen ==
  ASSUME NEW S, NEW s \in Seq(Seq(S)), NEW t \in Seq(Seq(S))
  PROVE  FlattenSeq(s \o t) = FlattenSeq(s) \o FlattenSeq(t)
<1> DEFINE m == Len(s)
           n == Len(t)
           u == s \o t
<1>1. /\ m \in Nat /\ n \in Nat /\ u \in Seq(Seq(S)) /\ Len(u) = m + n
      /\ \A i \in 1 .. m + n : u[i] = IF i <= m THEN s[i] ELSE t[i - m]
  BY LenProperties, ConcatProperties
<1>2. PICK f \in [0 .. m -> Seq(S)] : Rests(f, s, m) /\ FlattenSeq(s) = f[m]
  BY FlattenRests
<1>3. PICK g \in [0 .. n -> Seq(S)] : Rests(g, t, n) /\ FlattenSeq(t) = g[n]
  BY FlattenRests
<1>4. PICK h : Rests(h, u, m + n) /\ FlattenSeq(u) = h[m + n]
  BY <1>1, FlattenRests
<1> HIDE DEF m, n, u
<1> DEFINE k == [i \in 0 .. m + n |-> IF i <= m THEN f[i] ELSE f[m] \o g[i - m]]
<1>5. f[m] \in Seq(S)
  BY <1>1
<1>6. k[0] = <<>>
  BY <1>1, <1>2 DEF Rests
<1>7. ASSUME NEW i \in 1 .. m + n
      PROVE  k[i] = k[i - 1] \o u[i]
  <2>1. i \in 0 .. m + n /\ i - 1 \in 0 .. m + n /\ i \in Int
    BY <1>1
  <2>2. CASE i <= m
    <3>1. i \in 1 .. m /\ i - 1 <= m
      BY <1>1, <2>2
    <3>2. f[i] = f[i - 1] \o s[i]
      BY <1>2, <3>1, Zenon DEF Rests
    <3>3. k[i] = f[i] /\ k[i - 1] = f[i - 1]
      BY <2>1, <2>2, <3>1
    <3>4. u[i] = s[i]
      BY <1>1, <2>2
    <3> HIDE DEF k
    <3> QED
      BY <3>2, <3>3, <3>4
  <2>3. CASE ~(i <= m)
    <3>1. i - m \in 1 .. n /\ i - m - 1 \in 0 .. n /\ i - m \in 0 .. n
      BY <1>1, <2>3
    <3>2. g[i - m] = g[i - m - 1] \o t[i - m]
      BY <1>3, <3>1, Zenon DEF Rests
    <3>3. g[i - m - 1] \in Seq(S) /\ t[i - m] \in Seq(S)
      BY <1>1, <3>1, ElementOfSeq DEF n
    <3>4. f[m] \o (g[i - m - 1] \o t[i - m]) = (f[m] \o g[i - m - 1]) \o t[i - m]
      <4>1. \A x, y, z \in Seq(S) : x \o (y \o z) = (x \o y) \o z
        BY Associates
      <4> QED
        BY <1>5, <3>3, <4>1, Zenon
    <3>5. k[i] = f[m] \o g[i - m] /\ u[i] = t[i - m]
      BY <1>1, <2>1, <2>3
    <3>6. k[i - 1] = f[m] \o g[i - m - 1]
      <4>1. CASE i - 1 = m
        <5>1. i - m - 1 = 0 /\ k[i - 1] = f[m]
          BY <1>1, <2>1, <4>1
        <5>2. g[0] = <<>> /\ f[m] \o <<>> = f[m]
          BY <1>3, <1>5, ConcatEmptySeq DEF Rests
        <5> HIDE DEF k
        <5> QED
          BY <5>1, <5>2
      <4>2. CASE i - 1 # m
        <5>1. ~(i - 1 <= m) /\ i - 1 - m = i - m - 1
          BY <1>1, <2>1, <2>3, <4>2
        <5> QED
          BY <2>1, <5>1
      <4> QED
        BY <4>1, <4>2
    <3> HIDE DEF k
    <3> QED
      BY <3>2, <3>4, <3>5, <3>6
  <2> QED
    BY <2>2, <2>3
<1>8. k[m + n] = f[m] \o g[n]
  <2>1. CASE n = 0
    <3>1. g[0] = <<>> /\ f[m] \o <<>> = f[m]
      BY <1>3, <1>5, ConcatEmptySeq DEF Rests
    <3>2. k[m + n] = f[m]
      BY <1>1, <2>1
    <3> HIDE DEF k
    <3> QED
      BY <2>1, <3>1, <3>2
  <2>2. CASE n # 0
    <3>1. ~(m + n <= m) /\ m + n - m = n /\ m + n \in 0 .. m + n
      BY <1>1, <2>2
    <3>2. PICK i \in 0 .. m + n : i = m + n /\ ~(i <= m) /\ i - m = n
      BY <1>1, <3>1
    <3>3. k[i] = f[m] \o g[i - m]
      BY <3>2
    <3> QED
      BY <3>2, <3>3, Zenon
  <2> QED
    BY <2>1, <2>2
<1> HIDE DEF k
<1>9. Rests(k, u, m + n)
  BY <1>6, <1>7 DEF Rests
<1>10. k[m + n] = h[m + n]
  BY <1>1, <1>4, <1>9, RestsAgree
<1> QED
  BY <1>2, <1>3, <1>4, <1>8, <1>10 DEF u

LEMMA FlattenOne ==
  ASSUME NEW S, NEW x \in Seq(S), NEW s, s \in Seq(Seq(S)), Len(s) = 1, s[1] = x
  PROVE  FlattenSeq(s) = x
<1>1. PICK g \in [0 .. 1 -> Seq(S)] : Rests(g, s, 1) /\ FlattenSeq(s) = g[1]
  BY FlattenRests
<1>2. g[0] = <<>> /\ 1 \in 1 .. 1 /\ 1 - 1 = 0
  BY <1>1 DEF Rests
<1>3. g[1] = <<>> \o x
  BY <1>1, <1>2 DEF Rests
<1> QED
  BY <1>1, <1>3, ConcatEmptySeq

-----------------------------------------------------------------------------
(* The rows that frames add to a thread, one frame after the other. *)
Values == Messages \cup Ids \cup {Unset}
Rows == [who : {"user", "assistant", "tool", "toolResult"}, of : Messages]
Calls ==
  [method : {"chat.send"}, arg : Chats] \cup [method : {"run.plan"}, arg : Objects] \cup
  [method : {"run.start", "run.reject", "run.cancel", "run.nodes"}, arg : Values]
Turns == [kind : {"turn"}, who : {"user", "assistant"}, of : Messages, hasText : BOOLEAN]
Works == [kind : {"tool", "toolResult", "delta"}, of : Messages]
Notices == [kind : {"run.proposed", "run.started", "run.finished"}, of : Values]
Replies == [kind : {"reply"}, call : Calls, ok : BOOLEAN]
Frames == Turns \cup Works \cup Notices \cup Replies

RowsEach(d) == [i \in DOMAIN d |-> RowsOf(d[i])]
Spoken(d) == FlattenSeq(RowsEach(d))

LEMMA RowsTyped ==
  ASSUME NEW f \in Frames
  PROVE  RowsOf(f) \in Seq(Rows)
<1>1. CASE f \in Turns
  <2>1. [who |-> f.who, of |-> f.of] \in Rows
    BY <1>1 DEF Turns, Rows
  <2>2. RowsOf(f) = IF f.hasText THEN <<[who |-> f.who, of |-> f.of]>> ELSE <<>>
    BY <1>1 DEF Turns, RowsOf
  <2> QED
    BY <2>1, <2>2
<1>2. CASE f \in Works
  <2>1. f.kind \in {"tool", "toolResult"} => [who |-> f.kind, of |-> f.of] \in Rows
    BY <1>2 DEF Works, Rows
  <2>2. RowsOf(f) = IF f.kind \in {"tool", "toolResult"}
                    THEN <<[who |-> f.kind, of |-> f.of]>> ELSE <<>>
    BY <1>2 DEF Works, RowsOf
  <2> QED
    BY <2>1, <2>2
<1>3. CASE f \in Notices \cup Replies
  <2>1. RowsOf(f) = <<>>
    BY <1>3 DEF Notices, Replies, RowsOf
  <2> QED
    BY <2>1
<1> QED
  BY <1>1, <1>2, <1>3 DEF Frames

LEMMA RowsEachTyped ==
  ASSUME NEW d \in Seq(Frames)
  PROVE  RowsEach(d) \in Seq(Seq(Rows)) /\ Len(RowsEach(d)) = Len(d)
<1>1. DOMAIN d = 1 .. Len(d) /\ Len(d) \in Nat /\ \A i \in 1 .. Len(d) : d[i] \in Frames
  BY LenProperties, ElementOfSeq
<1>2. RowsEach(d) \in [1 .. Len(d) -> Seq(Rows)]
  BY <1>1, RowsTyped DEF RowsEach
<1> QED
  BY <1>1, <1>2

LEMMA SpokenTyped ==
  ASSUME NEW d \in Seq(Frames)
  PROVE  Spoken(d) \in Seq(Rows)
<1> DEFINE s == RowsEach(d)
<1>1. s \in Seq(Seq(Rows))
  BY RowsEachTyped
<1> HIDE DEF s
<1>2. PICK g \in [0 .. Len(s) -> Seq(Rows)] : FlattenSeq(s) = g[Len(s)]
  BY <1>1, FlattenRests
<1>3. Len(s) \in 0 .. Len(s)
  BY <1>1, LenProperties
<1> QED
  BY <1>2, <1>3 DEF Spoken, s

LEMMA SpokenThen ==
  ASSUME NEW a \in Seq(Frames), NEW b \in Seq(Frames)
  PROVE  Spoken(a \o b) = Spoken(a) \o Spoken(b)
<1> DEFINE m == Len(a)
           n == Len(b)
<1>1. m \in Nat /\ n \in Nat /\ DOMAIN a = 1 .. m /\ DOMAIN b = 1 .. n
  BY LenProperties
<1>2. /\ a \o b \in Seq(Frames) /\ DOMAIN (a \o b) = 1 .. m + n
      /\ \A i \in 1 .. m + n : (a \o b)[i] = IF i <= m THEN a[i] ELSE b[i - m]
  BY LenProperties, ConcatProperties
<1> DEFINE ra == RowsEach(a)
           rb == RowsEach(b)
           rab == RowsEach(a \o b)
<1>3. /\ ra \in Seq(Seq(Rows)) /\ rb \in Seq(Seq(Rows)) /\ Len(ra) = m /\ Len(rb) = n
      /\ \A i \in 1 .. m : ra[i] = RowsOf(a[i])
      /\ \A i \in 1 .. n : rb[i] = RowsOf(b[i])
  BY <1>1, RowsEachTyped DEF RowsEach
<1>4. /\ rab \in Seq(Seq(Rows)) /\ Len(rab) = m + n
      /\ \A i \in 1 .. m + n : rab[i] = RowsOf((a \o b)[i])
  BY <1>1, <1>2, RowsEachTyped, LenProperties, ConcatProperties DEF RowsEach
<1> HIDE DEF ra, rb, rab, m, n
<1>5. /\ ra \o rb \in Seq(Seq(Rows)) /\ Len(ra \o rb) = m + n
      /\ \A i \in 1 .. m + n : (ra \o rb)[i] = IF i <= m THEN ra[i] ELSE rb[i - m]
  BY <1>1, <1>3, ConcatProperties
<1>6. \A i \in 1 .. m + n : rab[i] = (ra \o rb)[i]
  <2> TAKE i \in 1 .. m + n
  <2>1. i <= m => i \in 1 .. m
    BY <1>1
  <2>2. ~(i <= m) => i - m \in 1 .. n
    BY <1>1
  <2>3. CASE i <= m
    <3>1. (a \o b)[i] = a[i] /\ (ra \o rb)[i] = ra[i] /\ ra[i] = RowsOf(a[i])
      BY <1>2, <1>3, <1>5, <2>1, <2>3
    <3> QED
      BY <1>4, <3>1
  <2>4. CASE ~(i <= m)
    <3>1. (a \o b)[i] = b[i - m] /\ (ra \o rb)[i] = rb[i - m] /\ rb[i - m] = RowsOf(b[i - m])
      BY <1>2, <1>3, <1>5, <2>2, <2>4
    <3> QED
      BY <1>4, <3>1
  <2> QED
    BY <2>3, <2>4
<1>7. rab = ra \o rb
  BY <1>4, <1>5, <1>6, SeqEqual
<1>8. FlattenSeq(ra \o rb) = FlattenSeq(ra) \o FlattenSeq(rb)
  BY <1>3, FlattenThen
<1> QED
  BY <1>7, <1>8 DEF Spoken, ra, rb, rab

LEMMA OneIsSeq ==
  ASSUME NEW e
  PROVE  <<e>> \in Seq({e}) /\ Len(<<e>>) = 1 /\ <<e>>[1] = e /\ DOMAIN <<e>> = 1 .. 1
OBVIOUS

LEMMA FewAreSeq ==
  ASSUME NEW S, NEW a \in S, NEW b \in S
  PROVE  <<a>> \in Seq(S) /\ <<a, b>> \in Seq(S)
OBVIOUS

LEMMA SpokenOne ==
  ASSUME NEW f \in Frames
  PROVE  Spoken(<<f>>) = RowsOf(f)
<1> DEFINE d == <<f>>
<1>1. d \in Seq(Frames) /\ Len(d) = 1 /\ d[1] = f /\ DOMAIN d = 1 .. 1
  BY OneIsSeq
<1> HIDE DEF d
<1>2. RowsEach(d) \in Seq(Seq(Rows)) /\ Len(RowsEach(d)) = 1
  BY <1>1, RowsEachTyped
<1>3. RowsEach(d)[1] = RowsOf(f)
  BY <1>1 DEF RowsEach
<1>4. RowsOf(f) \in Seq(Rows)
  BY RowsTyped
<1>5. FlattenSeq(RowsEach(d)) = RowsOf(f)
  BY <1>2, <1>3, <1>4, FlattenOne
<1> QED
  BY <1>5 DEF Spoken, d

LEMMA SpokenNone == Spoken(<<>>) = <<>>
<1>1. <<>> \in Seq(Seq(Rows)) /\ Len(<<>>) = 0 /\ DOMAIN <<>> = {}
  OBVIOUS
<1>2. RowsEach(<<>>) = <<>>
  BY <1>1 DEF RowsEach
<1>3. FlattenSeq(<<>>) = <<>>
  BY <1>1 DEF FlattenSeq
<1> QED
  BY <1>2, <1>3 DEF Spoken

LEMMA SpokenHead ==
  ASSUME NEW d \in Seq(Frames), d # <<>>
  PROVE  /\ Head(d) \in Frames /\ Tail(d) \in Seq(Frames)
         /\ Spoken(d) = RowsOf(Head(d)) \o Spoken(Tail(d))
<1>1. Head(d) \in Frames /\ Tail(d) \in Seq(Frames)
  BY HeadTailProperties
<1>2. <<Head(d)>> \in Seq(Frames)
  BY <1>1, OneIsSeq
<1>3. d = <<Head(d)>> \o Tail(d)
  <2> DEFINE h == <<Head(d)>>
             t == Tail(d)
  <2>1. /\ h \in Seq(Frames) /\ Len(h) = 1 /\ h[1] = d[1]
        /\ t \in Seq(Frames) /\ Len(d) \in Nat /\ Len(t) = Len(d) - 1
        /\ \A i \in 1 .. Len(t) : t[i] = d[i + 1]
    BY <1>1, <1>2, OneIsSeq, HeadTailProperties, LenProperties
  <2> HIDE DEF h, t
  <2>2. /\ h \o t \in Seq(Frames) /\ Len(h \o t) = Len(d)
        /\ \A i \in 1 .. Len(d) : (h \o t)[i] = IF i <= 1 THEN h[i] ELSE t[i - 1]
    <3>1. /\ h \o t \in Seq(Frames) /\ Len(h \o t) = Len(h) + Len(t)
          /\ \A i \in 1 .. Len(h) + Len(t) :
               (h \o t)[i] = IF i <= Len(h) THEN h[i] ELSE t[i - Len(h)]
      <4>1. h \in Seq(Frames) /\ t \in Seq(Frames)
        BY <2>1
      <4> QED
        BY <4>1, ConcatProperties
    <3>2. Len(h) + Len(t) = Len(d)
      BY <2>1
    <3> QED
      BY <2>1, <3>1, <3>2
  <2>3. \A i \in 1 .. Len(d) : d[i] = (h \o t)[i]
    BY <2>1, <2>2
  <2>4. d = h \o t
    BY <2>1, <2>2, <2>3, SeqEqual
  <2> QED
    BY <2>4 DEF h, t
<1>4. Spoken(<<Head(d)>> \o Tail(d)) = Spoken(<<Head(d)>>) \o Spoken(Tail(d))
  BY <1>1, <1>2, SpokenThen
<1> QED
  BY <1>1, <1>3, <1>4, SpokenOne

-----------------------------------------------------------------------------
(* What is in a sequence. *)
LEMMA ConcatSet ==
  ASSUME NEW S, NEW a \in Seq(S), NEW b \in Seq(S)
  PROVE  ToSet(a \o b) = ToSet(a) \cup ToSet(b)
<1> DEFINE m == Len(a)
           n == Len(b)
<1>1. m \in Nat /\ n \in Nat /\ DOMAIN a = 1 .. m /\ DOMAIN b = 1 .. n
  BY LenProperties
<1>2. /\ a \o b \in Seq(S) /\ Len(a \o b) = m + n
      /\ \A i \in 1 .. m + n : (a \o b)[i] = IF i <= m THEN a[i] ELSE b[i - m]
  BY ConcatProperties
<1>3. DOMAIN (a \o b) = 1 .. m + n
  BY <1>2, LenProperties
<1> HIDE DEF m, n
<1>4. ASSUME NEW i \in 1 .. m + n
      PROVE  (a \o b)[i] \in ToSet(a) \cup ToSet(b)
  <2>1. i <= m => i \in 1 .. m
    BY <1>1
  <2>2. ~(i <= m) => i - m \in 1 .. n
    BY <1>1
  <2> QED
    BY <1>1, <1>2, <2>1, <2>2 DEF ToSet
<1>5. ASSUME NEW i \in 1 .. m
      PROVE  a[i] \in ToSet(a \o b)
  <2>1. i \in 1 .. m + n /\ i <= m
    BY <1>1
  <2>2. (a \o b)[i] = a[i]
    BY <1>2, <2>1
  <2> QED
    BY <1>3, <2>1, <2>2 DEF ToSet
<1>6. ASSUME NEW i \in 1 .. n
      PROVE  b[i] \in ToSet(a \o b)
  <2>1. i \in Int
    BY <1>1
  <2>2. m + i \in 1 .. m + n /\ ~(m + i <= m) /\ m + i - m = i
    BY <1>1
  <2>3. (a \o b)[m + i] = b[i]
    BY <1>1, <1>2, <2>1, <2>2
  <2> QED
    BY <1>3, <2>2, <2>3 DEF ToSet
<1>7. ToSet(a \o b) \subseteq ToSet(a) \cup ToSet(b)
  BY <1>3, <1>4 DEF ToSet
<1>8. ToSet(a) \subseteq ToSet(a \o b)
  BY <1>1, <1>5 DEF ToSet
<1>9. ToSet(b) \subseteq ToSet(a \o b)
  BY <1>1, <1>6 DEF ToSet
<1> QED
  BY <1>7, <1>8, <1>9

LEMMA AppendSet ==
  ASSUME NEW S, NEW s \in Seq(S), NEW x \in S
  PROVE  /\ Append(s, x) \in Seq(S) /\ x \in ToSet(Append(s, x))
         /\ ToSet(s) \subseteq ToSet(Append(s, x))
<1>1. /\ Append(s, x) \in Seq(S) /\ Len(Append(s, x)) = Len(s) + 1 /\ Len(s) \in Nat
      /\ \A i \in 1 .. Len(s) : Append(s, x)[i] = s[i]
      /\ Append(s, x)[Len(s) + 1] = x
  BY AppendProperties, LenProperties
<1>2. DOMAIN s = 1 .. Len(s) /\ DOMAIN Append(s, x) = 1 .. Len(s) + 1
  BY <1>1, LenProperties
<1>3. Len(s) + 1 \in 1 .. Len(s) + 1 /\ \A i \in 1 .. Len(s) : i \in 1 .. Len(s) + 1
  BY <1>1
<1>4. x \in ToSet(Append(s, x))
  BY <1>1, <1>2, <1>3 DEF ToSet
<1>5. ToSet(s) \subseteq ToSet(Append(s, x))
  BY <1>1, <1>2, <1>3 DEF ToSet
<1> QED
  BY <1>1, <1>4, <1>5

LEMMA HeadSet ==
  ASSUME NEW S, NEW s \in Seq(S), s # <<>>
  PROVE  /\ Head(s) \in S /\ Tail(s) \in Seq(S)
         /\ \A x \in ToSet(s) : x = Head(s) \/ x \in ToSet(Tail(s))
<1>1. /\ Head(s) \in S /\ Tail(s) \in Seq(S) /\ Head(s) = s[1]
      /\ Len(s) \in Nat /\ Len(Tail(s)) = Len(s) - 1
      /\ \A i \in 1 .. Len(Tail(s)) : Tail(s)[i] = s[i + 1]
  BY HeadTailProperties, LenProperties
<1>2. DOMAIN s = 1 .. Len(s) /\ DOMAIN Tail(s) = 1 .. Len(Tail(s))
  BY <1>1, LenProperties
<1>3. ASSUME NEW i \in 1 .. Len(s), i # 1
      PROVE  s[i] \in ToSet(Tail(s))
  <2>1. i - 1 \in 1 .. Len(Tail(s)) /\ i - 1 + 1 = i
    BY <1>1, <1>3
  <2>2. Tail(s)[i - 1] = s[i]
    BY <1>1, <2>1
  <2> QED
    BY <1>2, <2>1, <2>2 DEF ToSet
<1>4. \A x \in ToSet(s) : x = Head(s) \/ x \in ToSet(Tail(s))
  BY <1>1, <1>2, <1>3 DEF ToSet
<1> QED
  BY <1>1, <1>4

-----------------------------------------------------------------------------
(* The inductive invariant of the desk.  A window without a socket has nothing *)
(* under way and waits for nothing; one that never lost its socket has one.    *)
Screens ==
  [ thread : Seq(Rows), errors : SUBSET Messages, bubble : SUBSET Messages, busy : BOOLEAN,
    plan : Values, runId : Values, nodes : Values ]

ChatStages == {"unsent", "streaming", "spoken", "calling", "done", "failed"}

DeskTyped ==
  /\ lost \subseteq Windows /\ attached \subseteq Windows
  /\ uplink \in [Windows -> Seq(Calls)]
  /\ waiting \in [Windows -> SUBSET Calls]
  /\ downlink \in [Windows -> Seq(Frames)]
  /\ screen \in [Windows -> Screens]
  /\ chat \in [Chats -> ChatStages]
  /\ said \in Seq(Rows)

SocketsFit ==
  /\ Windows \ lost \subseteq attached
  /\ \A w \in Windows \ attached : uplink[w] = <<>> /\ waiting[w] = {} /\ downlink[w] = <<>>

DeskInv == DeskTyped /\ SocketsFit /\ WindowsShowTheStream /\ CallsAreInHand

DInv == MInv /\ DeskInv

LEMMA StreamIsSpoken ==
  WindowsShowTheStream <=> \A w \in Windows \ lost : screen[w].thread \o Spoken(downlink[w]) = said
BY DEF WindowsShowTheStream, RowsUnderWay, Spoken, RowsEach

LEMMA ReplyTyped ==
  ASSUME NEW call \in Calls, NEW ok \in BOOLEAN
  PROVE  Reply(call, ok) \in Frames /\ RowsOf(Reply(call, ok)) = <<>>
BY DEF Reply, Frames, Replies, RowsOf

Answers == {<<>>} \cup {<<Reply(call, ok)>> : call \in Calls, ok \in BOOLEAN}

LEMMA AnswersTyped ==
  ASSUME NEW reply \in Answers
  PROVE  reply \in Seq(Frames) /\ Spoken(reply) = <<>>
<1>1. CASE reply = <<>>
  BY <1>1, SpokenNone
<1>2. ASSUME NEW call \in Calls, NEW ok \in BOOLEAN, reply = <<Reply(call, ok)>>
      PROVE  reply \in Seq(Frames) /\ Spoken(reply) = <<>>
  BY <1>2, ReplyTyped, SpokenOne
<1> QED
  BY <1>1, <1>2 DEF Answers

\* What the daemon tells: everybody gets the frames, who waits the reply too.
Told(callers, reply) ==
  /\ downlink' \in [Windows -> Seq(Frames)]
  /\ said' \in Seq(Rows)
  /\ \A w \in Windows \ attached : downlink'[w] = downlink[w]
  /\ \A w \in Windows : ToSet(downlink[w]) \subseteq ToSet(downlink'[w])
  /\ \A w \in attached \cap callers : ToSet(reply) \subseteq ToSet(downlink'[w])

LEMMA TellTells ==
  ASSUME DeskTyped, SocketsFit, WindowsShowTheStream, UNCHANGED <<attached, lost, screen>>,
         NEW frames \in Seq(Frames), NEW callers, NEW reply \in Answers,
         Tell(frames, callers, reply)
  PROVE  Told(callers, reply) /\ WindowsShowTheStream'
<1>1. reply \in Seq(Frames) /\ <<>> \in Seq(Frames) /\ Spoken(reply) = <<>> /\ Spoken(<<>>) = <<>>
  BY AnswersTyped, SpokenNone
<1>2. said' = said \o Spoken(frames)
  BY DEF Tell, Spoken, RowsEach
<1>3. Spoken(frames) \in Seq(Rows)
  BY SpokenTyped
<1>4. said' \in Seq(Rows)
  BY <1>2, <1>3, ConcatProperties DEF DeskTyped
<1>5. ASSUME NEW w \in Windows
      PROVE  /\ downlink'[w] \in Seq(Frames)
             /\ w \notin attached => downlink'[w] = downlink[w]
             /\ ToSet(downlink[w]) \subseteq ToSet(downlink'[w])
             /\ w \in attached \cap callers => ToSet(reply) \subseteq ToSet(downlink'[w])
             /\ w \in attached => Spoken(downlink'[w]) = Spoken(downlink[w]) \o Spoken(frames)
  <2> DEFINE d == downlink[w]
  <2>1. d \in Seq(Frames)
    BY DEF DeskTyped
  <2> HIDE DEF d
  <2>2. CASE w \in attached
    <3>1. PICK r \in Seq(Frames) : /\ Spoken(r) = <<>> /\ (w \in callers => r = reply)
                                   /\ downlink'[w] = (d \o frames) \o r
      BY <1>1, <2>2 DEF Tell, d
    <3>2. d \o frames \in Seq(Frames) /\ (d \o frames) \o r \in Seq(Frames)
      BY <2>1, ConcatProperties
    <3>3. ToSet((d \o frames) \o r) = (ToSet(d) \cup ToSet(frames)) \cup ToSet(r)
      <4>1. PICK e \in Seq(Frames) : e = d \o frames
        BY <3>2
      <4>2. ToSet(e \o r) = ToSet(e) \cup ToSet(r)
        BY ConcatSet
      <4>3. ToSet(d \o frames) = ToSet(d) \cup ToSet(frames)
        BY <2>1, ConcatSet
      <4> QED
        BY <4>1, <4>2, <4>3, Zenon
    <3>4. Spoken((d \o frames) \o r) = (Spoken(d) \o Spoken(frames)) \o <<>>
      BY <2>1, <3>1, <3>2, SpokenThen
    <3>5. Spoken(d) \o Spoken(frames) \in Seq(Rows)
      BY <1>3, <2>1, SpokenTyped, ConcatProperties
    <3>6. Spoken((d \o frames) \o r) = Spoken(d) \o Spoken(frames)
      BY <3>4, <3>5, ConcatEmptySeq
    <3> QED
      BY <2>2, <3>1, <3>2, <3>3, <3>6 DEF d
  <2>3. CASE w \notin attached
    <3>1. downlink'[w] = d
      BY <2>3 DEF Tell, d
    <3> QED
      BY <2>1, <2>3, <3>1 DEF d
  <2> QED
    BY <2>2, <2>3
<1>6. downlink' \in [Windows -> Seq(Frames)]
  <2>1. downlink' = [w \in Windows |-> downlink'[w]]
    BY DEF Tell
  <2> QED
    BY <1>5, <2>1
<1>7. ASSUME NEW w \in Windows \ lost
      PROVE  screen[w].thread \o Spoken(downlink'[w]) = said'
  <2>1. w \in attached /\ Spoken(downlink'[w]) = Spoken(downlink[w]) \o Spoken(frames)
    BY <1>5, <1>7 DEF SocketsFit
  <2>2. screen[w].thread \o Spoken(downlink[w]) = said
    BY <1>7, StreamIsSpoken
  <2>3. screen[w].thread \in Seq(Rows) /\ downlink[w] \in Seq(Frames)
    BY <1>7 DEF DeskTyped, Screens
  <2>4. Spoken(downlink[w]) \in Seq(Rows)
    BY <2>3, SpokenTyped
  <2>5. \A x, y, z \in Seq(Rows) : x \o (y \o z) = (x \o y) \o z
    BY Associates
  <2>6. screen[w].thread \o (Spoken(downlink[w]) \o Spoken(frames))
          = (screen[w].thread \o Spoken(downlink[w])) \o Spoken(frames)
    BY <1>3, <2>3, <2>4, <2>5, Zenon
  <2> QED
    BY <1>2, <2>1, <2>2, <2>6, Zenon
<1>8. WindowsShowTheStream'
  BY <1>7 DEF WindowsShowTheStream, RowsUnderWay, Spoken, RowsEach
<1> QED
  BY <1>4, <1>5, <1>6, <1>8 DEF Told, DeskTyped

LEMMA StaysInHand ==
  ASSUME NEW w, NEW call, InHand(w, call),
         ToSet(downlink[w]) \subseteq ToSet(downlink'[w]),
         call \in ToSet(uplink[w]) => InHand(w, call)',
         call.method = "run.plan" /\ stage[call.arg] = "planning" => InHand(w, call)',
         call.method = "chat.send" /\ chat[call.arg] \notin {"unsent", "done", "failed"}
           => InHand(w, call)'
  PROVE  InHand(w, call)'
<1>1. ASSUME NEW ok \in BOOLEAN, Reply(call, ok) \in ToSet(downlink[w])
      PROVE  InHand(w, call)'
  <2>1. Reply(call, ok) \in ToSet(downlink'[w])
    BY <1>1
  <2> QED
    BY <2>1 DEF InHand
<1> QED
  BY <1>1 DEF InHand

\* A step of the daemon keeps the desk in order if no call that waits is dropped.
KeepsCalls ==
  \A w \in Windows : \A call \in waiting[w] :
    /\ call \in ToSet(uplink[w]) => InHand(w, call)'
    /\ call.method = "run.plan" /\ stage[call.arg] = "planning" => InHand(w, call)'
    /\ call.method = "chat.send" /\ chat[call.arg] \notin {"unsent", "done", "failed"}
         => InHand(w, call)'

LEMMA DaemonSpeaks ==
  ASSUME DeskInv, DaemonOnly, WindowsShowTheStream',
         NEW callers, NEW reply, Told(callers, reply),
         uplink' \in [Windows -> Seq(Calls)],
         \A w \in Windows \ attached : uplink'[w] = <<>>,
         chat' \in [Chats -> ChatStages],
         KeepsCalls
  PROVE  DeskInv'
<1>1. DeskTyped'
  BY DEF DeskInv, DeskTyped, DaemonOnly, Told
<1>2. SocketsFit'
  BY DEF DeskInv, SocketsFit, DaemonOnly, Told
<1>3. ASSUME NEW w \in Windows, NEW call \in waiting[w]
      PROVE  InHand(w, call)'
  <2>1. InHand(w, call)
    BY <1>3 DEF DeskInv, CallsAreInHand
  <2>2. ToSet(downlink[w]) \subseteq ToSet(downlink'[w])
    BY DEF Told
  <2>3. /\ call \in ToSet(uplink[w]) => InHand(w, call)'
        /\ call.method = "run.plan" /\ stage[call.arg] = "planning" => InHand(w, call)'
        /\ call.method = "chat.send" /\ chat[call.arg] \notin {"unsent", "done", "failed"}
             => InHand(w, call)'
    BY <1>3 DEF KeepsCalls
  <2> QED
    BY <2>1, <2>2, <2>3, StaysInHand
<1>4. CallsAreInHand'
  BY <1>3 DEF CallsAreInHand, DaemonOnly
<1> QED
  BY <1>1, <1>2, <1>4 DEF DeskInv

LEMMA PlanCalls ==
  ASSUME NEW o \in Objects
  PROVE  /\ Call("run.plan", o) \in Calls
         /\ \A call \in Calls :
              call.method = "run.plan" /\ call.arg = o => call = Call("run.plan", o)
BY DEF Calls, Call

LEMMA ChatCalls ==
  ASSUME NEW c \in Chats
  PROVE  /\ Call("chat.send", c) \in Calls
         /\ \A call \in Calls :
              call.method = "chat.send" /\ call.arg = c => call = Call("chat.send", c)
BY DEF Calls, Call

LEMMA RepliesAnswer ==
  ASSUME NEW call \in Calls, NEW ok \in BOOLEAN
  PROVE  /\ <<Reply(call, ok)>> \in Answers /\ <<Reply(call, ok)>> \in Seq(Frames)
         /\ Reply(call, ok) \in ToSet(<<Reply(call, ok)>>)
<1>1. <<Reply(call, ok)>> \in Answers
  BY DEF Answers
<1>2. Reply(call, ok) \in ToSet(<<Reply(call, ok)>>)
  <2> HIDE DEF Reply
  <2>1. DOMAIN <<Reply(call, ok)>> = 1 .. 1 /\ <<Reply(call, ok)>>[1] = Reply(call, ok)
    BY OneIsSeq
  <2> QED
    BY <2>1 DEF ToSet
<1> QED
  BY <1>1, <1>2, AnswersTyped

\* The reply to a call puts every copy of it that waits in hand.
LEMMA RepliedIsInHand ==
  ASSUME DeskInv, NEW call \in Calls, NEW ok \in BOOLEAN, NEW callers,
         Told(callers, <<Reply(call, ok)>>),
         NEW w \in callers \cap Windows, call \in waiting[w] \/ w \in attached
  PROVE  InHand(w, call)'
<1>1. w \in attached
  BY DEF DeskInv, SocketsFit
<1>2. Reply(call, ok) \in ToSet(downlink'[w])
  BY <1>1, RepliesAnswer DEF Told
<1> QED
  BY <1>2 DEF InHand

LEMMA PlanEnds ==
  ASSUME MInv, DeskInv, SessionsOnly, NEW o \in Objects, NEW s,
         stage' = [stage EXCEPT ![o] = s],
         NEW frames \in Seq(Frames), NEW ok \in BOOLEAN,
         Tell(frames, Callers(Call("run.plan", o)), <<Reply(Call("run.plan", o), ok)>>)
  PROVE  DeskInv'
<1> DEFINE call == Call("run.plan", o)
<1>1. call \in Calls /\ <<Reply(call, ok)>> \in Answers
  BY PlanCalls, RepliesAnswer
<1>2. Told(Callers(call), <<Reply(call, ok)>>) /\ WindowsShowTheStream'
  BY <1>1, TellTells DEF DeskInv, SessionsOnly, DaemonOnly
<1>3. ASSUME NEW w \in Windows, NEW k \in waiting[w]
      PROVE  /\ k \in ToSet(uplink[w]) => InHand(w, k)'
             /\ k.method = "run.plan" /\ stage[k.arg] = "planning" => InHand(w, k)'
             /\ k.method = "chat.send" /\ chat[k.arg] \notin {"unsent", "done", "failed"}
                  => InHand(w, k)'
  <2>1. k \in Calls
    BY <1>3 DEF DeskInv, DeskTyped
  <2>2. k \in ToSet(uplink[w]) => InHand(w, k)'
    BY DEF InHand, SessionsOnly
  <2>3. k.method = "chat.send" /\ chat[k.arg] \notin {"unsent", "done", "failed"}
          => InHand(w, k)'
    BY DEF InHand, SessionsOnly
  <2>4. ASSUME k.method = "run.plan", stage[k.arg] = "planning"
        PROVE  InHand(w, k)'
    <3>1. CASE k = call
      <4>1. w \in Callers(call)
        BY <1>3, <3>1 DEF Callers
      <4>2. InHand(w, call)'
        BY <1>1, <1>2, <1>3, <3>1, <4>1, RepliedIsInHand
      <4> QED
        BY <3>1, <4>2
    <3>2. CASE k # call
      <4>1. k.arg \in Objects /\ k.arg # o
        BY <2>1, <2>4, <3>2, PlanCalls DEF Calls
      <4>2. stage'[k.arg] = "planning"
        BY <2>4, <4>1 DEF MInv, TypeOK
      <4> QED
        BY <2>4, <4>2 DEF InHand
    <3> QED
      BY <3>1, <3>2
  <2> QED
    BY <2>2, <2>3, <2>4
<1>4. KeepsCalls
  BY <1>3 DEF KeepsCalls
<1>5. /\ uplink' \in [Windows -> Seq(Calls)] /\ chat' \in [Chats -> ChatStages]
      /\ \A w \in Windows \ attached : uplink'[w] = <<>>
  BY DEF SessionsOnly, DeskInv, DeskTyped, SocketsFit
<1>6. DaemonOnly
  BY DEF SessionsOnly
<1> HIDE DEF call
<1> QED
  BY <1>2, <1>4, <1>5, <1>6, DaemonSpeaks

LEMMA NoticeTyped ==
  ASSUME TypeOK, NEW o \in Objects, NEW kind \in {"run.proposed", "run.started", "run.finished"}
  PROVE  Frame(kind, runId[o]) \in Frames
<1>1. runId[o] \in Values
  BY DEF TypeOK, Values
<1> QED
  BY <1>1 DEF Frame, Frames, Notices

LEMMA NoFrames == <<>> \in Seq(Frames) /\ <<>> \in Answers
BY DEF Answers

LEMMA PlanFailsStep ==
  ASSUME MInv, DeskInv, NEW o \in Objects, PlanFails(o)
  PROVE  DeskInv'
<1>1. /\ stage' = [stage EXCEPT ![o] = "no_plan"] /\ SessionsOnly
      /\ Tell(<<>>, Callers(Call("run.plan", o)), <<Reply(Call("run.plan", o), FALSE)>>)
  BY DEF PlanFails, PlanningFails
<1> QED
  BY <1>1, NoFrames, PlanEnds

LEMMA PlanProposedStep ==
  ASSUME MInv, DeskInv, NEW o \in Objects, PlanProposed(o)
  PROVE  DeskInv'
<1>1. /\ stage' = [stage EXCEPT ![o] = "awaiting_approval"] /\ SessionsOnly
      /\ Tell(<<Frame("run.proposed", runId[o])>>,
              Callers(Call("run.plan", o)), <<Reply(Call("run.plan", o), TRUE)>>)
  BY DEF PlanProposed, Propose
<1>2. <<Frame("run.proposed", runId[o])>> \in Seq(Frames)
  <2>1. Frame("run.proposed", runId[o]) \in Frames
    BY NoticeTyped DEF MInv
  <2> QED
    BY <2>1, OneIsSeq
<1> QED
  BY <1>1, <1>2, PlanEnds

LEMMA RunFinishesStep ==
  ASSUME MInv, DeskInv, NEW o \in Objects, RunFinishes(o)
  PROVE  DeskInv'
<1>1. /\ active[o] > 0 /\ stage' = [stage EXCEPT ![o] = "done"] /\ SessionsOnly
      /\ Tell(<<Frame("run.finished", runId[o])>>, {}, <<>>)
  BY DEF RunFinishes, RunSettles, Broadcast
<1>2. <<Frame("run.finished", runId[o])>> \in Seq(Frames)
  <2>1. Frame("run.finished", runId[o]) \in Frames
    BY NoticeTyped DEF MInv
  <2> QED
    BY <2>1, OneIsSeq
<1>3. Told({}, <<>>) /\ WindowsShowTheStream'
  BY <1>1, <1>2, NoFrames, TellTells DEF DeskInv, SessionsOnly, DaemonOnly
<1>4. stage[o] = "running"
  BY <1>1 DEF MInv, ExecutesWhileRunning
<1>5. KeepsCalls
  <2>1. ASSUME NEW w \in Windows, NEW k \in waiting[w],
               k.method = "run.plan", stage[k.arg] = "planning"
        PROVE  stage'[k.arg] = "planning"
    <3>1. k \in Calls
      BY <2>1 DEF DeskInv, DeskTyped
    <3>2. k.arg \in Objects
      BY <2>1, <3>1 DEF Calls
    <3> QED
      BY <1>1, <1>4, <2>1, <3>2 DEF MInv, TypeOK
  <2> QED
    BY <1>1, <2>1 DEF KeepsCalls, InHand, SessionsOnly
<1>6. /\ uplink' \in [Windows -> Seq(Calls)] /\ chat' \in [Chats -> ChatStages]
      /\ \A w \in Windows \ attached : uplink'[w] = <<>>
  BY <1>1 DEF SessionsOnly, DeskInv, DeskTyped, SocketsFit
<1>7. DaemonOnly
  BY <1>1 DEF SessionsOnly
<1> QED
  BY <1>3, <1>5, <1>6, <1>7, DaemonSpeaks

-----------------------------------------------------------------------------
(* The chat turns.  A turn that goes on holds its caller's call; one that ends *)
(* replies.                                                                    *)
LEMMA TurnGoesOn ==
  ASSUME DeskInv, NEW c \in Chats, NEW from, NEW to \in {"streaming", "spoken", "calling"},
         ChatMoves(c, from, to), NEW frames \in Seq(Frames), Broadcast(frames)
  PROVE  DeskInv'
<1>1. Tell(frames, {}, <<>>) /\ DaemonOnly /\ UNCHANGED <<uplink, vars>>
      /\ chat' = [chat EXCEPT ![c] = to]
  BY DEF ChatMoves, Broadcast
<1>2. Told({}, <<>>) /\ WindowsShowTheStream'
  BY <1>1, NoFrames, TellTells DEF DeskInv, DaemonOnly
<1>3. KeepsCalls
  <2>1. ASSUME NEW w \in Windows, NEW k \in waiting[w], k.method = "chat.send",
               chat[k.arg] \notin {"unsent", "done", "failed"}
        PROVE  chat'[k.arg] \notin {"unsent", "done", "failed"}
    <3>1. k \in Calls
      BY <2>1 DEF DeskInv, DeskTyped
    <3>2. k.arg \in Chats
      BY <2>1, <3>1 DEF Calls
    <3> QED
      BY <1>1, <2>1, <3>2 DEF DeskInv, DeskTyped
  <2> QED
    BY <1>1, <2>1 DEF KeepsCalls, InHand, vars
<1>4. /\ uplink' \in [Windows -> Seq(Calls)] /\ chat' \in [Chats -> ChatStages]
      /\ \A w \in Windows \ attached : uplink'[w] = <<>>
  BY <1>1 DEF DeskInv, DeskTyped, SocketsFit, ChatStages
<1> QED
  BY <1>1, <1>2, <1>3, <1>4, DaemonSpeaks

LEMMA TurnEnds ==
  ASSUME DeskInv, NEW c \in Chats, NEW from, NEW to \in {"done", "failed"},
         ChatMoves(c, from, to), NEW frames \in Seq(Frames), NEW ok \in BOOLEAN,
         Tell(frames, Callers(Call("chat.send", c)), <<Reply(Call("chat.send", c), ok)>>)
  PROVE  DeskInv'
<1> DEFINE call == Call("chat.send", c)
<1>1. DaemonOnly /\ UNCHANGED <<uplink, vars>> /\ chat' = [chat EXCEPT ![c] = to]
  BY DEF ChatMoves
<1>2. call \in Calls /\ <<Reply(call, ok)>> \in Answers
  BY ChatCalls, RepliesAnswer
<1>3. Told(Callers(call), <<Reply(call, ok)>>) /\ WindowsShowTheStream'
  BY <1>1, <1>2, TellTells DEF DeskInv, DaemonOnly
<1>4. ASSUME NEW w \in Windows, NEW k \in waiting[w]
      PROVE  /\ k \in ToSet(uplink[w]) => InHand(w, k)'
             /\ k.method = "run.plan" /\ stage[k.arg] = "planning" => InHand(w, k)'
             /\ k.method = "chat.send" /\ chat[k.arg] \notin {"unsent", "done", "failed"}
                  => InHand(w, k)'
  <2>1. k \in Calls
    BY <1>4 DEF DeskInv, DeskTyped
  <2>2. k \in ToSet(uplink[w]) => InHand(w, k)'
    BY <1>1 DEF InHand
  <2>3. k.method = "run.plan" /\ stage[k.arg] = "planning" => InHand(w, k)'
    BY <1>1 DEF InHand, vars
  <2>4. ASSUME k.method = "chat.send", chat[k.arg] \notin {"unsent", "done", "failed"}
        PROVE  InHand(w, k)'
    <3>1. CASE k = call
      <4>1. w \in Callers(call)
        BY <1>4, <3>1 DEF Callers
      <4>2. InHand(w, call)'
        BY <1>2, <1>3, <1>4, <3>1, <4>1, RepliedIsInHand
      <4> QED
        BY <3>1, <4>2
    <3>2. CASE k # call
      <4>1. k.arg \in Chats /\ k.arg # c
        BY <2>1, <2>4, <3>2, ChatCalls DEF Calls
      <4>2. chat'[k.arg] = chat[k.arg]
        BY <1>1, <4>1 DEF DeskInv, DeskTyped
      <4> QED
        BY <2>4, <4>2 DEF InHand
    <3> QED
      BY <3>1, <3>2
  <2> QED
    BY <2>2, <2>3, <2>4
<1>5. KeepsCalls
  BY <1>4 DEF KeepsCalls
<1>6. /\ uplink' \in [Windows -> Seq(Calls)] /\ chat' \in [Chats -> ChatStages]
      /\ \A w \in Windows \ attached : uplink'[w] = <<>>
  BY <1>1 DEF DeskInv, DeskTyped, SocketsFit, ChatStages
<1> HIDE DEF call
<1> QED
  BY <1>1, <1>3, <1>5, <1>6, DaemonSpeaks

LEMMA ChatFrames ==
  ASSUME NEW c \in Chats, NEW hasText \in BOOLEAN
  PROVE  /\ <<Turn("assistant", c, hasText)>> \in Seq(Frames)
         /\ <<Turn("user", c, TRUE)>> \in Seq(Frames)
         /\ <<Frame("delta", c)>> \in Seq(Frames)
         /\ <<Turn("assistant", c, hasText), Frame("tool", c)>> \in Seq(Frames)
         /\ <<Frame("toolResult", c)>> \in Seq(Frames)
         /\ <<Frame("toolResult", c), Frame("tool", c)>> \in Seq(Frames)
<1>1. /\ Turn("assistant", c, hasText) \in Frames
      /\ Turn("user", c, TRUE) \in Frames
  BY DEF Turn, Frames, Turns, Messages
<1>2. /\ Frame("delta", c) \in Frames
      /\ Frame("tool", c) \in Frames /\ Frame("toolResult", c) \in Frames
  BY DEF Frame, Frames, Works, Messages
<1> HIDE DEF Turn, Frame
<1> QED
  BY <1>1, <1>2, FewAreSeq

LEMMA ChatIsInOrder ==
  ASSUME DeskInv, NEW c \in Chats, ChatStep(c)
  PROVE  DeskInv'
<1>1. CASE Delta(c)
  <2>1. ChatMoves(c, "streaming", "spoken") /\ Broadcast(<<Frame("delta", c)>>)
    BY <1>1 DEF Delta
  <2> QED
    BY <2>1, ChatFrames, TurnGoesOn
<1>2. CASE ChatThrows(c)
  <2>1. PICK from : ChatMoves(c, from, "failed")
    BY <1>2 DEF ChatThrows
  <2>2. Tell(<<>>, Callers(Call("chat.send", c)), <<Reply(Call("chat.send", c), FALSE)>>)
    BY <1>2 DEF ChatThrows
  <2> QED
    BY <2>1, <2>2, NoFrames, TurnEnds
<1>3. CASE Round(c)
  <2>1. PICK from \in {"streaming", "spoken"}, hasText \in {FALSE, chat[c] = "spoken"} :
          \/ /\ ChatMoves(c, from, "streaming")
             /\ Broadcast(<<Turn("assistant", c, hasText)>>)
          \/ /\ ChatMoves(c, from, "calling")
             /\ Broadcast(<<Turn("assistant", c, hasText), Frame("tool", c)>>)
    BY <1>3 DEF Round
  <2>2. hasText \in BOOLEAN
    OBVIOUS
  <2> QED
    BY <2>1, <2>2, ChatFrames, TurnGoesOn
<1>5. CASE ToolReturns(c)
  <2>1. \/ /\ ChatMoves(c, "calling", "streaming")
           /\ Broadcast(<<Frame("toolResult", c)>>)
        \/ /\ ChatMoves(c, "calling", "calling")
           /\ Broadcast(<<Frame("toolResult", c), Frame("tool", c)>>)
    BY <1>5 DEF ToolReturns
  <2> QED
    BY <2>1, ChatFrames, TurnGoesOn
<1>4. CASE Settle(c)
  <2>1. PICK from : ChatMoves(c, from, "done")
    BY <1>4 DEF Settle
  <2>2. PICK hasText \in BOOLEAN :
          Tell(<<Turn("assistant", c, hasText)>>, Callers(Call("chat.send", c)),
               <<Reply(Call("chat.send", c), TRUE)>>)
    BY <1>4 DEF Settle
  <2> QED
    BY <2>1, <2>2, ChatFrames, TurnEnds
<1> QED
  BY <1>1, <1>2, <1>3, <1>4, <1>5 DEF ChatStep

-----------------------------------------------------------------------------
(* A call that arrives at the daemon is answered, planned or chatted about.    *)
LEMMA DispatchKeeps ==
  ASSUME DeskInv, NEW w \in Windows, uplink[w] # <<>>, DaemonOnly,
         uplink' = [uplink EXCEPT ![w] = Tail(@)],
         NEW callers, NEW reply, Told(callers, reply), WindowsShowTheStream',
         NEW call, call = Head(uplink[w]), InHand(w, call)',
         chat' \in [Chats -> ChatStages],
         \A o \in Objects : stage[o] = "planning" => stage'[o] = "planning",
         \A c \in Chats : chat[c] \notin {"unsent", "done", "failed"}
                            => chat'[c] \notin {"unsent", "done", "failed"}
  PROVE  DeskInv'
<1>1. uplink \in [Windows -> Seq(Calls)] /\ uplink[w] \in Seq(Calls)
  BY DEF DeskInv, DeskTyped
<1>2. /\ Tail(uplink[w]) \in Seq(Calls)
      /\ \A k \in ToSet(uplink[w]) : k = call \/ k \in ToSet(Tail(uplink[w]))
  BY <1>1, HeadSet
<1>3. uplink'[w] = Tail(uplink[w]) /\ \A v \in Windows \ {w} : uplink'[v] = uplink[v]
  BY <1>1
<1>4. uplink' \in [Windows -> Seq(Calls)]
  BY <1>1, <1>2
<1>5. \A v \in Windows \ attached : uplink'[v] = <<>>
  BY <1>3 DEF DeskInv, SocketsFit
<1>6. ASSUME NEW v \in Windows, NEW k \in waiting[v]
      PROVE  /\ k \in ToSet(uplink[v]) => InHand(v, k)'
             /\ k.method = "run.plan" /\ stage[k.arg] = "planning" => InHand(v, k)'
             /\ k.method = "chat.send" /\ chat[k.arg] \notin {"unsent", "done", "failed"}
                  => InHand(v, k)'
  <2>1. k \in Calls
    BY <1>6 DEF DeskInv, DeskTyped
  <2>2. ASSUME k \in ToSet(uplink[v]) PROVE InHand(v, k)'
    <3>1. CASE v = w /\ k = call
      BY <3>1
    <3>2. CASE ~(v = w /\ k = call)
      <4>1. k \in ToSet(uplink'[v])
        BY <1>2, <1>3, <2>2, <3>2
      <4> QED
        BY <4>1 DEF InHand
    <3> QED
      BY <3>1, <3>2
  <2>3. ASSUME k.method = "run.plan", stage[k.arg] = "planning" PROVE InHand(v, k)'
    <3>1. k.arg \in Objects
      BY <2>1, <2>3 DEF Calls
    <3>2. stage'[k.arg] = "planning"
      BY <2>3, <3>1
    <3> QED
      BY <2>3, <3>2 DEF InHand
  <2>4. ASSUME k.method = "chat.send", chat[k.arg] \notin {"unsent", "done", "failed"}
        PROVE  InHand(v, k)'
    <3>1. k.arg \in Chats
      BY <2>1, <2>4 DEF Calls
    <3>2. chat'[k.arg] \notin {"unsent", "done", "failed"}
      BY <2>4, <3>1
    <3> QED
      BY <2>4, <3>2 DEF InHand
  <2> QED
    BY <2>2, <2>3, <2>4
<1>7. KeepsCalls
  BY <1>6 DEF KeepsCalls
<1> QED
  BY <1>4, <1>5, <1>7, DaemonSpeaks

\* The daemon answers the window at once, with a word to everybody or none.
LEMMA DispatchReplies ==
  ASSUME DeskInv, NEW w \in Windows, uplink[w] # <<>>, DaemonOnly,
         uplink' = [uplink EXCEPT ![w] = Tail(@)],
         NEW call, call = Head(uplink[w]), NEW ok \in BOOLEAN,
         NEW frames \in Seq(Frames), Tell(frames, {w}, <<Reply(call, ok)>>),
         UNCHANGED chat,
         \A o \in Objects : stage[o] = "planning" => stage'[o] = "planning"
  PROVE  DeskInv'
<1>1. w \in attached
  BY DEF DeskInv, SocketsFit
<1>2. call \in Calls
  <2>1. uplink[w] \in Seq(Calls)
    BY DEF DeskInv, DeskTyped
  <2> QED
    BY <2>1, HeadSet
<1>3. <<Reply(call, ok)>> \in Answers
  BY <1>2, RepliesAnswer
<1>4. Told({w}, <<Reply(call, ok)>>) /\ WindowsShowTheStream'
  BY <1>3, TellTells DEF DeskInv, DaemonOnly
<1>5. InHand(w, call)'
  BY <1>1, <1>2, <1>4, RepliedIsInHand
<1>6. /\ chat' \in [Chats -> ChatStages]
      /\ \A c \in Chats : chat[c] \notin {"unsent", "done", "failed"}
                            => chat'[c] \notin {"unsent", "done", "failed"}
  BY DEF DeskInv, DeskTyped
<1> HIDE DEF Reply
<1> QED
  BY <1>4, <1>5, <1>6, DispatchKeeps

LEMMA DispatchIsInOrder ==
  ASSUME MInv, DeskInv, NEW w \in Windows, Dispatch(w)
  PROVE  DeskInv'
<1> DEFINE call == Head(uplink[w])
<1>1. /\ uplink[w] # <<>> /\ DaemonOnly
      /\ uplink' = [uplink EXCEPT ![w] = Tail(@)]
  BY DEF Dispatch
<1>a. PICK k : k = call
  OBVIOUS
<1>2. CASE Refused(w, call)
  <2>1. /\ Tell(<<>>, {w}, <<Reply(k, FALSE)>>) /\ UNCHANGED chat
        /\ \A o \in Objects : stage[o] = "planning" => stage'[o] = "planning"
    BY <1>a, <1>2 DEF Refused, vars
  <2> HIDE DEF call
  <2> QED
    BY <1>1, <1>a, <2>1, NoFrames, DispatchReplies DEF call
<1>3. CASE PlanAsked(call)
  <2>1. PICK o \in Objects : /\ k = Call("run.plan", o) /\ Plan(o) /\ UNCHANGED chat
                             /\ Broadcast(<<Turn("user", o, TRUE)>>)
    BY <1>a, <1>3 DEF PlanAsked
  <2>2. Turn("user", o, TRUE) \in Frames
    BY DEF Turn, Frames, Turns, Messages
  <2>3. <<Turn("user", o, TRUE)>> \in Seq(Frames)
    BY <2>2, FewAreSeq
  <2>4. Told({}, <<>>) /\ WindowsShowTheStream'
    BY <1>1, <2>1, <2>3, NoFrames, TellTells DEF DeskInv, DaemonOnly, Broadcast
  <2>5. stage'[o] = "planning" /\ \A p \in Objects : stage[p] = "planning" => stage'[p] = "planning"
    BY <2>1 DEF Plan, MInv, TypeOK
  <2>6. InHand(w, k)'
    BY <2>1, <2>5 DEF InHand, Call
  <2>7. /\ chat' \in [Chats -> ChatStages]
        /\ \A c \in Chats : chat[c] \notin {"unsent", "done", "failed"}
                              => chat'[c] \notin {"unsent", "done", "failed"}
    BY <2>1 DEF DeskInv, DeskTyped
  <2> QED
    BY <1>1, <1>a, <2>4, <2>5, <2>6, <2>7, DispatchKeeps
<1>4. CASE ChatAsked(call)
  <2>1. PICK c \in Chats : /\ k = Call("chat.send", c) /\ UNCHANGED vars
                           /\ chat' = [chat EXCEPT ![c] = "streaming"]
                           /\ Broadcast(<<Turn("user", c, TRUE)>>)
    BY <1>a, <1>4 DEF ChatAsked
  <2>2. <<Turn("user", c, TRUE)>> \in Seq(Frames)
    BY ChatFrames
  <2>3. Told({}, <<>>) /\ WindowsShowTheStream'
    BY <1>1, <2>1, <2>2, NoFrames, TellTells DEF DeskInv, DaemonOnly, Broadcast
  <2>4. /\ chat' \in [Chats -> ChatStages] /\ chat'[c] = "streaming"
        /\ \A b \in Chats : chat[b] \notin {"unsent", "done", "failed"}
                              => chat'[b] \notin {"unsent", "done", "failed"}
    BY <2>1 DEF DeskInv, DeskTyped, ChatStages
  <2>5. InHand(w, k)'
    BY <2>1, <2>4 DEF InHand, Call
  <2>6. \A o \in Objects : stage[o] = "planning" => stage'[o] = "planning"
    BY <2>1 DEF vars
  <2> QED
    BY <1>1, <1>a, <2>3, <2>4, <2>5, <2>6, DispatchKeeps
<1>5. CASE StartAsked(w, call)
  <2>1. PICK i \in Ids :
          /\ k = Call("run.start", i) /\ UNCHANGED chat
          /\ \/ Tell(<<>>, {w}, <<Reply(k, FALSE)>>) /\ UNCHANGED vars
             \/ Tell(<<>>, {w}, <<Reply(k, TRUE)>>) /\ UNCHANGED vars
             \/ /\ Tell(<<Frame("run.started", i)>>, {w}, <<Reply(k, TRUE)>>)
                /\ Start(i)
    BY <1>a, <1>5 DEF StartAsked
  <2>2. \A o \in Objects : stage[o] = "planning" => stage'[o] = "planning"
    <3>1. CASE UNCHANGED vars
      BY <3>1 DEF vars
    <3>2. CASE Start(i)
      <4>1. stage' = [stage EXCEPT ![plans[i]] = "running"] /\ plans[i] # Nothing
        BY <3>2 DEF Start
      <4>2. plans[i] \in Objects /\ stage[plans[i]] # "planning"
        BY <4>1 DEF MInv, TypeOK, PlansAreProposed
      <4> QED
        BY <4>1, <4>2 DEF MInv, TypeOK
    <3> QED
      BY <2>1, <3>1, <3>2
  <2>3. Frame("run.started", i) \in Frames
    BY DEF Frame, Frames, Notices, Values
  <2>4. PICK frames \in Seq(Frames), ok \in BOOLEAN : Tell(frames, {w}, <<Reply(k, ok)>>)
    BY <2>1, <2>3, NoFrames, FewAreSeq
  <2> QED
    BY <1>1, <1>a, <2>1, <2>2, <2>4, DispatchReplies
<1>6. CASE RejectAsked(w, call)
  <2>1. Tell(<<>>, {w}, <<Reply(k, TRUE)>>) /\ UNCHANGED <<chat, stage>>
    BY <1>a, <1>6 DEF RejectAsked, Reject, vars
  <2>2. \A o \in Objects : stage[o] = "planning" => stage'[o] = "planning"
    BY <2>1
  <2> QED
    BY <1>1, <1>a, <2>1, <2>2, NoFrames, DispatchReplies
<1>7. CASE CancelAsked(w, call)
  <2>1. Tell(<<>>, {w}, <<Reply(k, TRUE)>>) /\ UNCHANGED <<chat, stage>>
    BY <1>a, <1>7 DEF CancelAsked, Cancel, vars
  <2>2. \A o \in Objects : stage[o] = "planning" => stage'[o] = "planning"
    BY <2>1
  <2> QED
    BY <1>1, <1>a, <2>1, <2>2, NoFrames, DispatchReplies
<1>8. CASE NodesAsked(w, call)
  <2>1. PICK ok \in BOOLEAN : Tell(<<>>, {w}, <<Reply(k, ok)>>)
    BY <1>a, <1>8 DEF NodesAsked
  <2>2. UNCHANGED <<chat, stage>>
    BY <1>8 DEF NodesAsked, vars
  <2>3. \A o \in Objects : stage[o] = "planning" => stage'[o] = "planning"
    BY <2>2
  <2> QED
    BY <1>1, <1>a, <2>1, <2>2, <2>3, NoFrames, DispatchReplies
<1> QED
  BY <1>2, <1>3, <1>4, <1>5, <1>6, <1>7, <1>8 DEF Dispatch

-----------------------------------------------------------------------------
(* The windows.  What a window asks for is on its way before it waits for it.  *)
LEMMA PutKeeps ==
  ASSUME DeskTyped, NEW w \in Windows, NEW call \in Calls, Put(w, call)
  PROVE  /\ uplink' \in [Windows -> Seq(Calls)] /\ waiting' \in [Windows -> SUBSET Calls]
         /\ \A v \in Windows \ {w} : uplink'[v] = uplink[v] /\ waiting'[v] = waiting[v]
         /\ ToSet(uplink[w]) \subseteq ToSet(uplink'[w])
         /\ \A k \in waiting'[w] : k \in waiting[w] \/ k \in ToSet(uplink'[w])
<1>1. uplink \in [Windows -> Seq(Calls)] /\ waiting \in [Windows -> SUBSET Calls]
  BY DEF DeskTyped
<1>2. uplink[w] \in Seq(Calls) /\ waiting[w] \in SUBSET Calls
  BY <1>1
<1>3. /\ Append(uplink[w], call) \in Seq(Calls)
      /\ call \in ToSet(Append(uplink[w], call))
      /\ ToSet(uplink[w]) \subseteq ToSet(Append(uplink[w], call))
  BY <1>2, AppendSet
<1>4. /\ uplink' = [uplink EXCEPT ![w] = Append(uplink[w], call)]
      /\ waiting' = [waiting EXCEPT ![w] = waiting[w] \cup {call}]
  BY DEF Put
<1> HIDE DEF Put
<1> QED
  BY <1>1, <1>2, <1>3, <1>4

LEMMA AsksKeep ==
  ASSUME DeskInv, NEW w \in attached, NEW call \in Calls, Put(w, call),
         UNCHANGED downlink, WindowOnly, screen' \in [Windows -> Screens],
         \A v \in Windows : screen'[v].thread = screen[v].thread
  PROVE  DeskInv'
<1>1. DeskTyped /\ SocketsFit /\ w \in Windows
  BY DEF DeskInv, DeskTyped
<1>2. /\ uplink' \in [Windows -> Seq(Calls)] /\ waiting' \in [Windows -> SUBSET Calls]
      /\ \A v \in Windows \ {w} : uplink'[v] = uplink[v] /\ waiting'[v] = waiting[v]
      /\ ToSet(uplink[w]) \subseteq ToSet(uplink'[w])
      /\ \A k \in waiting'[w] : k \in waiting[w] \/ k \in ToSet(uplink'[w])
  BY <1>1, PutKeeps
<1>3. DeskTyped'
  BY <1>1, <1>2 DEF DeskTyped, WindowOnly
<1>4. SocketsFit'
  BY <1>1, <1>2 DEF SocketsFit, WindowOnly
<1>5. WindowsShowTheStream'
  BY DEF DeskInv, WindowsShowTheStream, RowsUnderWay, WindowOnly
<1>6. ASSUME NEW v \in Windows, NEW k \in waiting'[v]
      PROVE  InHand(v, k)'
  <2>1. CASE k \in ToSet(uplink'[v])
    BY <2>1 DEF InHand
  <2>2. CASE k \notin ToSet(uplink'[v])
    <3>1. k \in waiting[v] /\ k \notin ToSet(uplink[v])
      BY <1>2, <1>6, <2>2
    <3>2. InHand(v, k)
      BY <3>1 DEF DeskInv, CallsAreInHand
    <3> QED
      BY <3>1, <3>2 DEF InHand, WindowOnly, vars
  <2> QED
    BY <2>1, <2>2
<1>7. CallsAreInHand'
  BY <1>6 DEF CallsAreInHand
<1> QED
  BY <1>3, <1>4, <1>5, <1>7 DEF DeskInv

LEMMA SendStep ==
  ASSUME DeskInv, NEW w \in Windows, NEW m \in Messages, Send(w, m)
  PROVE  DeskInv'
<1>1. Call(Method(m), m) \in Calls
  BY DEF Call, Method, Calls, Messages
<1>2. /\ w \in attached /\ Put(w, Call(Method(m), m)) /\ UNCHANGED downlink /\ WindowOnly
      /\ screen' = [screen EXCEPT ![w].busy = TRUE]
  BY DEF Send
<1>3. /\ screen' \in [Windows -> Screens]
      /\ \A v \in Windows : screen'[v].thread = screen[v].thread
  BY <1>2 DEF DeskInv, DeskTyped, Screens
<1> QED
  BY <1>1, <1>2, <1>3, AsksKeep

LEMMA ApproveStep ==
  ASSUME DeskInv, NEW w \in Windows, Approve(w)
  PROVE  DeskInv'
<1>1. screen \in [Windows -> Screens] /\ screen[w].plan \in Values
  BY DEF DeskInv, DeskTyped, Screens
<1>2. Call("run.start", screen[w].plan) \in Calls
  BY <1>1 DEF Call, Calls
<1>3. /\ w \in attached /\ Put(w, Call("run.start", screen[w].plan))
      /\ UNCHANGED downlink /\ WindowOnly
      /\ screen' = [screen EXCEPT ![w].busy = TRUE]
  BY DEF Approve
<1>4. /\ screen' \in [Windows -> Screens]
      /\ \A v \in Windows : screen'[v].thread = screen[v].thread
  BY <1>1, <1>3 DEF Screens
<1> QED
  BY <1>2, <1>3, <1>4, AsksKeep

LEMMA TurnDownStep ==
  ASSUME DeskInv, NEW w \in Windows, TurnDown(w)
  PROVE  DeskInv'
<1>1. screen \in [Windows -> Screens] /\ screen[w].plan \in Values
  BY DEF DeskInv, DeskTyped, Screens
<1>2. Call("run.reject", screen[w].plan) \in Calls
  BY <1>1 DEF Call, Calls
<1>3. /\ w \in attached /\ Put(w, Call("run.reject", screen[w].plan))
      /\ UNCHANGED downlink /\ WindowOnly
      /\ screen' = [screen EXCEPT ![w].plan = Unset]
  BY DEF TurnDown
<1>4. /\ screen' \in [Windows -> Screens]
      /\ \A v \in Windows : screen'[v].thread = screen[v].thread
  BY <1>1, <1>3 DEF Screens, Values
<1> QED
  BY <1>2, <1>3, <1>4, AsksKeep

LEMMA CancelStep ==
  ASSUME DeskInv, NEW w \in Windows, PressCancel(w)
  PROVE  DeskInv'
<1>1. screen \in [Windows -> Screens] /\ screen[w].runId \in Values
  BY DEF DeskInv, DeskTyped, Screens
<1>2. Call("run.cancel", screen[w].runId) \in Calls
  BY <1>1 DEF Call, Calls
<1>3. /\ w \in attached /\ Put(w, Call("run.cancel", screen[w].runId))
      /\ UNCHANGED <<downlink, screen>> /\ WindowOnly
  BY DEF PressCancel
<1> QED
  BY <1>1, <1>2, <1>3, AsksKeep

LEMMA ShownTyped ==
  ASSUME NEW s \in Screens, NEW f \in Turns \cup Works \cup Notices
  PROVE  Shown(s, f) \in Screens /\ Shown(s, f).thread = s.thread \o RowsOf(f)
<1>1. s.thread \in Seq(Rows) /\ RowsOf(f) \in Seq(Rows)
  BY RowsTyped DEF Screens, Frames
<1>2. s.thread \o RowsOf(f) \in Seq(Rows)
  BY <1>1, ConcatProperties
<1>3. CASE f \in Turns
  <2>1. Shown(s, f) = [s EXCEPT !.bubble = {}, !.thread = s.thread \o RowsOf(f)]
    BY <1>3 DEF Turns, Shown
  <2> QED
    BY <1>2, <2>1 DEF Screens
<1>4. CASE f \in Works /\ f.kind # "delta"
  <2>1. Shown(s, f) = [s EXCEPT !.thread = s.thread \o RowsOf(f)]
    BY <1>4 DEF Works, Shown
  <2> QED
    BY <1>2, <2>1 DEF Screens
<1>5. ASSUME f.kind \in {"delta", "run.proposed", "run.started", "run.finished"},
             Shown(s, f) \in Screens, Shown(s, f).thread = s.thread
      PROVE  Shown(s, f).thread = s.thread \o RowsOf(f)
  <2>1. RowsOf(f) = <<>>
    BY <1>5 DEF RowsOf
  <2> QED
    BY <1>1, <1>5, <2>1, ConcatEmptySeq
<1>6. CASE f \in Works /\ f.kind = "delta"
  <2>1. Shown(s, f) = [s EXCEPT !.bubble = s.bubble \cup {f.of}] /\ f.of \in Messages
    BY <1>6 DEF Works, Shown
  <2>2. Shown(s, f) \in Screens /\ Shown(s, f).thread = s.thread
    BY <2>1 DEF Screens
  <2> QED
    BY <1>5, <1>6, <2>2
<1>7. CASE f \in Notices /\ f.kind = "run.proposed"
  <2>1. /\ Shown(s, f) = [s EXCEPT !.plan = f.of, !.nodes = f.of, !.runId = f.of, !.busy = FALSE]
        /\ f.of \in Values
    BY <1>7 DEF Notices, Shown
  <2>2. Shown(s, f) \in Screens /\ Shown(s, f).thread = s.thread
    BY <2>1 DEF Screens
  <2> QED
    BY <1>5, <1>7, <2>2
<1>8. CASE f \in Notices /\ f.kind = "run.started"
  <2>1. Shown(s, f) = [s EXCEPT !.plan = Unset] /\ Unset \in Values
    BY <1>8 DEF Notices, Shown, Values
  <2>2. Shown(s, f) \in Screens /\ Shown(s, f).thread = s.thread
    BY <2>1 DEF Screens
  <2> QED
    BY <1>5, <1>8, <2>2
<1>9. CASE f \in Notices /\ f.kind = "run.finished"
  <2>1. Shown(s, f) = [s EXCEPT !.busy = FALSE]
    BY <1>9 DEF Notices, Shown
  <2>2. Shown(s, f) \in Screens /\ Shown(s, f).thread = s.thread
    BY <2>1 DEF Screens
  <2> QED
    BY <1>5, <1>9, <2>2
<1> QED
  BY <1>3, <1>4, <1>6, <1>7, <1>8, <1>9 DEF Notices

LEMMA ReceiveKeeps ==
  ASSUME DeskInv, NEW w \in Windows, downlink[w] # <<>>, WindowOnly,
         downlink' = [downlink EXCEPT ![w] = Tail(@)],
         NEW f, f = Head(downlink[w]),
         screen' \in [Windows -> Screens],
         screen'[w].thread = screen[w].thread \o RowsOf(f),
         \A v \in Windows \ {w} : screen'[v] = screen[v],
         uplink' \in [Windows -> Seq(Calls)], waiting' \in [Windows -> SUBSET Calls],
         \A v \in Windows \ {w} : uplink'[v] = uplink[v] /\ waiting'[v] = waiting[v],
         ToSet(uplink[w]) \subseteq ToSet(uplink'[w]),
         \A k \in waiting'[w] : k \in waiting[w] \/ k \in ToSet(uplink'[w]),
         \A k \in waiting'[w] : f.kind = "reply" => k # f.call
  PROVE  DeskInv'
<1>1. w \in attached /\ downlink \in [Windows -> Seq(Frames)] /\ downlink[w] \in Seq(Frames)
  BY DEF DeskInv, DeskTyped, SocketsFit
<1>2. /\ f \in Frames /\ Tail(downlink[w]) \in Seq(Frames)
      /\ Spoken(downlink[w]) = RowsOf(f) \o Spoken(Tail(downlink[w]))
  BY <1>1, SpokenHead
<1>3. \A x \in ToSet(downlink[w]) : x = f \/ x \in ToSet(Tail(downlink[w]))
  BY <1>1, HeadSet
<1>4. downlink'[w] = Tail(downlink[w]) /\ \A v \in Windows \ {w} : downlink'[v] = downlink[v]
  BY <1>1
<1>5. DeskTyped'
  BY <1>1, <1>2 DEF DeskInv, DeskTyped, WindowOnly
<1>6. SocketsFit'
  BY <1>1, <1>4 DEF DeskInv, SocketsFit, WindowOnly
<1>7. ASSUME NEW v \in Windows \ lost
      PROVE  screen'[v].thread \o Spoken(downlink'[v]) = said
  <2>1. screen[v].thread \o Spoken(downlink[v]) = said
    BY <1>7, StreamIsSpoken DEF DeskInv
  <2>2. CASE v = w
    <3>1. screen[w].thread \in Seq(Rows)
      BY DEF DeskInv, DeskTyped, Screens
    <3>2. RowsOf(f) \in Seq(Rows) /\ Spoken(Tail(downlink[w])) \in Seq(Rows)
      BY <1>2, RowsTyped, SpokenTyped
    <3>3. \A x, y, z \in Seq(Rows) : x \o (y \o z) = (x \o y) \o z
      BY Associates
    <3>4. screen[w].thread \o (RowsOf(f) \o Spoken(Tail(downlink[w])))
            = (screen[w].thread \o RowsOf(f)) \o Spoken(Tail(downlink[w]))
      BY <3>1, <3>2, <3>3, Zenon
    <3> QED
      BY <1>2, <1>4, <2>1, <2>2, <3>4, Zenon
  <2>3. CASE v # w
    BY <1>4, <2>1, <2>3
  <2> QED
    BY <2>2, <2>3
<1>8. WindowsShowTheStream'
  BY <1>7 DEF WindowsShowTheStream, RowsUnderWay, Spoken, RowsEach, WindowOnly
<1>9. ASSUME NEW v \in Windows, NEW k \in waiting'[v]
      PROVE  InHand(v, k)'
  <2>1. CASE k \in ToSet(uplink'[v])
    BY <2>1 DEF InHand
  <2>2. CASE k \notin ToSet(uplink'[v])
    <3>1. k \in waiting[v] /\ k \notin ToSet(uplink[v])
      BY <1>9, <2>2
    <3>2. InHand(v, k)
      BY <3>1 DEF DeskInv, CallsAreInHand
    <3>3. ASSUME NEW ok \in BOOLEAN, Reply(k, ok) \in ToSet(downlink[v])
          PROVE  Reply(k, ok) \in ToSet(downlink'[v])
      <4>1. Reply(k, ok).kind = "reply" /\ Reply(k, ok).call = k
        BY DEF Reply
      <4>2. v = w => Reply(k, ok) # f
        BY <1>9, <4>1, Zenon
      <4> QED
        BY <1>3, <1>4, <3>3, <4>2
    <3> QED
      BY <3>1, <3>2, <3>3 DEF InHand, WindowOnly, vars
  <2> QED
    BY <2>1, <2>2
<1>10. CallsAreInHand'
  BY <1>9 DEF CallsAreInHand
<1> QED
  BY <1>5, <1>6, <1>8, <1>10 DEF DeskInv

LEMMA ErrorRowsTyped ==
  ASSUME NEW calls \in SUBSET Calls
  PROVE  ErrorRows(calls) \in SUBSET Messages
BY DEF ErrorRows, Calls, Messages

LEMMA ReceiveStep ==
  ASSUME DeskInv, NEW w \in Windows, Receive(w)
  PROVE  DeskInv'
<1>1. PICK f : f = Head(downlink[w])
  OBVIOUS
<1>2. /\ downlink[w] # <<>> /\ WindowOnly
      /\ downlink' = [downlink EXCEPT ![w] = Tail(@)]
  BY DEF Receive
<1>3. /\ downlink[w] \in Seq(Frames) /\ screen \in [Windows -> Screens] /\ DeskTyped
      /\ uplink \in [Windows -> Seq(Calls)] /\ waiting \in [Windows -> SUBSET Calls]
  BY DEF DeskInv, DeskTyped
<1>4. f \in Frames
  BY <1>1, <1>2, <1>3, HeadTailProperties
<1>5. CASE f.kind = "reply"
  <2>1. /\ waiting' = [waiting EXCEPT ![w] = @ \ {f.call}]
        /\ screen' = [screen EXCEPT
             ![w].busy = Settled(@, f.call, f.ok),
             ![w].nodes = Refreshed(@, f.call, f.ok),
             ![w].errors = @ \cup ErrorRows(IF f.ok THEN {} ELSE {f.call})]
        /\ UNCHANGED uplink
    BY <1>1, <1>5 DEF Receive
  <2>2. f \in Replies
    BY <1>4, <1>5 DEF Frames, Turns, Works, Notices
  <2>3. f.call \in Calls /\ RowsOf(f) = <<>>
    BY <2>2 DEF Replies, RowsOf
  <2>4. screen[w] \in Screens
    BY <1>3
  <2>5. Settled(screen[w].busy, f.call, f.ok) \in BOOLEAN
    BY <2>4 DEF Settled, Screens
  <2>6. Refreshed(screen[w].nodes, f.call, f.ok) \in Values
    BY <2>3, <2>4 DEF Refreshed, Screens, Calls
  <2> DEFINE errors == screen[w].errors \cup ErrorRows(IF f.ok THEN {} ELSE {f.call})
  <2> errors \in SUBSET Messages
    <3>1. (IF f.ok THEN {} ELSE {f.call}) \in SUBSET Calls
      BY <2>3
    <3> QED
      BY <2>4, <3>1, ErrorRowsTyped DEF Screens
  <2>7. screen'[w] = [screen[w] EXCEPT !.busy = Settled(screen[w].busy, f.call, f.ok),
                                       !.nodes = Refreshed(screen[w].nodes, f.call, f.ok),
                                       !.errors = errors]
    BY <1>3, <2>1, <2>4 DEF Screens
  <2> HIDE DEF errors
  <2>8. screen'[w] \in Screens /\ screen'[w].thread = screen[w].thread
    BY <2>4, <2>5, <2>6, <2>7 DEF Screens
  <2>9. screen'[w].thread = screen[w].thread \o RowsOf(f)
    <3>1. screen[w].thread \in Seq(Rows)
      BY <2>4 DEF Screens
    <3> QED
      BY <2>3, <2>8, <3>1, ConcatEmptySeq
  <2>10. \A v \in Windows \ {w} : screen'[v] = screen[v]
    BY <1>3, <2>1
  <2>11. screen' \in [Windows -> Screens]
    BY <1>3, <2>1, <2>8, <2>10
  <2>12. /\ uplink' \in [Windows -> Seq(Calls)] /\ waiting' \in [Windows -> SUBSET Calls]
         /\ \A v \in Windows \ {w} : uplink'[v] = uplink[v] /\ waiting'[v] = waiting[v]
         /\ ToSet(uplink[w]) \subseteq ToSet(uplink'[w])
         /\ \A k \in waiting'[w] : k \in waiting[w] \/ k \in ToSet(uplink'[w])
         /\ \A k \in waiting'[w] : k # f.call
    BY <1>3, <2>1
  <2> QED
    BY <1>1, <1>2, <2>9, <2>10, <2>11, <2>12, ReceiveKeeps
<1>6. ASSUME f.kind # "reply", screen' = [screen EXCEPT ![w] = Shown(@, f)]
      PROVE  /\ screen' \in [Windows -> Screens]
             /\ screen'[w].thread = screen[w].thread \o RowsOf(f)
             /\ \A v \in Windows \ {w} : screen'[v] = screen[v]
  <2>1. f \in Turns \cup Works \cup Notices
    BY <1>4, <1>6 DEF Frames, Replies
  <2>2. screen[w] \in Screens
    BY <1>3
  <2>3. /\ Shown(screen[w], f) \in Screens
        /\ Shown(screen[w], f).thread = screen[w].thread \o RowsOf(f)
    BY <2>1, <2>2, ShownTyped
  <2> QED
    BY <1>3, <1>6, <2>3
<1>7. CASE f.kind = "run.finished"
  <2>1. screen' = [screen EXCEPT ![w] = Shown(@, f)] /\ Put(w, Call("run.nodes", f.of))
    BY <1>1, <1>7 DEF Receive
  <2>2. f.of \in Values
    BY <1>4, <1>7 DEF Frames, Turns, Works, Notices, Replies
  <2>3. Call("run.nodes", f.of) \in Calls
    BY <2>2 DEF Call, Calls
  <2>4. /\ uplink' \in [Windows -> Seq(Calls)] /\ waiting' \in [Windows -> SUBSET Calls]
        /\ \A v \in Windows \ {w} : uplink'[v] = uplink[v] /\ waiting'[v] = waiting[v]
        /\ ToSet(uplink[w]) \subseteq ToSet(uplink'[w])
        /\ \A k \in waiting'[w] : k \in waiting[w] \/ k \in ToSet(uplink'[w])
    BY <1>3, <2>1, <2>3, PutKeeps
  <2>5. f.kind # "reply"
    BY <1>7
  <2> QED
    BY <1>1, <1>2, <1>6, <2>1, <2>4, <2>5, ReceiveKeeps
<1>8. CASE f.kind \notin {"reply", "run.finished"}
  <2>1. screen' = [screen EXCEPT ![w] = Shown(@, f)] /\ UNCHANGED <<uplink, waiting>>
    BY <1>1, <1>8 DEF Receive
  <2>2. f.kind # "reply"
    BY <1>8
  <2> QED
    BY <1>1, <1>2, <1>3, <1>6, <2>1, <2>2, ReceiveKeeps
<1> QED
  BY <1>5, <1>7, <1>8

LEMMA CloseStep ==
  ASSUME DeskInv, NEW w \in Windows, Close(w)
  PROVE  DeskInv'
<1>1. DeskTyped /\ SocketsFit
  BY DEF DeskInv
<1>2. /\ w \in attached \ lost
      /\ attached' = attached \ {w} /\ lost' = lost \cup {w}
      /\ uplink' = [uplink EXCEPT ![w] = <<>>]
      /\ downlink' = [downlink EXCEPT ![w] = <<>>]
      /\ waiting' = [waiting EXCEPT ![w] = {}]
      /\ UNCHANGED <<vars, sent, chat, rounds, said>>
  BY DEF Close
<1>3. PICK b \in BOOLEAN, errors \in SUBSET Messages :
        screen' = [screen EXCEPT ![w].busy = b, ![w].errors = errors]
  <2>1. screen[w].busy \in BOOLEAN /\ screen[w].errors \in SUBSET Messages
    BY <1>1 DEF DeskTyped, Screens
  <2>2. ErrorRows(waiting[w]) \in SUBSET Messages
    BY <1>1, ErrorRowsTyped DEF DeskTyped
  <2> QED
    BY <2>1, <2>2 DEF Close
<1>4. screen' \in [Windows -> Screens] /\ \A v \in Windows \ {w} : screen'[v] = screen[v]
  BY <1>1, <1>3 DEF DeskTyped, Screens
<1>5. DeskTyped'
  <2>1. <<>> \in Seq(Calls) /\ <<>> \in Seq(Frames)
    OBVIOUS
  <2>2. /\ lost' \subseteq Windows /\ attached' \subseteq Windows
        /\ uplink' \in [Windows -> Seq(Calls)] /\ downlink' \in [Windows -> Seq(Frames)]
    BY <1>1, <1>2, <2>1 DEF DeskTyped
  <2>3. waiting' \in [Windows -> SUBSET Calls]
    BY <1>1, <1>2 DEF DeskTyped
  <2> QED
    BY <1>1, <1>2, <1>4, <2>2, <2>3 DEF DeskTyped
<1>6. SocketsFit'
  BY <1>1, <1>2 DEF DeskTyped, SocketsFit
<1>7. \A v \in Windows \ {w} : downlink'[v] = downlink[v]
  BY <1>1, <1>2 DEF DeskTyped
<1>8. WindowsShowTheStream'
  <2>1. \A v \in Windows \ lost' : screen'[v].thread \o Spoken(downlink'[v]) = said'
    BY <1>2, <1>4, <1>7, StreamIsSpoken DEF DeskInv
  <2> QED
    BY <2>1 DEF WindowsShowTheStream, RowsUnderWay, Spoken, RowsEach
<1>9. ASSUME NEW v \in Windows, NEW k \in waiting'[v]
      PROVE  InHand(v, k)'
  <2>1. v # w /\ k \in waiting[v]
    BY <1>1, <1>2, <1>9 DEF DeskTyped
  <2>2. InHand(v, k) /\ downlink'[v] = downlink[v] /\ uplink'[v] = uplink[v]
    BY <1>1, <1>2, <2>1 DEF DeskInv, CallsAreInHand, DeskTyped
  <2> QED
    BY <1>2, <2>2 DEF InHand, vars
<1>10. CallsAreInHand'
  BY <1>9 DEF CallsAreInHand
<1> QED
  BY <1>5, <1>6, <1>8, <1>10 DEF DeskInv

LEMMA ReconnectStep ==
  ASSUME DeskInv, NEW w \in Windows, Reconnect(w)
  PROVE  DeskInv'
<1>1. /\ attached' = attached \cup {w}
      /\ UNCHANGED <<vars, lost, uplink, waiting, downlink, sent, clicks, chat, rounds,
                     screen, said>>
  BY DEF Reconnect
<1>2. DeskTyped' /\ SocketsFit'
  BY <1>1 DEF DeskInv, DeskTyped, SocketsFit
<1>3. WindowsShowTheStream'
  BY <1>1 DEF DeskInv, WindowsShowTheStream, RowsUnderWay
<1>4. CallsAreInHand'
  BY <1>1 DEF DeskInv, CallsAreInHand, InHand, vars
<1> QED
  BY <1>2, <1>3, <1>4 DEF DeskInv

LEMMA TickStep ==
  ASSUME DeskInv, UNCHANGED deskVars, UNCHANGED stage
  PROVE  DeskInv'
<1>1. DeskTyped' /\ SocketsFit'
  BY DEF DeskInv, DeskTyped, SocketsFit, deskVars
<1>2. WindowsShowTheStream'
  BY DEF DeskInv, WindowsShowTheStream, RowsUnderWay, deskVars
<1>3. CallsAreInHand'
  BY DEF DeskInv, CallsAreInHand, InHand, deskVars
<1> QED
  BY <1>1, <1>2, <1>3 DEF DeskInv

-----------------------------------------------------------------------------
LEMMA DInvInit == DeskInit => DInv
<1> SUFFICES ASSUME DeskInit PROVE DInv
  OBVIOUS
<1>1. MInv
  BY MInvInit DEF DeskInit
<1>2. <<>> \in Seq(Rows) /\ <<>> \in Seq(Frames) /\ <<>> \in Seq(Calls) /\ <<>> \o <<>> = <<>>
  OBVIOUS
<1>3. Blank \in Screens
  BY <1>2 DEF Blank, Screens, Values
<1>4. DeskTyped
  BY <1>2, <1>3 DEF DeskInit, DeskTyped, ChatStages
<1>5. SocketsFit
  BY DEF DeskInit, SocketsFit
<1>6. ASSUME NEW w \in Windows
      PROVE  screen[w].thread \o Spoken(downlink[w]) = said
  <2>1. screen[w].thread = <<>> /\ downlink[w] = <<>> /\ said = <<>>
    BY DEF DeskInit, Blank
  <2> QED
    BY <1>2, <2>1, SpokenNone
<1>7. WindowsShowTheStream
  BY <1>6, StreamIsSpoken
<1>8. CallsAreInHand
  BY DEF DeskInit, CallsAreInHand
<1> QED
  BY <1>1, <1>4, <1>5, <1>7, <1>8 DEF DInv, DeskInv

LEMMA DInvStep == DInv /\ [DeskNext]_allVars => DInv'
<1> SUFFICES ASSUME DInv, [DeskNext]_allVars PROVE DInv'
  OBVIOUS
<1>1. MInv /\ DeskInv
  BY DEF DInv
<1>2. MInv'
  BY <1>1, DeskStepIsASessionStep, MInvStep
<1>3. DeskInv'
  <2>1. CASE UNCHANGED allVars
    BY <1>1, <2>1, TickStep DEF allVars, vars
  <2>2. CASE Tick /\ UNCHANGED deskVars
    BY <1>1, <2>2, TickStep DEF Tick
  <2>3. ASSUME NEW o \in Objects, PlanFails(o) \/ PlanProposed(o) \/ RunFinishes(o)
        PROVE  DeskInv'
    BY <1>1, <2>3, PlanFailsStep, PlanProposedStep, RunFinishesStep
  <2>4. ASSUME NEW c \in Chats, ChatStep(c) PROVE DeskInv'
    BY <1>1, <2>4, ChatIsInOrder
  <2>5. ASSUME NEW w \in Windows, Dispatch(w) PROVE DeskInv'
    BY <1>1, <2>5, DispatchIsInOrder
  <2>6. ASSUME NEW w \in Windows,
               \/ Receive(w) \/ Close(w) \/ Reconnect(w)
               \/ Approve(w) \/ TurnDown(w) \/ PressCancel(w)
               \/ \E m \in Messages : Send(w, m)
        PROVE  DeskInv'
    BY <1>1, <2>6, ReceiveStep, CloseStep, ReconnectStep, ApproveStep, TurnDownStep,
       CancelStep, SendStep
  <2> QED
    BY <2>1, <2>2, <2>3, <2>4, <2>5, <2>6 DEF DeskNext
<1> QED
  BY <1>2, <1>3 DEF DInv

THEOREM DeskInvariant == DeskSpec => []DInv
BY DInvInit, DInvStep, PTL DEF DeskSpec

\* Every window whose socket never closed shows the rows the daemon broadcast, in
\* their order and each once, up to the frames still under way to it: whichever
\* window a message was typed in, however many frames are under way.
THEOREM StreamIsTheSame == DeskSpec => []WindowsShowTheStream
BY DeskInvariant, PTL DEF DInv, DeskInv

\* No window waits for a call that is nowhere: it is on its way to the daemon,
\* worked on there, or its reply is on its way back, or the socket's close
\* rejected it.
THEOREM NoCallIsForgotten == DeskSpec => []CallsAreInHand
BY DeskInvariant, PTL DEF DInv, DeskInv
=============================================================================
