---------------------------- MODULE Daemon_proofs ----------------------------
(***************************************************************************)
(* What windows can rely on: the approval broker of the daemon, with any   *)
(* number of windows, requests and losses of their calls and frames; and   *)
(* listeners that live as long as their sockets, for any number of daemons *)
(* and of applications, whatever crashes, stops or is replaced; and the    *)
(* memory of a workspace, for any number of calls that index it at a time. *)
(***************************************************************************)
EXTENDS ApprovalBroker, Memory, TLAPS, SequenceTheorems, FiniteSetTheorems,
        WellFoundedInduction

CONSTANTS Daemons, Builds, Nobody, MaxOpens, BuildOf, MaxLaunches, MaxAttempts
VARIABLES proc, build, info, work, socket, listeners, crashes,
          main, target, child, window, attempts, launches

\* The sockets through which the clients of the broker reach a daemon.
App == INSTANCE Desktop WITH Windows <- Clients

-----------------------------------------------------------------------------
(* The inductive invariant: the broker has each request it waits for once,   *)
(* and only an answer to what was on a screen is under way to it.            *)
Frames == [kind : {"requested", "resolved", "reply"}, request : Requests]
Calls == [client : Clients, request : Requests, granted : BOOLEAN]

PendingOnce == \A i, j \in DOMAIN pending : pending[i] = pending[j] => i = j

YesIsSaid == \A m \in uplink : m.granted => m.request \in yes

BInv == TypeOK /\ PendingOnce /\ PendingIsWaiting /\ YesIsSaid

\* What is left of a sequence without repetition when an element leaves it.
LEMMA Removed ==
  ASSUME NEW S, NEW s \in Seq(S), \A i, j \in DOMAIN s : s[i] = s[j] => i = j,
         NEW k \in DOMAIN s
  PROVE  /\ RemoveAt(s, k) \in Seq(S)
         /\ \A i, j \in DOMAIN RemoveAt(s, k) : RemoveAt(s, k)[i] = RemoveAt(s, k)[j] => i = j
         /\ ToSet(RemoveAt(s, k)) = ToSet(s) \ {s[k]}
<1> DEFINE a == SubSeq(s, 1, k - 1)
           b == SubSeq(s, k + 1, Len(s))
           r == a \o b
           at(i) == IF i < k THEN i ELSE i + 1
<1>1. Len(s) \in Nat /\ DOMAIN s = 1 .. Len(s) /\ k \in 1 .. Len(s)
  BY LenProperties
<1>2. \A i \in 1 .. Len(s) : s[i] \in S
  BY ElementOfSeq
<1>3. a \in Seq(S) /\ Len(a) = k - 1 /\ \A i \in 1 .. k - 1 : a[i] = s[i]
  <2>1. \A i \in 1 .. k - 1 : s[i] \in S
    BY <1>1, <1>2
  <2>2. /\ a \in Seq(S) /\ Len(a) = (IF 1 <= k - 1 THEN (k - 1) - 1 + 1 ELSE 0)
        /\ \A i \in 1 .. (k - 1) - 1 + 1 : a[i] = s[1 + i - 1]
    BY <1>1, <2>1, SubSeqProperties
  <2>3. (k - 1) - 1 + 1 = k - 1 /\ \A i \in 1 .. k - 1 : 1 + i - 1 = i
    BY <1>1
  <2>4. (IF 1 <= k - 1 THEN (k - 1) - 1 + 1 ELSE 0) = k - 1
    BY <1>1
  <2> QED
    BY <2>2, <2>3, <2>4
<1>4. b \in Seq(S) /\ Len(b) = Len(s) - k /\ \A i \in 1 .. Len(s) - k : b[i] = s[k + i]
  <2>1. \A i \in k + 1 .. Len(s) : s[i] \in S
    BY <1>1, <1>2
  <2>2. /\ b \in Seq(S) /\ Len(b) = (IF k + 1 <= Len(s) THEN Len(s) - (k + 1) + 1 ELSE 0)
        /\ \A i \in 1 .. Len(s) - (k + 1) + 1 : b[i] = s[(k + 1) + i - 1]
    BY <1>1, <2>1, SubSeqProperties
  <2>3. Len(s) - (k + 1) + 1 = Len(s) - k /\ \A i \in 1 .. Len(s) - k : (k + 1) + i - 1 = k + i
    BY <1>1
  <2>4. (IF k + 1 <= Len(s) THEN Len(s) - (k + 1) + 1 ELSE 0) = Len(s) - k
    BY <1>1
  <2> QED
    BY <2>2, <2>3, <2>4
<1> HIDE DEF a, b
<1>5. /\ r \in Seq(S) /\ Len(r) = Len(s) - 1
      /\ \A i \in 1 .. Len(s) - 1 : r[i] = s[at(i)] /\ at(i) \in 1 .. Len(s) /\ at(i) # k
  <2>1. /\ r \in Seq(S) /\ Len(r) = Len(a) + Len(b)
        /\ \A i \in 1 .. Len(a) + Len(b) : r[i] = IF i <= Len(a) THEN a[i] ELSE b[i - Len(a)]
    <3>1. a \in Seq(S) /\ b \in Seq(S)
      BY <1>3, <1>4
    <3> QED
      BY <3>1, ConcatProperties, Zenon
  <2>2. Len(a) + Len(b) = Len(s) - 1
    BY <1>1, <1>3, <1>4
  <2>3. ASSUME NEW i \in 1 .. Len(s) - 1
        PROVE  r[i] = s[at(i)] /\ at(i) \in 1 .. Len(s) /\ at(i) # k
    <3>1. CASE i < k
      <4>1. i \in 1 .. k - 1 /\ i <= Len(a) /\ at(i) = i /\ i \in 1 .. Len(s)
        BY <1>1, <1>3, <3>1
      <4> QED
        BY <1>3, <2>1, <2>2, <3>1, <4>1
    <3>2. CASE ~(i < k)
      <4>1. /\ i - (k - 1) \in 1 .. Len(s) - k /\ ~(i <= k - 1)
            /\ k + (i - (k - 1)) = i + 1 /\ i + 1 \in 1 .. Len(s) /\ i + 1 # k
        BY <1>1, <3>2
      <4>2. r[i] = b[i - (k - 1)]
        BY <1>3, <1>4, <2>1, <2>2, <4>1
      <4>3. b[i - (k - 1)] = s[i + 1]
        BY <1>4, <4>1
      <4> QED
        BY <3>2, <4>1, <4>2, <4>3
    <3> QED
      BY <3>1, <3>2
  <2> QED
    BY <2>1, <2>2, <2>3
<1>6. RemoveAt(s, k) = r /\ DOMAIN r = 1 .. Len(s) - 1
  BY <1>5, LenProperties DEF RemoveAt, a, b
<1> HIDE DEF r
<1>7. \A i, j \in 1 .. Len(s) - 1 : at(i) = at(j) => i = j
  BY <1>1
<1>8. ASSUME NEW i \in 1 .. Len(s), i # k
      PROVE  \E j \in 1 .. Len(s) - 1 : at(j) = i
  <2>1. CASE i < k
    BY <1>1, <2>1
  <2>2. CASE i > k
    <3>1. i - 1 \in 1 .. Len(s) - 1 /\ at(i - 1) = i
      BY <1>1, <2>2
    <3> QED
      BY <3>1
  <2> QED
    BY <1>1, <1>8, <2>1, <2>2
<1> HIDE DEF at
<1>9. ASSUME NEW i \in DOMAIN r, NEW j \in DOMAIN r, r[i] = r[j]
      PROVE  i = j
  <2>1. at(i) = at(j)
    BY <1>1, <1>5, <1>6, <1>9
  <2> QED
    BY <1>6, <1>7, <2>1
<1>10. ToSet(r) = ToSet(s) \ {s[k]}
  <2>1. ASSUME NEW i \in DOMAIN r
        PROVE  r[i] \in {s[j] : j \in DOMAIN s} \ {s[k]}
    BY <1>1, <1>5, <1>6
  <2>2. ASSUME NEW i \in DOMAIN s, s[i] # s[k]
        PROVE  s[i] \in {r[j] : j \in DOMAIN r}
    <3>1. i # k
      BY <2>2
    <3>2. PICK j \in 1 .. Len(s) - 1 : at(j) = i
      BY <1>1, <1>8, <3>1
    <3> QED
      BY <1>5, <1>6, <3>2
  <2> QED
    BY <2>1, <2>2 DEF ToSet
<1> QED
  BY <1>5, <1>6, <1>9, <1>10

\* What the broker forgets.
LEMMA ForgetsOne ==
  ASSUME TypeOK, PendingOnce, NEW r \in Requests, Outstanding(r)
  PROVE  /\ Forgotten(r) \in Seq(Requests) /\ ToSet(Forgotten(r)) = ToSet(pending) \ {r}
         /\ \A i, j \in DOMAIN Forgotten(r) : Forgotten(r)[i] = Forgotten(r)[j] => i = j
<1> DEFINE k == CHOOSE i \in DOMAIN pending : pending[i] = r
<1>1. \E i \in DOMAIN pending : pending[i] = r
  BY DEF Outstanding, ToSet
<1>2. k \in DOMAIN pending /\ pending[k] = r
  BY <1>1
<1> HIDE DEF k
<1>3. pending \in Seq(Requests)
  BY DEF TypeOK
<1>4. Forgotten(r) = RemoveAt(pending, k)
  BY DEF Forgotten, k
<1> QED
  BY <1>2, <1>3, <1>4, Removed DEF PendingOnce

LEMMA AsksOne ==
  ASSUME TypeOK, PendingOnce, NEW r \in Requests, ~Outstanding(r)
  PROVE  /\ Append(pending, r) \in Seq(Requests)
         /\ ToSet(Append(pending, r)) = ToSet(pending) \cup {r}
         /\ \A i, j \in DOMAIN Append(pending, r) :
              Append(pending, r)[i] = Append(pending, r)[j] => i = j
<1> DEFINE p == Append(pending, r)
<1>1. pending \in Seq(Requests)
  BY DEF TypeOK
<1>2. /\ p \in Seq(Requests) /\ Len(p) = Len(pending) + 1
      /\ \A i \in 1 .. Len(pending) : p[i] = pending[i]
      /\ p[Len(pending) + 1] = r
  BY <1>1, AppendProperties
<1>3. /\ DOMAIN pending = 1 .. Len(pending) /\ Len(pending) \in Nat
      /\ DOMAIN p = 1 .. Len(pending) + 1
  BY <1>1, <1>2, LenProperties
<1> HIDE DEF p
<1>4. \A i \in DOMAIN p : i \in DOMAIN pending \/ i = Len(pending) + 1
  BY <1>3
<1>5. \A i \in DOMAIN pending : pending[i] # r
  BY DEF Outstanding, ToSet
<1>6. ASSUME NEW i \in DOMAIN p, NEW j \in DOMAIN p, p[i] = p[j]
      PROVE  i = j
  BY <1>2, <1>3, <1>4, <1>5, <1>6 DEF PendingOnce
<1>7. ToSet(p) = ToSet(pending) \cup {r}
  <2>1. ASSUME NEW i \in DOMAIN p
        PROVE  p[i] \in {pending[j] : j \in DOMAIN pending} \cup {r}
    BY <1>2, <1>3, <1>4
  <2>2. ASSUME NEW i \in DOMAIN pending
        PROVE  i \in DOMAIN p /\ p[i] = pending[i]
    BY <1>2, <1>3
  <2>3. Len(pending) + 1 \in DOMAIN p
    BY <1>3
  <2> QED
    BY <1>2, <2>1, <2>2, <2>3 DEF ToSet
<1> QED
  BY <1>2, <1>6, <1>7 DEF p

\* Frames reach windows as frames.
LEMMA FramesAppended ==
  ASSUME TypeOK, NEW f \in Frames
  PROVE  /\ Broadcast(f) \in [Clients -> Seq(Frames)]
         /\ \A d \in [Clients -> Seq(Frames)], c \in Clients :
              [d EXCEPT ![c] = Append(@, f)] \in [Clients -> Seq(Frames)]
<1>1. \A q \in Seq(Frames) : Append(q, f) \in Seq(Frames)
  BY AppendProperties
<1>2. downlink \in [Clients -> Seq(Frames)]
  BY DEF TypeOK, Frames
<1> QED
  BY <1>1, <1>2 DEF Broadcast

LEMMA FramesAre ==
  ASSUME NEW r \in Requests
  PROVE  Requested(r) \in Frames /\ Resolved(r) \in Frames /\ Reply(r) \in Frames
BY DEF Requested, Resolved, Reply, Frames

LEMMA BInvInit == Init => BInv
BY EmptySeq, BrokerAssumption
DEF Init, BInv, TypeOK, PendingOnce, PendingIsWaiting, YesIsSaid, ToSet

\* A verdict leaves the waiting requests and the map together.
LEMMA DecidedStep ==
  ASSUME BInv, NEW r \in Requests, Outstanding(r), NEW v \in {"granted", "denied"},
         pending' = Forgotten(r), verdict' = [verdict EXCEPT ![r] = v]
  PROVE  /\ pending' \in Seq(Requests) /\ PendingOnce' /\ PendingIsWaiting'
         /\ verdict' \in [Requests -> {"unasked", "waiting", "granted", "denied"}]
<1>1. /\ Forgotten(r) \in Seq(Requests) /\ ToSet(Forgotten(r)) = ToSet(pending) \ {r}
      /\ \A i, j \in DOMAIN Forgotten(r) : Forgotten(r)[i] = Forgotten(r)[j] => i = j
  BY ForgetsOne DEF BInv
<1>2. PendingOnce'
  BY <1>1 DEF PendingOnce
<1>3. ToSet(pending') = {q \in Requests : verdict'[q] = "waiting"}
  BY <1>1 DEF BInv, PendingIsWaiting, TypeOK
<1> QED
  BY <1>1, <1>2, <1>3 DEF BInv, TypeOK, PendingIsWaiting

LEMMA BInvStep == BInv /\ [Next]_vars => BInv'
<1> SUFFICES ASSUME BInv, [Next]_vars
             PROVE  BInv'
  OBVIOUS
<1> USE DEF BInv
<1>1. CASE UNCHANGED vars
  BY <1>1 DEF vars, brokerVars, clientVars, TypeOK, PendingOnce, PendingIsWaiting, YesIsSaid
<1>2. ASSUME UNCHANGED <<pending, verdict>>
      PROVE  PendingOnce' /\ PendingIsWaiting'
  BY <1>2 DEF PendingOnce, PendingIsWaiting
<1>3. ASSUME NEW c \in Clients, Attach(c)
      PROVE  BInv'
  <2>1. [i \in DOMAIN pending |-> Requested(pending[i])] \in Seq(Frames)
    <3>1. DOMAIN pending = 1 .. Len(pending) /\ Len(pending) \in Nat
      BY LenProperties DEF TypeOK
    <3>2. \A i \in 1 .. Len(pending) : Requested(pending[i]) \in Frames
      BY FramesAre, ElementOfSeq DEF TypeOK
    <3> QED
      BY <3>1, <3>2, IsASeq
  <2>2. downlink' \in [Clients -> Seq(Frames)]
    BY <1>3, <2>1 DEF Attach, TypeOK, Frames
  <2>3. attached' \in SUBSET Clients /\ attaches' \in 0 .. MaxAttaches
    BY <1>3, BrokerAssumption DEF Attach, TypeOK
  <2>4. UNCHANGED <<pending, verdict, uplink, clientVars>>
    BY <1>3 DEF Attach
  <2> QED
    BY <1>2, <2>2, <2>3, <2>4 DEF TypeOK, YesIsSaid, clientVars, Frames
<1>4. ASSUME NEW c \in Clients, Detach(c)
      PROVE  BInv'
  <2>1. downlink' \in [Clients -> Seq(Frames)]
    BY <1>4, EmptySeq DEF Detach, TypeOK, Frames
  <2>2. /\ attached' \subseteq attached /\ uplink' \subseteq uplink
        /\ answering' \subseteq answering
        /\ UNCHANGED <<pending, verdict, screen, yes, attaches>>
    BY <1>4 DEF Detach
  <2> QED
    BY <1>2, <2>1, <2>2 DEF TypeOK, YesIsSaid, Frames
<1>5. ASSUME NEW c \in Clients, Receive(c)
      PROVE  BInv'
  <2>1. /\ downlink[c] \in Seq(Frames) /\ downlink[c] # <<>>
        /\ downlink' = [downlink EXCEPT ![c] = Tail(@)]
    BY <1>5 DEF Receive, TypeOK, Frames
  <2>2. Head(downlink[c]) \in Frames /\ Tail(downlink[c]) \in Seq(Frames)
    BY <2>1, HeadTailProperties
  <2>3. downlink' \in [Clients -> Seq(Frames)]
    BY <2>1, <2>2 DEF TypeOK, Frames
  <2>4. screen' \in [Clients -> Requests \cup {NoRequest}] /\ answering' \subseteq answering
    BY <1>5, <2>2 DEF Receive, TypeOK, Frames
  <2>5. UNCHANGED <<brokerVars, uplink, yes, attaches>>
    BY <1>5 DEF Receive
  <2> QED
    BY <1>2, <2>3, <2>4, <2>5 DEF TypeOK, YesIsSaid, brokerVars, Frames
<1>6. ASSUME NEW c \in Clients, NEW granted \in BOOLEAN, Answer(c, granted)
      PROVE  BInv'
  <2>1. screen[c] \in Requests
    BY <1>6 DEF Answer, TypeOK
  <2> DEFINE m == [client |-> c, request |-> screen[c], granted |-> granted]
  <2>2. uplink' = uplink \cup {m} /\ m \in Calls
    BY <1>6, <2>1 DEF Answer, Calls
  <2>3. yes' = (IF granted THEN yes \cup {screen[c]} ELSE yes)
    BY <1>6 DEF Answer
  <2>4. m.granted => m.request \in yes'
    BY <2>3
  <2> HIDE DEF m
  <2>5. YesIsSaid'
    BY <2>2, <2>3, <2>4 DEF YesIsSaid
  <2>6. answering' \in SUBSET (Clients \X Requests)
    BY <1>6, <2>1 DEF Answer, TypeOK
  <2>7. UNCHANGED <<brokerVars, screen, downlink, attaches>>
    BY <1>6 DEF Answer
  <2> QED
    BY <1>2, <2>1, <2>2, <2>3, <2>5, <2>6, <2>7 DEF TypeOK, brokerVars, Calls
<1>7. ASSUME NEW r \in Requests, Request(r)
      PROVE  BInv'
  <2>1. CASE UNCHANGED <<pending, downlink>> /\ verdict' = [verdict EXCEPT ![r] = "denied"]
    <3>1. PendingIsWaiting'
      BY <1>7, <2>1 DEF PendingIsWaiting, Request, TypeOK
    <3> QED
      BY <1>7, <2>1, <3>1 DEF Request, TypeOK, PendingOnce, YesIsSaid, clientVars
  <2>2. CASE /\ verdict' = [verdict EXCEPT ![r] = "waiting"]
             /\ pending' = Append(pending, r)
             /\ downlink' = Broadcast(Requested(r))
    <3>1. ~Outstanding(r)
      BY <1>7 DEF Request, Outstanding, PendingIsWaiting
    <3>2. pending' \in Seq(Requests) /\ ToSet(pending') = ToSet(pending) \cup {r} /\ PendingOnce'
      BY <2>2, <3>1, AsksOne DEF PendingOnce
    <3>3. PendingIsWaiting'
      BY <2>2, <3>2 DEF PendingIsWaiting, TypeOK
    <3>4. downlink' \in [Clients -> Seq(Frames)]
      BY <2>2, FramesAre, FramesAppended
    <3> QED
      BY <1>7, <2>2, <3>2, <3>3, <3>4 DEF Request, TypeOK, YesIsSaid, clientVars, Frames
  <2> QED
    BY <1>7, <2>1, <2>2 DEF Request
<1>8. ASSUME NEW r \in Requests, Timeout(r)
      PROVE  BInv'
  <2>1. /\ Outstanding(r) /\ pending' = Forgotten(r)
        /\ verdict' = [verdict EXCEPT ![r] = "denied"]
        /\ UNCHANGED <<attached, clientVars, uplink, downlink, attaches>>
    BY <1>8 DEF Timeout
  <2>2. /\ pending' \in Seq(Requests) /\ PendingOnce' /\ PendingIsWaiting'
        /\ verdict' \in [Requests -> {"unasked", "waiting", "granted", "denied"}]
    BY <2>1, DecidedStep
  <2> QED
    BY <2>1, <2>2 DEF TypeOK, YesIsSaid, clientVars
<1>9. ASSUME NEW m \in uplink, Respond(m)
      PROVE  BInv'
  <2>1. m \in Calls /\ m.request \in Requests /\ m.client \in Clients
    BY DEF TypeOK, Calls
  <2>2. uplink' \subseteq uplink /\ UNCHANGED <<attached, clientVars, attaches>>
    BY <1>9 DEF Respond
  <2>3. Resolved(m.request) \in Frames /\ Reply(m.request) \in Frames
    BY <2>1, FramesAre
  <2>4. CASE /\ Outstanding(m.request) /\ pending' = Forgotten(m.request)
             /\ verdict' = [verdict EXCEPT ![m.request] = IF m.granted THEN "granted" ELSE "denied"]
             /\ downlink' = [Broadcast(Resolved(m.request)) EXCEPT ![m.client] =
                               Append(@, Reply(m.request))]
    <3>1. /\ pending' \in Seq(Requests) /\ PendingOnce' /\ PendingIsWaiting'
          /\ verdict' \in [Requests -> {"unasked", "waiting", "granted", "denied"}]
      BY <2>1, <2>4, DecidedStep
    <3>2. downlink' \in [Clients -> Seq(Frames)]
      BY <2>1, <2>3, <2>4, FramesAppended
    <3> QED
      BY <2>2, <3>1, <3>2 DEF TypeOK, YesIsSaid, clientVars, Frames
  <2>5. CASE /\ downlink' = [downlink EXCEPT ![m.client] = Append(@, Reply(m.request))]
             /\ UNCHANGED <<pending, verdict>>
    <3>1. downlink' \in [Clients -> Seq(Frames)]
      BY <2>1, <2>3, <2>5, FramesAppended DEF TypeOK, Frames
    <3> QED
      BY <1>2, <2>2, <2>5, <3>1 DEF TypeOK, YesIsSaid, clientVars, Frames
  <2> QED
    BY <1>9, <2>4, <2>5 DEF Respond
<1> QED
  BY <1>1, <1>3, <1>4, <1>5, <1>6, <1>7, <1>8, <1>9 DEF Next

\* The broker's map, the timers and the promises agree at every moment, whatever the
\* windows send and lose (approvals.ts).
THEOREM PendingMeansWaiting == Spec => [](TypeOK /\ PendingIsWaiting)
BY BInvInit, BInvStep, PTL DEF Spec, BInv

\* A step of the broker and its windows is a decision or none.
LEMMA StepDecides == BInv /\ [Next]_vars => [Decision!Next]_(Decision!vars)
<1> SUFFICES ASSUME BInv, [Next]_vars
             PROVE  [Decision!Next]_(Decision!vars)
  OBVIOUS
<1> USE DEF Decision!Next, Decision!vars
<1>1. ASSUME UNCHANGED <<verdict, yes>>
      PROVE  [Decision!Next]_(Decision!vars)
  BY <1>1
<1>2. CASE UNCHANGED vars
  BY <1>1, <1>2 DEF vars, brokerVars, clientVars
<1>3. ASSUME NEW c \in Clients, Attach(c) \/ Detach(c) \/ Receive(c)
      PROVE  [Decision!Next]_(Decision!vars)
  BY <1>1, <1>3 DEF Attach, Detach, Receive, brokerVars, clientVars
<1>4. ASSUME NEW c \in Clients, NEW granted \in BOOLEAN, Answer(c, granted)
      PROVE  [Decision!Next]_(Decision!vars)
  <2>1. screen[c] \in Requests
    BY <1>4 DEF Answer, BInv, TypeOK
  <2> QED
    BY <1>1, <1>4, <2>1 DEF Answer, brokerVars, Decision!SayYes
<1>5. ASSUME NEW r \in Requests, Request(r)
      PROVE  [Decision!Next]_(Decision!vars)
  BY <1>5 DEF Request, clientVars, Decision!Ask, Decision!Deny
<1>6. ASSUME NEW r \in Requests, Timeout(r)
      PROVE  [Decision!Next]_(Decision!vars)
  <2>1. verdict[r] = "waiting"
    BY <1>6 DEF Timeout, Outstanding, BInv, PendingIsWaiting
  <2> QED
    BY <1>6, <2>1 DEF Timeout, clientVars, Decision!Deny
<1>7. ASSUME NEW m \in uplink, Respond(m)
      PROVE  [Decision!Next]_(Decision!vars)
  <2>1. m.request \in Requests /\ m.granted \in BOOLEAN /\ (m.granted => m.request \in yes)
    BY DEF BInv, TypeOK, YesIsSaid
  <2>2. CASE UNCHANGED <<pending, verdict>>
    BY <1>1, <1>7, <2>2 DEF Respond, clientVars
  <2>3. CASE /\ Outstanding(m.request)
             /\ verdict' = [verdict EXCEPT ![m.request] = IF m.granted THEN "granted" ELSE "denied"]
    <3>1. verdict[m.request] = "waiting" /\ UNCHANGED yes
      BY <1>7, <2>3 DEF Respond, clientVars, Outstanding, BInv, PendingIsWaiting
    <3>2. CASE m.granted
      BY <2>1, <2>3, <3>1, <3>2 DEF Decision!Grant
    <3>3. CASE ~m.granted
      BY <2>1, <2>3, <3>1, <3>3 DEF Decision!Deny
    <3> QED
      BY <3>2, <3>3
  <2> QED
    BY <1>7, <2>2, <2>3 DEF Respond
<1> QED
  BY <1>2, <1>3, <1>4, <1>5, <1>6, <1>7 DEF Next

\* With any windows and requests, however answers race, repeat, arrive late or are lost:
\* each request is decided once, and granted only after somebody said yes to that
\* request (approvals.ts, respond and the timer).
THEOREM BrokerImplementsDecision == Spec => ImplementsDecision
<1>1. Init => Decision!Init
  BY DEF Init, Decision!Init
<1> QED
  BY <1>1, StepDecides, BInvInit, BInvStep, PTL DEF Spec, ImplementsDecision, Decision!Spec

-----------------------------------------------------------------------------
(* The sockets. *)

\* A socket is the window's open one, and while main answers its window waits.
SocketsAreOpen ==
  \A x \in Clients :
    /\ socket[x] # Nobody => window[x] = "open"
    /\ main[x] = "off" => window[x] = "closed"
    /\ main[x] \notin {"off", "idle"} => window[x] = "connecting"

MapsAreTotal ==
  /\ listeners \in [Daemons -> [Clients -> Nat]]
  /\ socket = [x \in Clients |-> socket[x]]
  /\ window = [x \in Clients |-> window[x]]
  /\ main = [x \in Clients |-> main[x]]

\* A listener belongs to the daemon at the other end of an open socket.
ListenersAreServed ==
  \A d \in Daemons, x \in Clients :
    listeners[d][x] > 0 => socket[x] = d /\ window[x] = "open"

SocketInv == MapsAreTotal /\ SocketsAreOpen /\ ListenersAreServed

-----------------------------------------------------------------------------
\* No socket and no listener exist before the first launch.
LEMMA SocketInit == App!Init => SocketInv
  BY DEF App!Init, App!EngineInit, SocketInv, MapsAreTotal, SocketsAreOpen, ListenersAreServed

\* Steps that touch neither sockets nor listeners, and move no window or main.
LEMMA SocketStutter ==
  ASSUME SocketInv, UNCHANGED <<socket, listeners, window, main>>
  PROVE  SocketInv'
  BY DEF SocketInv, MapsAreTotal, SocketsAreOpen, ListenersAreServed

\* Steps of one application that leave its socket and its listeners alone: no
\* socket is open before the step, and none after it.
LEMMA MainMoves ==
  ASSUME SocketInv,
         NEW x \in Clients, NEW m, NEW w,
         window[x] # "open",
         UNCHANGED <<socket, listeners>>,
         main' = [main EXCEPT ![x] = m],
         window' = [window EXCEPT ![x] = w],
         m = "off" => w = "closed",
         m \notin {"off", "idle"} => w = "connecting"
  PROVE  SocketInv'
  BY DEF SocketInv, MapsAreTotal, SocketsAreOpen, ListenersAreServed

\* Whatever ends a socket takes every listener of its window along.
LEMMA SocketEnds ==
  ASSUME SocketInv,
         NEW x \in Clients, NEW m, NEW w,
         socket' = [socket EXCEPT ![x] = Nobody],
         listeners' = App!Cleanup(x),
         main' = [main EXCEPT ![x] = m],
         window' = [window EXCEPT ![x] = w],
         m = "off" => w = "closed",
         m \notin {"off", "idle"} => w = "connecting"
  PROVE  SocketInv'
<1>1. MapsAreTotal'
  BY DEF SocketInv, MapsAreTotal, App!Cleanup
<1>2. SocketsAreOpen'
  BY DEF SocketInv, MapsAreTotal, SocketsAreOpen
<1>3. ListenersAreServed'
  <2> SUFFICES ASSUME NEW d \in Daemons, NEW y \in Clients, listeners'[d][y] > 0
               PROVE  socket'[y] = d /\ window'[y] = "open"
    BY DEF ListenersAreServed
  <2>1. y # x /\ listeners[d][y] > 0
    BY DEF App!Cleanup
  <2>. QED  BY <2>1 DEF SocketInv, MapsAreTotal, ListenersAreServed
<1>. QED  BY <1>1, <1>2, <1>3 DEF SocketInv

-----------------------------------------------------------------------------
\* run.subscribe is served over an open socket only.
LEMMA SubscribeStep ==
  ASSUME SocketInv, NEW x \in Clients, App!Subscribe(x), UNCHANGED App!desktopVars
  PROVE  SocketInv'
<1>1. socket[x] # Nobody /\ window[x] = "open"
  BY DEF App!Subscribe, App!Serves, SocketInv, SocketsAreOpen
<1>2. MapsAreTotal'
  <2>1. listeners' \in [Daemons -> [Clients -> Nat]]
    <3>1. CASE socket[x] \in Daemons
      BY <3>1 DEF App!Subscribe, SocketInv, MapsAreTotal
    <3>2. CASE socket[x] \notin Daemons
      BY <3>2 DEF App!Subscribe, SocketInv, MapsAreTotal
    <3>. QED  BY <3>1, <3>2
  <2>. QED  BY <2>1 DEF App!Subscribe, SocketInv, MapsAreTotal, App!desktopVars
<1>3. SocketsAreOpen'
  BY DEF App!Subscribe, SocketInv, SocketsAreOpen, App!desktopVars
<1>4. ASSUME NEW d \in Daemons, NEW y \in Clients, listeners'[d][y] > 0
      PROVE  socket'[y] = d /\ window'[y] = "open"
  <2>1. socket' = socket /\ window' = window
    BY DEF App!Subscribe, App!desktopVars
  <2>2. CASE d = socket[x] /\ y = x
    BY <2>1, <2>2, <1>1
  <2>3. CASE ~(d = socket[x] /\ y = x)
    <3>1. listeners'[d][y] = listeners[d][y]
      BY <2>3 DEF App!Subscribe, SocketInv, MapsAreTotal
    <3>. QED  BY <3>1, <2>1, <1>4 DEF SocketInv, ListenersAreServed
  <2>. QED  BY <2>2, <2>3
<1>. QED  BY <1>2, <1>3, <1>4 DEF SocketInv, ListenersAreServed

\* A window dials only when no socket of its is left open.
LEMMA DialStep ==
  ASSUME SocketInv, NEW x \in Clients, App!Dial(x)
  PROVE  SocketInv'
<1>1. window[x] = "dialing" /\ main[x] = "idle"
  BY DEF App!Dial, SocketInv, SocketsAreOpen
<1>. QED
  BY <1>1 DEF App!Dial, SocketInv, MapsAreTotal, SocketsAreOpen, ListenersAreServed

\* Each step of an application.
LEMMA ApplicationStep ==
  ASSUME SocketInv, NEW x \in Clients, App!Launch(x) \/ App!Proceed(x) \/ App!Quit(x)
  PROVE  SocketInv'
<1>1. /\ window = [window EXCEPT ![x] = window[x]]
      /\ main = [main EXCEPT ![x] = main[x]]
  BY DEF SocketInv, MapsAreTotal
<1>2. CASE App!Launch(x)
  BY <1>2, MainMoves DEF App!Launch, App!engineVars, SocketInv, SocketsAreOpen
<1>3. ASSUME NEW from \in {"looking", "asking", "killing", "dying", "spawning"},
             NEW to \in {"asking", "killing", "dying", "spawning", "waiting"},
             App!MainGoes(x, from, to), UNCHANGED <<window, socket, listeners>>
      PROVE  SocketInv'
  <2>1. window[x] = "connecting"
    BY <1>3 DEF App!MainGoes, SocketInv, SocketsAreOpen
  <2>. QED  BY <2>1, <1>1, <1>3, MainMoves DEF App!MainGoes
<1>4. ASSUME NEW from \in {"looking", "asking", "dying", "waiting"}, NEW w,
             App!MainGoes(x, from, "idle"), window' = [window EXCEPT ![x] = w],
             UNCHANGED <<socket, listeners>>
      PROVE  SocketInv'
  <2>1. window[x] = "connecting"
    BY <1>4 DEF App!MainGoes, SocketInv, SocketsAreOpen
  <2>. QED  BY <2>1, <1>4, MainMoves DEF App!MainGoes
<1>5. CASE App!FindStale(x) \/ App!FindNone(x) \/ App!AskNobody(x) \/ App!AskIdle(x) \/ App!Died(x)
  BY <1>5, <1>3 DEF App!FindStale, App!FindNone, App!AskNobody, App!AskIdle, App!Died, App!StayPut, App!engineVars
<1>6. CASE App!Kill(x) \/ App!Spawn(x)
  BY <1>6, <1>3 DEF App!Kill, App!Spawn
<1>7. CASE App!Adopt(x) \/ App!AskBusy(x) \/ App!AskFails(x) \/ App!StillAlive(x) \/ App!Appeared(x)
  BY <1>7, <1>4 DEF App!Adopt, App!AskBusy, App!AskFails, App!StillAlive, App!Appeared, App!Answer, App!engineVars
<1>8. CASE App!NeverAppeared(x)
  BY <1>8, <1>4 DEF App!NeverAppeared, App!engineVars
<1>9. CASE App!Dial(x)
  BY <1>9, DialStep
<1>10. CASE App!DialFails(x)
  <2>1. main[x] = "idle"
    BY <1>10 DEF App!DialFails, SocketInv, SocketsAreOpen
  <2>. QED  BY <2>1, <1>1, <1>10, MainMoves DEF App!DialFails, App!Reconnecting, App!engineVars
<1>11. CASE App!SocketCloses(x)
  <2>1. main[x] = "idle"
    BY <1>11 DEF App!SocketCloses, SocketInv, SocketsAreOpen
  <2>. QED  BY <2>1, <1>1, <1>11, SocketEnds DEF App!SocketCloses, App!Reconnecting
<1>12. CASE App!Quit(x)
  BY <1>12, SocketEnds DEF App!Quit
<1>. QED
  BY <1>2, <1>5, <1>6, <1>7, <1>8, <1>9, <1>10, <1>11, <1>12 DEF App!Proceed

\* Each step of a daemon.
LEMMA DaemonStep ==
  ASSUME SocketInv, App!EngineStep, UNCHANGED App!desktopVars
  PROVE  SocketInv'
<1>1. ASSUME NEW d \in Daemons,
             \/ App!Listen(d) \/ App!StopEnds(d) \/ App!Crash(d)
             \/ App!PlanMade(d) \/ App!PlanApproved(d) \/ App!PlanRejected(d) \/ App!RunEnds(d)
      PROVE  SocketInv'
  BY <1>1, SocketStutter
     DEF App!Listen, App!StopEnds, App!Crash, App!PlanMade, App!PlanApproved,
         App!PlanRejected, App!RunEnds, App!RunMoves, App!desktopVars
<1>2. ASSUME NEW x \in Clients, App!Subscribe(x)
      PROVE  SocketInv'
  BY <1>2, SubscribeStep
<1>. QED  BY <1>1, <1>2 DEF App!EngineStep

\* A daemon keeps no listener for a window it has no socket to: whichever way a
\* socket ends, by the daemon's death or the window's closing, its listeners went
\* with it, and no later connection hears an event once per past one (server.ts).
THEOREM ListenersGoWithTheirSockets == App!Spec => []App!ListenersHaveSockets
<1>1. App!Init => SocketInv
  BY SocketInit
<1>2. SocketInv /\ [App!Next]_(App!vars) => SocketInv'
  <2> SUFFICES ASSUME SocketInv, [App!Next]_(App!vars) PROVE SocketInv'
    OBVIOUS
  <2>1. CASE App!EngineStep /\ UNCHANGED App!desktopVars
    BY <2>1, DaemonStep
  <2>2. CASE \E x \in Clients : App!Launch(x) \/ App!Proceed(x) \/ App!Quit(x)
    BY <2>2, ApplicationStep
  <2>3. CASE UNCHANGED App!vars
    BY <2>3, SocketStutter DEF App!vars, App!engineVars, App!desktopVars
  <2>. QED  BY <2>1, <2>2, <2>3 DEF App!Next
<1>3. SocketInv => App!ListenersHaveSockets
  BY DEF SocketInv, ListenersAreServed, App!ListenersHaveSockets
<1>. QED  BY <1>1, <1>2, <1>3, PTL DEF App!Spec

-----------------------------------------------------------------------------
(* The memory.  A source that is being stored has no rows, as long as one call *)
(* at a time stores it; a source that is not has those of the marked text.     *)
Steps == [step : {"idle", "run", "embed"}, todo : SUBSET Sources,
          at : Sources \cup {NoFile}, text : Contents \cup {NoFile}]

IndexTyped ==
  /\ files \in [Sources -> Contents \cup {NoFile}]
  /\ marks \in [Sources -> Contents \cup {NoFile}]
  /\ passes \in [Passes -> Steps]
  /\ \A p \in Passes : passes[p].step = "embed" =>
       passes[p].at \in Sources /\ passes[p].text \in Contents \ {NoFile}

RowsFit ==
  \A s \in Sources \ mixed :
    RowsAt(s) = IF At(s) # {} \/ marks[s] = NoFile THEN {} ELSE Cuts[s][marks[s]]

IndexInv == IndexTyped /\ RowsFit

\* The rows of a file carry its path, and rows with one id have one path.
LEMMA CutsAreOfTheirSource ==
  ASSUME NEW s \in Sources, NEW c \in Contents, NEW row \in Cuts[s][c]
  PROVE  row.source = s
BY DEF Cuts, RowsOf

LEMMA IdsTellSources ==
  ASSUME NEW row, NEW new, Id(row) = Id(new)
  PROVE  row.source = new.source
BY DEF Id

\* Rows that are written for one source leave those of the others alone.
LEMMA ReplacingSparesOthers ==
  ASSUME NEW s \in Sources, NEW rows, \A row \in rows : row.source = s,
         NEW other \in Sources, chunks' = Replacing(rows)
  PROVE  /\ other # s => RowsAt(other)' = RowsAt(other)
         /\ RowsAt(s) = {} => RowsAt(s)' = rows
<1>1. \A row \in chunks : row.source # s => \A new \in rows : Id(row) # Id(new)
  BY IdsTellSources
<1>2. chunks' = {row \in chunks : \A new \in rows : Id(row) # Id(new)} \cup rows
  BY DEF Replacing
<1>3. other # s => RowsAt(other)' = RowsAt(other)
  BY <1>1, <1>2 DEF RowsAt
<1>4. RowsAt(s) = {} => RowsAt(s)' = rows
  BY <1>1, <1>2 DEF RowsAt
<1> QED
  BY <1>3, <1>4

LEMMA UpcomingIsListed ==
  ASSUME IndexTyped, NEW p \in Passes, passes[p].todo # {}
  PROVE  Upcoming(p) \in Sources /\ passes[p].todo \in SUBSET Sources
BY DEF Upcoming, IndexTyped, Steps

\* A call that moves on to another file, or ends, was not storing and is not.
LEMMA PassesOn ==
  ASSUME IndexInv, NEW p \in Passes, passes[p].step # "embed",
         NEW step \in Steps, step.step # "embed", passes' = [passes EXCEPT ![p] = step],
         UNCHANGED <<files, chunks, marks, mixed>>
  PROVE  IndexInv'
<1>1. IndexTyped'
  BY DEF IndexInv, IndexTyped
<1>2. \A s \in Sources : At(s)' = At(s)
  BY DEF IndexInv, IndexTyped, At
<1>3. \A s \in Sources : RowsAt(s)' = RowsAt(s)
  BY DEF RowsAt
<1>4. RowsFit'
  BY <1>2, <1>3 DEF IndexInv, RowsFit
<1> QED
  BY <1>1, <1>4 DEF IndexInv

LEMMA ClearStep ==
  ASSUME IndexInv, NEW p \in Passes, Clear(p)
  PROVE  IndexInv'
<1>1. PICK s : s = Upcoming(p)
  OBVIOUS
<1>2. /\ passes[p].step = "run" /\ passes[p].todo # {} /\ files[s] # NoFile
      /\ chunks' = chunks \ RowsAt(s)
      /\ passes' = [passes EXCEPT ![p].step = "embed", ![p].at = s, ![p].text = files[s]]
      /\ mixed' = IF At(s) = {} THEN mixed \ {s} ELSE mixed
      /\ UNCHANGED <<files, marks>>
  BY <1>1 DEF Clear
<1>3. IndexTyped /\ s \in Sources /\ files[s] \in Contents \ {NoFile} /\ passes[p] \in Steps
  BY <1>1, <1>2, UpcomingIsListed DEF IndexInv, IndexTyped
<1>4. passes' = [passes EXCEPT ![p] = [passes[p] EXCEPT !.step = "embed", !.at = s, !.text = files[s]]]
  BY <1>2, <1>3 DEF IndexTyped
<1>5. [passes[p] EXCEPT !.step = "embed", !.at = s, !.text = files[s]] \in Steps
  BY <1>3 DEF Steps
<1>6. /\ passes'[p].step = "embed" /\ passes'[p].at = s /\ passes'[p].text = files[s]
      /\ \A q \in Passes \ {p} : passes'[q] = passes[q]
      /\ passes' \in [Passes -> Steps]
  BY <1>3, <1>4, <1>5 DEF IndexTyped, Steps
<1>7. IndexTyped'
  BY <1>2, <1>3, <1>6 DEF IndexTyped
<1>8. /\ p \in At(s)'
      /\ \A t \in Sources \ {s} : At(t)' = At(t)
  BY <1>2, <1>3, <1>6 DEF At
<1>9. /\ RowsAt(s)' = {}
      /\ \A t \in Sources \ {s} : RowsAt(t)' = RowsAt(t)
  BY <1>2 DEF RowsAt
<1>10. \A t \in Sources \ {s} : t \in mixed' <=> t \in mixed
  BY <1>2
<1>11. RowsFit'
  BY <1>2, <1>8, <1>9, <1>10 DEF RowsFit, IndexInv
<1> QED
  BY <1>7, <1>11 DEF IndexInv

LEMMA StoreStep ==
  ASSUME IndexInv, NEW p \in Passes, Store(p)
  PROVE  IndexInv'
<1>1. PICK s, rows : s = passes[p].at /\ rows = Cuts[s][passes[p].text]
  OBVIOUS
<1>2. /\ passes[p].step = "embed"
      /\ chunks' = Replacing(rows)
      /\ marks' = [marks EXCEPT ![s] = passes[p].text]
      /\ passes' = [passes EXCEPT ![p] =
                      [Resting EXCEPT !.step = "run", !.todo = passes[p].todo \ {s}]]
      /\ mixed' = IF At(s) = {p} THEN mixed ELSE mixed \cup {s}
      /\ UNCHANGED files
  BY <1>1 DEF Store
<1>3. /\ IndexTyped /\ s \in Sources /\ passes[p].text \in Contents \ {NoFile}
      /\ passes[p] \in Steps /\ p \in At(s)
  BY <1>1, <1>2 DEF IndexInv, IndexTyped, At
<1>4. \A row \in rows : row.source = s
  BY <1>1, <1>3, CutsAreOfTheirSource
<1>5. [Resting EXCEPT !.step = "run", !.todo = passes[p].todo \ {s}] \in Steps
  BY <1>3 DEF Resting, Steps
<1>6. /\ passes'[p].step = "run" /\ passes' \in [Passes -> Steps]
      /\ \A q \in Passes \ {p} : passes'[q] = passes[q]
  BY <1>2, <1>3, <1>5 DEF IndexTyped, Resting
<1>7. IndexTyped'
  BY <1>2, <1>3, <1>6 DEF IndexTyped
<1>8. /\ At(s)' = At(s) \ {p}
      /\ \A t \in Sources \ {s} : At(t)' = At(t)
  BY <1>1, <1>2, <1>3, <1>6 DEF At
<1>9. /\ \A t \in Sources \ {s} : RowsAt(t)' = RowsAt(t)
      /\ RowsAt(s) = {} => RowsAt(s)' = rows
  BY <1>2, <1>3, <1>4, ReplacingSparesOthers
<1>10. /\ marks'[s] = passes[p].text /\ marks'[s] # NoFile
      /\ \A t \in Sources \ {s} : marks'[t] = marks[t] /\ (t \in mixed' <=> t \in mixed)
  BY <1>2, <1>3 DEF IndexTyped
<1>11. ASSUME s \notin mixed'
       PROVE  RowsAt(s)' = rows /\ At(s)' = {}
  <2>1. At(s) = {p} /\ s \notin mixed
    BY <1>2, <1>11
  <2>2. RowsAt(s) = {}
    BY <1>3, <2>1 DEF IndexInv, RowsFit
  <2> QED
    BY <1>8, <1>9, <2>1, <2>2
<1>12. rows = Cuts[s][marks'[s]] /\ Cuts' = Cuts
  BY <1>1, <1>10 DEF Cuts
<1>13. RowsFit'
  <2>1. ASSUME NEW t \in Sources, t \notin mixed'
        PROVE  RowsAt(t)' = IF At(t)' # {} \/ marks'[t] = NoFile
                                  THEN {} ELSE Cuts[t][marks'[t]]
    <3>1. CASE t = s
      BY <1>10, <1>11, <1>12, <2>1, <3>1
    <3>2. CASE t # s
      BY <1>8, <1>9, <1>10, <2>1, <3>2 DEF IndexInv, RowsFit
    <3> QED
      BY <3>1, <3>2
  <2> QED
    BY <1>12, <2>1 DEF RowsFit
<1> QED
  BY <1>7, <1>13 DEF IndexInv

\* A call that was cut off stored some of the rows of its source.
LEMMA CrashStores ==
  ASSUME Crash
  PROVE  \/ UNCHANGED <<chunks, words>>
         \/ \E p \in Passes :
              /\ passes[p].step = "embed"
              /\ \E rows \in SUBSET Cuts[passes[p].at][passes[p].text] :
                   chunks' = Replacing(rows)
<1>1. CASE UNCHANGED <<chunks, words>>
  BY <1>1
<1>2. ASSUME NEW p \in Passes, passes[p].step = "embed",
             NEW row \in Cuts[passes[p].at][passes[p].text], NEW both \in BOOLEAN,
             PartStored(Cuts[passes[p].at][passes[p].text], row, both)
      PROVE  \E rows \in SUBSET Cuts[passes[p].at][passes[p].text] : chunks' = Replacing(rows)
  <2> DEFINE all == Cuts[passes[p].at][passes[p].text]
             rows == {r \in all : r.from < row.from} \cup {row}
  <2>1. chunks' = Replacing(rows)
    BY <1>2 DEF PartStored
  <2>2. rows \in SUBSET all
    BY <1>2
  <2> QED
    BY <2>1, <2>2
<1> QED
  BY <1>1, <1>2 DEF Crash

LEMMA CrashStep ==
  ASSUME IndexInv, Crash
  PROVE  IndexInv'
<1>1. /\ mixed' = mixed \cup {s \in Sources : At(s) # {}}
      /\ passes' = [p \in Passes |-> Resting]
      /\ UNCHANGED <<files, marks>>
      /\ \/ UNCHANGED chunks
         \/ \E p \in Passes : /\ passes[p].step = "embed"
                              /\ \E rows \in SUBSET Cuts[passes[p].at][passes[p].text] :
                                   chunks' = Replacing(rows)
  BY CrashStores, Zenon DEF Crash
<1>2. IndexTyped'
  BY <1>1 DEF IndexInv, IndexTyped, Steps, Resting
<1>3. \A s \in Sources : At(s)' = {}
  BY <1>1 DEF At, Resting
<1>4. ASSUME NEW s \in Sources, s \notin mixed'
      PROVE  s \notin mixed /\ At(s) = {} /\ RowsAt(s)' = RowsAt(s)
  <2>1. s \notin mixed /\ At(s) = {}
    BY <1>1, <1>4
  <2>2. CASE UNCHANGED chunks
    BY <2>1, <2>2 DEF RowsAt
  <2>3. ASSUME NEW p \in Passes, passes[p].step = "embed",
               NEW rows \in SUBSET Cuts[passes[p].at][passes[p].text],
               chunks' = Replacing(rows)
        PROVE  RowsAt(s)' = RowsAt(s)
    <3>1. passes[p].at \in Sources /\ passes[p].text \in Contents
      BY <2>3 DEF IndexInv, IndexTyped
    <3>2. s # passes[p].at
      BY <2>1, <2>3 DEF At
    <3>3. \A r \in rows : r.source = passes[p].at
      BY <2>3, <3>1, CutsAreOfTheirSource
    <3> QED
      BY <1>4, <2>3, <3>1, <3>2, <3>3, ReplacingSparesOthers
  <2> QED
    BY <1>1, <2>1, <2>2, <2>3
<1>5. RowsFit'
  <2>1. Cuts' = Cuts
    BY DEF Cuts
  <2> QED
    BY <1>1, <1>3, <1>4, <2>1 DEF IndexInv, RowsFit
<1> QED
  BY <1>2, <1>5 DEF IndexInv

LEMMA IndexStep == IndexInv /\ [IndexNext]_indexVars => IndexInv'
<1> SUFFICES ASSUME IndexInv, [IndexNext]_indexVars PROVE IndexInv'
  OBVIOUS
<1>1. ASSUME UNCHANGED <<chunks, marks, passes, mixed>>, files' \in [Sources -> Contents \cup {NoFile}]
      PROVE  IndexInv'
  <2>1. IndexTyped'
    BY <1>1 DEF IndexInv, IndexTyped
  <2>2. \A s \in Sources : At(s)' = At(s) /\ RowsAt(s)' = RowsAt(s)
    BY <1>1 DEF At, RowsAt
  <2>3. Cuts' = Cuts
    BY DEF Cuts
  <2> QED
    BY <1>1, <2>1, <2>2, <2>3 DEF IndexInv, RowsFit
<1>2. ASSUME NEW s \in Sources, Edit(s) PROVE IndexInv'
  <2>1. files' \in [Sources -> Contents \cup {NoFile}]
    BY <1>2 DEF Edit, IndexInv, IndexTyped
  <2> QED
    BY <1>1, <1>2, <2>1 DEF Edit
<1>3. ASSUME NEW p \in Passes, Work(p) PROVE IndexInv'
  <2>1. passes[p] \in Steps
    BY DEF IndexInv, IndexTyped
  <2>2. CASE Start(p)
    <3>1. [Resting EXCEPT !.step = "run", !.todo = {s \in Sources : files[s] # NoFile}] \in Steps
      BY DEF Resting, Steps
    <3> QED
      BY <2>2, <3>1, PassesOn DEF Start, Resting
  <2>3. CASE Skip(p)
    <3>1. [Resting EXCEPT !.step = "run", !.todo = passes[p].todo \ {Upcoming(p)}] \in Steps
      BY <2>1 DEF Resting, Steps
    <3> QED
      BY <2>3, <3>1, PassesOn DEF Skip, Passed, Resting
  <2>4. CASE Clear(p)
    BY <2>4, ClearStep
  <2>5. CASE Store(p)
    BY <2>5, StoreStep
  <2>6. CASE End(p)
    <3>1. Resting \in Steps
      BY DEF Resting, Steps
    <3> QED
      BY <2>6, <3>1, PassesOn DEF End, Resting
  <2> QED
    BY <1>3, <2>2, <2>3, <2>4, <2>5, <2>6 DEF Work
<1>4. CASE Crash
  BY <1>4, CrashStep
<1>5. ASSUME NEW q \in Queries, Ask(q) \/ Rank(q) PROVE IndexInv'
  <2>1. UNCHANGED <<files, chunks, marks, passes, mixed>>
    BY <1>5 DEF Ask, Rank
  <2> QED
    BY <1>1, <2>1 DEF IndexInv, IndexTyped
<1>6. CASE UNCHANGED indexVars
  <2>1. UNCHANGED <<files, chunks, marks, passes, mixed>>
    BY <1>6 DEF indexVars
  <2> QED
    BY <1>1, <2>1 DEF IndexInv, IndexTyped
<1> QED
  BY <1>2, <1>3, <1>4, <1>5, <1>6 DEF IndexNext

LEMMA IndexInvInit == IndexInit => IndexInv
<1> SUFFICES ASSUME IndexInit PROVE IndexInv
  OBVIOUS
<1>1. IndexTyped
  BY DEF IndexInit, IndexTyped, Steps, Resting
<1>2. RowsFit
  BY DEF IndexInit, RowsFit, RowsAt, At, Resting
<1> QED
  BY <1>1, <1>2 DEF IndexInv

\* Whatever is edited, indexed at a time and cut off by crashes: a source that no
\* call is storing has the rows of the text whose hash is kept, those and no
\* others, unless a crash cut its indexing off or two calls stored it at a time.
THEOREM IndexHoldsTheMarkedText == IndexSpec => []RowsAreOfTheMarkedText
<1>1. IndexInv => RowsAreOfTheMarkedText
  BY DEF IndexInv, RowsFit, RowsAreOfTheMarkedText
<1> QED
  BY <1>1, IndexInvInit, IndexStep, PTL DEF IndexSpec

-----------------------------------------------------------------------------
(* Searching.  First: a file is cut into finitely many chunks, for which the *)
(* folds over its lines, and over the braces of a line, have to be followed. *)

\* Induction over the natural numbers, for a set.
LEMMA Induction ==
  ASSUME NEW T, 0 \in T, \A k \in Nat : k \in T => k + 1 \in T
  PROVE  Nat \subseteq T
<1> SUFFICES ASSUME Nat \ T # {} PROVE FALSE
  OBVIOUS
<1> DEFINE R == OpToRel(<, Nat)
<1>1. IsWellFoundedOn(R, Nat)
  BY NatLessThanWellFounded
<1>2. \E x \in Nat \ T : \A y \in Nat \ T : ~(<<y, x>> \in R)
  <2> HIDE DEF R
  <2> QED
    BY <1>1, WFMin
<1>3. PICK x \in Nat \ T : \A y \in Nat \ T : ~(<<y, x>> \in R)
  BY <1>2
<1>4. x # 0
  OBVIOUS
<1>5. x - 1 \in Nat /\ x - 1 + 1 = x
  BY <1>4
<1>6. x - 1 \in Nat \ T
  BY <1>5
<1>7. <<x - 1, x>> \in R
  BY <1>5 DEF OpToRel
<1> QED
  BY <1>3, <1>6, <1>7

LEMMA MaxIs ==
  ASSUME NEW k \in Nat, NEW s \in SUBSET (1 .. k + 1), k + 1 \in s
  PROVE  Max(s) = k + 1
<1>1. \A y \in s : y \in Nat /\ k + 1 >= y
  OBVIOUS
<1>2. \E x \in s : \A y \in s : x >= y
  BY <1>1
<1>3. Max(s) \in s /\ \A y \in s : Max(s) >= y
  BY <1>2 DEF Max
<1> HIDE DEF Max
<1>4. Max(s) >= k + 1 /\ k + 1 >= Max(s) /\ Max(s) \in Nat
  BY <1>1, <1>3
<1> QED
  BY <1>4

LEMMA MaxIn ==
  ASSUME NEW k \in Nat, NEW s \in SUBSET (1 .. k), s # {}
  PROVE  Max(s) \in 1 .. k
<1> DEFINE T == {n \in Nat : \A x \in SUBSET (1 .. n) : x # {} => Max(x) \in 1 .. n}
<1>1. 0 \in T
  <2>1. 1 .. 0 = {}
    OBVIOUS
  <2> QED
    BY <2>1
<1>2. ASSUME NEW n \in Nat, n \in T
      PROVE  n + 1 \in T
  <2>1. ASSUME NEW x \in SUBSET (1 .. n + 1), x # {}
        PROVE  Max(x) \in 1 .. n + 1
    <3>1. CASE n + 1 \in x
      BY <3>1, MaxIs
    <3>2. CASE n + 1 \notin x
      <4>1. x \in SUBSET (1 .. n)
        BY <3>2
      <4>2. Max(x) \in 1 .. n
        BY <1>2, <2>1, <4>1
      <4> QED
        BY <4>2
    <3> QED
      BY <3>1, <3>2
  <2> QED
    BY <2>1
<1> HIDE DEF T
<1>3. Nat \subseteq T
  BY <1>1, <1>2, Induction
<1>4. k \in T
  BY <1>3
<1> QED
  BY <1>4 DEF T

\* The recursion by which a fold is defined, for a step given as a function.
Recurs(g, F, b, k) ==
  \A x \in SUBSET (1 .. k) :
    g[x] = IF x = {} THEN b ELSE F[g[x \ {Max(x)}]][Max(x)]

Recurrence(D, F, b, k) == \E g \in [SUBSET (1 .. k) -> D] : Recurs(g, F, b, k)

LEMMA FoldExists ==
  ASSUME NEW D, NEW b \in D, NEW k \in Nat, NEW F \in [D -> [1 .. k -> D]]
  PROVE  \E g \in [SUBSET (1 .. k) -> D] : Recurs(g, F, b, k)
<1> DEFINE T == {n \in Nat : n <= k => Recurrence(D, F, b, n)}
<1>1. 0 \in T
  <2> DEFINE g == [x \in SUBSET (1 .. 0) |-> b]
  <2>1. SUBSET (1 .. 0) = {{}}
    OBVIOUS
  <2>2. Recurs(g, F, b, 0) /\ g \in [SUBSET (1 .. 0) -> D]
    BY <2>1 DEF Recurs
  <2> HIDE DEF g
  <2> QED
    BY <2>2 DEF Recurrence
<1>2. ASSUME NEW n \in Nat, n \in T
      PROVE  n + 1 \in T
  <2> SUFFICES ASSUME n + 1 <= k
               PROVE  Recurrence(D, F, b, n + 1)
    OBVIOUS
  <2>1. Recurrence(D, F, b, n)
    BY <1>2
  <2>2. PICK g \in [SUBSET (1 .. n) -> D] : Recurs(g, F, b, n)
    BY <2>1 DEF Recurrence
  <2> DEFINE h == [x \in SUBSET (1 .. n + 1) |->
                     IF n + 1 \in x THEN F[g[x \ {n + 1}]][n + 1] ELSE g[x]]
  <2>3. n + 1 \in 1 .. k
    OBVIOUS
  <2>4. ASSUME NEW x \in SUBSET (1 .. n + 1)
        PROVE  /\ h[x] \in D
               /\ h[x] = IF x = {} THEN b ELSE F[h[x \ {Max(x)}]][Max(x)]
    <3>1. CASE n + 1 \in x
      <4>1. Max(x) = n + 1
        BY <3>1, MaxIs
      <4>2. x \ {n + 1} \in SUBSET (1 .. n + 1) /\ n + 1 \notin x \ {n + 1}
        OBVIOUS
      <4>3. h[x \ {n + 1}] = g[x \ {n + 1}] /\ x \ {n + 1} \in SUBSET (1 .. n)
        BY <4>2
      <4>4. h[x] = F[g[x \ {n + 1}]][n + 1] /\ g[x \ {n + 1}] \in D
        BY <3>1, <4>3
      <4>5. F[g[x \ {n + 1}]] \in [1 .. k -> D]
        BY <4>4
      <4>6. F[g[x \ {n + 1}]][n + 1] \in D
        BY <2>3, <4>5
      <4> HIDE DEF h
      <4> QED
        BY <3>1, <4>1, <4>3, <4>4, <4>6
    <3>2. CASE n + 1 \notin x
      <4>1. x \in SUBSET (1 .. n)
        BY <3>2
      <4>2. g[x] = (IF x = {} THEN b ELSE F[g[x \ {Max(x)}]][Max(x)]) /\ g[x] \in D
        BY <2>2, <4>1 DEF Recurs
      <4>3. x \ {Max(x)} \in SUBSET (1 .. n + 1) /\ n + 1 \notin x \ {Max(x)}
        BY <3>2
      <4>4. h[x \ {Max(x)}] = g[x \ {Max(x)}] /\ h[x] = g[x]
        BY <3>2, <4>3
      <4> HIDE DEF h
      <4> QED
        BY <4>2, <4>4
    <3> QED
      BY <3>1, <3>2
  <2>5. h \in [SUBSET (1 .. n + 1) -> D]
    BY <2>4
  <2> HIDE DEF h
  <2>6. Recurs(h, F, b, n + 1)
    BY <2>4 DEF Recurs
  <2> QED
    BY <2>5, <2>6 DEF Recurrence
<1> HIDE DEF T
<1>3. Nat \subseteq T
  BY <1>1, <1>2, Induction
<1>4. k \in T /\ k <= k
  BY <1>3
<1>5. Recurrence(D, F, b, k)
  BY <1>4 DEF T
<1> QED
  BY <1>5 DEF Recurrence

\* What every step of a fold keeps, the fold keeps.
LEMMA FoldStays ==
  ASSUME NEW D, NEW k \in Nat, NEW g, g[{}] \in D,
         \A x \in SUBSET (1 .. k) : x # {} /\ g[x \ {Max(x)}] \in D => g[x] \in D
  PROVE  g[1 .. k] \in D
<1> DEFINE T == {n \in Nat : n <= k => g[1 .. n] \in D}
<1>1. 0 \in T
  <2>1. 1 .. 0 = {}
    OBVIOUS
  <2> QED
    BY <2>1
<1>2. ASSUME NEW n \in Nat, n \in T
      PROVE  n + 1 \in T
  <2> SUFFICES ASSUME n + 1 <= k PROVE g[1 .. n + 1] \in D
    OBVIOUS
  <2>1. 1 .. n + 1 \in SUBSET (1 .. k) /\ 1 .. n + 1 \in SUBSET (1 .. n + 1) /\ n + 1 \in 1 .. n + 1
    OBVIOUS
  <2>2. Max(1 .. n + 1) = n + 1
    BY <2>1, MaxIs
  <2>3. (1 .. n + 1) \ {n + 1} = 1 .. n /\ 1 .. n + 1 # {}
    OBVIOUS
  <2>4. g[1 .. n] \in D
    BY <1>2
  <2> QED
    BY <2>1, <2>2, <2>3, <2>4
<1> HIDE DEF T
<1>3. Nat \subseteq T
  BY <1>1, <1>2, Induction
<1>4. k \in T
  BY <1>3
<1> QED
  BY <1>4 DEF T

LEMMA ImageIsFinite ==
  ASSUME NEW S, IsFiniteSet(S), NEW f, NEW T, \A y \in T : \E x \in S : y = f[x]
  PROVE  IsFiniteSet(T)
<1> DEFINE U == {f[x] : x \in S}
           h == [x \in S |-> f[x]]
<1>1. h \in Surjection(S, U)
  BY DEF Surjection
<1>2. IsFiniteSet(U)
  BY <1>1, FS_Surjection
<1>3. T \in SUBSET U
  OBVIOUS
<1> QED
  BY <1>2, <1>3, FS_Subset

LEMMA SequenceIsFinite ==
  ASSUME NEW S, NEW s \in Seq(S)
  PROVE  IsFiniteSet(ToSet(s))
<1>1. DOMAIN s = 1 .. Len(s) /\ Len(s) \in Nat
  BY LenProperties
<1>2. IsFiniteSet(1 .. Len(s))
  BY <1>1, FS_Interval
<1>3. \A y \in ToSet(s) : \E i \in 1 .. Len(s) : y = s[i]
  BY <1>1 DEF ToSet
<1> QED
  BY <1>2, <1>3, ImageIsFinite

\* A scan of lines.
Spans == [from : Nat, to : Nat, symbol : Names]
Scans == [spans : Seq(Spans), start : Nat, depth : Nat, current : Names, pending : Names]

LEMMA ScanGoesOn ==
  ASSUME NEW scan \in Scans, NEW i \in Nat
  PROVE  /\ Cut(scan, i) \in Scans /\ OpenBrace(scan) \in Scans /\ CloseBrace(scan, i) \in Scans
         /\ \A line \in Lines : Declared(scan, line) \in Scans
<1>1. NoSymbol \in Names
  BY DEF Names
<1>2. ASSUME NEW s \in Scans PROVE Cut(s, i) \in Scans
  <2>1. Span(s.start, i, s.current) \in Spans
    BY DEF Span, Spans, Scans
  <2>2. Append(s.spans, Span(s.start, i, s.current)) \in Seq(Spans)
    BY <2>1, AppendProperties DEF Scans
  <2>3. i + 1 \in Nat
    OBVIOUS
  <2> QED
    BY <1>1, <2>2, <2>3 DEF Cut, Scans
<1>3. OpenBrace(scan) \in Scans
  <2>1. [scan EXCEPT !.depth = 1, !.current = scan.pending, !.pending = NoSymbol] \in Scans
    BY <1>1 DEF Scans
  <2>2. scan.depth + 1 \in Nat
    BY DEF Scans
  <2>3. [scan EXCEPT !.depth = scan.depth + 1] \in Scans
    BY <2>2 DEF Scans
  <2> QED
    BY <2>1, <2>3 DEF OpenBrace
<1>4. [scan EXCEPT !.depth = 0] \in Scans
  BY DEF Scans
<1>5. CASE scan.depth <= 1
  BY <1>2, <1>3, <1>4, <1>5 DEF CloseBrace, Declared, Lines, Scans
<1>6. CASE ~(scan.depth <= 1)
  <2>1. scan.depth - 1 \in Nat
    BY <1>6 DEF Scans
  <2> QED
    BY <1>2, <1>3, <1>6, <2>1 DEF CloseBrace, Declared, Lines, Scans
<1> QED
  BY <1>5, <1>6

LEMMA LineIsScanned ==
  ASSUME NEW scan \in Scans, NEW line \in Lines, NEW i \in Nat
  PROVE  ScanLine(scan, line, i) \in Scans
<1> DEFINE op(s, brace) == IF brace = "{" THEN OpenBrace(s) ELSE CloseBrace(s, i)
           b == Declared(scan, line)
           k == Len(line.braces)
           Is(g) == g = [x \in SUBSET (1 .. k) |->
                           IF x = {} THEN b ELSE op(g[x \ {Max(x)}], line.braces[Max(x)])]
           F == [s \in Scans |-> [j \in 1 .. k |-> op(s, line.braces[j])]]
<1>1. line.braces \in Seq({"{", "}"}) /\ b \in Scans
  BY ScanGoesOn DEF Lines
<1>2. k \in Nat /\ DOMAIN line.braces = 1 .. k
  BY <1>1, LenProperties
<1>3. \A brace : \A s \in Scans : op(s, brace) \in Scans
  BY ScanGoesOn
<1> HIDE DEF op, b, k
<1>4. F \in [Scans -> [1 .. k -> Scans]]
  BY <1>3
<1>5. PICK g \in [SUBSET (1 .. k) -> Scans] : Recurs(g, F, b, k)
  BY <1>1, <1>2, <1>4, FoldExists
<1>6. Is(g)
  <2>1. ASSUME NEW x \in SUBSET (1 .. k)
        PROVE  g[x] = IF x = {} THEN b ELSE op(g[x \ {Max(x)}], line.braces[Max(x)])
    <3>1. g[x] = IF x = {} THEN b ELSE F[g[x \ {Max(x)}]][Max(x)]
      BY <1>5 DEF Recurs
    <3>2. x \ {Max(x)} \in SUBSET (1 .. k) /\ (x # {} => Max(x) \in 1 .. k)
      BY <1>2, MaxIn
    <3>3. x # {} => F[g[x \ {Max(x)}]][Max(x)] = op(g[x \ {Max(x)}], line.braces[Max(x)])
      BY <3>2
    <3> QED
      BY <3>1, <3>3
  <2> HIDE DEF F
  <2> QED
    BY <2>1
<1> DEFINE f == CHOOSE h : Is(h)
<1>7. Is(f)
  BY <1>6
<1>8. FoldLeft(LAMBDA s, brace : IF brace = "{" THEN OpenBrace(s) ELSE CloseBrace(s, i),
               Declared(scan, line), line.braces) = f[1 .. k]
  BY <1>2 DEF FoldLeft, MapThenFoldSet, op, b
<1> HIDE DEF f
<1>9. f[1 .. k] \in Scans
  <2>1. f[{}] = b
    BY <1>7
  <2>2. ASSUME NEW x \in SUBSET (1 .. k), x # {}, f[x \ {Max(x)}] \in Scans
        PROVE  f[x] \in Scans
    <3>1. f[x] = op(f[x \ {Max(x)}], line.braces[Max(x)])
      BY <1>7, <2>2
    <3> QED
      BY <1>3, <2>2, <3>1
  <2> QED
    BY <1>1, <1>2, <2>1, <2>2, FoldStays
<1> QED
  BY <1>8, <1>9, ScanGoesOn DEF ScanLine

LEMMA CodeIsCutFinitely ==
  ASSUME NEW content \in Seq(Lines)
  PROVE  IsFiniteSet(CodeSpans(content))
<1> DEFINE k == Len(content)
           s == [i \in 1 .. Len(content) |-> i]
           op(scan, i) == ScanLine(scan, content[i], i)
           Is(g) == g = [x \in SUBSET (1 .. k) |->
                           IF x = {} THEN NewScan ELSE op(g[x \ {Max(x)}], s[Max(x)])]
           F == [d \in Scans |-> [j \in 1 .. k |-> op(d, s[j])]]
<1>1. NoSymbol \in Names
  BY DEF Names
<1>2. NewScan \in Scans
  BY EmptySeq, <1>1 DEF NewScan, Scans
<1>3. k \in Nat /\ DOMAIN s = 1 .. k /\ \A i \in 1 .. k : s[i] = i /\ content[i] \in Lines
  BY LenProperties, ElementOfSeq
<1>4. \A d \in Scans : \A i \in 1 .. k : op(d, s[i]) \in Scans
  BY <1>3, LineIsScanned
<1> HIDE DEF op, k
<1>5. F \in [Scans -> [1 .. k -> Scans]]
  BY <1>4
<1>6. PICK g \in [SUBSET (1 .. k) -> Scans] : Recurs(g, F, NewScan, k)
  BY <1>2, <1>3, <1>5, FoldExists
<1>7. Is(g)
  <2>1. ASSUME NEW x \in SUBSET (1 .. k)
        PROVE  g[x] = IF x = {} THEN NewScan ELSE op(g[x \ {Max(x)}], s[Max(x)])
    <3>1. g[x] = IF x = {} THEN NewScan ELSE F[g[x \ {Max(x)}]][Max(x)]
      BY <1>6 DEF Recurs
    <3>2. x \ {Max(x)} \in SUBSET (1 .. k) /\ (x # {} => Max(x) \in 1 .. k)
      BY <1>3, MaxIn
    <3>3. x # {} => F[g[x \ {Max(x)}]][Max(x)] = op(g[x \ {Max(x)}], s[Max(x)])
      BY <3>2
    <3> QED
      BY <3>1, <3>3
  <2> HIDE DEF F
  <2> QED
    BY <2>1
<1> DEFINE f == CHOOSE h : Is(h)
<1>8. Is(f)
  BY <1>7
<1> DEFINE end == FoldLeft(LAMBDA scan, i : ScanLine(scan, content[i], i), NewScan, s)
<1>9. end = f[1 .. k]
  BY <1>3 DEF FoldLeft, MapThenFoldSet, op
<1> HIDE DEF f
<1>10. f[1 .. k] \in Scans
  <2>1. f[{}] = NewScan
    BY <1>8
  <2>2. ASSUME NEW x \in SUBSET (1 .. k), x # {}, f[x \ {Max(x)}] \in Scans
        PROVE  f[x] \in Scans
    <3>1. f[x] = op(f[x \ {Max(x)}], s[Max(x)]) /\ Max(x) \in 1 .. k
      BY <1>3, <1>8, <2>2, MaxIn
    <3> HIDE DEF s
    <3> QED
      BY <1>4, <2>2, <3>1
  <2> QED
    BY <1>2, <1>3, <2>1, <2>2, FoldStays
<1>11. end.spans \in Seq(Spans)
  BY <1>9, <1>10 DEF Scans
<1> HIDE DEF end
<1>12. IsFiniteSet(ToSet(end.spans))
  BY <1>11, SequenceIsFinite
<1>13. CodeSpans(content) \subseteq ToSet(end.spans) \cup {Span(end.start, Len(content), end.current)}
  BY DEF CodeSpans, end
<1>14. IsFiniteSet(ToSet(end.spans) \cup {Span(end.start, Len(content), end.current)})
  BY <1>12, FS_AddElement
<1> QED
  BY <1>13, <1>14, FS_Subset

LEMMA ProseIsCutFinitely ==
  ASSUME NEW content \in Seq(Lines)
  PROVE  IsFiniteSet(WindowSpans(content))
<1> DEFINE EndOf(k) == 1 + k * (MaxLines - OverlapLines) + MaxLines - 1
           span(k) == Span(1 + k * (MaxLines - OverlapLines),
                           IF EndOf(k) < Len(content) THEN EndOf(k) ELSE Len(content), NoSymbol)
           f == [k \in 0 .. Len(content) |-> span(k)]
<1>1. IsFiniteSet(0 .. Len(content))
  BY LenProperties, FS_Interval
<1>2. \A y \in WindowSpans(content) : \E k \in 0 .. Len(content) : y = span(k)
  BY DEF WindowSpans
<1> HIDE DEF span
<1>3. \A y \in WindowSpans(content) : \E k \in 0 .. Len(content) : y = f[k]
  BY <1>2
<1> HIDE DEF f
<1> QED
  BY <1>1, <1>3, ImageIsFinite

\* So a file has finitely many rows.
LEMMA RowsAreFinite ==
  ASSUME NEW s \in Sources, NEW c \in Contents
  PROVE  IsFiniteSet(Cuts[s][c])
<1> DEFINE row(span) == [source |-> s, from |-> span.from, to |-> span.to, symbol |-> span.symbol,
                         text |-> TextOf(c, span)]
           f == [span \in ChunkFile(s, c) |-> row(span)]
<1>1. c \in Seq(Lines)
  BY MemoryAssumption
<1>2. IsFiniteSet(CodeSpans(c)) /\ IsFiniteSet(WindowSpans(c))
  BY <1>1, CodeIsCutFinitely, ProseIsCutFinitely
<1>3. ChunkFile(s, c) \in SUBSET CodeSpans(c) \/ ChunkFile(s, c) \in SUBSET WindowSpans(c)
  BY DEF ChunkFile
<1>4. IsFiniteSet(ChunkFile(s, c))
  BY <1>2, <1>3, FS_Subset
<1>5. \A y \in Cuts[s][c] : \E span \in ChunkFile(s, c) : y = row(span)
  BY DEF Cuts, RowsOf
<1> HIDE DEF row
<1>6. \A y \in Cuts[s][c] : \E span \in ChunkFile(s, c) : y = f[span]
  BY <1>5
<1> HIDE DEF f
<1> QED
  BY <1>4, <1>6, ImageIsFinite

\* Every chunk has its text row, also between the two halves of a store, unless a
\* crash cut the indexing of its source off; and what a search found by its text
\* includes every such chunk that spoke of the name.
WordsFit == /\ IsFiniteSet(chunks) /\ IsFiniteSet(BagToSet(words))
            /\ \A row \in chunks : row.source \in torn \/ row \in BagToSet(words)

Found(query) ==
  query.step = "ask" =>
    /\ IsFiniteSet(query.ids)
    /\ ~query.cut => \A row \in query.there : Id(row) \in query.ids

QueriesFit == DOMAIN queries = Queries /\ \A q \in Queries : Found(queries[q])

SearchInv == IndexTyped /\ WordsFit /\ QueriesFit

LEMMA ReplacedFit ==
  ASSUME WordsFit, NEW rows, IsFiniteSet(rows),
         chunks' = Replacing(rows), words' = words (+) SetToBag(rows), torn' = torn
  PROVE  WordsFit'
<1>1. BagToSet(words') = BagToSet(words) \cup rows
  BY DEF BagToSet, SetToBag, (+)
<1>2. IsFiniteSet(BagToSet(words) \cup rows)
  BY FS_Union DEF WordsFit
<1>3. chunks' \in SUBSET (chunks \cup rows)
  BY DEF Replacing
<1>4. IsFiniteSet(chunks \cup rows)
  BY FS_Union DEF WordsFit
<1>5. IsFiniteSet(chunks')
  BY <1>3, <1>4, FS_Subset
<1> QED
  BY <1>1, <1>2, <1>3, <1>5 DEF WordsFit

LEMMA ClearFits ==
  ASSUME WordsFit, NEW p \in Passes, Clear(p)
  PROVE  WordsFit'
<1>1. PICK s, rows : s = Upcoming(p) /\ rows = chunks \ RowsAt(s)
  OBVIOUS
<1>2. chunks' = rows /\ words' = WordsWithout(rows, s) /\ torn' = torn \ {s}
  BY <1>1 DEF Clear
<1>3. \A row \in rows : row.source # s
  BY <1>1 DEF RowsAt
<1>4. BagToSet(words') = BagToSet(words)
  BY <1>2, <1>3 DEF WordsWithout, BagToSet
<1>5. rows \in SUBSET chunks
  BY <1>1
<1>6. IsFiniteSet(rows)
  BY <1>5, FS_Subset DEF WordsFit
<1>7. \A row \in rows : row.source \in torn' \/ row \in BagToSet(words)
  BY <1>2, <1>3, <1>5 DEF WordsFit
<1> QED
  BY <1>2, <1>4, <1>6, <1>7 DEF WordsFit

\* What a call that was cut off wrote is of sources that count as torn from now.
LEMMA CrashFits ==
  ASSUME IndexTyped, WordsFit, Crash
  PROVE  WordsFit'
<1>1. torn' = torn \cup {s \in Sources : At(s) # {}}
  BY DEF Crash
<1>2. CASE UNCHANGED <<chunks, words>>
  BY <1>1, <1>2 DEF WordsFit
<1>3. ASSUME NEW p \in Passes, passes[p].step = "embed",
             NEW row \in Cuts[passes[p].at][passes[p].text], NEW both \in BOOLEAN,
             PartStored(Cuts[passes[p].at][passes[p].text], row, both)
      PROVE  WordsFit'
  <2>1. PICK rows, texts :
          /\ rows \in SUBSET Cuts[passes[p].at][passes[p].text] /\ texts \in SUBSET rows
          /\ chunks' = Replacing(rows) /\ words' = words (+) SetToBag(texts)
    <3> DEFINE before == {r \in Cuts[passes[p].at][passes[p].text] : r.from < row.from}
    <3>1. before \cup {row} \in SUBSET Cuts[passes[p].at][passes[p].text]
      BY <1>3
    <3>2. before \cup {r \in {row} : both} \in SUBSET (before \cup {row})
      OBVIOUS
    <3>3. /\ chunks' = Replacing(before \cup {row})
          /\ words' = words (+) SetToBag(before \cup {r \in {row} : both})
      BY <1>3 DEF PartStored
    <3> HIDE DEF before
    <3> QED
      BY <3>1, <3>2, <3>3
  <2>2. passes[p].at \in Sources /\ passes[p].text \in Contents
    BY <1>3 DEF IndexTyped
  <2>3. \A r \in rows : r.source \in torn'
    <3>1. \A r \in rows : r.source = passes[p].at
      BY <2>1, <2>2, CutsAreOfTheirSource
    <3>2. p \in At(passes[p].at)
      BY <1>3 DEF At
    <3> QED
      BY <1>1, <2>2, <3>1, <3>2
  <2>4. IsFiniteSet(rows) /\ IsFiniteSet(texts)
    BY <2>1, <2>2, RowsAreFinite, FS_Subset
  <2>5. BagToSet(words') = BagToSet(words) \cup texts
    BY <2>1 DEF BagToSet, SetToBag, (+)
  <2>6. chunks' \in SUBSET (chunks \cup rows)
    BY <2>1 DEF Replacing
  <2>7. IsFiniteSet(chunks') /\ IsFiniteSet(BagToSet(words'))
    BY <2>4, <2>5, <2>6, FS_Union, FS_Subset DEF WordsFit
  <2>8. \A r \in chunks' : r.source \in torn' \/ r \in BagToSet(words')
    BY <1>1, <2>3, <2>5, <2>6 DEF WordsFit
  <2> QED
    BY <2>7, <2>8 DEF WordsFit
<1> QED
  BY <1>2, <1>3 DEF Crash

LEMMA AskFits ==
  ASSUME WordsFit, QueriesFit, NEW q \in Queries, Ask(q)
  PROVE  QueriesFit'
<1> DEFINE Finds(symbol) == {w \in BagToSet(words) : Speaks(w, symbol)}
           Cuts4(symbol) == BagCardinality([w \in Finds(symbol) |-> words[w]]) > 4 * Limit
           Some(symbol) == IF Cuts4(symbol)
                           THEN {T \in SUBSET Finds(symbol) : Cardinality(T) <= 4 * Limit}
                           ELSE {Finds(symbol)}
           Asked(symbol, cut, rows) ==
             [NotAsked EXCEPT !.step = "ask", !.symbol = symbol, !.cut = cut,
                !.ids = {Id(w) : w \in rows}, !.there = Findable(symbol)]
<1>1. \E symbol \in Symbols : \E rows \in Some(symbol) :
         queries' = [queries EXCEPT ![q] = Asked(symbol, Cuts4(symbol), rows)]
  BY DEF Ask
<1>2. PICK symbol, cut, found, rows :
        /\ found = {w \in BagToSet(words) : Speaks(w, symbol)}
        /\ rows \in IF cut THEN {T \in SUBSET found : Cardinality(T) <= 4 * Limit} ELSE {found}
        /\ queries' = [queries EXCEPT ![q] =
             [NotAsked EXCEPT !.step = "ask", !.symbol = symbol, !.cut = cut,
                !.ids = {Id(w) : w \in rows}, !.there = Findable(symbol)]]
  <2>1. PICK symbol \in Symbols : \E rows \in Some(symbol) :
          queries' = [queries EXCEPT ![q] = Asked(symbol, Cuts4(symbol), rows)]
    BY <1>1
  <2>2. PICK rows \in Some(symbol) :
          queries' = [queries EXCEPT ![q] = Asked(symbol, Cuts4(symbol), rows)]
    BY <2>1
  <2>3. PICK cut, found : cut = Cuts4(symbol) /\ found = Finds(symbol)
    OBVIOUS
  <2> HIDE DEF Cuts4
  <2> QED
    BY <2>2, <2>3
<1>3. queries'[q] = [NotAsked EXCEPT !.step = "ask", !.symbol = symbol, !.cut = cut,
                       !.ids = {Id(w) : w \in rows}, !.there = Findable(symbol)]
  BY <1>2 DEF QueriesFit
<1>4. /\ queries'[q].ids = {Id(w) : w \in rows} /\ queries'[q].cut = cut
      /\ queries'[q].there = Findable(symbol)
  BY <1>3 DEF NotAsked
<1>5. rows \in SUBSET found
  BY <1>2
<1>6. rows \in SUBSET BagToSet(words)
  BY <1>2, <1>5
<1>7. IsFiniteSet(rows)
  BY <1>6, FS_Subset DEF WordsFit
<1>8. IsFiniteSet({Id(w) : w \in rows})
  <2> DEFINE f == [w \in rows |-> Id(w)]
             T == {Id(w) : w \in rows}
  <2>1. \A y \in T : \E w \in rows : y = f[w]
    OBVIOUS
  <2> HIDE DEF f, T
  <2>2. IsFiniteSet(T)
    BY <1>7, <2>1, ImageIsFinite
  <2> QED
    BY <2>2 DEF T
<1>9. ASSUME ~cut, NEW row \in Findable(symbol)
      PROVE  Id(row) \in {Id(w) : w \in rows}
  <2>1. rows = found
    BY <1>2, <1>9
  <2>2. row \in found
    BY <1>2, <1>9 DEF WordsFit, Findable
  <2> QED
    BY <2>1, <2>2
<1>10. Found(queries'[q])
  BY <1>4, <1>8, <1>9 DEF Found
<1>11. DOMAIN queries' = Queries /\ \A r \in Queries \ {q} : queries'[r] = queries[r]
  BY <1>2 DEF QueriesFit
<1> QED
  BY <1>10, <1>11 DEF QueriesFit

LEMMA RankFits ==
  ASSUME QueriesFit, NEW q \in Queries, Rank(q)
  PROVE  QueriesFit'
<1>1. PICK hits, cut : queries' = [queries EXCEPT ![q] =
                        [NotAsked EXCEPT !.step = "done", !.hits = hits, !.cut = cut]]
  BY DEF Rank
<1>2. queries'[q] = [NotAsked EXCEPT !.step = "done", !.hits = hits, !.cut = cut]
  BY <1>1 DEF QueriesFit
<1>3. queries'[q].step = "done"
  BY <1>2 DEF NotAsked
<1>4. Found(queries'[q])
  BY <1>3 DEF Found
<1>5. DOMAIN queries' = Queries /\ \A r \in Queries \ {q} : queries'[r] = queries[r]
  BY <1>1 DEF QueriesFit
<1> QED
  BY <1>4, <1>5 DEF QueriesFit

LEMMA OtherQueriesStay ==
  ASSUME QueriesFit, NEW r \in Queries, Ask(r) \/ Rank(r), NEW q \in Queries \ {r}
  PROVE  queries'[q] = queries[q]
<1>1. \E value : queries' = [queries EXCEPT ![r] = value]
  <2>1. CASE Ask(r)
    BY <2>1, Zenon DEF Ask
  <2>2. CASE Rank(r)
    BY <2>2, Zenon DEF Rank
  <2> QED
    BY <2>1, <2>2
<1>2. PICK value : queries' = [queries EXCEPT ![r] = value]
  BY <1>1
<1> QED
  BY <1>2 DEF QueriesFit

LEMMA SearchStep == SearchInv /\ [IndexNext]_indexVars => WordsFit' /\ QueriesFit'
<1> SUFFICES ASSUME SearchInv, [IndexNext]_indexVars PROVE WordsFit' /\ QueriesFit'
  OBVIOUS
<1> USE DEF SearchInv
<1>1. ASSUME UNCHANGED <<chunks, words, torn>> PROVE WordsFit'
  BY <1>1 DEF WordsFit
<1>2. ASSUME UNCHANGED queries PROVE QueriesFit'
  BY <1>2 DEF QueriesFit
<1>3. ASSUME NEW s \in Sources, Edit(s) PROVE WordsFit' /\ QueriesFit'
  BY <1>1, <1>2, <1>3 DEF Edit
<1>4. ASSUME NEW p \in Passes, Work(p) PROVE WordsFit' /\ QueriesFit'
  <2>1. UNCHANGED queries
    BY <1>4 DEF Work, Start, Skip, Clear, Store, End
  <2>2. CASE Start(p) \/ Skip(p) \/ End(p)
    <3>1. UNCHANGED <<chunks, words, torn>>
      BY <2>2 DEF Start, Skip, End
    <3> QED
      BY <1>1, <1>2, <2>1, <3>1
  <2>3. CASE Clear(p)
    BY <1>2, <2>1, <2>3, ClearFits
  <2>4. CASE Store(p)
    <3>1. PICK rows : rows = Cuts[passes[p].at][passes[p].text]
      OBVIOUS
    <3>2. /\ passes[p].step = "embed" /\ chunks' = Replacing(rows)
          /\ words' = words (+) SetToBag(rows) /\ torn' = torn
      BY <2>4, <3>1 DEF Store
    <3>3. IsFiniteSet(rows)
      BY <3>1, <3>2, RowsAreFinite DEF IndexTyped
    <3>4. WordsFit'
      BY <3>2, <3>3, ReplacedFit
    <3> QED
      BY <1>2, <2>1, <3>4
  <2> QED
    BY <1>4, <2>2, <2>3, <2>4 DEF Work
<1>5. CASE Crash
  <2>1. QueriesFit'
    <3>1. queries' = [q \in Queries |-> NotAsked]
      BY <1>5 DEF Crash
    <3>2. Found(NotAsked)
      BY DEF NotAsked, Found
    <3> QED
      BY <3>1, <3>2 DEF QueriesFit
  <2> QED
    BY <1>5, <2>1, CrashFits
<1>6. ASSUME NEW q \in Queries, Ask(q) PROVE WordsFit' /\ QueriesFit'
  BY <1>1, <1>6, AskFits DEF Ask
<1>7. ASSUME NEW q \in Queries, Rank(q) PROVE WordsFit' /\ QueriesFit'
  BY <1>1, <1>7, RankFits DEF Rank
<1>8. CASE UNCHANGED indexVars
  BY <1>1, <1>2, <1>8 DEF indexVars
<1> QED
  BY <1>3, <1>4, <1>5, <1>6, <1>7, <1>8 DEF IndexNext

\* What a search that was not cut short gives: as many hits as may be, or all the
\* chunks that its text rows led to.
LEMMA RankReturnsThem ==
  ASSUME WordsFit, QueriesFit, NEW q \in Queries, Rank(q), ~queries'[q].cut
  PROVE  \/ Cardinality(queries'[q].hits) = Limit
         \/ queries[q].there \cap chunks \subseteq queries'[q].hits
<1> DEFINE Lists == {{}} \cup Firsts({Id(row) : row \in chunks}, 4 * Limit)
           Hits(fused) == Firsts({row \in chunks : Id(row) \in fused}, Limit)
           Given(vectors, hits) ==
             [NotAsked EXCEPT !.step = "done", !.hits = hits,
                !.cut = queries[q].cut \/ Cardinality(queries[q].ids \cup vectors) > 2 * Limit]
<1>1. /\ queries[q].step = "ask"
      /\ \E vectors \in Lists : \E fused \in Fused(queries[q].ids, vectors) : \E hits \in Hits(fused) :
           queries' = [queries EXCEPT ![q] = Given(vectors, hits)]
  BY DEF Rank
<1>2. PICK vectors, fused, hits :
        /\ queries[q].step = "ask"
        /\ vectors \in Lists /\ fused \in Fused(queries[q].ids, vectors) /\ hits \in Hits(fused)
        /\ queries' = [queries EXCEPT ![q] = Given(vectors, hits)]
  <2> HIDE DEF Lists, Hits, Given
  <2> QED
    BY <1>1, Zenon
<1>3. queries'[q] = [NotAsked EXCEPT !.step = "done", !.hits = hits,
             !.cut = queries[q].cut \/ Cardinality(queries[q].ids \cup vectors) > 2 * Limit]
  BY <1>2 DEF QueriesFit
<1>4. /\ queries'[q].hits = hits
      /\ queries'[q].cut = (queries[q].cut \/ Cardinality(queries[q].ids \cup vectors) > 2 * Limit)
  BY <1>3 DEF NotAsked
<1>5. ~queries[q].cut /\ ~(Cardinality(queries[q].ids \cup vectors) > 2 * Limit)
  BY <1>4
<1>6. IsFiniteSet(queries[q].ids \cup vectors)
  <2>1. IsFiniteSet({Id(row) : row \in chunks})
    <3> DEFINE f == [row \in chunks |-> Id(row)]
               T == {Id(row) : row \in chunks}
    <3>1. \A y \in T : \E row \in chunks : y = f[row]
      OBVIOUS
    <3> HIDE DEF f, T
    <3>2. IsFiniteSet(T)
      BY <3>1, ImageIsFinite DEF WordsFit
    <3> QED
      BY <3>2 DEF T
  <2>2. vectors \in SUBSET {Id(row) : row \in chunks}
    BY <1>2 DEF Firsts
  <2>3. IsFiniteSet(vectors)
    BY <2>1, <2>2, FS_Subset
  <2>4. IsFiniteSet(queries[q].ids)
    BY <1>2 DEF QueriesFit, Found
  <2> QED
    BY <2>3, <2>4, FS_Union
<1>7. fused = queries[q].ids \cup vectors
  <2>1. Cardinality(queries[q].ids \cup vectors) \in Nat
    BY <1>6, FS_CardinalityType
  <2>2. Cardinality(queries[q].ids \cup vectors) <= 2 * Limit
    BY <1>5, <2>1, MemoryAssumption
  <2>3. fused \in Firsts(queries[q].ids \cup vectors, 2 * Limit)
    BY <1>2 DEF Fused
  <2> QED
    BY <2>2, <2>3 DEF Firsts
<1>8. \A row \in queries[q].there : Id(row) \in fused
  BY <1>2, <1>5, <1>7 DEF QueriesFit, Found
<1>9. hits = {row \in chunks : Id(row) \in fused} \/ Cardinality(hits) = Limit
  BY <1>2 DEF Firsts
<1> QED
  BY <1>4, <1>8, <1>9

\* Whatever is indexed, replaced and cut off while a search waits for the vector
\* of its words: a chunk that held the searched name when the search began, and
\* still does when it ends, is returned unless there was no room for it.  Chunks
\* of a file whose own indexing a crash cut off are not spoken of until the file
\* is indexed again.
THEOREM NoHitIsMissed == IndexSpec => SearchMissesNothing
<1>1. IndexInit => WordsFit /\ QueriesFit
  <2> SUFFICES ASSUME IndexInit PROVE WordsFit /\ QueriesFit
    OBVIOUS
  <2>1. chunks = {} /\ BagToSet(words) = {}
    BY DEF IndexInit, EmptyBag, SetToBag, BagToSet
  <2>2. WordsFit
    BY <2>1, FS_EmptySet DEF WordsFit
  <2>3. QueriesFit
    BY DEF IndexInit, NotAsked, QueriesFit, Found
  <2> QED
    BY <2>2, <2>3
<1>2. IndexSpec => []SearchInv
  <2>1. IndexInv /\ WordsFit /\ QueriesFit => SearchInv
    BY DEF IndexInv, SearchInv
  <2>2. IndexInit => IndexInv
    BY IndexInvInit
  <2> QED
    BY <1>1, <2>1, <2>2, IndexStep, SearchStep, PTL DEF IndexSpec
<1> DEFINE Misses == \A q \in Queries :
               queries[q].step = "ask" /\ queries'[q].step = "done" /\ ~queries'[q].cut =>
                 \/ Cardinality(queries'[q].hits) = Limit
                 \/ queries[q].there \cap chunks \subseteq queries'[q].hits
<1>3. SearchInv /\ [IndexNext]_indexVars => [Misses]_indexVars
  <2> SUFFICES ASSUME SearchInv, IndexNext, NEW q \in Queries,
                      queries[q].step = "ask", queries'[q].step = "done", ~queries'[q].cut
               PROVE  \/ Cardinality(queries'[q].hits) = Limit
                      \/ queries[q].there \cap chunks \subseteq queries'[q].hits
    OBVIOUS
  <2>1. queries' # queries
    OBVIOUS
  <2>2. CASE Crash
    BY <2>2 DEF Crash, NotAsked
  <2>3. ASSUME NEW r \in Queries, Ask(r) \/ Rank(r)
        PROVE  \/ Cardinality(queries'[q].hits) = Limit
               \/ queries[q].there \cap chunks \subseteq queries'[q].hits
    <3>1. r = q
      <4>1. CASE r # q
        <5>1. queries'[q] = queries[q]
          BY <2>3, <4>1, OtherQueriesStay DEF SearchInv
        <5> QED
          BY <5>1
      <4> QED
        BY <4>1
    <3>2. Rank(q)
      BY <2>3, <3>1 DEF Ask
    <3> QED
      BY <3>2, RankReturnsThem DEF SearchInv
  <2>4. CASE \E p \in Passes : Work(p)
    BY <2>1, <2>4 DEF Work, Start, Skip, Clear, Store, End
  <2>5. CASE \E s \in Sources : Edit(s)
    BY <2>1, <2>5 DEF Edit
  <2> QED
    BY <2>2, <2>3, <2>4, <2>5 DEF IndexNext
<1>4. SearchMissesNothing <=> [][Misses]_indexVars
  BY DEF SearchMissesNothing
<1> QED
  BY <1>2, <1>3, <1>4, PTL DEF IndexSpec
=============================================================================
