---------------------------- MODULE Planner_proofs ----------------------------
(***************************************************************************)
(* What holds of names and of the router for every value of the constants: *)
(* the relation of resource.ts is one the lock table may be given, no      *)
(* order of listings and probes leaves the cache with old capabilities, an *)
(* open breaker lets through only calls that were ranked before, and a     *)
(* plan that is proposed can be run to its end, its writers in order.      *)
(***************************************************************************)
EXTENDS Planner, LockManager, LockTable_proofs, TLAPS, FiniteSetTheorems, SequenceTheorems,
        WellFoundedInduction

\* A name meets itself: two claims of one spelling always conflict.
THEOREM NamesMeetThemselves ==
  ASSUME NEW a
  PROVE  ResourcesIntersect(a, a)
  BY DEF ResourcesIntersect

\* Whoever asks first, two names meet or they do not (what LockTable and
\* EpochCache assume of Overlap).
THEOREM MeetingIsMutual ==
  ASSUME NEW a, NEW b
  PROVE  ResourcesIntersect(a, b) <=> ResourcesIntersect(b, a)
  BY DEF ResourcesIntersect

\* Sets of names, as the cascade compares them, meet both ways too.
THEOREM SetsMeetMutually ==
  ASSUME NEW A, NEW B
  PROVE  SetsIntersect(A, B) <=> SetsIntersect(B, A)
  BY MeetingIsMutual DEF SetsIntersect

-----------------------------------------------------------------------------
RouterFields == {"breakers", "cards", "cache", "pinned"}

\* The shape the router's fields keep; the cache agrees with the cards.
RouterInv ==
  /\ DOMAIN router = RouterFields
  /\ router = [f \in RouterFields |-> router[f]]
  /\ CacheIsMeasured

\* Measured looks at nothing but the cards.
LEMMA MeasuredByCards ==
  ASSUME NEW r, NEW s, r.cards = s.cards, NEW m
  PROVE  Measured(r, m) = Measured(s, m)
  BY DEF Measured

LEMMA ListingKeeps ==
  ASSUME RouterInv, NEW up, NEW t, router' = Listed(router, up, t)
  PROVE  RouterInv'
  <1>1. /\ DOMAIN router' = RouterFields
        /\ router' = [f \in RouterFields |-> router'[f]]
    BY DEF RouterInv, Listed, RouterFields
  <1>2. /\ router'.cards = router.cards
        /\ router'.cache = [at |-> t, caps |-> Listing(router, up), kept |-> TRUE]
    BY DEF RouterInv, Listed, RouterFields
  <1>3. ASSUME NEW m \in DOMAIN router'.cache.caps
        PROVE  router'.cache.caps[m] = Measured(router', m)
    <2>1. router'.cache.caps[m] = Measured(router, m)
      BY <1>2, <1>3 DEF Listing
    <2>2. QED
      BY <2>1, <1>2, MeasuredByCards
  <1>4. CacheIsMeasured'
    BY <1>3 DEF CacheIsMeasured
  <1>5. QED
    BY <1>1, <1>4 DEF RouterInv

\* A change that leaves cards and cache alone leaves their agreement alone.
LEMMA OtherFieldsKeep ==
  ASSUME RouterInv,
         DOMAIN router' = RouterFields, router' = [f \in RouterFields |-> router'[f]],
         router'.cards = router.cards, router'.cache = router.cache
  PROVE  RouterInv'
  <1>1. ASSUME NEW m PROVE Measured(router', m) = Measured(router, m)
    BY MeasuredByCards
  <1>2. CacheIsMeasured'
    BY <1>1 DEF RouterInv, CacheIsMeasured
  <1>3. QED
    BY <1>2 DEF RouterInv

LEMMA FailureKeeps ==
  ASSUME RouterInv, NEW m, NEW t, router' = RecordFailure(router, m, t)
  PROVE  RouterInv'
  <1>1. /\ DOMAIN router' = RouterFields
        /\ router' = [f \in RouterFields |-> router'[f]]
        /\ router'.cards = router.cards
        /\ router'.cache = router.cache
    BY DEF RouterInv, RecordFailure, RouterFields
  <1>2. QED
    BY <1>1, OtherFieldsKeep

LEMMA SuccessKeeps ==
  ASSUME RouterInv, NEW m, router' = RecordSuccess(router, m)
  PROVE  RouterInv'
  <1>1. /\ DOMAIN router' = RouterFields
        /\ router' = [f \in RouterFields |-> router'[f]]
        /\ router'.cards = router.cards
        /\ router'.cache = router.cache
    BY DEF RouterInv, RecordSuccess, RouterFields
  <1>2. QED
    BY <1>1, OtherFieldsKeep

LEMMA ApplyingKeeps ==
  ASSUME RouterInv, NEW cards, router' = ApplyScorecards(router, cards)
  PROVE  RouterInv'
  <1>1. /\ DOMAIN router' = RouterFields
        /\ router' = [f \in RouterFields |-> router'[f]]
        /\ router'.cache = NoCache
    BY DEF RouterInv, ApplyScorecards, RouterFields
  <1>2. CacheIsMeasured'
    BY <1>1 DEF CacheIsMeasured, NoCache
  <1>3. QED
    BY <1>1, <1>2 DEF RouterInv

LEMMA RouterInvInit == Init => RouterInv
  <1> SUFFICES ASSUME Init PROVE RouterInv
    OBVIOUS
  <1>1. router = [breakers |-> [m \in Models |-> Closed], cards |-> [m \in Models |-> NoCard],
                  cache |-> NoCache, pinned |-> {}]
    BY DEF Init, NewRouter
  <1>2. CacheIsMeasured
    BY <1>1 DEF CacheIsMeasured, NoCache
  <1>3. QED
    BY <1>1, <1>2 DEF RouterInv, RouterFields

LEMMA RouterInvStep == RouterInv /\ [Next]_vars => RouterInv'
  <1> SUFFICES ASSUME RouterInv, [Next]_vars PROVE RouterInv'
    OBVIOUS
  <1>1. CASE UNCHANGED router
    BY <1>1 DEF RouterInv, CacheIsMeasured, Measured
  <1>2. ASSUME NEW s \in Sessions, Plan(s) PROVE RouterInv'
    BY <1>1, <1>2 DEF Plan
  <1>3. ASSUME NEW s \in Sessions, Route(s) PROVE RouterInv'
    <2>1. CASE UNCHANGED router
      BY <1>1, <2>1
    <2>2. ASSUME NEW up, router' = Listed(router, up, now) PROVE RouterInv'
      BY <2>2, ListingKeeps
    <2>3. QED
      BY <1>3, <2>1, <2>2 DEF Route
  <1>4. ASSUME NEW s \in Sessions, Malformed(s) PROVE RouterInv'
    BY <1>1, <1>4 DEF Malformed
  <1>5. ASSUME NEW s \in Sessions, AttemptFails(s) PROVE RouterInv'
    BY <1>5, FailureKeeps DEF AttemptFails
  <1>6. ASSUME NEW s \in Sessions, SpecArrives(s) PROVE RouterInv'
    BY <1>6, SuccessKeeps DEF SpecArrives
  <1>7. ASSUME NEW s \in Sessions, DagArrives(s) PROVE RouterInv'
    BY <1>7, SuccessKeeps DEF DagArrives
  <1>8. CASE ProbeStart
    BY <1>8, ListingKeeps DEF ProbeStart
  <1>9. CASE ProbeModel
    BY <1>1, <1>9 DEF ProbeModel
  <1>10. CASE ProbeEnd
    BY <1>10, ApplyingKeeps DEF ProbeEnd
  <1>11. CASE Tick
    BY <1>1, <1>11 DEF Tick
  <1>12. CASE UNCHANGED vars
    BY <1>1, <1>12 DEF vars
  <1>13. QED
    BY <1>2, <1>3, <1>4, <1>5, <1>6, <1>7, <1>8, <1>9, <1>10, <1>11, <1>12 DEF Next, Turn

\* Whatever is listed, measured, kept and applied in whatever order, the
\* catalogue the router serves from carries the measurements it was given.
THEOREM CacheStaysMeasured == Spec => []CacheIsMeasured
  <1>1. RouterInv => CacheIsMeasured
    BY DEF RouterInv
  <1>2. QED
    BY <1>1, RouterInvInit, RouterInvStep, PTL DEF Spec

-----------------------------------------------------------------------------
(* Breakers. *)

Breakers == [Models -> [failures : Nat, openUntil : Nat]]

\* A call is a record of its fields; one that asks walks through a list of
\* models, each in it once.
CallFields == {"step", "stage", "round", "fixes", "todo", "plan", "warned"}
CallOK(call) ==
  /\ DOMAIN call = CallFields
  /\ call.step = "ask" =>
       /\ call.todo \in Seq(Models) /\ call.todo # <<>>
       /\ \A i, j \in DOMAIN call.todo : call.todo[i] = call.todo[j] => i = j

BreakerTypes ==
  /\ now \in Nat
  /\ DOMAIN router = RouterFields
  /\ router.breakers \in Breakers
  /\ router.cache.kept => DOMAIN router.cache.caps \subseteq Models
  /\ DOMAIN calls = Sessions /\ \A s \in Sessions : CallOK(calls[s])
  /\ late \in [Models -> Nat]

\* The sessions that may still come to ask m.
Lists(call, m) == call.step = "ask" /\ \E i \in DOMAIN call.todo : call.todo[i] = m
Trailing(m) == {s \in Sessions : Lists(calls[s], m)}

\* While a breaker is open, every attempt was one of a session that had ranked
\* the model before, and the session whose failure opened it is not among them.
LateOK(m) ==
  IF IsOpen(router, m, now) THEN late[m] + Cardinality(Trailing(m)) < Cardinality(Sessions)
  ELSE late[m] = 0

BreakerInv == BreakerTypes /\ \A m \in Models : LateOK(m)

-----------------------------------------------------------------------------
LEMMA SmallerSets ==
  ASSUME NEW A, NEW B, A \subseteq B, B \subseteq Sessions
  PROVE  /\ Cardinality(A) \in Nat /\ Cardinality(B) \in Nat
         /\ Cardinality(A) <= Cardinality(B)
         /\ A # B => Cardinality(A) < Cardinality(B)
  <1>1. IsFiniteSet(B) /\ IsFiniteSet(A)
    BY FS_Subset, PlannerAssumption
  <1>2. Cardinality(A) \in Nat /\ Cardinality(B) \in Nat
    BY <1>1, FS_CardinalityType
  <1>3. Cardinality(A) <= Cardinality(B)
    BY <1>1, FS_Subset
  <1>4. A # B => Cardinality(A) < Cardinality(B)
    BY <1>1, <1>2, <1>3, FS_Subset
  <1>5. QED
    BY <1>2, <1>3, <1>4

\* There is somebody who does not trail, as long as one is known not to.
LEMMA NobodyLateYet ==
  ASSUME NEW A \in SUBSET Sessions, NEW s \in Sessions, s \notin A
  PROVE  Cardinality(A) < Cardinality(Sessions)
  BY SmallerSets

\* A step in which m's breaker does not open and nobody new lists m.
LEMMA QuietForModel ==
  ASSUME NEW m \in Models, BreakerTypes, BreakerTypes', LateOK(m),
         Trailing(m)' \subseteq Trailing(m),
         IsOpen(router', m, now') => IsOpen(router, m, now),
         late'[m] = IF IsOpen(router', m, now') THEN late[m] ELSE 0
  PROVE  LateOK(m)'
  <1>1. Trailing(m) \subseteq Sessions
    BY DEF Trailing
  <1>2. /\ Cardinality(Trailing(m)') \in Nat /\ Cardinality(Trailing(m)) \in Nat
        /\ Cardinality(Trailing(m)') <= Cardinality(Trailing(m))
    BY <1>1, SmallerSets
  <1>3. Cardinality(Sessions) \in Nat
    BY FS_CardinalityType, PlannerAssumption
  <1>4. late[m] \in Nat
    BY DEF BreakerTypes
  <1>5. CASE ~IsOpen(router', m, now')
    BY <1>5 DEF LateOK
  <1>6. CASE IsOpen(router', m, now')
    <2>1. late[m] + Cardinality(Trailing(m)) < Cardinality(Sessions)
      BY <1>6 DEF LateOK
    <2>2. late'[m] + Cardinality(Trailing(m)') < Cardinality(Sessions)
      BY <1>6, <2>1, <1>2, <1>3, <1>4
    <2>3. QED
      BY <1>6, <2>2 DEF LateOK
  <1>7. QED
    BY <1>5, <1>6

\* An attempt that ends takes its session off the model's list: it counts when
\* the breaker was open, and opens it for the others when it was not.
LEMMA AttemptForModel ==
  ASSUME NEW m \in Models, NEW s \in Sessions, BreakerTypes, BreakerTypes', LateOK(m),
         s \in Trailing(m), s \notin Trailing(m)', Trailing(m)' \subseteq Trailing(m),
         late'[m] = IF ~IsOpen(router', m, now') THEN 0
                    ELSE IF IsOpen(router, m, now) THEN late[m] + 1 ELSE late[m]
  PROVE  LateOK(m)'
  <1>1. Trailing(m) \subseteq Sessions /\ Trailing(m)' \subseteq Sessions
    BY DEF Trailing
  <1>2. /\ Cardinality(Trailing(m)') \in Nat /\ Cardinality(Trailing(m)) \in Nat
        /\ Cardinality(Trailing(m)') < Cardinality(Trailing(m))
    BY <1>1, SmallerSets
  <1>3. Cardinality(Sessions) \in Nat
    BY FS_CardinalityType, PlannerAssumption
  <1>4. late[m] \in Nat
    BY DEF BreakerTypes
  <1>5. CASE ~IsOpen(router', m, now')
    BY <1>5 DEF LateOK
  <1>6. CASE IsOpen(router', m, now') /\ ~IsOpen(router, m, now)
    <2>1. late'[m] = 0
      BY <1>6 DEF LateOK
    <2>2. Cardinality(Trailing(m)') < Cardinality(Sessions)
      BY <1>1, NobodyLateYet
    <2>3. late'[m] + Cardinality(Trailing(m)') < Cardinality(Sessions)
      BY <1>2, <1>3, <2>1, <2>2
    <2>4. QED
      BY <1>6, <2>3 DEF LateOK
  <1>7. CASE IsOpen(router', m, now') /\ IsOpen(router, m, now)
    <2>1. late[m] + Cardinality(Trailing(m)) < Cardinality(Sessions)
      BY <1>7 DEF LateOK
    <2>2. late'[m] + Cardinality(Trailing(m)') < Cardinality(Sessions)
      BY <1>7, <2>1, <1>2, <1>3, <1>4
    <2>3. QED
      BY <1>7, <2>2 DEF LateOK
  <1>8. QED
    BY <1>5, <1>6, <1>7

-----------------------------------------------------------------------------
(* What a router operation does to the breakers. *)

RouterOK(r) ==
  /\ DOMAIN r = RouterFields
  /\ r.breakers \in Breakers
  /\ r.cache.kept => DOMAIN r.cache.caps \subseteq Models

LEMMA FailureAndBreakers ==
  ASSUME NEW r, RouterOK(r), NEW a \in Models, NEW t \in Nat
  PROVE  /\ RouterOK(RecordFailure(r, a, t))
         /\ \A m \in Models \ {a} : \A u : IsOpen(RecordFailure(r, a, t), m, u) <=> IsOpen(r, m, u)
  <1> DEFINE n == r.breakers[a].failures + 1
             b == IF n >= Threshold THEN [failures |-> 0, openUntil |-> t + Cooldown]
                  ELSE [r.breakers[a] EXCEPT !.failures = n]
  <1>1. n \in Nat /\ b \in [failures : Nat, openUntil : Nat]
    BY RouterAssumption DEF RouterOK, Breakers
  <1>2. RecordFailure(r, a, t) = [r EXCEPT !.breakers = [r.breakers EXCEPT ![a] = b]]
    BY DEF RecordFailure, RouterOK, RouterFields, Breakers
  <1> HIDE DEF b
  <1>3. QED
    BY <1>1, <1>2 DEF RouterOK, RouterFields, Breakers, IsOpen

LEMMA SuccessAndBreakers ==
  ASSUME NEW r, RouterOK(r), NEW a \in Models, NEW t \in Nat
  PROVE  /\ RouterOK(RecordSuccess(r, a))
         /\ ~IsOpen(RecordSuccess(r, a), a, t)
         /\ \A m \in Models \ {a} : \A u : IsOpen(RecordSuccess(r, a), m, u) <=> IsOpen(r, m, u)
  <1>1. Closed \in [failures : Nat, openUntil : Nat]
    BY DEF Closed
  <1>2. RecordSuccess(r, a) = [r EXCEPT !.breakers = [r.breakers EXCEPT ![a] = Closed]]
    BY DEF RecordSuccess, RouterOK, RouterFields, Breakers
  <1>3. QED
    BY <1>1, <1>2 DEF RouterOK, RouterFields, Breakers, IsOpen, Closed

LEMMA ListingAndBreakers ==
  ASSUME NEW r, RouterOK(r), NEW up, NEW t
  PROVE  /\ RouterOK(Listed(r, up, t))
         /\ Listed(r, up, t).cache.kept
         /\ \A m \in Models : \A u : IsOpen(Listed(r, up, t), m, u) <=> IsOpen(r, m, u)
  <1>1. DOMAIN Listing(r, up) \subseteq Models
    BY DEF Listing
  <1>2. QED
    BY <1>1 DEF Listed, RouterOK, RouterFields, IsOpen

LEMMA ApplyingAndBreakers ==
  ASSUME NEW r, RouterOK(r), NEW cards
  PROVE  /\ RouterOK(ApplyScorecards(r, cards))
         /\ \A m \in Models : \A u : IsOpen(ApplyScorecards(r, cards), m, u) <=> IsOpen(r, m, u)
  BY DEF ApplyScorecards, RouterOK, RouterFields, IsOpen, NoCache

\* A ranking lists models once each, and only models whose breaker is closed.
LEMMA RankingsAreShut ==
  ASSUME NEW r, RouterOK(r), r.cache.kept, NEW s, NEW t,
         Eligible(r, r.cache.caps, Needs(s), t) # {},
         NEW todo \in Rankings(Eligible(r, r.cache.caps, Needs(s), t))
  PROVE  /\ todo \in Seq(Models) /\ todo # <<>>
         /\ \A i, j \in DOMAIN todo : todo[i] = todo[j] => i = j
         /\ \A i \in DOMAIN todo : ~IsOpen(r, todo[i], t)
  <1> DEFINE able == Eligible(r, r.cache.caps, Needs(s), t)
  <1>1. able \subseteq Models /\ \A m \in able : ~IsOpen(r, m, t)
    BY DEF Eligible, Serves, RouterOK
  <1>2. IsFiniteSet(able)
    BY <1>1, FS_Subset, PlannerAssumption
  <1>3. Cardinality(able) \in Nat /\ Cardinality(able) # 0
    BY <1>2, FS_CardinalityType, FS_EmptySet
  <1> DEFINE n == IF Cardinality(able) < MaxAttempts THEN Cardinality(able) ELSE MaxAttempts
  <1>4. n \in Nat /\ n # 0
    BY <1>3, RouterAssumption
  <1>5. todo \in [1..n -> able] /\ \A i, j \in 1..n : todo[i] = todo[j] => i = j
    BY DEF Rankings
  <1> HIDE DEF n
  <1>6. todo \in Seq(Models) /\ Len(todo) = n
    BY <1>1, <1>4, <1>5
  <1>7. QED
    BY <1>1, <1>4, <1>5, <1>6

-----------------------------------------------------------------------------
(* What a step does to the calls. *)

\* A call that stops asking lists nothing.
LEMMA CallStops ==
  ASSUME BreakerTypes, NEW s \in Sessions, NEW call, CallOK(call), call.step # "ask", Goto(s, call)
  PROVE  /\ DOMAIN calls' = Sessions /\ \A z \in Sessions : CallOK(calls'[z])
         /\ \A m : Trailing(m)' = Trailing(m) \ {s}
  BY DEF BreakerTypes, Goto, Trailing, Lists

LEMMA TailOf ==
  ASSUME NEW S, NEW q \in Seq(S), q # <<>>, Len(q) # 1
  PROVE  /\ Tail(q) \in Seq(S) /\ Len(Tail(q)) = Len(q) - 1 /\ Len(q) > 1 /\ Tail(q) # <<>>
         /\ \A i \in DOMAIN Tail(q) : i \in Nat /\ i + 1 \in DOMAIN q /\ Tail(q)[i] = q[i + 1]
  <1>1. Len(q) \in Nat \ {0} /\ DOMAIN q = 1..Len(q)
    BY EmptySeq, LenProperties
  <1>2. Len(q) > 1
    BY <1>1
  <1>3. /\ Tail(q) \in Seq(S) /\ Len(Tail(q)) = Len(q) - 1
        /\ \A i \in 1..Len(Tail(q)) : Tail(q)[i] = q[i + 1]
    BY HeadTailProperties
  <1>4. DOMAIN Tail(q) = 1..Len(Tail(q))
    BY <1>3, LenProperties
  <1>5. Len(Tail(q)) # 0
    BY <1>1, <1>2, <1>3
  <1>6. Tail(q) # <<>>
    BY <1>5, EmptySeq
  <1>7. \A i \in 1..Len(Tail(q)) : i \in Nat /\ i + 1 \in 1..Len(q)
    BY <1>1, <1>3
  <1>8. QED
    BY <1>1, <1>2, <1>3, <1>4, <1>6, <1>7

LEMMA HeadIsFirst ==
  ASSUME NEW S, NEW q \in Seq(S), q # <<>>
  PROVE  Head(q) \in S /\ Head(q) = q[1] /\ 1 \in DOMAIN q
  <1>1. Len(q) \in Nat \ {0} /\ DOMAIN q = 1..Len(q)
    BY EmptySeq, LenProperties
  <1>2. Head(q) \in S
    BY HeadTailProperties
  <1>3. QED
    BY <1>1, <1>2

\* A call that tries the next candidate no longer lists the one it tried.
LEMMA CallFallsBack ==
  ASSUME BreakerTypes, NEW s \in Sessions, calls[s].step = "ask", Len(calls[s].todo) # 1,
         Goto(s, [calls[s] EXCEPT !.todo = Tail(@), !.fixes = 0]),
         NEW a, a = Head(calls[s].todo)
  PROVE  /\ DOMAIN calls' = Sessions /\ \A z \in Sessions : CallOK(calls'[z])
         /\ \A m : Trailing(m)' \subseteq Trailing(m)
         /\ s \notin Trailing(a)'
  <1> DEFINE old == calls[s].todo
             call == [calls[s] EXCEPT !.todo = Tail(@), !.fixes = 0]
  <1>1. /\ old \in Seq(Models) /\ old # <<>>
        /\ \A i, j \in DOMAIN old : old[i] = old[j] => i = j
    BY DEF BreakerTypes, CallOK
  <1>2. /\ Tail(old) \in Seq(Models) /\ Len(Tail(old)) = Len(old) - 1 /\ Len(old) > 1
        /\ \A i \in DOMAIN Tail(old) : i + 1 \in DOMAIN old /\ Tail(old)[i] = old[i + 1]
    BY <1>1, TailOf
  <1>3. Tail(old) # <<>> /\ \A i \in DOMAIN Tail(old) : i \in Nat
    BY <1>1, TailOf
  <1>4. /\ DOMAIN call = CallFields /\ call.step = "ask" /\ call.todo = Tail(old)
    BY DEF BreakerTypes, CallOK, CallFields
  <1> HIDE DEF call
  <1>5. CallOK(call)
    <2>1. \A i, j \in DOMAIN Tail(old) : Tail(old)[i] = Tail(old)[j] => i = j
      <3> SUFFICES ASSUME NEW i \in DOMAIN Tail(old), NEW j \in DOMAIN Tail(old),
                          Tail(old)[i] = Tail(old)[j]
                   PROVE  i = j
        OBVIOUS
      <3>1. i + 1 = j + 1
        BY <1>1, <1>2
      <3>2. QED
        BY <1>3, <3>1
    <2>2. QED
      BY <1>2, <1>3, <1>4, <2>1 DEF CallOK
  <1>6. DOMAIN calls' = Sessions /\ calls' = [calls EXCEPT ![s] = call]
    BY DEF BreakerTypes, Goto, call
  <1>7. \A m : Lists(call, m) => Lists(calls[s], m)
    BY <1>2, <1>4 DEF Lists
  <1>8. ~Lists(call, Head(old))
    <2>1. Head(old) = old[1] /\ 1 \in DOMAIN old
      BY <1>1, <1>2
    <2>2. QED
      BY <2>1, <1>1, <1>2, <1>3, <1>4 DEF Lists
  <1>9. QED
    BY <1>5, <1>6, <1>7, <1>8 DEF BreakerTypes, Trailing

LEMMA NoLateStart == Init => BreakerInv
  <1> SUFFICES ASSUME Init PROVE BreakerInv
    OBVIOUS
  <1>1. RouterOK(router)
    BY DEF Init, RouterOK, RouterFields, NewRouter, NoCache, Breakers, Closed
  <1>2. DOMAIN calls = Sessions /\ \A s \in Sessions : CallOK(calls[s])
    BY DEF Init, NotAsked, CallOK, CallFields
  <1>3. \A m \in Models : ~IsOpen(router, m, now) /\ late[m] = 0
    BY DEF Init, NewRouter, Closed, IsOpen
  <1>4. now \in Nat /\ late \in [Models -> Nat]
    BY DEF Init
  <1>5. QED
    BY <1>1, <1>2, <1>3, <1>4 DEF BreakerInv, BreakerTypes, RouterOK, LateOK

\* Breakers as they are, or some of them closed, and nobody new on a list.
LEMMA QuietStep ==
  ASSUME BreakerInv, BreakerTypes',
         \A m \in Models : Trailing(m)' \subseteq Trailing(m),
         \A m \in Models : IsOpen(router', m, now') => IsOpen(router, m, now),
         \A m \in Models : late'[m] = IF IsOpen(router', m, now') THEN late[m] ELSE 0
  PROVE  BreakerInv'
  BY QuietForModel DEF BreakerInv

\* Nothing happens to breakers, the clock or the counts.
LEMMA StillStep ==
  ASSUME BreakerInv, RouterOK(router'), UNCHANGED <<now, late>>,
         DOMAIN calls' = Sessions, \A z \in Sessions : CallOK(calls'[z]),
         \A m \in Models : IsOpen(router', m, now) <=> IsOpen(router, m, now),
         \A m \in Models : IsOpen(router, m, now) => Trailing(m)' \subseteq Trailing(m)
  PROVE  BreakerInv'
  <1>1. BreakerTypes'
    BY DEF BreakerInv, BreakerTypes, RouterOK
  <1>2. ASSUME NEW m \in Models, IsOpen(router, m, now) PROVE LateOK(m)'
    BY <1>1, <1>2, QuietForModel DEF BreakerInv
  <1>3. ASSUME NEW m \in Models, ~IsOpen(router, m, now) PROVE LateOK(m)'
    BY <1>3 DEF BreakerInv, LateOK
  <1>4. QED
    BY <1>1, <1>2, <1>3 DEF BreakerInv

\* An attempt ends, well or badly.
LEMMA AttemptStep ==
  ASSUME BreakerInv, NEW s \in Sessions, calls[s].step = "ask",
         NEW a, a = Head(calls[s].todo), RouterOK(router'), now' = now, Reached(s),
         DOMAIN calls' = Sessions, \A z \in Sessions : CallOK(calls'[z]),
         \A m \in Models \ {a} : IsOpen(router', m, now) <=> IsOpen(router, m, now),
         \A m \in Models : Trailing(m)' \subseteq Trailing(m),
         s \notin Trailing(a)'
  PROVE  BreakerInv'
  <1>1. \A m \in Models : late'[m] = IF ~IsOpen(router', m, now) THEN 0
          ELSE IF m = a /\ IsOpen(router, m, now) THEN late[m] + 1 ELSE late[m]
    BY DEF Reached, Asked
  <1>2. late' \in [Models -> Nat]
    <2>1. \A m \in Models : late[m] \in Nat
      BY DEF BreakerInv, BreakerTypes
    <2>2. \A m \in Models : late'[m] \in Nat
      BY <1>1, <2>1
    <2>3. late' = [m \in Models |-> late'[m]]
      BY DEF Reached
    <2>4. QED
      BY <2>2, <2>3
  <1>3. BreakerTypes'
    BY <1>2 DEF BreakerInv, BreakerTypes, RouterOK
  <1>4. a \in Models /\ s \in Trailing(a)
    <2>1. calls[s].todo \in Seq(Models) /\ calls[s].todo # <<>>
      BY DEF BreakerInv, BreakerTypes, CallOK
    <2>2. /\ Head(calls[s].todo) = calls[s].todo[1] /\ 1 \in DOMAIN calls[s].todo
          /\ Head(calls[s].todo) \in Models
      BY <2>1, HeadIsFirst
    <2>3. QED
      BY <2>2 DEF Trailing, Lists
  <1>5. LateOK(a)'
    BY <1>1, <1>3, <1>4, AttemptForModel DEF BreakerInv
  <1>6. ASSUME NEW m \in Models \ {a} PROVE LateOK(m)'
    BY <1>1, <1>3, QuietForModel DEF BreakerInv
  <1>7. QED
    BY <1>3, <1>5, <1>6 DEF BreakerInv

LEMMA RouterIsOK == BreakerInv => RouterOK(router)
  BY DEF BreakerInv, BreakerTypes, RouterOK

LEMMA CallIsOK ==
  ASSUME BreakerInv, NEW s \in Sessions
  PROVE  CallOK(calls[s]) /\ DOMAIN calls[s] = CallFields
  BY DEF BreakerInv, BreakerTypes, CallOK

\* What a call becomes when it stops or goes to be routed.
LEMMA CallsBetween ==
  ASSUME NEW call, DOMAIN call = CallFields, NEW step, step # "ask"
  PROVE  /\ CallOK(Asks(call)) /\ Asks(call).step # "ask" /\ DOMAIN Asks(call) = CallFields
         /\ CallOK(Ends(step)) /\ Ends(step).step # "ask"
  BY DEF Asks, Ends, NotAsked, CallOK, CallFields

LEMMA FailureStep ==
  ASSUME BreakerInv, NEW s \in Sessions, AttemptFails(s)
  PROVE  BreakerInv'
  <1> DEFINE a == Head(calls[s].todo)
  <1>1. a \in Models
    <2>1. calls[s].todo \in Seq(Models) /\ calls[s].todo # <<>>
      BY DEF BreakerInv, BreakerTypes, CallOK, AttemptFails
    <2>2. QED
      BY <2>1, HeadIsFirst
  <1>2. now \in Nat /\ router' = RecordFailure(router, a, now)
    BY DEF AttemptFails, Asked, BreakerInv, BreakerTypes
  <1>3. /\ RouterOK(router')
        /\ \A m \in Models \ {a} : IsOpen(router', m, now) <=> IsOpen(router, m, now)
    BY <1>1, <1>2, RouterIsOK, FailureAndBreakers
  <1>4. /\ DOMAIN calls' = Sessions /\ \A z \in Sessions : CallOK(calls'[z])
        /\ \A m \in Models : Trailing(m)' \subseteq Trailing(m)
        /\ \A b : b = a => s \notin Trailing(b)'
    <2>1. CASE Len(calls[s].todo) = 1
      <3>1. Goto(s, Ends("failed")) /\ BreakerTypes
        BY <2>1 DEF AttemptFails, BreakerInv
      <3>2. CallOK(Ends("failed")) /\ Ends("failed").step # "ask"
        BY DEF Ends, NotAsked, CallOK, CallFields
      <3>3. QED
        BY <3>1, <3>2, CallStops
    <2>2. CASE Len(calls[s].todo) # 1
      <3>1. /\ Goto(s, [calls[s] EXCEPT !.todo = Tail(@), !.fixes = 0])
            /\ BreakerTypes /\ calls[s].step = "ask"
        BY <2>2 DEF AttemptFails, BreakerInv
      <3>2. QED
        BY <2>2, <3>1, CallFallsBack
    <2>3. QED
      BY <2>1, <2>2
  <1>5. calls[s].step = "ask" /\ now' = now /\ Reached(s)
    BY DEF AttemptFails
  <1>6. PICK b : b = a
    OBVIOUS
  <1>7. s \notin Trailing(b)'
    BY <1>4, <1>6
  <1>8. QED
    BY <1>3, <1>4, <1>5, <1>6, <1>7, AttemptStep

\* A reply that is used: its model's breaker closes, its session stops asking.
LEMMA ReplyStep ==
  ASSUME BreakerInv, NEW s \in Sessions, calls[s].step = "ask",
         router' = RecordSuccess(router, Asked(s)), now' = now, Reached(s),
         NEW call, CallOK(call), call.step # "ask", Goto(s, call)
  PROVE  BreakerInv'
  <1> DEFINE a == Head(calls[s].todo)
  <1>1. a \in Models
    <2>1. calls[s].todo \in Seq(Models) /\ calls[s].todo # <<>>
      BY DEF BreakerInv, BreakerTypes, CallOK
    <2>2. QED
      BY <2>1, HeadIsFirst
  <1>2. now \in Nat /\ router' = RecordSuccess(router, a)
    BY DEF Asked, BreakerInv, BreakerTypes
  <1>3. /\ RouterOK(router')
        /\ \A m \in Models \ {a} : IsOpen(router', m, now) <=> IsOpen(router, m, now)
    BY <1>1, <1>2, RouterIsOK, SuccessAndBreakers
  <1>4. /\ DOMAIN calls' = Sessions /\ \A z \in Sessions : CallOK(calls'[z])
        /\ \A m : Trailing(m)' = Trailing(m) \ {s}
    BY CallStops DEF BreakerInv
  <1>5. PICK b : b = a
    OBVIOUS
  <1>6. s \notin Trailing(b)' /\ \A m \in Models : Trailing(m)' \subseteq Trailing(m)
    BY <1>4
  <1>7. QED
    BY <1>3, <1>4, <1>5, <1>6, AttemptStep

LEMMA RouteStep ==
  ASSUME BreakerInv, NEW s \in Sessions, Route(s)
  PROVE  BreakerInv'
  <1>1. UNCHANGED <<now, late>>
    BY DEF Route
  <1>2. PICK r : /\ router' = r /\ RouterOK(r) /\ r.cache.kept /\ Ranked(s, r)
                 /\ \A m \in Models : IsOpen(r, m, now) <=> IsOpen(router, m, now)
    <2>1. CASE IsFresh(router, now) /\ Ranked(s, router) /\ UNCHANGED router
      BY <2>1, RouterIsOK DEF IsFresh
    <2>2. ASSUME NEW up, router' = Listed(router, up, now), Ranked(s, Listed(router, up, now))
          PROVE  \E r : /\ router' = r /\ RouterOK(r) /\ r.cache.kept /\ Ranked(s, r)
                        /\ \A m \in Models : IsOpen(r, m, now) <=> IsOpen(router, m, now)
      BY <2>2, RouterIsOK, ListingAndBreakers
    <2>3. QED
      BY <2>1, <2>2 DEF Route
  <1> DEFINE able == Eligible(r, r.cache.caps, Needs(s), now)
  <1>3. CASE Goto(s, Ends("failed"))
    <2>1. CallOK(Ends("failed")) /\ Ends("failed").step # "ask"
      BY DEF Ends, NotAsked, CallOK, CallFields
    <2>2. /\ DOMAIN calls' = Sessions /\ \A z \in Sessions : CallOK(calls'[z])
          /\ \A m : Trailing(m)' = Trailing(m) \ {s}
      BY <1>3, <2>1, CallStops DEF BreakerInv
    <2>3. QED
      BY <1>1, <1>2, <2>2, StillStep
  <1>4. ASSUME able # {}, NEW ranking \in Rankings(able),
               Goto(s, [calls[s] EXCEPT !.step = "ask", !.todo = ranking, !.fixes = 0])
        PROVE  BreakerInv'
    <2> DEFINE call == [calls[s] EXCEPT !.step = "ask", !.todo = ranking, !.fixes = 0]
    <2>1. /\ ranking \in Seq(Models) /\ ranking # <<>>
          /\ \A i, j \in DOMAIN ranking : ranking[i] = ranking[j] => i = j
          /\ \A i \in DOMAIN ranking : ~IsOpen(r, ranking[i], now)
      <3>1. Eligible(r, r.cache.caps, Needs(s), now) # {}
        BY <1>4
      <3>2. ranking \in Rankings(Eligible(r, r.cache.caps, Needs(s), now))
        BY <1>4
      <3>3. RouterOK(r) /\ r.cache.kept
        BY <1>2
      <3>4. QED
        BY <3>1, <3>2, <3>3, RankingsAreShut
    <2>2. DOMAIN call = CallFields /\ call.step = "ask" /\ call.todo = ranking
      BY CallIsOK DEF CallFields
    <2>3. calls' = [calls EXCEPT ![s] = call] /\ DOMAIN calls = Sessions
      BY <1>4 DEF Goto, BreakerInv, BreakerTypes
    <2> HIDE DEF call
    <2>4. CallOK(call)
      BY <2>1, <2>2 DEF CallOK
    <2>5. DOMAIN calls' = Sessions /\ \A z \in Sessions : CallOK(calls'[z])
      BY <2>3, <2>4, CallIsOK
    <2>6. \A m \in Models : Lists(call, m) => ~IsOpen(r, m, now)
      BY <2>1, <2>2 DEF Lists
    <2>7. \A m \in Models : IsOpen(r, m, now) => Trailing(m)' \subseteq Trailing(m)
      BY <2>3, <2>6 DEF Trailing
    <2>8. QED
      BY <1>1, <1>2, <2>5, <2>7, StillStep
  <1>5. QED
    BY <1>2, <1>3, <1>4 DEF Ranked

LEMMA TickStep ==
  ASSUME BreakerInv, Tick
  PROVE  BreakerInv'
  <1>1. /\ now' = now + 1 /\ now \in Nat /\ UNCHANGED <<router, calls>>
        /\ late' = [m \in Models |-> IF IsOpen(router, m, now + 1) THEN late[m] ELSE 0]
    BY DEF Tick, BreakerInv, BreakerTypes
  <1>2. \A m \in Models : router.breakers[m].openUntil \in Nat /\ late[m] \in Nat
    BY DEF BreakerInv, BreakerTypes, Breakers
  <1>3. \A m \in Models : IsOpen(router', m, now') => IsOpen(router, m, now)
    BY <1>1, <1>2 DEF IsOpen
  <1>4. late' \in [Models -> Nat] /\ now' \in Nat
    BY <1>1, <1>2
  <1>5. BreakerTypes'
    BY <1>1, <1>4 DEF BreakerInv, BreakerTypes
  <1>6. \A m \in Models : late'[m] = IF IsOpen(router', m, now') THEN late[m] ELSE 0
    BY <1>1
  <1>7. \A m \in Models : Trailing(m)' \subseteq Trailing(m)
    BY <1>1 DEF Trailing
  <1>8. QED
    BY <1>3, <1>5, <1>6, <1>7, QuietStep

LEMMA BreakerInvStep == BreakerInv /\ [Next]_vars => BreakerInv'
  <1> SUFFICES ASSUME BreakerInv, [Next]_vars PROVE BreakerInv'
    OBVIOUS
  <1>1. ASSUME UNCHANGED <<now, calls, late>>, RouterOK(router'),
               \A m \in Models : IsOpen(router', m, now) <=> IsOpen(router, m, now)
        PROVE  BreakerInv'
    BY <1>1, StillStep DEF BreakerInv, BreakerTypes, Trailing
  <1>2. ASSUME NEW s \in Sessions, Plan(s) PROVE BreakerInv'
    <2>1. CallOK(Asks(NotAsked)) /\ Asks(NotAsked).step # "ask"
      BY DEF Asks, NotAsked, CallOK, CallFields
    <2>2. /\ DOMAIN calls' = Sessions /\ \A z \in Sessions : CallOK(calls'[z])
          /\ \A m : Trailing(m)' = Trailing(m) \ {s}
      BY <1>2, <2>1, CallStops DEF Plan, BreakerInv
    <2>3. QED
      BY <1>2, <2>2, RouterIsOK, StillStep DEF Plan
  <1>3. ASSUME NEW s \in Sessions, Route(s) PROVE BreakerInv'
    BY <1>3, RouteStep
  <1>4. ASSUME NEW s \in Sessions, Malformed(s) PROVE BreakerInv'
    <2> DEFINE call == [calls[s] EXCEPT !.fixes = @ + 1]
    <2>1. /\ DOMAIN call = CallFields /\ call.step = calls[s].step
          /\ call.todo = calls[s].todo
      BY CallIsOK DEF CallFields
    <2>2. calls' = [calls EXCEPT ![s] = call] /\ DOMAIN calls = Sessions
      BY <1>4 DEF Malformed, Goto, BreakerInv, BreakerTypes
    <2> HIDE DEF call
    <2>3. CallOK(call)
      BY <2>1, CallIsOK DEF CallOK
    <2>4. DOMAIN calls' = Sessions /\ \A z \in Sessions : CallOK(calls'[z])
      BY <2>2, <2>3, CallIsOK
    <2>5. \A m : Trailing(m)' = Trailing(m)
      BY <2>1, <2>2 DEF Trailing, Lists
    <2>6. QED
      BY <1>4, <2>4, <2>5, RouterIsOK, StillStep DEF Malformed
  <1>5. ASSUME NEW s \in Sessions, AttemptFails(s) PROVE BreakerInv'
    BY <1>5, FailureStep
  <1>6. ASSUME NEW s \in Sessions, SpecArrives(s) PROVE BreakerInv'
    <2>1. DOMAIN [calls[s] EXCEPT !.stage = "dag"] = CallFields
      BY CallIsOK
    <2>2. /\ CallOK(Asks([calls[s] EXCEPT !.stage = "dag"]))
          /\ Asks([calls[s] EXCEPT !.stage = "dag"]).step # "ask"
      BY <2>1, CallsBetween
    <2>3. QED
      BY <1>6, <2>2, ReplyStep DEF SpecArrives
  <1>7. ASSUME NEW s \in Sessions, DagArrives(s) PROVE BreakerInv'
    <2>1. PICK dag \in Dags : Goto(s, Judged(calls[s], Verdicts[dag]))
      BY <1>7 DEF DagArrives
    <2>2. \A fixed : LET p == [Ends("planned") EXCEPT !.plan = ToPlan(fixed), !.warned = Warnings(fixed)]
                     IN CallOK(p) /\ p.step # "ask"
      BY DEF Ends, NotAsked, CallOK, CallFields
    <2>3. /\ CallOK(Verdicts[dag].proposal)
          /\ Verdicts[dag].proposal.step # "ask"
      BY <2>2 DEF Verdicts
    <2>4. DOMAIN [calls[s] EXCEPT !.round = @ + 1] = CallFields
      BY CallIsOK
    <2>5. /\ CallOK(Judged(calls[s], Verdicts[dag]))
          /\ Judged(calls[s], Verdicts[dag]).step # "ask"
      BY <2>3, <2>4, CallsBetween DEF Judged
    <2>6. QED
      BY <1>7, <2>1, <2>5, ReplyStep DEF DagArrives
  <1>8. CASE ProbeStart
    BY <1>1, <1>8, RouterIsOK, ListingAndBreakers DEF ProbeStart
  <1>9. CASE ProbeModel
    BY <1>1, <1>9, RouterIsOK DEF ProbeModel
  <1>10. CASE ProbeEnd
    BY <1>1, <1>10, RouterIsOK, ApplyingAndBreakers DEF ProbeEnd
  <1>11. CASE Tick
    BY <1>11, TickStep
  <1>12. CASE UNCHANGED vars
    BY <1>1, <1>12, RouterIsOK DEF vars
  <1>13. QED
    BY <1>2, <1>3, <1>4, <1>5, <1>6, <1>7, <1>8, <1>9, <1>10, <1>11, <1>12 DEF Next, Turn

\* However many sessions share the router, and however many of their calls fail
\* at once: while a breaker is open, fewer attempts than there are sessions
\* reach the model behind it.
THEOREM BreakersAreRespected == Spec => []OpenBreakerIsRespected
  <1>1. ASSUME BreakerInv, NEW m \in Models PROVE late[m] < Cardinality(Sessions)
    <2>1. Trailing(m) \subseteq Sessions /\ late[m] \in Nat
      BY <1>1 DEF Trailing, BreakerInv, BreakerTypes
    <2>2. Cardinality(Trailing(m)) \in Nat /\ Cardinality(Sessions) \in Nat
      BY <2>1, SmallerSets
    <2>3. Cardinality(Sessions) # 0
      BY PlannerAssumption, FS_EmptySet
    <2>4. LateOK(m)
      BY <1>1 DEF BreakerInv
    <2>5. CASE IsOpen(router, m, now)
      <3>1. late[m] + Cardinality(Trailing(m)) < Cardinality(Sessions)
        BY <2>4, <2>5 DEF LateOK
      <3>2. QED
        BY <2>1, <2>2, <3>1
    <2>6. CASE ~IsOpen(router, m, now)
      <3>1. late[m] = 0
        BY <2>4, <2>6 DEF LateOK
      <3>2. QED
        BY <2>2, <2>3, <3>1
    <2>7. QED
      BY <2>5, <2>6
  <1>2. BreakerInv => OpenBreakerIsRespected
    BY <1>1 DEF OpenBreakerIsRespected
  <1>3. QED
    BY <1>2, NoLateStart, BreakerInvStep, PTL DEF Spec

-----------------------------------------------------------------------------
(* What a plan must be like to be run.  Induction over the natural numbers, for *)
(* a set. *)
LEMMA Induction ==
  ASSUME NEW T, 0 \in T, \A k \in Nat : k \in T => k + 1 \in T
  PROVE  Nat \subseteq T
<1> SUFFICES ASSUME Nat \ T # {} PROVE FALSE
  OBVIOUS
<1> DEFINE R == OpToRel(<, Nat)
<1>1. IsWellFoundedOn(R, Nat)
  BY NatLessThanWellFounded
<1>2. \E x \in Nat \ T : \A y \in Nat \ T : ~(<<y, x>> \in R)
  <2> HIDE DEF R
  <2> QED
    BY <1>1, WFMin
<1>3. PICK x \in Nat \ T : \A y \in Nat \ T : ~(<<y, x>> \in R)
  BY <1>2
<1>4. x # 0
  OBVIOUS
<1>5. x - 1 \in Nat /\ x - 1 + 1 = x
  BY <1>4
<1>6. x - 1 \in Nat \ T
  BY <1>5
<1>7. <<x - 1, x>> \in R
  BY <1>5 DEF OpToRel
<1> QED
  BY <1>3, <1>6, <1>7

\* A function that goes one step at a time exists.
Steps1(g, F, b, k) == g[0] = b /\ \A i \in 1 .. k : g[i] = F[g[i - 1]]
Stepwise(D, F, b, k) == \E g \in [0 .. k -> D] : Steps1(g, F, b, k)

LEMMA StepwiseExists ==
  ASSUME NEW D, NEW b \in D, NEW k \in Nat, NEW F \in [D -> D]
  PROVE  Stepwise(D, F, b, k)
<1> DEFINE T == {n \in Nat : Stepwise(D, F, b, n)}
<1>1. 0 \in T
  <2> DEFINE g == [i \in 0 .. 0 |-> b]
  <2>1. g \in [0 .. 0 -> D] /\ Steps1(g, F, b, 0)
    BY DEF Steps1
  <2> HIDE DEF g
  <2> QED
    BY <2>1 DEF Stepwise
<1>2. ASSUME NEW n \in Nat, n \in T
      PROVE  n + 1 \in T
  <2>1. PICK g \in [0 .. n -> D] : Steps1(g, F, b, n)
    BY <1>2 DEF Stepwise
  <2> DEFINE h == [i \in 0 .. n + 1 |-> IF i = n + 1 THEN F[g[n]] ELSE g[i]]
  <2>2. h \in [0 .. n + 1 -> D]
    OBVIOUS
  <2>3. ASSUME NEW i \in 1 .. n + 1 PROVE h[i] = F[h[i - 1]]
    <3>1. CASE i = n + 1
      BY <3>1
    <3>2. CASE i # n + 1
      <4>1. i \in 1 .. n /\ i - 1 \in 0 .. n + 1 /\ i - 1 # n + 1
        BY <3>2
      <4> QED
        BY <2>1, <3>2, <4>1 DEF Steps1
    <3> QED
      BY <3>1, <3>2
  <2>4. h[0] = b
    BY <2>1 DEF Steps1
  <2> HIDE DEF h
  <2>5. Steps1(h, F, b, n + 1)
    BY <2>3, <2>4 DEF Steps1
  <2> QED
    BY <2>2, <2>5 DEF Stepwise
<1> HIDE DEF T
<1>3. Nat \subseteq T
  BY <1>1, <1>2, Induction
<1>4. k \in T
  BY <1>3
<1> QED
  BY <1>4 DEF T

\* A graph is a list of nodes.
IsList(dag) == Len(dag) \in Nat /\ DOMAIN dag = 1 .. Len(dag)

\* The walk of FindCycle is a fixed point, and there is one: the least set that is
\* closed under what the walk adds.
Meeting(dag, g, visiting) ==
  {id \in Ids(dag) \ visiting :
     \E dep \in DepsOf(dag, id) \cap Ids(dag) :
       dep \in visiting \cup {id} \/ dep \in g[visiting \cup {id}]}
Walks(dag, g) == g = [visiting \in SUBSET Ids(dag) |-> Meeting(dag, g, visiting)]

LEMMA WalkExists ==
  ASSUME NEW dag
  PROVE  \E g : Walks(dag, g)
<1> DEFINE V == SUBSET Ids(dag)
           G == [V -> V]
           M(g, v) == Meeting(dag, g, v)
           Holds(g) == \A v \in V : M(g, v) \subseteq g[v]
           W == [v \in V |-> {id \in Ids(dag) \ v : \A g \in G : Holds(g) => id \in g[v]}]
           X == [v \in V |-> M(W, v)]
<1>1. \A g, v : M(g, v) \in V
  BY DEF Meeting
<1>2. W \in G /\ X \in G
  BY <1>1
<1>3. ASSUME NEW g, NEW h, \A v \in V : g[v] \subseteq h[v], NEW v \in V
      PROVE  M(g, v) \subseteq M(h, v)
  <2>1. \A id \in Ids(dag) : v \cup {id} \in V
    OBVIOUS
  <2> QED
    BY <1>3, <2>1 DEF Meeting
<1>4. ASSUME NEW g \in G, Holds(g), NEW v \in V
      PROVE  W[v] \subseteq g[v]
  BY <1>4
<1>5. ASSUME NEW v \in V, NEW id \in M(W, v)
      PROVE  id \in W[v]
  <2>1. id \in Ids(dag) \ v
    BY DEF Meeting
  <2>2. ASSUME NEW g \in G, Holds(g)
        PROVE  id \in g[v]
    <3>1. \A u \in V : W[u] \subseteq g[u]
      BY <1>4, <2>2
    <3> HIDE DEF M, W
    <3>2. M(W, v) \subseteq M(g, v)
      BY <1>3, <3>1
    <3>3. M(g, v) \subseteq g[v]
      BY <2>2
    <3> QED
      BY <1>5, <3>2, <3>3
  <2> QED
    BY <2>1, <2>2
<1>6. Holds(X)
  <2>1. \A v \in V : X[v] = M(W, v)
    OBVIOUS
  <2>2. \A v \in V : X[v] \subseteq W[v]
    BY <1>5, <2>1
  <2> HIDE DEF X, W, M
  <2> QED
    BY <1>3, <2>1, <2>2
<1>7. \A v \in V : W[v] \subseteq X[v]
  <2> HIDE DEF X, W, Holds
  <2> QED
    BY <1>2, <1>4, <1>6
<1>8. \A v \in V : W[v] = M(W, v)
  <2>1. \A v \in V : X[v] = M(W, v)
    OBVIOUS
  <2> HIDE DEF X, W, M
  <2> QED
    BY <1>5, <1>7, <2>1
<1>9. W = [v \in V |-> M(W, v)]
  <2>1. W = [v \in V |-> W[v]]
    OBVIOUS
  <2> HIDE DEF W, M
  <2> QED
    BY <1>8, <2>1
<1> HIDE DEF W
<1> QED
  BY <1>9 DEF Walks

\* What FindCycle computes.
LEMMA CycleIsWalked ==
  ASSUME NEW dag
  PROVE  \E g : Walks(dag, g) /\ (FindCycle(dag) <=> g[{}] # {})
<1> DEFINE g == CHOOSE h : Walks(dag, h)
<1>1. Walks(dag, g)
  BY WalkExists
<1>2. FindCycle(dag) <=> g[{}] # {}
  BY DEF FindCycle, Walks, Meeting
<1> QED
  BY <1>1, <1>2

\* Where every node of a set has a dependency in the set, a walk meets itself.
LEMMA WalkMeetsItself ==
  ASSUME NEW dag, IsFiniteSet(Ids(dag)), NEW B \in SUBSET Ids(dag), B # {},
         \A b \in B : \E dep \in B : dep \in DepsOf(dag, b)
  PROVE  FindCycle(dag)
<1>1. PICK g : Walks(dag, g) /\ (FindCycle(dag) <=> g[{}] # {})
  BY CycleIsWalked
<1> DEFINE Left(v) == Cardinality(Ids(dag) \ v)
           T == {m \in Nat : \A v \in SUBSET Ids(dag) : \A b \in B \ v : Left(v) = m => b \in g[v]}
<1>2. ASSUME NEW v \in SUBSET Ids(dag)
      PROVE  Left(v) \in Nat /\ \A b \in B \ v : Left(v) = Left(v \cup {b}) + 1
  <2>1. IsFiniteSet(Ids(dag) \ v)
    BY FS_Subset
  <2>2. Left(v) \in Nat
    BY <2>1, FS_CardinalityType
  <2>3. ASSUME NEW b \in B \ v
        PROVE  Left(v) = Left(v \cup {b}) + 1
    <3>1. (Ids(dag) \ v) \ {b} = Ids(dag) \ (v \cup {b}) /\ b \in Ids(dag) \ v
      OBVIOUS
    <3>2. Cardinality((Ids(dag) \ v) \ {b}) = Cardinality(Ids(dag) \ v) - 1
      BY <2>1, <3>1, FS_RemoveElement
    <3>3. Left(v \cup {b}) = Cardinality((Ids(dag) \ v) \ {b})
      BY <3>1
    <3> HIDE DEF Left
    <3>4. Left(v \cup {b}) = Left(v) - 1
      BY <3>2, <3>3 DEF Left
    <3> QED
      BY <2>2, <3>4
  <2> QED
    BY <2>2, <2>3
<1>3. ASSUME NEW v \in SUBSET Ids(dag), NEW b \in B \ v,
             \A dep \in B \ (v \cup {b}) : dep \in g[v \cup {b}]
      PROVE  b \in g[v]
  <2>1. PICK dep \in B : dep \in DepsOf(dag, b)
    OBVIOUS
  <2>2. dep \in v \cup {b} \/ dep \in g[v \cup {b}]
    BY <1>3
  <2>3. b \in Meeting(dag, g, v)
    BY <2>1, <2>2 DEF Meeting
  <2> QED
    BY <1>1, <2>3 DEF Walks
<1> HIDE DEF Left
<1>4. 0 \in T
  <2>1. ASSUME NEW v \in SUBSET Ids(dag), NEW b \in B \ v, Left(v) = 0
        PROVE  FALSE
    <3>1. Left(v) = Left(v \cup {b}) + 1 /\ Left(v \cup {b}) \in Nat
      BY <1>2
    <3> QED
      BY <2>1, <3>1
  <2> QED
    BY <2>1
<1>5. ASSUME NEW m \in Nat, m \in T
      PROVE  m + 1 \in T
  <2>1. ASSUME NEW v \in SUBSET Ids(dag), NEW b \in B \ v, Left(v) = m + 1
        PROVE  b \in g[v]
    <3>1. Left(v) = Left(v \cup {b}) + 1 /\ Left(v \cup {b}) \in Nat
      BY <1>2
    <3>2. Left(v \cup {b}) = m /\ v \cup {b} \in SUBSET Ids(dag)
      BY <2>1, <3>1
    <3>3. \A dep \in B \ (v \cup {b}) : dep \in g[v \cup {b}]
      BY <1>5, <3>2
    <3> QED
      BY <1>3, <3>3
  <2> QED
    BY <2>1
<1> HIDE DEF T
<1>6. Nat \subseteq T
  BY <1>4, <1>5, Induction
<1>7. PICK b \in B : TRUE
  OBVIOUS
<1>8. b \in g[{}]
  <2>1. Left({}) \in T
    BY <1>2, <1>6
  <2> QED
    BY <2>1 DEF T
<1> QED
  BY <1>1, <1>8

\* The nodes that can run once those of A have finished.
Enabled(plan, A) ==
  {i \in DOMAIN plan : \A d \in plan[i].deps : \E j \in A : plan[j].id = d}

\* Finished, level by level, and one level more: every level but the last adds a
\* node, or nothing is added any more.
LEMMA LevelsOfFinished ==
  ASSUME NEW plan, IsList(plan)
  PROVE  \E g \in [0 .. Len(plan) -> SUBSET DOMAIN plan] :
           /\ g[0] = {} /\ \A k \in 1 .. Len(plan) : g[k] = Enabled(plan, g[k - 1])
           /\ Finished(plan) = g[Len(plan)]
<1> DEFINE n == Len(plan)
           D == SUBSET DOMAIN plan
           F == [A \in D |-> Enabled(plan, A)]
           Is(g) == g = [k \in 0 .. n |-> IF k = 0 THEN {} ELSE
                           {i \in DOMAIN plan : \A d \in plan[i].deps :
                              \E j \in g[k - 1] : plan[j].id = d}]
           f == CHOOSE g : Is(g)
<1>1. n \in Nat /\ {} \in D /\ F \in [D -> D]
  BY DEF IsList, Enabled
<1>2. Stepwise(D, F, {}, n)
  <2> HIDE DEF D, F, n
  <2> QED
    BY <1>1, StepwiseExists
<1>3. PICK g \in [0 .. n -> D] : Steps1(g, F, {}, n)
  BY <1>2 DEF Stepwise
<1>4. ASSUME NEW k \in 1 .. n
      PROVE  g[k] = Enabled(plan, g[k - 1])
  <2>1. g[k] = F[g[k - 1]] /\ g[k - 1] \in D
    <3>1. k - 1 \in 0 .. n
      BY <1>1
    <3> HIDE DEF n, D, F
    <3> QED
      BY <1>3, <3>1 DEF Steps1
  <2> QED
    BY <2>1
<1>5. Is(g)
  <2>1. ASSUME NEW k \in 0 .. n
        PROVE  g[k] = IF k = 0 THEN {} ELSE Enabled(plan, g[k - 1])
    <3>1. CASE k = 0
      BY <1>3, <3>1 DEF Steps1
    <3>2. CASE k # 0
      <4>1. k \in 1 .. n
        BY <1>1, <3>2
      <4> QED
        BY <1>4, <3>2, <4>1
    <3> QED
      BY <3>1, <3>2
  <2>2. g = [k \in 0 .. n |-> IF k = 0 THEN {} ELSE Enabled(plan, g[k - 1])]
    BY <2>1
  <2> QED
    BY <2>2 DEF Enabled
<1>6. Is(f)
  BY <1>5
<1>7. Finished(plan) = f[n]
  BY DEF Finished
<1> HIDE DEF f
<1>8. /\ \A k \in 0 .. n : f[k] = IF k = 0 THEN {} ELSE Enabled(plan, f[k - 1])
      /\ f = [k \in 0 .. n |-> f[k]]
  BY <1>6 DEF Enabled
<1>9. f \in [0 .. n -> D]
  BY <1>8 DEF Enabled
<1>10. f[0] = {} /\ \A k \in 1 .. n : f[k] = Enabled(plan, f[k - 1])
  <2>1. 0 \in 0 .. n /\ \A k \in 1 .. n : k \in 0 .. n /\ k # 0
    BY <1>1
  <2> QED
    BY <1>8, <2>1
<1> QED
  BY <1>7, <1>9, <1>10

\* What is left in the end: nothing, or a set of nodes each of which waits for
\* another of the set.
LEMMA WhatIsLeft ==
  ASSUME NEW plan, IsList(plan)
  PROVE  Enabled(plan, Finished(plan)) = Finished(plan) /\ Finished(plan) \subseteq DOMAIN plan
<1> DEFINE n == Len(plan)
<1>1. PICK g \in [0 .. n -> SUBSET DOMAIN plan] :
        /\ g[0] = {} /\ \A k \in 1 .. n : g[k] = Enabled(plan, g[k - 1])
        /\ Finished(plan) = g[n]
  BY LevelsOfFinished
<1>2. n \in Nat /\ DOMAIN plan = 1 .. n /\ IsFiniteSet(DOMAIN plan) /\ Cardinality(DOMAIN plan) = n
  <2>1. n \in Nat /\ DOMAIN plan = 1 .. n
    BY DEF IsList
  <2>2. IsFiniteSet(1 .. n) /\ Cardinality(1 .. n) = IF 1 > n THEN 0 ELSE n - 1 + 1
    BY <2>1, FS_Interval
  <2> QED
    BY <2>1, <2>2
<1> DEFINE More(A) == Enabled(plan, A)
<1>3. \A A, B : A \subseteq B => More(A) \subseteq More(B)
  BY DEF Enabled
<1>4. \A A : More(A) \subseteq DOMAIN plan
  BY DEF Enabled
<1>5. ASSUME NEW A \in SUBSET DOMAIN plan, A \subseteq More(A), More(A) # A
      PROVE  Cardinality(More(A)) >= Cardinality(A) + 1 /\ Cardinality(A) \in Nat
  <2>1. More(A) \in SUBSET DOMAIN plan
    BY <1>4
  <2> HIDE DEF More
  <2>2. IsFiniteSet(More(A)) /\ IsFiniteSet(A)
    BY <1>2, <2>1, FS_Subset
  <2>3. Cardinality(A) <= Cardinality(More(A)) /\ Cardinality(A) # Cardinality(More(A))
    BY <1>5, <2>2, FS_Subset
  <2>4. Cardinality(A) \in Nat /\ Cardinality(More(A)) \in Nat
    BY <2>2, FS_CardinalityType
  <2> QED
    BY <2>3, <2>4
<1> HIDE DEF n, More
<1> DEFINE T == {k \in Nat : k <= n => /\ g[k] \subseteq More(g[k])
                                       /\ More(g[k]) = g[k] \/ Cardinality(g[k]) >= k}
<1>6. 0 \in T
  <2>1. Cardinality({}) = 0
    BY FS_EmptySet
  <2>2. g[0] = {}
    BY <1>1
  <2>3. {} \subseteq More({}) /\ Cardinality(g[0]) = 0
    BY <2>1, <2>2
  <2> QED
    BY <2>2, <2>3
<1>7. ASSUME NEW k \in Nat, k \in T
      PROVE  k + 1 \in T
  <2> SUFFICES ASSUME k + 1 <= n
               PROVE  /\ g[k + 1] \subseteq More(g[k + 1])
                      /\ More(g[k + 1]) = g[k + 1] \/ Cardinality(g[k + 1]) >= k + 1
    OBVIOUS
  <2>1. k + 1 \in 1 .. n /\ k + 1 - 1 = k /\ k \in 0 .. n /\ k <= n
    BY <1>2
  <2>2. g[k + 1] = More(g[k])
    BY <1>1, <2>1 DEF More
  <2>3. g[k] \subseteq More(g[k]) /\ (More(g[k]) = g[k] \/ Cardinality(g[k]) >= k)
    BY <1>7, <2>1
  <2>4. g[k + 1] \subseteq More(g[k + 1])
    BY <1>3, <2>2, <2>3
  <2>5. CASE More(g[k]) = g[k]
    BY <2>2, <2>4, <2>5
  <2>6. CASE More(g[k]) # g[k]
    <3>1. g[k] \in SUBSET DOMAIN plan
      BY <1>1, <2>1
    <3>2. Cardinality(More(g[k])) >= Cardinality(g[k]) + 1 /\ Cardinality(g[k]) \in Nat
      BY <1>5, <2>3, <2>6, <3>1
    <3>3. Cardinality(g[k]) >= k
      BY <2>3, <2>6
    <3>4. Cardinality(More(g[k])) \in Nat
      <4>1. More(g[k]) \in SUBSET DOMAIN plan
        BY <1>4
      <4>2. IsFiniteSet(More(g[k]))
        BY <1>2, <4>1, FS_Subset
      <4> QED
        BY <4>2, FS_CardinalityType
    <3>5. Cardinality(More(g[k])) >= k + 1
      BY <3>2, <3>3, <3>4
    <3> QED
      BY <2>2, <2>4, <3>5
  <2> QED
    BY <2>5, <2>6
<1> HIDE DEF T
<1>8. Nat \subseteq T
  BY <1>6, <1>7, Induction
<1>9. n \in T /\ n <= n
  BY <1>2, <1>8
<1>10. g[n] \subseteq More(g[n]) /\ (More(g[n]) = g[n] \/ Cardinality(g[n]) >= n)
  BY <1>9 DEF T
<1>11. g[n] \in SUBSET DOMAIN plan
  BY <1>1, <1>2
<1>12. CASE More(g[n]) # g[n]
  <2>1. Cardinality(More(g[n])) >= Cardinality(g[n]) + 1 /\ Cardinality(g[n]) \in Nat
    BY <1>5, <1>10, <1>11, <1>12
  <2>2. More(g[n]) \in SUBSET DOMAIN plan
    BY <1>4
  <2>3. Cardinality(More(g[n])) <= n /\ Cardinality(More(g[n])) \in Nat
    <3>1. IsFiniteSet(More(g[n])) /\ Cardinality(More(g[n])) <= Cardinality(DOMAIN plan)
      BY <1>2, <2>2, FS_Subset
    <3> QED
      BY <1>2, <3>1, FS_CardinalityType
  <2>4. Cardinality(g[n]) >= n
    BY <1>10, <1>12
  <2> QED
    BY <1>2, <2>1, <2>3, <2>4
<1> QED
  BY <1>1, <1>11, <1>12 DEF More

\* What the rules refuse.
LEMMA NoErrors ==
  ASSUME NEW dag, IsList(dag), Errors(dag) = {}
  PROVE  /\ \A i, j \in DOMAIN dag : dag[i].id = dag[j].id => i = j
         /\ \A i \in DOMAIN dag : dag[i].deps \subseteq Ids(dag)
         /\ ~FindCycle(dag)
<1>1. \A k \in DOMAIN dag : ~\E j \in 1..(k - 1) : dag[j].id = dag[k].id
  <2> SUFFICES ASSUME NEW k \in DOMAIN dag, \E j \in 1..(k - 1) : dag[j].id = dag[k].id
               PROVE  FALSE
    OBVIOUS
  <2>1. <<"duplicate", dag[k].id>> \in Errors(dag)
    BY Zenon DEF Errors
  <2> QED
    BY <2>1
<1>2. \A k \in DOMAIN dag : dag[k].deps \ Ids(dag) = {}
  <2> SUFFICES ASSUME NEW k \in DOMAIN dag, dag[k].deps \ Ids(dag) # {}
               PROVE  FALSE
    OBVIOUS
  <2>1. <<"unknown", dag[k].id>> \in Errors(dag)
    BY Zenon DEF Errors
  <2> QED
    BY <2>1
<1>3. ~FindCycle(dag)
  <2> SUFFICES ASSUME FindCycle(dag)
               PROVE  FALSE
    OBVIOUS
  <2>1. <<"cycle", "plan">> \in Errors(dag)
    BY Zenon DEF Errors
  <2> QED
    BY <2>1
<1>4. ASSUME NEW i \in DOMAIN dag, NEW j \in DOMAIN dag, dag[i].id = dag[j].id
      PROVE  i = j
  <2>1. i \in Nat /\ j \in Nat /\ i >= 1 /\ j >= 1
    BY DEF IsList
  <2>2. CASE i < j
    <3>1. i \in 1..(j - 1)
      BY <2>1, <2>2
    <3> QED
      BY <1>1, <1>4, <3>1
  <2>3. CASE j < i
    <3>1. j \in 1..(i - 1)
      BY <2>1, <2>3
    <3> QED
      BY <1>1, <1>4, <3>1
  <2> QED
    BY <2>1, <2>2, <2>3
<1> QED
  BY <1>4, <1>2, <1>3

LEMMA OwnDeps ==
  ASSUME NEW dag, \A i, j \in DOMAIN dag : dag[i].id = dag[j].id => i = j, NEW i \in DOMAIN dag,
         IsList(dag)
  PROVE  DepsOf(dag, dag[i].id) = dag[i].deps
<1> DEFINE same == {j \in DOMAIN dag : dag[j].id = dag[i].id}
<1>1. same = {i} /\ i <= i
  BY DEF IsList
<1>2. (CHOOSE k \in same : \A j \in same : j <= k) = i
  BY <1>1
<1> QED
  BY <1>1, <1>2 DEF DepsOf

\* A function on the first numbers is a list.
LEMMA ListOf ==
  ASSUME NEW n \in Nat, NEW s, DOMAIN s = 1 .. n, s = [i \in 1 .. n |-> s[i]]
  PROVE  Len(s) = n /\ IsList(s)
<1>1. s \in [1 .. n -> {s[i] : i \in 1 .. n}]
  OBVIOUS
<1>2. s \in Seq({s[i] : i \in 1 .. n})
  BY <1>1, SeqDef
<1>3. Len(s) \in Nat /\ DOMAIN s = 1 .. Len(s)
  BY <1>2, LenProperties
<1>4. Len(s) = n
  BY <1>1, <1>3
<1> QED
  BY <1>3, <1>4 DEF IsList

LEMMA PlanIsList ==
  ASSUME NEW dag, IsList(dag)
  PROVE  Len(ToPlan(dag)) = Len(dag) /\ IsList(ToPlan(dag))
<1> DEFINE plan == ToPlan(dag)
           n == Len(dag)
<1>1. n \in Nat /\ DOMAIN plan = 1 .. n /\ plan = [i \in 1 .. n |-> plan[i]]
  BY DEF IsList, ToPlan
<1> HIDE DEF plan, n
<1>2. Len(plan) = n /\ IsList(plan)
  BY <1>1, ListOf
<1> QED
  BY <1>2 DEF plan, n

LEMMA NormalizedIsList ==
  ASSUME NEW dag, IsList(dag)
  PROVE  IsList(NormalizeDag(dag))
<1> DEFINE fixed == NormalizeDag(dag)
           n == Len(dag)
<1>1. n \in Nat /\ DOMAIN fixed = 1 .. n /\ fixed = [i \in 1 .. n |-> fixed[i]]
  BY DEF IsList, NormalizeDag
<1> HIDE DEF fixed, n
<1>2. IsList(fixed)
  BY <1>1, ListOf
<1> QED
  BY <1>2 DEF fixed

\* A graph without errors becomes a plan that can be run to its end.
LEMMA AcceptedCanFinish ==
  ASSUME NEW dag, IsList(dag), Errors(dag) = {}
  PROVE  /\ Cardinality(Ids(ToPlan(dag))) = Len(ToPlan(dag))
         /\ Finished(ToPlan(dag)) = DOMAIN ToPlan(dag)
<1> DEFINE plan == ToPlan(dag)
           n == Len(dag)
<1>1. /\ DOMAIN plan = DOMAIN dag
      /\ \A i \in DOMAIN dag : plan[i].id = dag[i].id /\ plan[i].deps = dag[i].deps
  BY DEF ToPlan
<1>2. n \in Nat /\ DOMAIN dag = 1 .. n
  BY DEF IsList
<1>3. Len(plan) = n /\ IsList(plan)
  BY PlanIsList
<1> HIDE DEF plan
<1>4. /\ \A i, j \in DOMAIN dag : dag[i].id = dag[j].id => i = j
      /\ \A i \in DOMAIN dag : dag[i].deps \subseteq Ids(dag)
      /\ ~FindCycle(dag)
  BY NoErrors
<1>5. IsFiniteSet(Ids(dag)) /\ Cardinality(Ids(dag)) = n
  <2> DEFINE f == [i \in 1 .. n |-> dag[i].id]
  <2>1. /\ f \in [1 .. n -> Ids(dag)]
        /\ \A a, b \in 1 .. n : f[a] = f[b] => a = b
        /\ \A t \in Ids(dag) : \E s \in 1 .. n : f[s] = t
    BY <1>2, <1>4 DEF Ids
  <2> HIDE DEF f
  <2>2. f \in Bijection(1 .. n, Ids(dag))
    <3>1. f \in Injection(1 .. n, Ids(dag))
      BY <2>1 DEF Injection, IsInjective
    <3>2. f \in Surjection(1 .. n, Ids(dag))
      BY <2>1 DEF Surjection
    <3> QED
      BY <3>1, <3>2 DEF Bijection
  <2>3. IsFiniteSet(1 .. n) /\ Cardinality(1 .. n) = n
    <3>1. IsFiniteSet(1 .. n) /\ Cardinality(1 .. n) = IF 1 > n THEN 0 ELSE n - 1 + 1
      BY <1>2, FS_Interval
    <3> QED
      BY <1>2, <3>1
  <2>4. ExistsBijection(1 .. n, Ids(dag))
    BY <2>2 DEF ExistsBijection
  <2> QED
    BY <2>3, <2>4, FS_Bijection
<1>6. Ids(plan) = Ids(dag)
  BY <1>1 DEF Ids
<1>7. ASSUME Finished(plan) # DOMAIN plan
      PROVE  FALSE
  <2> DEFINE U == DOMAIN plan \ Finished(plan)
             B == {dag[i].id : i \in U}
  <2>1. Enabled(plan, Finished(plan)) = Finished(plan) /\ Finished(plan) \subseteq DOMAIN plan
    BY <1>3, WhatIsLeft
  <2>2. U # {} /\ U \subseteq DOMAIN dag
    BY <1>1, <1>7, <2>1
  <2>3. B \in SUBSET Ids(dag) /\ B # {}
    BY <2>2 DEF Ids
  <2>4. ASSUME NEW b \in B
        PROVE  \E dep \in B : dep \in DepsOf(dag, b)
    <3>1. PICK i \in U : b = dag[i].id
      OBVIOUS
    <3>2. i \in DOMAIN dag /\ i \in DOMAIN plan /\ i \notin Enabled(plan, Finished(plan))
      BY <2>1, <2>2
    <3>3. PICK d \in plan[i].deps : \A j \in Finished(plan) : plan[j].id # d
      BY <3>2 DEF Enabled
    <3>4. d \in dag[i].deps /\ d \in Ids(dag)
      BY <1>1, <1>4, <3>2
    <3>5. PICK j \in DOMAIN dag : d = dag[j].id
      BY <3>4 DEF Ids
    <3>6. j \in U
      BY <1>1, <3>3, <3>5
    <3>7. d \in DepsOf(dag, b)
      BY <1>4, <3>1, <3>2, <3>4, OwnDeps
    <3> QED
      BY <3>5, <3>6, <3>7
  <2> HIDE DEF B
  <2>5. FindCycle(dag)
    BY <1>5, <2>3, <2>4, WalkMeetsItself
  <2> QED
    BY <1>4, <2>5
<1> QED
  BY <1>3, <1>5, <1>6, <1>7 DEF plan

\* Every plan that is proposed was made from an answer without errors.
PlanInv == BreakerInv /\ \A s \in Sessions : calls[s].step = "planned" => calls[s] \in Proposals

LEMMA ProposalsCanFinish == Proposals \subseteq Runnable
<1> SUFFICES ASSUME NEW dag \in Dags, Verdicts[dag].errors = {}
             PROVE  Verdicts[dag].proposal \in Runnable
  BY DEF Proposals
<1> DEFINE fixed == NormalizeDag(dag)
<1>1. IsList(fixed)
  BY PlannerAssumption, NormalizedIsList DEF IsList
<1>2. Errors(fixed) = {} /\ Verdicts[dag].proposal.plan = ToPlan(fixed)
  BY DEF Verdicts, Ends, NotAsked
<1>3. Verdicts[dag].proposal \in Proposals
  BY DEF Proposals
<1> HIDE DEF fixed
<1>4. /\ Cardinality(Ids(ToPlan(fixed))) = Len(ToPlan(fixed))
      /\ Finished(ToPlan(fixed)) = DOMAIN ToPlan(fixed)
  BY <1>1, <1>2, AcceptedCanFinish
<1> QED
  BY <1>2, <1>3, <1>4 DEF Runnable

\* Only a judged answer is proposed.
LEMMA JudgedIsProposed ==
  ASSUME NEW call, DOMAIN call = CallFields, NEW dag \in Dags,
         Judged(call, Verdicts[dag]).step = "planned"
  PROVE  Judged(call, Verdicts[dag]) \in Proposals
<1>1. Asks(call).step # "planned" /\ Ends("invalid").step # "planned"
  BY DEF Asks, Ends, NotAsked, CallFields
<1>2. Asks([call EXCEPT !.round = @ + 1]).step # "planned"
  BY DEF Asks, CallFields
<1>3. Verdicts[dag].errors = {} /\ Judged(call, Verdicts[dag]) = Verdicts[dag].proposal
  BY <1>1, <1>2 DEF Judged
<1> QED
  BY <1>3 DEF Proposals

\* A session goes on or stops with anything but a plan.
LEMMA OthersStayPlanned ==
  ASSUME PlanInv, NEW s \in Sessions, NEW call, calls' = [calls EXCEPT ![s] = call],
         call.step = "planned" => call \in Proposals, NEW z \in Sessions,
         calls'[z].step = "planned"
  PROVE  calls'[z] \in Proposals
<1>1. calls'[z] = IF z = s THEN call ELSE calls[z]
  BY DEF PlanInv, BreakerInv, BreakerTypes
<1> QED
  BY <1>1 DEF PlanInv

LEMMA PlanInvInit == Init => PlanInv
<1>1. Init => \A s \in Sessions : calls[s].step # "planned"
  BY DEF Init, NotAsked
<1> QED
  BY <1>1, NoLateStart DEF PlanInv

LEMMA PlanInvStep == PlanInv /\ [Next]_vars => PlanInv'
<1> SUFFICES ASSUME PlanInv, [Next]_vars PROVE PlanInv'
  OBVIOUS
<1> DEFINE Good(call) == call.step = "planned" => call \in Proposals
           All == \A z \in Sessions : calls'[z].step = "planned" => calls'[z] \in Proposals
<1>1. BreakerInv'
  BY BreakerInvStep DEF PlanInv
<1>2. Proposals' = Proposals
  BY DEF Proposals, Verdicts
<1>3. ASSUME NEW s \in Sessions, NEW call, Goto(s, call), Good(call)
      PROVE  All
  BY <1>3, OthersStayPlanned DEF Goto
<1>4. ASSUME UNCHANGED calls
      PROVE  All
  BY <1>4 DEF PlanInv
<1>5. \A s \in Sessions : DOMAIN calls[s] = CallFields
  BY CallIsOK DEF PlanInv
<1>6. \A call : DOMAIN call = CallFields => Asks(call).step = "route"
  BY DEF Asks, CallFields
<1>7. Ends("failed").step = "failed" /\ DOMAIN NotAsked = CallFields
  BY DEF Ends, NotAsked, CallFields
<1> HIDE DEF All
<1>8. ASSUME NEW s \in Sessions, Plan(s) PROVE All
  BY <1>3, <1>6, <1>7, <1>8 DEF Plan
<1>9. ASSUME NEW s \in Sessions, NEW r, Ranked(s, r) PROVE All
  <2>1. \A ranking : [calls[s] EXCEPT !.step = "ask", !.todo = ranking, !.fixes = 0].step = "ask"
    BY <1>5 DEF CallFields
  <2> QED
    BY <1>3, <1>7, <1>9, <2>1 DEF Ranked
<1>10. ASSUME NEW s \in Sessions, Route(s) PROVE All
  BY <1>9, <1>10 DEF Route
<1>11. ASSUME NEW s \in Sessions, Malformed(s) PROVE All
  <2>1. [calls[s] EXCEPT !.fixes = @ + 1].step = "ask"
    BY <1>5, <1>11 DEF Malformed, CallFields
  <2> QED
    BY <1>3, <1>11, <2>1 DEF Malformed
<1>12. ASSUME NEW s \in Sessions, AttemptFails(s) PROVE All
  <2>1. [calls[s] EXCEPT !.todo = Tail(@), !.fixes = 0].step = "ask"
    BY <1>5, <1>12 DEF AttemptFails, CallFields
  <2> QED
    BY <1>3, <1>7, <1>12, <2>1 DEF AttemptFails
<1>13. ASSUME NEW s \in Sessions, SpecArrives(s) PROVE All
  <2>1. Asks([calls[s] EXCEPT !.stage = "dag"]).step = "route"
    BY <1>5, <1>6
  <2> QED
    BY <1>3, <1>13, <2>1 DEF SpecArrives
<1>14. ASSUME NEW s \in Sessions, DagArrives(s) PROVE All
  <2>1. PICK dag \in Dags : Goto(s, Judged(calls[s], Verdicts[dag]))
    BY <1>14 DEF DagArrives
  <2> QED
    BY <1>3, <1>5, <2>1, JudgedIsProposed
<1>15. CASE ProbeStart \/ ProbeModel \/ ProbeEnd \/ Tick \/ UNCHANGED vars
  <2>1. UNCHANGED calls
    BY <1>15 DEF ProbeStart, ProbeModel, ProbeEnd, Tick, vars
  <2>2. All
    BY <1>4, <2>1
  <2> QED
    BY <1>1, <1>2, <2>2 DEF All, PlanInv
<1>16. CASE \E s \in Sessions : Plan(s) \/ Turn(s)
  <2>1. All
    BY <1>8, <1>10, <1>11, <1>12, <1>13, <1>14, <1>16 DEF Turn
  <2> QED
    BY <1>1, <1>2, <2>1 DEF All, PlanInv
<1> QED
  BY <1>15, <1>16 DEF Next

\* Whatever graph a model answers with, one that is proposed has distinct ids, and
\* in some order every node of it finds its dependencies finished: the walk of
\* findCycle and the rules of validate.ts leave no plan that gets stuck.
THEOREM AcceptedPlansFinish == Spec => []AcceptedPlanCanFinish
<1>1. Init => PlanInv
  BY PlanInvInit
<1>2. PlanInv => AcceptedPlanCanFinish
  BY ProposalsCanFinish DEF PlanInv, AcceptedPlanCanFinish
<1> QED
  BY <1>1, <1>2, PlanInvStep, PTL DEF Spec

-----------------------------------------------------------------------------
(* What names mean.  Picked goes through a spelling segment by segment. *)

Picking(f, s, keep, n) ==
  /\ f[0] = <<>>
  /\ \A i \in 1 .. n : f[i] = IF i \in keep THEN Append(f[i - 1], s[i]) ELSE f[i - 1]
Pickable(S, s, keep, n) == \E f \in [0 .. n -> Seq(S)] : Picking(f, s, keep, n)

LEMMA PickingExists ==
  ASSUME NEW S, NEW s \in Seq(S), NEW keep
  PROVE  Pickable(S, s, keep, Len(s))
<1> DEFINE T == {n \in Nat : n <= Len(s) => Pickable(S, s, keep, n)}
<1>1. Len(s) \in Nat
  BY LenProperties
<1>2. 0 \in T
  <2>1. [i \in 0 .. 0 |-> <<>>] \in [0 .. 0 -> Seq(S)] /\ Picking([i \in 0 .. 0 |-> <<>>], s, keep, 0)
    BY DEF Picking
  <2> QED
    BY <2>1 DEF Pickable
<1>3. ASSUME NEW n \in Nat, n \in T
      PROVE  n + 1 \in T
  <2> SUFFICES ASSUME n + 1 <= Len(s)
               PROVE  Pickable(S, s, keep, n + 1)
    OBVIOUS
  <2>1. PICK f \in [0 .. n -> Seq(S)] : Picking(f, s, keep, n)
    BY <1>1, <1>3 DEF Pickable
  <2>2. f[n] \in Seq(S) /\ s[n + 1] \in S
    BY <1>1, ElementOfSeq
  <2> DEFINE last == IF n + 1 \in keep THEN Append(f[n], s[n + 1]) ELSE f[n]
             g == [i \in 0 .. n + 1 |-> IF i = n + 1 THEN last ELSE f[i]]
  <2>3. last \in Seq(S)
    BY <2>2, AppendProperties
  <2>4. g \in [0 .. n + 1 -> Seq(S)] /\ g[0] = <<>>
    BY <2>1, <2>3 DEF Picking
  <2>5. ASSUME NEW i \in 1 .. n + 1
        PROVE  g[i] = IF i \in keep THEN Append(g[i - 1], s[i]) ELSE g[i - 1]
    <3>1. CASE i = n + 1
      BY <3>1
    <3>2. CASE i # n + 1
      <4>1. i \in 1 .. n /\ i - 1 \in 0 .. n + 1 /\ i - 1 # n + 1 /\ i \in 0 .. n + 1
        BY <3>2
      <4>2. g[i] = f[i] /\ g[i - 1] = f[i - 1]
        BY <3>2, <4>1
      <4> QED
        BY <2>1, <4>1, <4>2 DEF Picking
    <3> QED
      BY <3>1, <3>2
  <2> HIDE DEF g
  <2> QED
    BY <2>4, <2>5 DEF Pickable, Picking
<1> HIDE DEF T
<1>4. Nat \subseteq T
  BY <1>2, <1>3, Induction
<1>5. Len(s) \in T /\ Len(s) <= Len(s)
  BY <1>1, <1>4
<1> QED
  BY <1>5 DEF T

LEMMA PickedByStep ==
  ASSUME NEW S, NEW s \in Seq(S), NEW keep
  PROVE  \E f \in [0 .. Len(s) -> Seq(S)] :
           Picking(f, s, keep, Len(s)) /\ Picked(s, keep) = f[Len(s)]
<1> DEFINE n == Len(s)
           Is(f) == f = [i \in 0 .. n |-> IF i = 0 THEN <<>>
                           ELSE IF i \in keep THEN Append(f[i - 1], s[i]) ELSE f[i - 1]]
           f == CHOOSE g : Is(g)
<1>1. n \in Nat
  BY LenProperties
<1>2. PICK g \in [0 .. n -> Seq(S)] : Picking(g, s, keep, n)
  BY PickingExists DEF Pickable
<1>3. Is(g)
  <2>1. \A i \in 0 .. n : i = 0 \/ i \in 1 .. n
    BY <1>1
  <2>2. \A i \in 0 .. n : g[i] = IF i = 0 THEN <<>>
                           ELSE IF i \in keep THEN Append(g[i - 1], s[i]) ELSE g[i - 1]
    BY <1>2, <2>1 DEF Picking
  <2> HIDE DEF n
  <2> QED
    BY <2>2
<1>4. Is(f)
  BY <1>3
<1>5. Picked(s, keep) = f[n]
  BY DEF Picked
<1> HIDE DEF f
<1>6. \A i \in 0 .. n : f[i] = IF i = 0 THEN <<>>
                           ELSE IF i \in keep THEN Append(f[i - 1], s[i]) ELSE f[i - 1]
  <2> HIDE DEF n
  <2> QED
    BY <1>4
<1>7. Picking(f, s, keep, n)
  <2>1. 0 \in 0 .. n /\ \A i \in 1 .. n : i \in 0 .. n /\ i # 0
    BY <1>1
  <2> HIDE DEF n
  <2> QED
    BY <1>6, <2>1 DEF Picking
<1>8. f \in [0 .. n -> Seq(S)]
  <2> DEFINE T == {k \in Nat : k <= n => f[k] \in Seq(S)}
  <2> HIDE DEF n
  <2>1. 0 \in T
    <3>1. f[0] = <<>> /\ <<>> \in Seq(S)
      BY <1>7 DEF Picking
    <3> QED
      BY <3>1
  <2>2. ASSUME NEW k \in Nat, k \in T
        PROVE  k + 1 \in T
    <3> SUFFICES ASSUME k + 1 <= n
                 PROVE  f[k + 1] \in Seq(S)
      OBVIOUS
    <3>1. k + 1 \in 1 .. n /\ k + 1 - 1 = k /\ f[k] \in Seq(S)
      BY <1>1, <2>2
    <3>2. s[k + 1] \in S
      BY <3>1, ElementOfSeq DEF n
    <3>3. Append(f[k], s[k + 1]) \in Seq(S)
      BY <3>1, <3>2, AppendProperties
    <3>4. f[k + 1] = IF k + 1 \in keep THEN Append(f[k], s[k + 1]) ELSE f[k]
      BY <1>7, <3>1 DEF Picking
    <3> QED
      BY <3>1, <3>3, <3>4
  <2> HIDE DEF T
  <2>3. Nat \subseteq T
    BY <2>1, <2>2, Induction
  <2>4. \A k \in 0 .. n : f[k] \in Seq(S)
    <3>1. \A k \in 0 .. n : k \in Nat /\ k <= n
      BY <1>1
    <3> QED
      BY <2>3, <3>1 DEF T
  <2>5. f = [i \in 0 .. n |-> f[i]]
    BY <1>4 DEF n
  <2> QED
    BY <2>4, <2>5
<1> QED
  BY <1>5, <1>7, <1>8

\* To keep everything is to change nothing.
LEMMA PickedWhole ==
  ASSUME NEW S, NEW s \in Seq(S), NEW keep, DOMAIN s \subseteq keep
  PROVE  Picked(s, keep) = s
<1>1. PICK f \in [0 .. Len(s) -> Seq(S)] :
        Picking(f, s, keep, Len(s)) /\ Picked(s, keep) = f[Len(s)]
  BY PickedByStep
<1>2. Len(s) \in Nat /\ DOMAIN s = 1 .. Len(s)
  BY LenProperties
<1> DEFINE Same(k) == Len(f[k]) = k /\ \A i \in 1 .. k : f[k][i] = s[i]
           T == {k \in Nat : k <= Len(s) => Same(k)}
<1>3. 0 \in T
  BY <1>1 DEF Picking
<1>4. ASSUME NEW k \in Nat, k \in T
      PROVE  k + 1 \in T
  <2> SUFFICES ASSUME k + 1 <= Len(s)
               PROVE  Same(k + 1)
    OBVIOUS
  <2>1. k + 1 \in 1 .. Len(s) /\ k + 1 - 1 = k /\ f[k] \in Seq(S) /\ Same(k) /\ k \in 0 .. Len(s)
    BY <1>2, <1>4
  <2>2. f[k + 1] = Append(f[k], s[k + 1])
    <3>1. k + 1 \in keep
      BY <1>2, <2>1
    <3>2. f[k + 1] = IF k + 1 \in keep THEN Append(f[k + 1 - 1], s[k + 1]) ELSE f[k + 1 - 1]
      BY <1>1, <2>1 DEF Picking
    <3> QED
      BY <2>1, <3>1, <3>2
  <2>3. f[k + 1] = Append(f[k], s[k + 1]) /\ s[k + 1] \in S
    BY <2>2, <2>1, ElementOfSeq
  <2>4. /\ Len(Append(f[k], s[k + 1])) = k + 1
        /\ \A i \in 1 .. k : Append(f[k], s[k + 1])[i] = f[k][i]
        /\ Append(f[k], s[k + 1])[k + 1] = s[k + 1]
    BY <2>1, <2>3, AppendProperties
  <2>5. \A i \in 1 .. k + 1 : i \in 1 .. k \/ i = k + 1
    OBVIOUS
  <2> QED
    BY <2>1, <2>3, <2>4, <2>5
<1> HIDE DEF T
<1>5. Nat \subseteq T
  BY <1>3, <1>4, Induction
<1>6. Same(Len(s))
  BY <1>2, <1>5 DEF T
<1>7. Picked(s, keep) \in Seq(S) /\ Len(Picked(s, keep)) = Len(s)
      /\ \A i \in 1 .. Len(s) : Picked(s, keep)[i] = s[i]
  BY <1>1, <1>2, <1>6
<1> QED
  BY <1>7, SeqEqual

\* A set of numbers has a least one.
LEMMA Least ==
  ASSUME NEW N \in SUBSET Nat, N # {}
  PROVE  \E x \in N : \A y \in N : x <= y
<1> DEFINE R == OpToRel(<, Nat)
<1>1. IsWellFoundedOn(R, Nat)
  BY NatLessThanWellFounded
<1>2. \E x \in N : \A y \in N : ~(<<y, x>> \in R)
  <2> HIDE DEF R
  <2> QED
    BY <1>1, WFMin
<1>3. PICK x \in N : \A y \in N : ~(<<y, x>> \in R)
  BY <1>2
<1>4. ASSUME NEW y \in N PROVE x <= y
  <2>1. y < x => <<y, x>> \in R
    BY DEF OpToRel
  <2> HIDE DEF R
  <2>2. ~(y < x) /\ x \in Nat /\ y \in Nat
    BY <1>3, <2>1
  <2> QED
    BY <2>2
<1> QED
  BY <1>4

\* A name of which every segment says where to go.
Clean(x) == x \in Seq(Segments) /\ Len(x) >= 1 /\ \A k \in 1 .. Len(x) : x[k] \notin {Empty, "."}

\* What is left of a plain spelling before its leading dots go: an empty segment
\* can only be the last, dots come first, and the last segment is not one.
Tidy(c) ==
  /\ c \in Seq(Segments) /\ Len(c) >= 1
  /\ \A k \in 1 .. Len(c) : c[k] = Empty => k = Len(c)
  /\ \A k \in 1 .. Len(c) : c[k] = "." => \A l \in 1 .. k : c[l] = "."
  /\ c[Len(c)] # "."

\* The same of what has been picked after i segments.
TidySoFar(c, s, i) ==
  /\ c \in Seq(Segments) /\ (i = 0 => c = <<>>) /\ (i >= 1 => Len(c) >= 1)
  /\ \A k \in 1 .. Len(c) : \E j \in 1 .. i : c[k] = s[j]
  /\ \A k \in 1 .. Len(c) : c[k] = Empty => i = Len(s) /\ k = Len(c)
  /\ \A k \in 1 .. Len(c) : c[k] = "." => \A l \in 1 .. k : c[l] = "."
  /\ i = Len(s) /\ i >= 1 => c[Len(c)] = s[Len(s)]

LEMMA OneMorePicked ==
  ASSUME NEW s \in Spellings, Plain(s), NEW i \in Nat, i + 1 <= Len(s),
         NEW c, TidySoFar(c, s, i), s[i + 1] # Empty \/ i + 1 \in {1, Len(s)}
  PROVE  TidySoFar(Append(c, s[i + 1]), s, i + 1)
<1> DEFINE e == s[i + 1]
           d == Append(c, e)
<1>1. Len(s) \in Nat /\ e \in Segments /\ c \in Seq(Segments) /\ Len(c) \in Nat
  BY ElementOfSeq, LenProperties DEF Spellings, TidySoFar
<1>2. /\ d \in Seq(Segments) /\ Len(d) = Len(c) + 1 /\ d[Len(c) + 1] = e
      /\ \A k \in 1 .. Len(c) : d[k] = c[k]
  BY <1>1, AppendProperties
<1> HIDE DEF d
<1>3. \A k \in 1 .. Len(d) : k \in 1 .. Len(c) \/ k = Len(c) + 1
  BY <1>1, <1>2
<1>4. \A k \in 1 .. Len(d) : \E j \in 1 .. i + 1 : d[k] = s[j]
  <2>1. \A k \in 1 .. Len(c) : \E j \in 1 .. i + 1 : d[k] = s[j]
    BY <1>2 DEF TidySoFar
  <2>2. i + 1 \in 1 .. i + 1 /\ d[Len(c) + 1] = s[i + 1]
    BY <1>2
  <2> QED
    BY <1>3, <2>1, <2>2
<1>5. ASSUME NEW k \in 1 .. Len(d), d[k] = Empty
      PROVE  i + 1 = Len(s) /\ k = Len(d)
  <2>1. k \notin 1 .. Len(c)
    BY <1>1, <1>2, <1>5 DEF TidySoFar
  <2>2. k = Len(d) /\ e = Empty
    BY <1>2, <1>3, <1>5, <2>1
  <2>3. i + 1 = 1 => Len(s) = 1
    BY <2>2 DEF Plain
  <2> QED
    BY <2>2, <2>3
<1>6. ASSUME NEW k \in 1 .. Len(d), d[k] = ".", NEW l \in 1 .. k
      PROVE  d[l] = "."
  <2>1. CASE k \in 1 .. Len(c)
    <3>1. l \in 1 .. Len(c)
      BY <1>1, <2>1
    <3> QED
      BY <1>2, <1>6, <2>1, <3>1 DEF TidySoFar
  <2>2. CASE k = Len(c) + 1
    <3>1. e = "."
      BY <1>2, <1>6, <2>2
    <3>2. CASE i = 0
      <4>1. c = <<>> /\ Len(c) = 0
        BY <3>2 DEF TidySoFar
      <4> QED
        BY <1>6, <2>2, <4>1
    <3>3. CASE i # 0
      <4>1. i + 1 \in 2 .. Len(s)
        BY <1>1, <3>3
      <4>2. \A j \in 1 .. i + 1 : s[j] = "."
        BY <3>1, <4>1 DEF Plain
      <4>3. l \in 1 .. Len(d)
        BY <1>1, <1>2, <2>2
      <4> QED
        BY <1>4, <4>2, <4>3
    <3> QED
      BY <3>2, <3>3
  <2> QED
    BY <1>3, <2>1, <2>2
<1>7. i + 1 = Len(s) => d[Len(d)] = s[Len(s)]
  BY <1>2
<1>8. Len(d) >= 1 /\ i + 1 # 0
  BY <1>1, <1>2
<1>9. TidySoFar(d, s, i + 1)
  BY <1>2, <1>4, <1>5, <1>6, <1>7, <1>8 DEF TidySoFar
<1> QED
  BY <1>9 DEF d

LEMMA CollapsedIsTidy ==
  ASSUME NEW s \in Spellings, Plain(s)
  PROVE  Tidy(Collapsed(s))
<1> DEFINE keep == {i \in DOMAIN s : s[i] # Empty \/ i \in {1, Len(s)}}
<1>1. s \in Seq(Segments) /\ Len(s) \in Nat /\ Len(s) >= 1 /\ DOMAIN s = 1 .. Len(s)
  BY LenProperties, EmptySeq DEF Spellings
<1> HIDE DEF keep
<1>2. PICK f \in [0 .. Len(s) -> Seq(Segments)] :
        Picking(f, s, keep, Len(s)) /\ Picked(s, keep) = f[Len(s)]
  BY <1>1, PickedByStep
<1> DEFINE T == {i \in Nat : i <= Len(s) => TidySoFar(f[i], s, i)}
<1>3. 0 \in T
  <2>1. f[0] = <<>> /\ <<>> \in Seq(Segments) /\ Len(<<>>) = 0
    BY <1>2 DEF Picking
  <2>2. TidySoFar(<<>>, s, 0)
    BY <2>1 DEF TidySoFar
  <2> QED
    BY <2>1, <2>2
<1>4. ASSUME NEW i \in Nat, i \in T
      PROVE  i + 1 \in T
  <2> SUFFICES ASSUME i + 1 <= Len(s)
               PROVE  TidySoFar(f[i + 1], s, i + 1)
    OBVIOUS
  <2>1. i + 1 \in 1 .. Len(s) /\ i + 1 - 1 = i /\ i <= Len(s) /\ TidySoFar(f[i], s, i)
    BY <1>1, <1>4
  <2>2. f[i + 1] = IF i + 1 \in keep THEN Append(f[i + 1 - 1], s[i + 1]) ELSE f[i + 1 - 1]
    BY <1>2, <2>1 DEF Picking
  <2>3. CASE i + 1 \in keep
    <3>1. s[i + 1] # Empty \/ i + 1 \in {1, Len(s)}
      BY <2>3 DEF keep
    <3>2. TidySoFar(Append(f[i], s[i + 1]), s, i + 1)
      BY <2>1, <3>1, OneMorePicked
    <3> QED
      BY <2>1, <2>2, <2>3, <3>2
  <2>4. CASE i + 1 \notin keep
    <3>1. i + 1 # Len(s) /\ i + 1 # 1
      BY <1>1, <2>1, <2>4 DEF keep
    <3>2. TidySoFar(f[i], s, i + 1)
      BY <2>1, <3>1 DEF TidySoFar
    <3> QED
      BY <2>1, <2>2, <2>4, <3>2
  <2> QED
    BY <2>3, <2>4
<1> HIDE DEF T
<1>5. Nat \subseteq T
  BY <1>3, <1>4, Induction
<1>6. TidySoFar(f[Len(s)], s, Len(s))
  BY <1>1, <1>5 DEF T
<1>7. Collapsed(s) = f[Len(s)]
  BY <1>2 DEF Collapsed, keep
<1>8. s[Len(s)] # "."
  BY DEF Plain
<1> QED
  BY <1>1, <1>6, <1>7, <1>8 DEF Tidy, TidySoFar

LEMMA PlainIsClean ==
  ASSUME NEW s \in Spellings, Plain(s)
  PROVE  NormalizeResource(s) = Root \/ Clean(NormalizeResource(s))
<1> DEFINE c == Collapsed(s)
           n == Len(c)
           Fit(i) == (\A j \in 1 .. (i - 1) : c[j] = ".") /\ (i = n \/ c[i] # ".")
           first == CHOOSE i \in 1 .. n : Fit(i)
           u == Undotted(c)
<1>1. Tidy(c)
  BY CollapsedIsTidy
<1> HIDE DEF c
<1>2. n \in Nat /\ n >= 1 /\ c \in Seq(Segments) /\ DOMAIN c = 1 .. n
  BY <1>1, LenProperties DEF Tidy
<1>3. \E i \in 1 .. n : Fit(i)
  <2> DEFINE N == {i \in 1 .. n : c[i] # "."}
  <2>1. N \in SUBSET Nat /\ n \in N
    <3>1. c[n] # "."
      BY <1>1 DEF Tidy
    <3>2. c[n] # "." /\ n \in 1 .. n
      BY <1>2, <3>1
    <3>3. \A i \in 1 .. n : i \in Nat
      BY <1>2
    <3> HIDE DEF n
    <3> QED
      BY <3>2, <3>3
  <2>2. PICK x \in N : \A y \in N : x <= y
    <3> HIDE DEF N
    <3> QED
      BY <2>1, Least
  <2>3. \A j \in 1 .. (x - 1) : j \in 1 .. n /\ ~(x <= j)
    BY <1>2, <2>2
  <2> QED
    BY <2>2, <2>3
<1>4. first \in 1 .. n /\ Fit(first)
  <2> HIDE DEF Fit
  <2> QED
    BY <1>3
<1>5. u = SubSeq(c, first, n)
  BY DEF Undotted
<1> HIDE DEF first, u, n
<1>6. c[first] # "."
  BY <1>1, <1>4 DEF Tidy, n
<1>7. /\ u \in Seq(Segments) /\ Len(u) = n - first + 1
      /\ \A k \in 1 .. Len(u) : u[k] = c[first + k - 1]
  <2>1. first \in Int /\ n \in Int /\ first <= n
    BY <1>2, <1>4
  <2>2. \A i \in first .. n : c[i] \in Segments
    <3>1. \A i \in first .. n : i \in 1 .. n
      BY <1>2, <1>4
    <3> QED
      BY <1>2, <3>1, ElementOfSeq DEF n
  <2>3. /\ u \in Seq(Segments) /\ Len(u) = IF first <= n THEN n - first + 1 ELSE 0
        /\ \A k \in 1 .. n - first + 1 : u[k] = c[first + k - 1]
    BY <1>5, <2>1, <2>2, SubSeqProperties
  <2> QED
    BY <2>1, <2>3
<1>8. ASSUME NEW k \in 1 .. Len(u)
      PROVE  u[k] # "." /\ (u[k] = Empty => k = Len(u))
  <2>1. first + k - 1 \in 1 .. n /\ first \in 1 .. (first + k - 1)
    BY <1>2, <1>4, <1>7
  <2>2. u[k] = c[first + k - 1]
    BY <1>7
  <2>3. u[k] # "."
    BY <1>1, <1>6, <2>1, <2>2 DEF Tidy, n
  <2>4. u[k] = Empty => first + k - 1 = n
    BY <1>1, <2>1, <2>2 DEF Tidy, n
  <2> QED
    BY <1>2, <1>4, <1>7, <2>3, <2>4
<1>9. Len(u) \in Nat /\ Len(u) >= 1
  BY <1>2, <1>4, <1>7
<1>10. NormalizeResource(s) = Trimmed(u)
  BY DEF NormalizeResource, c, u
<1>11. CASE Len(u) > 1 /\ u[Len(u)] = Empty
  <2> DEFINE w == WithoutLast(u)
  <2>1. Trimmed(u) = w
    BY <1>11 DEF Trimmed
  <2>2. w \in Seq(Segments) /\ Len(w) = Len(u) - 1 /\ \A k \in 1 .. Len(w) : w[k] = u[k]
    <3>1. 1 \in 1 .. Len(u) + 1 /\ Len(u) - 1 \in 0 .. Len(u) /\ 1 <= Len(u) - 1
      BY <1>9, <1>11
    <3>2. w = SubSeq(u, 1, Len(u) - 1)
      BY DEF WithoutLast
    <3> HIDE DEF w
    <3> QED
      BY <1>7, <1>9, <3>1, <3>2, SubSeqProperties
  <2> HIDE DEF w
  <2>3. \A k \in 1 .. Len(w) : k \in 1 .. Len(u) /\ k # Len(u)
    BY <1>9, <2>2
  <2>4. Len(w) >= 1
    BY <1>9, <1>11, <2>2
  <2> QED
    BY <1>8, <1>10, <2>1, <2>2, <2>3, <2>4 DEF Clean
<1>12. CASE ~(Len(u) > 1) /\ u[Len(u)] = Empty
  <2>1. ~(Len(u) > 1)
    BY <1>12
  <2>2. Len(u) = 1
    <3>1. \A l \in Nat : l >= 1 /\ ~(l > 1) => l = 1
      OBVIOUS
    <3> QED
      BY <1>9, <2>1, <3>1, Zenon
  <2>3. Trimmed(u) = u
    BY <1>12 DEF Trimmed
  <2>4. u = <<Empty>>
    <3>1. u \in Seq(Segments) /\ u[1] = Empty
      BY <1>7, <1>12, <2>2
    <3>2. u = <<u[1]>>
      BY <2>2, <3>1
    <3> QED
      BY <3>1, <3>2
  <2> QED
    BY <1>10, <2>3, <2>4 DEF Root
<1>13. CASE u[Len(u)] # Empty
  <2>1. Trimmed(u) = u
    BY <1>13 DEF Trimmed
  <2> QED
    BY <1>7, <1>8, <1>9, <1>10, <1>13, <2>1 DEF Clean
<1> QED
  BY <1>11, <1>12, <1>13

\* A clean name leads where its segments say; a pattern, where its directory's do.
LEMMA StepsOfClean ==
  ASSUME NEW x, Clean(x)
  PROVE  /\ Steps(x) = IF IsPattern(x) THEN WithoutLast(x) ELSE x
         /\ Steps(x) \in Seq(Segments)
         /\ Len(Steps(x)) = 0 => Reach(x) = Root
         /\ Len(Steps(x)) # 0 => Reach(x) = Steps(x)
<1> DEFINE y == IF IsPattern(x) THEN WithoutLast(x) ELSE x
           keep == {i \in DOMAIN y : y[i] \notin {Empty, "."}}
<1>1. x \in Seq(Segments) /\ Len(x) \in Nat /\ Len(x) >= 1
  BY LenProperties DEF Clean
<1>2. /\ WithoutLast(x) \in Seq(Segments) /\ Len(WithoutLast(x)) = Len(x) - 1
      /\ \A i \in 1 .. Len(x) - 1 : WithoutLast(x)[i] = x[i]
  <2> DEFINE n == Len(x) - 1
             w == WithoutLast(x)
  <2>1. 1 \in Int /\ n \in Int /\ n \in Nat
    BY <1>1
  <2>2. \A i \in 1 .. n : x[i] \in Segments
    BY <1>1, ElementOfSeq
  <2>3. w = SubSeq(x, 1, n)
    BY DEF WithoutLast
  <2> HIDE DEF n, w
  <2>4. /\ w \in Seq(Segments) /\ Len(w) = IF 1 <= n THEN n - 1 + 1 ELSE 0
        /\ \A i \in 1 .. n - 1 + 1 : w[i] = x[1 + i - 1]
    BY <2>1, <2>2, <2>3, SubSeqProperties
  <2>5. Len(w) = n /\ \A i \in 1 .. n : w[i] = x[i]
    BY <2>1, <2>4
  <2> QED
    BY <2>4, <2>5 DEF n, w
<1>3. y \in Seq(Segments) /\ \A i \in 1 .. Len(y) : y[i] \notin {Empty, "."}
  BY <1>1, <1>2 DEF Clean
<1>4. Steps(x) = Picked(y, keep)
  BY DEF Steps
<1>5. DOMAIN y \subseteq keep
  <2> HIDE DEF y
  <2>1. DOMAIN y = 1 .. Len(y)
    BY <1>3, LenProperties
  <2> QED
    BY <1>3, <2>1
<1>6. Steps(x) = y
  <2> HIDE DEF y, keep
  <2> QED
    BY <1>3, <1>4, <1>5, PickedWhole
<1>7. CASE IsPattern(x)
  <2>1. y = WithoutLast(x) /\ Reach(x) = IF Len(x) = 1 THEN Root ELSE WithoutLast(x)
    BY <1>7 DEF Reach, GlobPrefix
  <2> QED
    BY <1>1, <1>2, <1>3, <1>6, <2>1
<1>8. CASE ~IsPattern(x)
  <2>1. y = x /\ Reach(x) = x
    BY <1>8 DEF Reach
  <2> QED
    BY <1>1, <1>3, <1>6, <2>1
<1> QED
  BY <1>7, <1>8

\* Of two names on the way to one file, the longer is below the shorter.
LEMMA OnOneWay ==
  ASSUME NEW x, NEW y, Clean(x), Clean(y), NEW file \in Seq(Segments),
         Touches(x, file), Touches(y, file), Len(Steps(x)) <= Len(Steps(y))
  PROVE  IsUnder(Reach(y), Reach(x))
<1> DEFINE p == Len(Steps(x))
           q == Len(Steps(y))
<1>1. p \in Nat /\ q \in Nat /\ Len(file) \in Nat /\ p <= q /\ q <= Len(file)
  BY StepsOfClean, LenProperties DEF Touches
<1>2. CASE p = 0
  BY <1>2, StepsOfClean DEF IsUnder
<1>3. CASE p # 0
  <2>1. Reach(x) = Steps(x)
    BY <1>3, StepsOfClean
  <2>2. Reach(y) = Steps(y)
    <3>1. q # 0
      BY <1>1, <1>3
    <3> QED
      BY <3>1, StepsOfClean
  <2>3. Steps(x) \in Seq(Segments) /\ Steps(y) \in Seq(Segments)
    BY StepsOfClean
  <2>4. /\ \A i \in 1 .. p : Steps(x)[i] = file[i]
        /\ \A i \in 1 .. q : Steps(y)[i] = file[i]
    <3>1. SubSeq(file, 1, p) = Steps(x) /\ SubSeq(file, 1, q) = Steps(y)
      BY DEF Touches
    <3>2. /\ \A i \in 1 .. p : file[i] \in Segments
          /\ \A i \in 1 .. q : file[i] \in Segments
      BY <1>1, ElementOfSeq
    <3>3. /\ \A i \in 1 .. p - 1 + 1 : SubSeq(file, 1, p)[i] = file[1 + i - 1]
          /\ \A i \in 1 .. q - 1 + 1 : SubSeq(file, 1, q)[i] = file[1 + i - 1]
      <4> HIDE DEF p, q
      <4>1. \A i \in 1 .. p - 1 + 1 : SubSeq(file, 1, p)[i] = file[1 + i - 1]
        BY <1>1, <3>2, SubSeqProperties
      <4>2. \A i \in 1 .. q - 1 + 1 : SubSeq(file, 1, q)[i] = file[1 + i - 1]
        BY <1>1, <3>2, SubSeqProperties
      <4> QED
        BY <4>1, <4>2
    <3> HIDE DEF p, q
    <3>4. p - 1 + 1 = p /\ q - 1 + 1 = q /\ \A i \in 1 .. p : 1 + i - 1 = i
      BY <1>1
    <3>5. \A i \in 1 .. q : 1 + i - 1 = i
      BY <1>1
    <3> QED
      BY <3>1, <3>3, <3>4, <3>5
  <2>5. SubSeq(Steps(y), 1, p) = Steps(x)
    <3> DEFINE z == SubSeq(Steps(y), 1, p)
    <3>1. \A i \in 1 .. p : Steps(y)[i] \in Segments
      BY <1>1, <2>3, ElementOfSeq
    <3>2. 1 \in Int /\ p \in Int /\ 1 <= p
      BY <1>1, <1>3
    <3>3. /\ z \in Seq(Segments) /\ Len(z) = IF 1 <= p THEN p - 1 + 1 ELSE 0
          /\ \A i \in 1 .. p - 1 + 1 : z[i] = Steps(y)[1 + i - 1]
      <4> HIDE DEF p
      <4> QED
        BY <3>1, <3>2, SubSeqProperties
    <3> HIDE DEF z
    <3>4. Len(z) = p
      BY <1>1, <3>2, <3>3
    <3>5. ASSUME NEW i \in 1 .. p PROVE z[i] = Steps(x)[i]
      <4>1. i \in 1 .. p - 1 + 1 /\ 1 + i - 1 = i /\ i \in 1 .. q
        BY <1>1
      <4>2. z[i] = Steps(y)[i]
        BY <3>3, <4>1
      <4> QED
        BY <2>4, <4>1, <4>2
    <3>6. z = Steps(x)
      BY <2>3, <3>3, <3>4, <3>5, SeqEqual
    <3> QED
      BY <3>6 DEF z
  <2> QED
    BY <1>1, <2>1, <2>2, <2>5 DEF IsUnder
<1> QED
  BY <1>2, <1>3

\* Two plain spellings of names on the way to one file: resource.ts sees that they
\* meet, unless one is a directory and the other a pattern of one below it.
THEOREM TouchingNamesMeet ==
  ASSUME NEW a \in Spellings, NEW b \in Spellings, Plain(a), Plain(b),
         NEW file \in Seq(Segments),
         Touches(NormalizeResource(a), file), Touches(NormalizeResource(b), file)
  PROVE  ResourcesIntersect(a, b) \/ Missed(a, b) \/ Missed(b, a)
<1> DEFINE x == NormalizeResource(a)
           y == NormalizeResource(b)
<1>1. (x = Root \/ Clean(x)) /\ (y = Root \/ Clean(y))
  BY PlainIsClean
<1>2. ~IsPattern(Root) /\ Reach(Root) = Root
  BY DEF IsPattern, Root, Reach, Patterns, Empty
<1>3. \A z : IsUnder(z, Root)
  BY DEF IsUnder
<1>4. /\ ResourcesIntersect(a, b) <=>
           \/ x = y
           \/ (IsPattern(x) \/ ~IsPattern(y)) /\ IsUnder(Reach(y), Reach(x))
           \/ (IsPattern(y) \/ ~IsPattern(x)) /\ IsUnder(Reach(x), Reach(y))
      /\ Missed(a, b) <=> ~IsPattern(x) /\ IsPattern(y) /\ Reach(y) # x /\ IsUnder(Reach(y), x)
      /\ Missed(b, a) <=> ~IsPattern(y) /\ IsPattern(x) /\ Reach(x) # y /\ IsUnder(Reach(x), y)
  BY DEF ResourcesIntersect, Missed
<1>5. Touches(x, file) /\ Touches(y, file)
  OBVIOUS
<1>6. (~IsPattern(x) => Reach(x) = x) /\ (~IsPattern(y) => Reach(y) = y)
  BY DEF Reach
<1> HIDE DEF x, y
<1>7. CASE x = Root
  BY <1>2, <1>3, <1>4, <1>6, <1>7
<1>8. CASE y = Root
  BY <1>2, <1>3, <1>4, <1>6, <1>8
<1>9. CASE Clean(x) /\ Clean(y)
  <2>1. Len(Steps(x)) \in Nat /\ Len(Steps(y)) \in Nat
    BY <1>9, StepsOfClean, LenProperties
  <2>2. IsUnder(Reach(y), Reach(x)) \/ IsUnder(Reach(x), Reach(y))
    <3>1. CASE Len(Steps(x)) <= Len(Steps(y))
      BY <1>5, <1>9, <3>1, OnOneWay
    <3>2. CASE Len(Steps(y)) <= Len(Steps(x))
      BY <1>5, <1>9, <3>2, OnOneWay
    <3> QED
      BY <2>1, <3>1, <3>2
  <2> QED
    BY <1>4, <1>6, <2>2
<1> QED
  BY <1>1, <1>7, <1>8, <1>9

\* Dependencies are the same in a graph and in the plan made of it.
LEMMA PlanReaches ==
  ASSUME NEW dag, NEW plan, DOMAIN plan = DOMAIN dag, Len(plan) = Len(dag), IsList(dag),
         \A i \in DOMAIN dag : plan[i].id = dag[i].id /\ plan[i].deps = dag[i].deps,
         NEW from, NEW to
  PROVE  Reachable(plan, from, to) <=> Reachable(dag, from, to)
<1>1. ASSUME NEW id PROVE DepsOf(plan, id) = DepsOf(dag, id)
  <2> DEFINE same == {i \in DOMAIN dag : dag[i].id = id}
             last == CHOOSE i \in same : \A j \in same : j <= i
  <2>1. {i \in DOMAIN plan : plan[i].id = id} = same
    OBVIOUS
  <2>2. CASE same = {}
    BY <2>1, <2>2 DEF DepsOf
  <2>3. CASE same # {}
    <3>1. DepsOf(plan, id) = plan[last].deps /\ DepsOf(dag, id) = dag[last].deps
      <4> HIDE DEF same
      <4>1. DepsOf(plan, id) = plan[last].deps
        BY <2>1, <2>3 DEF DepsOf
      <4>2. DepsOf(dag, id) = dag[last].deps
        BY <2>3 DEF DepsOf, same
      <4> QED
        BY <4>1, <4>2
    <3>2. last \in same
      <4>1. \E i \in same : \A j \in same : j <= i
        <5>1. same \in SUBSET (1 .. Len(dag)) /\ Len(dag) \in Nat
          BY DEF IsList
        <5> HIDE DEF same
        <5> DEFINE gap == {Len(dag) - i : i \in same}
        <5>2. gap \in SUBSET Nat /\ gap # {}
          <6>1. \A i \in same : i \in Nat /\ Len(dag) - i \in Nat
            BY <5>1
          <6>2. \E i \in same : Len(dag) - i \in gap
            BY <2>3
          <6> QED
            BY <6>1, <6>2
        <5>3. PICK x \in gap : \A y \in gap : x <= y
          <6> HIDE DEF gap
          <6> QED
            BY <5>2, Least
        <5>4. PICK i \in same : x = Len(dag) - i
          OBVIOUS
        <5>5. ASSUME NEW j \in same PROVE j <= i
          <6>1. Len(dag) - i <= Len(dag) - j
            BY <5>3, <5>4
          <6>2. i \in Nat /\ j \in Nat
            BY <5>1
          <6> QED
            BY <5>1, <6>1, <6>2
        <5> QED
          BY <5>5
      <4> HIDE DEF same
      <4> QED
        BY <4>1
    <3> HIDE DEF last
    <3> QED
      BY <3>1, <3>2
  <2> QED
    BY <2>2, <2>3
<1> DEFINE Levels(g, level) ==
      level = [n \in 0 .. Len(g) |->
                 IF n = 0 THEN {from}
                 ELSE level[n - 1] \cup UNION {DepsOf(g, id) : id \in level[n - 1]}]
<1>2. \A level : Levels(plan, level) <=> Levels(dag, level)
  BY <1>1
<1>3. (CHOOSE level : Levels(plan, level)) = (CHOOSE level : Levels(dag, level))
  <2> HIDE DEF Levels
  <2> QED
    BY <1>2
<1>4. /\ Reachable(plan, from, to) <=>
           to # from /\ to \in (CHOOSE level : Levels(plan, level))[Len(plan)]
      /\ Reachable(dag, from, to) <=>
           to # from /\ to \in (CHOOSE level : Levels(dag, level))[Len(dag)]
  BY DEF Reachable
<1> HIDE DEF Levels
<1> QED
  BY <1>3, <1>4

LEMMA ProposalsAreOrdered ==
  ASSUME PlainDags
  PROVE  Proposals \subseteq InOrder
<1> SUFFICES ASSUME NEW dag \in Dags, Verdicts[dag].errors = {},
                    NEW call, call = Verdicts[dag].proposal
             PROVE  Ordered(call)
  BY DEF Proposals, InOrder
<1> DEFINE fixed == NormalizeDag(dag)
           plan == ToPlan(fixed)
<1>1. IsList(dag) /\ IsList(fixed)
  BY PlannerAssumption, NormalizedIsList DEF IsList
<1>2. /\ DOMAIN fixed = DOMAIN dag
      /\ \A i \in DOMAIN dag : fixed[i].writes = dag[i].writes
  <2>1. DOMAIN fixed = DOMAIN dag
    BY DEF NormalizeDag
  <2>2. ASSUME NEW i \in DOMAIN dag PROVE fixed[i].writes = dag[i].writes
    <3>1. DOMAIN dag[i] = NodeFields
      BY PlannerAssumption
    <3>2. \A node, r, p : DOMAIN node = NodeFields =>
            [node EXCEPT !.reads = r, !.misplaced = {}, !.policy = p].writes = node.writes
      BY DEF NodeFields
    <3>3. PICK r, p : fixed[i] = [dag[i] EXCEPT !.reads = r, !.misplaced = {}, !.policy = p]
      BY DEF NormalizeDag
    <3> QED
      BY <3>1, <3>2, <3>3
  <2> QED
    BY <2>1, <2>2
<1>3. call.plan = plan /\ call.warned = Warnings(fixed)
  BY DEF Verdicts, Ends, NotAsked
<1> HIDE DEF fixed
<1>4. /\ DOMAIN plan = DOMAIN fixed
      /\ \A i \in DOMAIN fixed : /\ plan[i].id = fixed[i].id /\ plan[i].deps = fixed[i].deps
                                 /\ plan[i].write = Canonical(fixed[i].writes) \ {Root}
  BY DEF ToPlan
<1>5. Len(plan) = Len(fixed)
  BY <1>1, PlanIsList
<1> HIDE DEF plan
<1> SUFFICES ASSUME NEW i \in DOMAIN plan, NEW j \in DOMAIN plan, i < j,
                    MayMeet(plan[i], plan[j]),
                    ~Precedes(plan, plan[i].id, plan[j].id),
                    ~Precedes(plan, plan[j].id, plan[i].id)
             PROVE  <<"overlap", plan[j].id>> \in Warnings(fixed)
  BY <1>3 DEF Ordered
<1>6. i \in DOMAIN fixed /\ j \in DOMAIN fixed /\ i \in DOMAIN dag /\ j \in DOMAIN dag \ {i}
  <2>1. i # j
    BY <1>1, <1>2, <1>4 DEF IsList
  <2> QED
    BY <1>2, <1>4, <2>1
<1>7. PICK file \in Files, w \in plan[i].write, x \in plan[j].write :
        Touches(w, file) /\ Touches(x, file)
  BY DEF MayMeet
<1>8. PICK a \in dag[i].writes : w = NormalizeResource(a)
  BY <1>2, <1>4, <1>6 DEF Canonical
<1>9. PICK b \in dag[j].writes : x = NormalizeResource(b)
  BY <1>2, <1>4, <1>6 DEF Canonical
<1>10. a \in Spellings /\ Plain(a) /\ b \in Spellings /\ Plain(b) /\ ~Missed(a, b) /\ ~Missed(b, a)
  <2>1. i \in DOMAIN dag \ {j}
    BY <1>6
  <2> QED
    BY <1>6, <1>8, <1>9, <2>1 DEF PlainDags
<1>11. file \in Seq(Segments)
  BY PlannerAssumption
<1>12. ResourcesIntersect(a, b)
  BY <1>7, <1>8, <1>9, <1>10, <1>11, TouchingNamesMeet
<1>13. SetsIntersect(fixed[i].writes, fixed[j].writes)
  BY <1>2, <1>6, <1>12 DEF SetsIntersect
<1>14. /\ ~Reachable(fixed, fixed[i].id, fixed[j].id)
       /\ ~Reachable(fixed, fixed[j].id, fixed[i].id)
  BY <1>1, <1>4, <1>5, <1>6, PlanReaches DEF Precedes
<1>15. Overlapping(fixed, i, j)
  BY <1>13, <1>14 DEF Overlapping
<1>16. <<"overlap", fixed[j].id>> \in Warnings(fixed)
  <2>1. j \in {k \in DOMAIN fixed : \E h \in DOMAIN fixed : Overlapping(fixed, h, k)}
    BY <1>6, <1>15
  <2>2. <<"overlap", fixed[j].id>> \in
          {<<"overlap", fixed[k].id>> :
             k \in {l \in DOMAIN fixed : \E h \in DOMAIN fixed : Overlapping(fixed, h, l)}}
    BY <2>1
  <2> QED
    BY <2>2, Zenon DEF Warnings
<1> QED
  BY <1>4, <1>6, <1>16

\* Two nodes of a proposed plan that may write one file are ordered by their
\* dependencies or the human is told, whatever the graph.  Of names that are not
\* plain, and of a directory above another writer's pattern, this is not so:
\* resource.ts lets them pass each other.
THEOREM PlainWritersAreOrdered ==
  ASSUME PlainDags
  PROVE  Spec => []WritersAreOrdered
<1>1. Init => PlanInv
  BY PlanInvInit
<1>2. PlanInv => WritersAreOrdered
  BY ProposalsAreOrdered DEF PlanInv, WritersAreOrdered
<1> QED
  BY <1>1, <1>2, PlanInvStep, PTL DEF Spec

-----------------------------------------------------------------------------
(* The lock manager, whose table is given the relation of resource.ts. *)

(* Type correctness of the lock table and of the owners' phases. *)
THEOREM TypeCorrect == LocksSpec => []TypeOK
<1>1. LocksInit => TypeOK
  BY DEF LocksInit, TypeOK, Tables, Row, Free, Phases
<1>2. TypeOK /\ [LocksNext]_lockVars => TypeOK'
  <2> SUFFICES ASSUME TypeOK, [LocksNext]_lockVars PROVE TypeOK'
    OBVIOUS
  <2>1. CASE UNCHANGED lockVars
    BY <2>1 DEF TypeOK, lockVars
  <2>2. ASSUME NEW o \in Owners,
               TryAcquire(o) \/ Finish(o) \/ Escalate(o) \/ Grant(o) \/ Deny(o) \/ Abandon(o)
        PROVE  TypeOK'
    <3>1. locks' \in Tables
      BY <2>2, OperationsTyped
         DEF TypeOK, TryAcquire, Finish, Escalate, Grant, Deny, Abandon
    <3>2. phase' \in [Owners -> Phases]
      BY <2>2 DEF TypeOK, Phases, TryAcquire, Finish, Escalate, Grant, Deny, Abandon
    <3>3. robbed' \in SUBSET Owners
      <4>1. CASE TryAcquire(o)
        BY <4>1 DEF TypeOK, TryAcquire
      <4>2. CASE Finish(o) \/ Escalate(o) \/ Grant(o) \/ Deny(o) \/ Abandon(o)
        BY <4>2 DEF TypeOK, Finish, Escalate, Grant, Deny, Abandon
      <4> QED
        BY <2>2, <4>1, <4>2
    <3> QED
      BY <3>1, <3>2, <3>3 DEF TypeOK
  <2> QED
    BY <2>1, <2>2 DEF LocksNext
<1> QED
  BY <1>1, <1>2, PTL DEF LocksSpec

(* No two node names ever hold intersecting resources, however many runs share *)
(* the table and whatever they call (locks.ts, acquire and findConflict). *)
THEOREM Exclusion == LocksSpec => []WriteExclusion
<1>1. WriteExclusion <=> Excludes(locks)
  BY DEF WriteExclusion
<1>2. WriteExclusion' <=> Excludes(locks')
  BY DEF WriteExclusion
<1>3. LocksInit => WriteExclusion
  BY DEF LocksInit, WriteExclusion, Excludes, Free
<1>4. TypeOK /\ WriteExclusion /\ [LocksNext]_lockVars => WriteExclusion'
  <2> SUFFICES ASSUME TypeOK, WriteExclusion, [LocksNext]_lockVars PROVE Excludes(locks')
    BY <1>2
  <2>1. locks \in Tables /\ Excludes(locks)
    BY <1>1 DEF TypeOK
  <2>2. CASE UNCHANGED lockVars
    BY <2>1, <2>2 DEF lockVars
  <2>3. ASSUME NEW o \in Owners,
               TryAcquire(o) \/ Finish(o) \/ Escalate(o) \/ Grant(o) \/ Deny(o) \/ Abandon(o)
        PROVE  Excludes(locks')
    BY <2>1, <2>3, AcquireExcludes, OthersExclude
       DEF TryAcquire, Finish, Escalate, Grant, Deny, Abandon
  <2> QED
    BY <2>2, <2>3 DEF LocksNext
<1> QED
  BY <1>3, <1>4, TypeCorrect, PTL DEF LocksSpec

-----------------------------------------------------------------------------
(* The inductive invariant of whole-set ownership.  That an owner has its whole *)
(* set or nothing is not inductive: Finish needs that a working owner's rows are *)
(* not parked, and a refused acquire of a resumed owner needs exclusion, which  *)
(* is what makes the whole retained set, and not part of it, go back.           *)
OwnerFits(o, t, ph, lost) ==
  /\ HeldBy(t, o) \subseteq Writes[o]
  /\ ~lost => /\ ph \in {"working", "parked", "resumed"} => HeldBy(t, o) = Writes[o]
              /\ ph = "idle" => HeldBy(t, o) = {}
  /\ \A r \in HeldBy(t, o) : /\ ph = "parked" => t[r].parked
                             /\ t[r].parked => ph \in {"parked", "over"}

OwnersFit == \A o \in Owners : OwnerFits(o, locks, phase[o], o \in robbed)

IInv == TypeOK /\ WriteExclusion /\ OwnersFit

LEMMA FittingIsWhole ==
  ASSUME TypeOK
  PROVE  OwnersFit => WholeSetOrNothing /\ ParkedRowsMatch
<1>1. NoOwner \notin Owners /\ \A r \in Resources : locks[r].owner \in Owners \cup {NoOwner}
  BY LockAssumption DEF TypeOK, Tables, Row
<1>2. OwnersFit => WholeSetOrNothing
  BY DEF OwnersFit, OwnerFits, WholeSetOrNothing
<1>3. OwnersFit => ParkedRowsMatch
  BY <1>1 DEF OwnersFit, OwnerFits, ParkedRowsMatch, HeldBy
<1> QED
  BY <1>2, <1>3

(* A claim: the claimant gets all or nothing, and whoever loses a row to it is *)
(* counted among the robbed. *)
LEMMA TryAcquireFits ==
  ASSUME IInv, NEW o \in Owners, TryAcquire(o)
  PROVE  OwnersFit'
<1>1. /\ locks \in Tables /\ Excludes(locks) /\ phase \in [Owners -> Phases]
      /\ locks' = Acquire(locks, o)
      /\ phase' = [phase EXCEPT ![o] = IF CanAcquire(locks, o) THEN "working" ELSE "idle"]
      /\ phase[o] \in {"idle", "resumed"}
      /\ OwnerFits(o, locks, phase[o], o \in robbed)
  BY DEF IInv, TypeOK, WriteExclusion, OwnersFit, TryAcquire
<1>2. HeldBy(locks, o) \subseteq Writes[o] /\ \A r \in HeldBy(locks, o) : ~locks[r].parked
  BY <1>1 DEF OwnerFits
<1>3. /\ CanAcquire(locks, o) => HeldBy(locks', o) = Writes[o]
      /\ ~CanAcquire(locks, o) /\ HeldBy(locks, o) \in {{}, Writes[o]} => HeldBy(locks', o) = {}
      /\ HeldBy(locks', o) \subseteq Writes[o]
  BY <1>1, <1>2, AcquireIsAllOrNothing
<1> SUFFICES ASSUME NEW p \in Owners
             PROVE  OwnerFits(p, locks', phase'[p], p \in robbed')
  BY DEF OwnersFit, OwnerFits, HeldBy
<1>4. CASE p = o /\ CanAcquire(locks, o)
  <2>1. phase'[p] = "working"
    BY <1>1, <1>4
  <2>2. \A r \in HeldBy(locks', o) : ~locks'[r].parked
    BY <1>1, <1>3, <1>4, LockAssumption DEF Acquire, HeldBy
  <2> QED
    BY <1>3, <1>4, <2>1, <2>2 DEF OwnerFits
<1>5. CASE p = o /\ ~CanAcquire(locks, o)
  <2>1. phase'[p] = "idle" /\ (o \in robbed => o \in robbed')
    BY <1>1, <1>5 DEF TryAcquire
  <2>2. o \notin robbed => HeldBy(locks, o) \in {{}, Writes[o]}
    BY <1>1 DEF OwnerFits
  <2>3. \A r \in HeldBy(locks', o) : ~locks'[r].parked
    BY <1>1, <1>2, <1>5, LockAssumption DEF Acquire, HeldBy, Free
  <2> QED
    BY <1>3, <1>5, <2>1, <2>2, <2>3 DEF OwnerFits
<1>6. CASE p # o
  <2>1. phase'[p] = phase[p] /\ OwnerFits(p, locks, phase[p], p \in robbed)
    BY <1>1, <1>6 DEF IInv, OwnersFit
  <2>2. /\ HeldBy(locks', p) \subseteq HeldBy(locks, p)
        /\ \A r \in HeldBy(locks', p) : locks'[r] = locks[r]
    BY <1>1, <1>6, AcquireGivesNobody
  <2>3. p \notin robbed' => p \notin robbed /\ HeldBy(locks', p) = HeldBy(locks, p)
    BY <1>6 DEF TryAcquire
  <2> QED
    BY <2>1, <2>2, <2>3 DEF OwnerFits
<1> QED
  BY <1>4, <1>5, <1>6

LEMMA IInvStep ==
  ASSUME IInv, NEW o \in Owners,
         TryAcquire(o) \/ Finish(o) \/ Escalate(o) \/ Grant(o) \/ Deny(o) \/ Abandon(o)
  PROVE  OwnersFit'
<1>1. /\ locks \in Tables /\ NoOwner \notin Owners /\ phase \in [Owners -> Phases]
      /\ OwnerFits(o, locks, phase[o], o \in robbed)
  BY LockAssumption DEF IInv, TypeOK, OwnersFit
<1>2. CASE Finish(o) \/ Escalate(o) \/ Grant(o) \/ Deny(o)
  <2>1. /\ locks' \in {Release(locks, o), Park(locks, o), Unpark(locks, o), ForceRelease(locks, o)}
        /\ robbed' = robbed
    BY <1>2 DEF Finish, Escalate, Grant, Deny
  <2>2. ASSUME NEW p \in Owners, p # o
        PROVE  OwnerFits(p, locks', phase'[p], p \in robbed')
    <3>1. /\ HeldBy(locks', p) = HeldBy(locks, p)
          /\ \A r \in HeldBy(locks, p) : locks'[r] = locks[r]
      BY <1>1, <2>1, <2>2, OthersSpareOthers
    <3>2. phase'[p] = phase[p] /\ OwnerFits(p, locks, phase[p], p \in robbed)
      BY <1>1, <1>2, <2>2 DEF IInv, OwnersFit, Finish, Escalate, Grant, Deny
    <3> QED
      BY <2>1, <3>1, <3>2 DEF OwnerFits
  <2>3. OwnerFits(o, locks', phase'[o], o \in robbed')
    <3>1. CASE Finish(o)
      <4>1. HeldBy(locks', o) = {}
        BY <1>1, <3>1 DEF Finish, OwnerFits, Release, HeldBy, Free
      <4>2. phase'[o] \in {"idle", "over"}
        BY <1>1, <3>1 DEF Finish
      <4> QED
        BY <4>1, <4>2 DEF OwnerFits
    <3>2. CASE Escalate(o)
      <4>1. /\ HeldBy(locks', o) = HeldBy(locks, o) /\ phase'[o] = "parked" /\ phase[o] = "working"
            /\ \A r \in HeldBy(locks, o) : locks'[r].parked
        BY <1>1, <3>2 DEF Escalate, Park, HeldBy
      <4> QED
        BY <1>1, <2>1, <4>1 DEF OwnerFits
    <3>3. CASE Grant(o)
      <4>1. /\ HeldBy(locks', o) = HeldBy(locks, o) /\ phase'[o] = "resumed" /\ phase[o] = "parked"
            /\ \A r \in HeldBy(locks, o) : ~locks'[r].parked
        BY <1>1, <3>3 DEF Grant, Unpark, HeldBy
      <4> QED
        BY <1>1, <2>1, <4>1 DEF OwnerFits
    <3>4. CASE Deny(o)
      <4>1. HeldBy(locks', o) = {} /\ phase'[o] = "over"
        BY <1>1, <3>4 DEF Deny, ForceRelease, HeldBy, Free
      <4> QED
        BY <4>1 DEF OwnerFits
    <3> QED
      BY <1>2, <3>1, <3>2, <3>3, <3>4
  <2> QED
    BY <2>2, <2>3 DEF OwnersFit, OwnerFits, HeldBy
<1>3. CASE Abandon(o)
  <2>1. /\ locks' = locks /\ robbed' = robbed /\ phase'[o] = "over"
        /\ \A p \in Owners \ {o} : phase'[p] = phase[p]
    BY <1>1, <1>3 DEF Abandon
  <2> QED
    BY <2>1 DEF IInv, OwnersFit, OwnerFits, HeldBy
<1> QED
  BY <1>2, <1>3, TryAcquireFits

LEMMA IInvHolds == LocksSpec => []IInv
<1>1. LocksInit => OwnersFit
  BY LockAssumption DEF LocksInit, OwnersFit, OwnerFits, HeldBy, Free
<1>2. TypeOK /\ WriteExclusion /\ OwnersFit /\ [LocksNext]_lockVars => OwnersFit'
  <2> SUFFICES ASSUME IInv, [LocksNext]_lockVars PROVE OwnersFit'
    BY DEF IInv
  <2>1. CASE UNCHANGED lockVars
    BY <2>1 DEF IInv, OwnersFit, OwnerFits, HeldBy, lockVars
  <2>2. CASE LocksNext
    BY <2>2, IInvStep DEF LocksNext
  <2> QED
    BY <2>1, <2>2
<1>3. IInv <=> TypeOK /\ WriteExclusion /\ OwnersFit
  BY DEF IInv
<1> QED
  BY <1>1, <1>2, <1>3, TypeCorrect, Exclusion, PTL DEF LocksSpec

(* Whatever ids the plans of several runs share: an owner has its whole write *)
(* set from a granted acquire until it gives it back, parked or not, and a *)
(* refused owner has nothing, as long as no namesake took one of its rows *)
(* (locks.ts, acquire: "partial holds are exactly what re-introduces *)
(* hold-and-wait"; findConflict compares node ids only). *)
THEOREM WholeSet == LocksSpec => [](WholeSetOrNothing /\ ParkedRowsMatch)
<1>1. IInv => WholeSetOrNothing /\ ParkedRowsMatch
  BY FittingIsWhole DEF IInv
<1> QED
  BY <1>1, IInvHolds, PTL

(* No step of any owner takes rows from one that stays parked (F5, "We retain *)
(* the locks"), except an acquire of a node that bears the same id in another run. *)
THEOREM Retention == LocksSpec => ParkedRetained
<1> DEFINE Keeps == \A o \in Owners :
              phase[o] = "parked" /\ phase'[o] = "parked" =>
                \/ HeldBy(locks', o) = HeldBy(locks, o)
                \/ \E p \in Namesakes(o) : locks' = Acquire(locks, p)
<1>1. TypeOK /\ [LocksNext]_lockVars => [Keeps]_lockVars
  <2> SUFFICES ASSUME TypeOK, LocksNext, NEW o \in Owners,
                      phase[o] = "parked", phase'[o] = "parked"
               PROVE  \/ HeldBy(locks', o) = HeldBy(locks, o)
                      \/ \E p \in Namesakes(o) : locks' = Acquire(locks, p)
    OBVIOUS
  <2>1. PICK p \in Owners :
          TryAcquire(p) \/ Finish(p) \/ Escalate(p) \/ Grant(p) \/ Deny(p) \/ Abandon(p)
    BY DEF LocksNext
  <2>2. locks \in Tables /\ phase \in [Owners -> Phases]
    BY DEF TypeOK
  <2>3. p # o
    BY <2>1, <2>2 DEF TryAcquire, Finish, Escalate, Grant, Deny, Abandon
  <2>4. CASE TryAcquire(p)
    <3>1. locks' = Acquire(locks, p)
      BY <2>4 DEF TryAcquire
    <3>2. CASE NodeOf[p] = NodeOf[o]
      BY <2>3, <3>1, <3>2 DEF Namesakes
    <3>3. CASE NodeOf[p] # NodeOf[o]
      BY <2>2, <3>1, <3>3, AcquireSparesOthers
    <3> QED
      BY <3>2, <3>3
  <2>5. CASE Finish(p) \/ Escalate(p) \/ Grant(p) \/ Deny(p)
    <3>1. locks' \in {Release(locks, p), Park(locks, p), Unpark(locks, p), ForceRelease(locks, p)}
      BY <2>5 DEF Finish, Escalate, Grant, Deny
    <3> QED
      BY <2>2, <2>3, <3>1, OthersSpareOthers
  <2>6. CASE Abandon(p)
    BY <2>6 DEF Abandon, HeldBy
  <2> QED
    BY <2>1, <2>4, <2>5, <2>6
<1>2. ParkedRetained <=> [][Keeps]_lockVars
  BY DEF ParkedRetained
<1> QED
  BY <1>1, <1>2, TypeCorrect, PTL DEF LocksSpec

(* The table implements whole-set ownership: every step takes a write set that *)
(* meets no other name's, drops a whole set, or changes nobody's rows, and those *)
(* who lose a row to a namesake count as owning nothing.                         *)
THEOREM Refinement == LocksSpec => ImplementsOwnership
<1> DEFINE own == [o \in Owners |-> IF o \in robbed THEN {} ELSE HeldBy(locks, o)]
<1>1. LocksInit => Ownership!Init
  BY LockAssumption DEF LocksInit, Ownership!Init, HeldBy, Free
<1>2. IInv /\ IInv' /\ [LocksNext]_lockVars => [Ownership!Next]_own
  <2> SUFFICES ASSUME IInv, IInv', [LocksNext]_lockVars PROVE [Ownership!Next]_own
    OBVIOUS
  <2>1. CASE UNCHANGED lockVars
    BY <2>1 DEF lockVars, HeldBy
  <2>2. ASSUME NEW o \in Owners, TryAcquire(o)
        PROVE  Ownership!Take(o) \/ Ownership!Drop(o)
    <3> DEFINE losers == {p \in Owners \ {o} : HeldBy(locks', p) # HeldBy(locks, p)}
    <3>1. /\ locks \in Tables /\ locks' = Acquire(locks, o)
          /\ robbed' = (IF CanAcquire(locks, o) THEN robbed \ {o} ELSE robbed) \cup losers
      BY <2>2 DEF IInv, TypeOK, TryAcquire
    <3>2. losers \in Ownership!Losers(o)
      <4>1. \A p \in losers : NodeOf[p] = NodeOf[o]
        BY <3>1, AcquireSparesOthers
      <4> QED
        BY <4>1 DEF Ownership!Losers
    <3>3. \A p \in Owners \ {o} : own'[p] = IF p \in losers THEN {} ELSE own[p]
      BY <3>1
    <3>4. /\ OwnerFits(o, locks, phase[o], o \in robbed) /\ phase[o] \in {"idle", "resumed"}
          /\ Excludes(locks)
      BY <2>2 DEF IInv, OwnersFit, WriteExclusion, TryAcquire
    <3>5. /\ CanAcquire(locks, o) => HeldBy(locks', o) = Writes[o]
          /\ ~CanAcquire(locks, o) /\ o \notin robbed => HeldBy(locks', o) = {}
      BY <3>1, <3>4, AcquireIsAllOrNothing DEF OwnerFits
    <3>6. own'[o] = IF CanAcquire(locks, o) THEN Writes[o] ELSE {}
      <4>1. own'[o] = IF o \in robbed' THEN {} ELSE HeldBy(locks', o)
        OBVIOUS
      <4>2. o \in robbed' <=> ~CanAcquire(locks, o) /\ o \in robbed
        BY <3>1
      <4> HIDE DEF own, losers
      <4> QED
        BY <3>5, <4>1, <4>2
    <3>7. PICK gone \in Ownership!Losers(o) :
            /\ CanAcquire(locks, o) => Ownership!Claim(o, Writes[o], gone)
            /\ ~CanAcquire(locks, o) => Ownership!Claim(o, {}, gone)
      BY <3>2, <3>3, <3>6 DEF Ownership!Claim
    <3>8. CASE ~CanAcquire(locks, o)
      BY <3>7, <3>8 DEF Ownership!Drop
    <3>9. CASE CanAcquire(locks, o)
      <4>1. ASSUME NEW p \in Owners, NodeOf[p] # NodeOf[o], NEW r \in own[p], NEW w \in Writes[o]
            PROVE  <<r, w>> \notin Overlap
        <5>1. w \notin Contended(locks, o, Writes[o] \cup Reads[o]) /\ w \in Resources
          BY <3>9, <4>1, LockAssumption DEF CanAcquire
        <5>2. FindConflict(locks, w, o) = {}
          BY <5>1 DEF Contended
        <5>3. r \in HeldBy(locks, p)
          BY <4>1
        <5> QED
          BY <4>1, <5>2, <5>3, LockAssumption DEF FindConflict, HeldBy
      <4>2. \A p \in Owners : NodeOf[p] # NodeOf[o] =>
              \A r \in own[p], w \in Writes[o] : <<r, w>> \notin Overlap
        BY <4>1
      <4> QED
        BY <3>7, <3>9, <4>2 DEF Ownership!Take
    <3> QED
      BY <3>8, <3>9
  <2>3. ASSUME NEW o \in Owners, Finish(o) \/ Escalate(o) \/ Grant(o) \/ Deny(o) \/ Abandon(o)
        PROVE  own' = own \/ Ownership!Drop(o)
    <3>1. /\ locks \in Tables /\ robbed' = robbed /\ OwnerFits(o, locks, phase[o], o \in robbed)
          /\ phase \in [Owners -> Phases]
      BY <2>3 DEF IInv, TypeOK, OwnersFit, Finish, Escalate, Grant, Deny, Abandon
    <3>2. \A p \in Owners \ {o} : HeldBy(locks', p) = HeldBy(locks, p)
      BY <2>3, <3>1, OthersSpareOthers DEF Finish, Escalate, Grant, Deny, Abandon
    <3>3. CASE Finish(o) \/ Deny(o)
      <4>1. HeldBy(locks', o) = {}
        BY <3>1, <3>3, LockAssumption
           DEF OwnerFits, Finish, Deny, Release, ForceRelease, HeldBy, Free
      <4>2. {} \in Ownership!Losers(o) /\ Ownership!Claim(o, {}, {})
        BY <3>1, <3>2, <4>1 DEF Ownership!Losers, Ownership!Claim
      <4> QED
        BY <4>2 DEF Ownership!Drop
    <3>4. CASE Escalate(o) \/ Grant(o) \/ Abandon(o)
      <4>1. HeldBy(locks', o) = HeldBy(locks, o)
        BY <3>1, <3>4 DEF Escalate, Grant, Abandon, Park, Unpark, HeldBy
      <4> QED
        BY <3>1, <3>2, <4>1
    <3> QED
      BY <2>3, <3>3, <3>4
  <2> QED
    BY <2>1, <2>2, <2>3 DEF LocksNext, Ownership!Next
<1>3. ImplementsOwnership <=> Ownership!Spec
  BY DEF ImplementsOwnership
<1> QED
  BY <1>1, <1>2, <1>3, IInvHolds, PTL DEF LocksSpec, Ownership!Spec
=============================================================================
