----------------------------- MODULE ModelRouter -----------------------------
(***************************************************************************)
(* providers/src/router.ts: the catalogue with its cache, the capabilities *)
(* measured by a probe folded over the advertised ones, the breakers, and  *)
(* which models may serve a requirement.  A router is a record; time is    *)
(* counted in steps of the cache's life.  Scores are numbers nobody else   *)
(* sees: any order of the eligible models may be the ranking.              *)
(***************************************************************************)
EXTENDS Integers, Sequences, FiniteSets, FiniteSetsExt

CONSTANTS
  Models,       \* every model some provider lists
  ProviderOf,   \* [Models -> the provider that lists it]
  Advertised,   \* [Models -> [tools, structured, window, tier]]: as the provider claims
  Threshold,    \* breakerThreshold: failures in a row that open a breaker
  Cooldown,     \* breakerCooldownMs
  CacheLife,    \* cacheMs
  MaxAttempts,  \* candidates a call walks through
  Depths,       \* contextProbes: needle depths in tokens
  Trials        \* probe trials per capability

ASSUME RouterAssumption ==
  /\ Threshold \in Nat \ {0} /\ Cooldown \in Nat /\ CacheLife \in Nat
  /\ MaxAttempts \in Nat \ {0} /\ Trials \in Nat \ {0}

NoCard == [known |-> FALSE]
NoCache == [at |-> 0, caps |-> <<>>, kept |-> FALSE]
Closed == [failures |-> 0, openUntil |-> 0]

NewRouter ==
  [breakers |-> [m \in Models |-> Closed],
   cards |-> [m \in Models |-> NoCard],
   cache |-> NoCache,
   pinned |-> {}]

\* Mutant of Measured: the measurement only ever raises a window.
MeasuredUpwards(r, m) ==
  LET card == r.cards[m]
  IN IF ~card.known THEN Advertised[m]
     ELSE [Advertised[m] EXCEPT !.tools = card.tools,
             !.window = IF card.window > @ THEN card.window ELSE @]

\* A measured window counts even when it is smaller; 0 is "not measured".
Measured(r, m) ==
  LET card == r.cards[m]
  IN IF ~card.known THEN Advertised[m]
     ELSE [Advertised[m] EXCEPT
             !.tools = card.tools,
             !.structured = IF card.structured = "none" THEN @ ELSE card.structured,
             !.window = IF card.window = 0 THEN @ ELSE card.window]

IsFresh(r, now) == r.cache.kept /\ now - r.cache.at < CacheLife

\* The listing of the providers that answer, as measured now.
Listing(r, up) == [m \in {k \in Models : ProviderOf[k] \in up} |-> Measured(r, m)]

Listed(r, up, now) == [r EXCEPT !.cache = [at |-> now, caps |-> Listing(r, up), kept |-> TRUE]]

\* Mutant of ApplyScorecards: the cache lives on.
ApplyKeepingCache(r, cards) == [r EXCEPT !.cards = cards]

ApplyScorecards(r, cards) == [r EXCEPT !.cards = cards, !.cache = NoCache]

IsOpen(r, m, now) == r.breakers[m].openUntil > now

RecordFailure(r, m, now) ==
  LET failures == r.breakers[m].failures + 1
  IN [r EXCEPT !.breakers[m] =
        IF failures >= Threshold THEN [failures |-> 0, openUntil |-> now + Cooldown]
        ELSE [@ EXCEPT !.failures = failures]]

RecordSuccess(r, m) == [r EXCEPT !.breakers[m] = Closed]

\* Mutant of Serves: the breaker is not asked.
ServesRegardless(r, caps, req, m, now) ==
  /\ r.pinned = {} \/ m \in r.pinned
  /\ m \notin req.exclude
  /\ req.privacy = "local-only" => caps.tier = "local"
  /\ req.needsTools => caps.tools # "none"
  /\ req.needsStructured => caps.structured # "none"
  /\ caps.window >= req.minContext

\* rejectReason: the hard filter, by the capabilities the catalogue gave.
Serves(r, caps, req, m, now) ==
  /\ r.pinned = {} \/ m \in r.pinned
  /\ ~IsOpen(r, m, now)
  /\ m \notin req.exclude
  /\ req.privacy = "local-only" => caps.tier = "local"
  /\ req.needsTools => caps.tools # "none"
  /\ req.needsStructured => caps.structured # "none"
  /\ caps.window >= req.minContext

Eligible(r, catalogue, req, now) ==
  {m \in DOMAIN catalogue : Serves(r, catalogue[m], req, m, now)}

\* Every way to rank the eligible, cut to the candidates a call tries.
Rankings(eligible) ==
  LET n == IF Cardinality(eligible) < MaxAttempts THEN Cardinality(eligible) ELSE MaxAttempts
  IN {s \in [1..n -> eligible] : \A i, j \in 1..n : s[i] = s[j] => i = j}

-----------------------------------------------------------------------------
(* providers/src/probe.ts: a card from what a model did.  "able" is what   *)
(* the model is really like: the share of tool calls and of structured     *)
(* replies it gets right, out of the trials, and how deep it can recall.   *)

ToolGrade(passed, of) ==
  IF of = 0 \/ 10 * passed < 3 * of THEN "none"
  ELSE IF 10 * passed < 9 * of THEN "shim" ELSE "native"

\* The deepest needle found; each depth is cut to the window it is told of.
RealContext(window, recall) ==
  LET target(i) == Min({Depths[i], 40000, window - 2048})
      tried(i) == /\ target(i) >= 512
                  /\ i > 1 => target(i) > target(i - 1)
      deepest[i \in 0..Len(Depths)] ==
        IF i = 0 THEN 0
        ELSE IF \A j \in 1..i : tried(j) /\ target(j) <= recall THEN target(i)
        ELSE deepest[i - 1]
  IN deepest[Len(Depths)]

Probed(caps, able) ==
  [known |-> TRUE,
   tools |-> ToolGrade(IF caps.tools = "none" THEN 0 ELSE able.tools,
                       IF caps.tools = "none" THEN 0 ELSE Trials),
   structured |-> IF caps.structured # "none" /\ able.structured > 0
                  THEN caps.structured ELSE "none",
   window |-> RealContext(caps.window, able.recall)]
=============================================================================
