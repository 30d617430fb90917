-------------------------- MODULE MCRunSupervisor --------------------------
(* Small plans for the run supervisor. *)
EXTENDS RunSupervisor, Review

MCResources == {"api", "doc", "lib"}
MCOverlap == {<<r, r>> : r \in MCResources}
MCRank == [r \in MCResources |-> CASE r = "api" -> 1 [] r = "doc" -> 2 [] r = "lib" -> 3]
Three == {"a", "b", "c"}
NoRows == [r \in MCResources |-> Free]
Identity(S) == [n \in S |-> n]
ThreeNames == Identity(Three)
\* The plan lists c before b, so that c may run between two attempts of b.
ThreePosition == [n \in Three |-> CASE n = "a" -> 1 [] n = "c" -> 2 [] n = "b" -> 3]

\* a and b may run side by side: b writes what a reads.  c follows a, reads its
\* output and contends with b.
ChainWrites == [n \in Three |-> CASE n = "a" -> {"lib"} [] n = "b" -> {"api"}
                                  [] n = "c" -> {"api", "doc"}]
ChainReads == [n \in Three |-> CASE n = "a" -> {"api"} [] n = "b" -> {} [] n = "c" -> {"lib"}]
ChainDeps == [n \in Three |-> IF n = "c" THEN {"a"} ELSE {}]

\* Two nodes that feed on each other's output; c's place stays empty.
Two == {"a", "b"}
TwoNames == Identity(Two)
TwoPosition == [n \in Two |-> IF n = "a" THEN 1 ELSE 2]
PairWrites == [n \in Two |-> IF n = "a" THEN {"lib"} ELSE {"api"}]
PairReads == [n \in Two |-> IF n = "a" THEN {"api"} ELSE {"lib"}]
PairDeps == [n \in Two |-> {}]

\* b follows a and writes over a's output; a reads what c writes.  While b waits
\* for a human, a rollback of c sends a back to the queue.
RetainedWrites == [n \in Three |-> CASE n = "a" -> {"lib"} [] n = "b" -> {"lib"}
                                     [] n = "c" -> {"api"}]
RetainedReads == [n \in Three |-> IF n = "a" THEN {"api"} ELSE {}]
RetainedDeps == [n \in Three |-> IF n = "b" THEN {"a"} ELSE {}]

\* A cancelled run left the row of its node old behind.
WithOld == Two \cup {"old"}
WithOldNames == Identity(WithOld)
WithOldWrites == [n \in WithOld |-> IF n = "old" THEN {"api"} ELSE PairWrites[n]]
WithOldReads == [n \in WithOld |-> IF n = "old" THEN {} ELSE PairReads[n]]
OldRow == [r \in MCResources |-> IF r = "api" THEN [owner |-> "old", parked |-> FALSE] ELSE Free]

\* Word order, filler and inflection do not make a critique a new one.
Says == [leak |-> <<"l", "e", "a", "k">>, leaks |-> <<"l", "e", "a", "k", "s">>,
         leaking |-> <<"l", "e", "a", "k", "i", "n", "g">>, it |-> <<"i", "t">>,
         will |-> <<"w", "i", "l", "l">>, mem |-> <<"m", "e", "m">>]
Hashed(words) == SemanticHash([i \in DOMAIN words |-> Says[words[i]]], {Says.will})
ASSUME RewordingIsNoProgress ==
  /\ Hashed(<<"it", "leaks", "mem">>) = Hashed(<<"mem", "will", "leaking">>)
  /\ Hashed(<<"leak">>) # Hashed(<<"leak", "leak">>)

\* Rejected again and again, a node is sent back at most maxRounds times and on
\* no critique twice; what it is told is within the budget unless it is one
\* critique alone, and is all it was ever sent back with if that fits.
Objections == [hash : {1, 2, 3}, tokens : {1, 3}]
Rejections(critiques, n) ==
  FoldLeft(LAMBDA l, c : Reject(l, c, n, 4), NewLoop, critiques)
ASSUME ReviewIsBounded ==
  \A n \in 0..2 : \A critiques \in SeqOf(Objections, 3) :
    LET l == Rejections(critiques, n)
        told == l.critiques
        all == SelectSeq(critiques, LAMBDA c : c.hash \in l.seen)
    IN /\ Cardinality(l.seen) <= n /\ l.rounds = Len(critiques)
       /\ Tokens(told) <= 4 \/ Len(told) = 1
       /\ told = <<>> <=> l.seen = {}
       /\ Tokens(all) <= 4 => {told[i].hash : i \in DOMAIN told} = l.seen
       /\ \A i, j \in DOMAIN told : i < j =>
            told[i].round < told[j].round /\ told[i].hash # told[j].hash
=============================================================================
