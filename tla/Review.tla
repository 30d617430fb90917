------------------------------- MODULE Review -------------------------------
(***************************************************************************)
(* cli/src/reviewer.ts and core/src/review/loop.ts: what the critic says   *)
(* of a node's work, and what a critique does to the node's review loop.   *)
(* A text is a sequence of words, a word a sequence of letters; case and   *)
(* punctuation are gone already.                                           *)
(***************************************************************************)
EXTENDS Naturals, SequencesExt, BagsExt

Inflections == << <<"i", "n", "g">>, <<"e", "d">>, <<"e", "s">>, <<"s">> >>

\* stem: the first suffix that leaves more than two letters is cut.
Stem(word) ==
  LET fits == {i \in DOMAIN Inflections : /\ Len(word) > Len(Inflections[i]) + 2
                                       /\ IsSuffix(Inflections[i], word)}
  IN IF fits = {} THEN word
     ELSE SubSeq(word, 1, Len(word) - Len(Inflections[Min(fits)]))

\* The stems, sorted and joined, are their bag; the digest is taken to tell
\* any two bags apart.
SemanticHash(text, stopwords) ==
  LET counts(word) == Len(word) > 2 /\ word \notin stopwords
      kept == SelectSeq(text, counts)
  IN ToBag([i \in DOMAIN kept |-> Stem(kept[i])])

-----------------------------------------------------------------------------
\* A ReviewLoop; a critique is [hash, tokens].
NewLoop == [rounds |-> 0, seen |-> {}, critiques |-> <<>>]

Tokens(critiques) == FoldLeft(LAMBDA sum, c : sum + c.tokens, 0, critiques)

\* The oldest go until the rest fits; the newest stays whatever its size.
EvictToBudget(critiques, budget) ==
  LET last == Len(critiques)
      fits == {k \in 1..last : k = last \/ Tokens(SubSeq(critiques, k, last)) <= budget}
  IN SubSeq(critiques, Min(fits), last)

\* Past the cap nothing is looked at; a critique once seen is never forgotten,
\* though it may have been evicted.
Escalates(loop, critique, maxRounds) ==
  loop.rounds + 1 > maxRounds \/ critique.hash \in loop.seen

Reject(loop, critique, maxRounds, budget) ==
  IF Escalates(loop, critique, maxRounds) THEN [loop EXCEPT !.rounds = @ + 1]
  ELSE [ rounds |-> loop.rounds + 1,
         seen |-> loop.seen \cup {critique.hash},
         critiques |-> EvictToBudget(
           Append(loop.critiques, [round |-> loop.rounds + 1, hash |-> critique.hash,
                                   tokens |-> critique.tokens]), budget) ]

-----------------------------------------------------------------------------
Accept == "accept"
Reasonless == "reviewer rejected without giving a reason"
NoModel == "no independent model"
NoAnswer == "the critic's request failed"

\* makeReviewer: the critic is asked only about files, and only when a model
\* that is not the coder's can be had.  No answer is no objection.
Opinion(writes, model, answer) ==
  IF \/ writes = {} \/ model = NoModel \/ answer = NoAnswer
     \/ answer.contractMet \/ answer.severity = "style"
  THEN Accept
  ELSE IF answer.critique = "" THEN Reasonless ELSE answer.critique

\* What the critic itself logs on the way.
OpinionEvents(writes, model, answer) ==
  IF writes = {} THEN <<>>
  ELSE <<"review.requested">> \o
       IF model = NoModel THEN <<>>
       ELSE IF answer = NoAnswer THEN <<"review.requested">>
       ELSE IF Opinion(writes, model, answer) = Accept THEN <<"review.approved">> ELSE <<>>
=============================================================================
