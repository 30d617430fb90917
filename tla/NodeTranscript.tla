--------------------------- MODULE NodeTranscript ---------------------------
(***************************************************************************)
(* What the model of a node is told (cli/src/executor.ts): the list of     *)
(* messages that every step sends again, the notices pushed onto it, and   *)
(* its compaction (core/src/run/compaction.ts).  Tool results are fenced   *)
(* (core/src/guard/output-guard.ts); of a message only its role, the calls *)
(* it makes and whether its body is long or elided are kept.  A long       *)
(* message weighs one.                                                     *)
(***************************************************************************)
EXTENDS NodeExecutor, SequencesExt

CONSTANTS
  CompactAt,   \* weight a list may have before old results are elided
  KeepRecent   \* trailing messages that compaction spares (8 in the code)

ASSUME TranscriptAssumption == CompactAt \in Nat /\ KeepRecent \in Nat

VARIABLES
  talk,   \* the messages of the phase each node is in
  told    \* notices each node was given: writeOnly, lowSteps

talkVars == <<talk, told>>
allVars == <<vars, talkVars>>

Message(role) == [role |-> role, calls |-> 0, body |-> "short"]
Calling(k) == [Message("assistant") EXCEPT !.calls = k]
Notice == Message("tool")
\* What a tool returns, fenced, is short or long; an error, a refusal and the
\* notice after a row of empty results are short.
Results == {Notice, [Message("tool") EXCEPT !.body = "long"]}

\* The system prompt and the contract, or the brief and the files to change.
Opening == <<Message("system"), Message("user")>>

TalkInit ==
  /\ Init
  /\ talk = [n \in Nodes |-> <<>>]
  /\ told = [n \in Nodes |-> {}]

-----------------------------------------------------------------------------
(* compactMessages. *)

Weight(messages) == Cardinality({i \in DOMAIN messages : messages[i].body = "long"})

\* The body goes, the envelope stays.
Elided(m) == [m EXCEPT !.body = "elided"]

Eligible(messages, i) ==
  /\ 2 < i /\ i <= Len(messages) - KeepRecent
  /\ messages[i].role = "tool" /\ messages[i].body = "long"

\* Mutant of Compacted: old results are dropped, envelope and all.
CompactedAway(messages) ==
  IF Weight(messages) <= CompactAt THEN messages
  ELSE FlattenSeq([i \in DOMAIN messages |->
         IF Eligible(messages, i) THEN <<>> ELSE <<messages[i]>>])

\* Mutant of Compacted: any long result may go.
CompactedRecently(messages) ==
  IF Weight(messages) <= CompactAt THEN messages
  ELSE [i \in DOMAIN messages |->
         IF messages[i].body = "long" /\ i > 2 THEN Elided(messages[i]) ELSE messages[i]]

Compacted(messages) ==
  IF Weight(messages) <= CompactAt THEN messages
  ELSE [i \in DOMAIN messages |->
         IF Eligible(messages, i) THEN Elided(messages[i]) ELSE messages[i]]

-----------------------------------------------------------------------------
(* The steps of a call and the messages they push. *)

\* The list goes with the loop.
Hears(n, messages) ==
  talk' = [talk EXCEPT ![n] = IF job'[n].at \in {"gates", "out"} THEN <<>> ELSE @ \o messages]

\* Withdrawing the read tools is told once, in either phase.
ToldToWrite(n) ==
  /\ job'[n].only = "write" \/ (job'[n].only = "all" /\ WriteOnlyNow(n)')
  /\ "writeOnly" \notin told[n]

\* StepBudget.shouldWarn, after the step is used up.
ToldOfSteps(n) == Remaining(n)' <= Reserve(n) /\ "lowSteps" \notin told[n]

StepTold(n) ==
  /\ Step(n)
  /\ IF At(n, "out")'
     THEN Hears(n, <<>>) /\ UNCHANGED told
     ELSE LET urge == IF ToldToWrite(n) THEN <<Message("user")>> ELSE <<>>
              warn == IF ToldOfSteps(n) THEN <<Message("user")>> ELSE <<>>
          IN /\ talk' = [talk EXCEPT ![n] = Compacted(@ \o urge) \o warn]
             /\ told' = [told EXCEPT ![n] = @ \cup (IF urge # <<>> THEN {"writeOnly"} ELSE {})
                                              \cup (IF warn # <<>> THEN {"lowSteps"} ELSE {})]

\* The first phase starts from the contract.
RoutedTold(n) ==
  /\ Routed(n)
  /\ talk' = [talk EXCEPT ![n] = Opening]
  /\ told' = [told EXCEPT ![n] = {}]

\* The second starts from the brief, on a fresh list.
BriefTold(n, c) ==
  /\ BriefCollected(n, c)
  /\ talk' = [talk EXCEPT ![n] = IF At(n, "out")' THEN <<>> ELSE Opening]
  /\ UNCHANGED told

CallsTold(n, c, k) == ReplyCalls(n, c) /\ Hears(n, <<Calling(k)>>) /\ UNCHANGED told

\* A reply cut off is followed by a notice; its text is kept, if it has any.
TruncatedTold(n, c) ==
  /\ ReplyTruncated(n, c)
  /\ \E text \in {<<>>, <<Message("assistant")>>} : Hears(n, text \o <<Message("user")>>)
  /\ UNCHANGED told

LastReply(messages) == SelectLastInSeq(messages, LAMBDA m : m.role = "assistant")

\* The calls of the reply that is worked on.
Asked(n) == talk[n][LastReply(talk[n])].calls

\* Each call gets its answer before the next one starts: a refusal, the result
\* of a read, what a write or a command said, or an error.
CallTold(n) ==
  /\ At(n, "calls") /\ job[n].calls < Asked(n)
  /\ \/ CallComesToNothing(n) /\ Hears(n, <<Notice>>)
     \/ \E f \in Files :
          ReadAnswers(n, f) /\ \E m \in Results : Hears(n, <<m>>)
     \/ \E f \in Files : ReadRuns(n, f) /\ UNCHANGED talk
     \/ \E f \in Files : WriteRuns(n, f) /\ UNCHANGED talk
     \/ \E f \in Files : WriteStrays(n, f) /\ Hears(n, <<>>)
     \/ CommandRuns(n) /\ UNCHANGED talk
  /\ UNCHANGED told

ResultTold(n) ==
  /\ \/ /\ Resume(n)
        /\ \E m \in Results : Hears(n, <<m>>)
     \/ CommandExits(n) /\ \E m \in Results : Hears(n, <<m>>)
  /\ UNCHANGED told

ReplyTold(n) ==
  At(n, "calls") /\ job[n].calls = Asked(n) /\ ReplyDone(n) /\ UNCHANGED talkVars

\* The rest of a call says nothing to its model.
Silent(n) ==
  /\ \/ SurveyArrives(n) \/ RoutingFails(n) \/ StepsRunOut(n) \/ StepThrows(n)
     \/ \E c \in Costs : ReplyFinishes(n, c)
     \/ ReplyFails(n) \/ BriefFails(n)
  /\ Hears(n, <<>>) /\ UNCHANGED told

\* What a call does up to its gates.
Progress(n) ==
  \/ RoutedTold(n) \/ StepTold(n) \/ CallTold(n) \/ ResultTold(n) \/ ReplyTold(n)
  \/ \E c \in Costs : BriefTold(n, c) \/ TruncatedTold(n, c)
                      \/ \E k \in 1 .. MaxCalls : CallsTold(n, c, k)
  \/ Silent(n)

-----------------------------------------------------------------------------
\* In every request the calls of an assistant message are answered by as many
\* results, at once and in order, behind the system prompt and the contract
\* (compaction.ts: "providers reject a conversation where a tool result does not
\* answer an assistant tool_calls entry").
RequestsBind ==
  \A n \in Nodes : At(n, "chat") =>
    LET list == talk[n]
        Answered(i) ==
          LET k == list[i].calls IN
            /\ i + k <= Len(list)
            /\ \A j \in i + 1 .. i + k : list[j].role = "tool"
            /\ i + k < Len(list) => list[i + k + 1].role # "tool"
    IN /\ Len(list) >= 2 /\ SubSeq(list, 1, 2) = Opening
       /\ \A i \in DOMAIN list : list[i].role = "assistant" => Answered(i)

\* What the last reply asked to see is whole when it is sent, as long as the
\* messages that follow the reply are no more than compaction spares: of a reply
\* with more calls the model never sees the first results (compaction.ts: "Only
\* *old* tool results are touched").
FreshResultsAreWhole ==
  \A n \in Nodes : At(n, "chat") =>
    LET list == talk[n]
        last == LastReply(list)
    IN last > 0 /\ Len(list) - last <= KeepRecent =>
         \A j \in last + 1 .. Len(list) : list[j].body # "elided"
=============================================================================
