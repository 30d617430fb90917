------------------------ MODULE NodeExecutor_proofs ------------------------
(***************************************************************************)
(* Theorems about NodeExecutor for any nodes, names, overlap and limits;   *)
(* they hold of NodeGates too, whose every step is one of its steps.  Then *)
(* what the gates say of a node and what its model is told, of GateSpec.   *)
(***************************************************************************)
EXTENDS NodeGates, TLAPS, FiniteSetTheorems, SequenceTheorems

LocalsOK == job \in [Nodes -> Job]

QueueOK ==
  /\ settled \in Seq(Nodes)
  /\ {settled[i] : i \in DOMAIN settled} = {n \in Nodes : At(n, "settled")}
  /\ \A i, j \in DOMAIN settled : settled[i] = settled[j] => i = j

RestOK ==
  /\ disk \in [Files -> Contents] /\ announced \in [Files -> Contents]
  /\ DOMAIN epochs \subseteq Resources /\ \A r \in DOMAIN epochs : epochs[r] \in Nat
  /\ \A k \in DOMAIN cache : cache[k] \in Contents
  /\ meter \in Nat /\ carried \in [Nodes -> Nat] /\ own \in [Nodes -> Nat]
  /\ survey \in {"none", "running", "taken"} /\ cancelled \in BOOLEAN /\ twoPhase \in BOOLEAN
  /\ outcome \in [Nodes -> Outcomes]
  /\ attempts \in [Nodes -> 0 .. MaxAttempts]

\* A tool or command under way has not been counted yet.
CallsOK == \A n \in Nodes : job[n].at \in {"settled", "command"} => job[n].calls < MaxCalls

\* A call counts the meter from a moment in the past.
StartOK == \A n \in Nodes : job[n].start <= meter

\* Type correctness; no node is in the queue twice.
TInv == LocalsOK /\ QueueOK /\ RestOK /\ CallsOK /\ StartOK

-----------------------------------------------------------------------------
\* A fresh or finished call has the shape of one.
LEMMA IdleIsJob ==
  ASSUME NEW w \in SUBSET Files, NEW c \in SUBSET Files
  PROVE  Idle(w, c) \in Job
<1>1. (CHOOSE f \in Files : TRUE) \in Files
  BY NamesAssumption
<1>2. 0 \in Contents /\ 0 \in 0 .. MaxCalls
  BY ExecutorAssumption DEF Contents
<1> QED
  BY <1>1, <1>2 DEF Idle, Job, Places, NoTool

LEMMA CheckpointedIsJob ==
  ASSUME RestOK
  PROVE  Checkpointed \in Job
<1>1. Idle({}, {}) \in Job
  BY IdleIsJob
<1>2. disk \in [Files -> Contents]
  BY DEF RestOK
<1>3. ASSUME NEW j \in Job
      PROVE  [j EXCEPT !.at = "routing", !.base = disk] \in Job
  BY <1>2 DEF Job, Places
<1> QED
  BY <1>1, <1>3 DEF Checkpointed

LEMMA MovedIsJob ==
  ASSUME NEW j \in Job, NEW p \in Places
  PROVE  [j EXCEPT !.at = p] \in Job
BY DEF Job

\* A call whose command has written, and one that enters its tool loop.
LEMMA CommandedIsJob ==
  ASSUME NEW j \in Job, NEW f \in Files
  PROVE  [j EXCEPT !.commanded = @ \cup {f}] \in Job
BY DEF Job

LEMMA RoutedIsJob ==
  ASSUME NEW j \in Job, NEW s \in Nat, NEW c \in Nat, NEW o \in {"all", "read", "write"}
  PROVE  [j EXCEPT !.at = "loop", !.start = s, !.carry = c, !.only = o] \in Job
BY DEF Job, Places

\* A call that is told to write.
LEMMA BriefedIsJob ==
  ASSUME NEW j \in Job
  PROVE  [j EXCEPT !.at = "loop", !.only = "write"] \in Job
BY DEF Job, Places

\* A call whose tool has settled.
LEMMA SettledIsJob ==
  ASSUME NEW j \in Job, NEW t \in {"read", "write"}, NEW f \in Files, NEW v \in Contents,
         NEW s \in SUBSET Files, NEW r \in Nat
  PROVE  /\ [j EXCEPT !.at = "settled", !.seen = s, !.reads = r,
                        !.tool = t, !.file = f, !.got = v] \in Job
         /\ [j EXCEPT !.at = "settled", !.tool = t, !.file = f, !.got = v] \in Job
BY DEF Job, Places

LEMMA CalledIsJob ==
  ASSUME LocalsOK, NEW n \in Nodes, job[n].calls < MaxCalls
  PROVE  Called(n) \in Job
<1>1. (CHOOSE f \in Files : TRUE) \in Files
  BY NamesAssumption
<1>2. 0 \in Contents
  BY ExecutorAssumption DEF Contents
<1>3. job[n] \in Job
  BY DEF LocalsOK
<1>4. job[n].calls + 1 \in 0 .. MaxCalls
  BY <1>3, ExecutorAssumption DEF Job
<1> QED
  BY <1>1, <1>2, <1>3, <1>4 DEF Called, Job, Places, NoTool

-----------------------------------------------------------------------------
\* The locals of a call keep their types.
LEMMA LocalsStep ==
  ASSUME TInv, [Next]_vars
  PROVE  LocalsOK'
<1> USE DEF LocalsOK, TInv
<1>1. ASSUME NEW n \in Nodes, NEW j \in Job, job' = [job EXCEPT ![n] = j]
      PROVE  LocalsOK'
  BY <1>1
<1>2. ASSUME NEW n \in Nodes, NEW how, End(n, how)
      PROVE  LocalsOK'
  <2>1. Idle(job[n].written, job[n].commanded) \in Job
    BY IdleIsJob DEF Job
  <2> QED
    BY <1>2, <2>1 DEF End
<1>3. ASSUME NEW n \in Nodes, NEW p \in Places, Move(n, p)
      PROVE  LocalsOK'
  <2>1. [job[n] EXCEPT !.at = p] \in Job
    BY MovedIsJob
  <2>2. job' = [job EXCEPT ![n] = [job[n] EXCEPT !.at = p]]
    BY <1>3 DEF Move
  <2> QED
    BY <2>1, <2>2, <1>1
<1>4. ASSUME NEW n \in Nodes, LeaveLoop(n)
      PROVE  LocalsOK'
  BY <1>4, <1>2, <1>3 DEF LeaveLoop, Conclude, Places
<1>5. ASSUME NEW n \in Nodes, Start(n)
      PROVE  LocalsOK'
  <2>1. [Idle({}, {}) EXCEPT !.at = "survey"] \in Job
    BY IdleIsJob, MovedIsJob DEF Places
  <2> QED
    BY <1>5, <2>1, CheckpointedIsJob DEF Start
<1>6. CASE SurveyTaken \/ Cancel \/ UNCHANGED vars
  BY <1>6 DEF SurveyTaken, Cancel, vars
<1>7. ASSUME NEW n \in Nodes, NEW f \in Files, CommandWrites(n, f)
      PROVE  LocalsOK'
  <2>1. [job[n] EXCEPT !.commanded = @ \cup {f}] \in Job
    BY CommandedIsJob
  <2>2. job' = [job EXCEPT ![n] = [job[n] EXCEPT !.commanded = @ \cup {f}]]
    BY <1>7 DEF CommandWrites
  <2> QED
    BY <2>1, <2>2, <1>1
<1>8. ASSUME NEW n \in Nodes, Advance(n)
      PROVE  LocalsOK'
  <2>1. CASE SurveyArrives(n)
    BY <2>1, CheckpointedIsJob DEF SurveyArrives
  <2>2. CASE Routed(n)
    <3> DEFINE j == [job[n] EXCEPT !.at = "loop", !.start = meter, !.carry = carried[n],
                       !.only = IF twoPhase /\ Writes[n] # {} THEN "read" ELSE "all"]
    <3>1. meter \in Nat /\ carried[n] \in Nat
      BY DEF RestOK
    <3>2. j \in Job
      <4>1. job[n] \in Job
        OBVIOUS
      <4>2. (IF twoPhase /\ Writes[n] # {} THEN "read" ELSE "all") \in {"all", "read", "write"}
        OBVIOUS
      <4> QED
        BY <3>1, <4>1, <4>2, RoutedIsJob
    <3>3. job' = [job EXCEPT ![n] = j]
      BY <2>2 DEF Routed
    <3> HIDE DEF j
    <3> QED
      BY <3>2, <3>3, <1>1
  <2>3. CASE RoutingFails(n)
    BY <2>3, <1>2 DEF RoutingFails
  <2>4. CASE StepsRunOut(n)
    BY <2>4, <1>4 DEF StepsRunOut
  <2>5. CASE StepThrows(n)
    BY <2>5, <1>2 DEF StepThrows
  <2>6. CASE Step(n)
    <3>1. CASE Spent(n) > MaxNodeTokens
      BY <2>6, <3>1, <1>2 DEF Step
    <3>2. CASE ~(Spent(n) > MaxNodeTokens)
      BY <2>6, <3>2 DEF Step, Job, Places
    <3> QED
      BY <3>1, <3>2
  <2>7. ASSUME NEW c \in Costs, ReplyCalls(n, c)
        PROVE  LocalsOK'
    BY <2>7 DEF ReplyCalls, Job, Places
  <2>8. ASSUME NEW c \in Costs, ReplyTruncated(n, c)
        PROVE  LocalsOK'
    BY <2>8, <1>3 DEF ReplyTruncated, Places
  <2>9. ASSUME NEW c \in Costs, ReplyFinishes(n, c)
        PROVE  LocalsOK'
    BY <2>9, <1>4 DEF ReplyFinishes
  <2>10. ASSUME NEW c \in Costs, BriefCollected(n, c)
         PROVE  LocalsOK'
    <3>1. CASE End(n, "contract")
      BY <3>1, <1>2
    <3>2. CASE job' = [job EXCEPT ![n].at = "loop", ![n].only = "write"]
      <4>1. [job[n] EXCEPT !.at = "loop", !.only = "write"] \in Job
        BY BriefedIsJob
      <4>2. job' = [job EXCEPT ![n] = [job[n] EXCEPT !.at = "loop", !.only = "write"]]
        BY <3>2
      <4> QED
        BY <4>1, <4>2, <1>1
    <3> QED
      BY <2>10, <3>1, <3>2 DEF BriefCollected
  <2>11. CASE ReplyFails(n) \/ BriefFails(n)
    BY <2>11, <1>2 DEF ReplyFails, BriefFails
  <2>12. CASE CallComesToNothing(n)
    BY <2>12, CalledIsJob DEF CallComesToNothing, CanCall
  <2>13. CASE CommandRuns(n)
    BY <2>13, <1>3 DEF CommandRuns, Places
  <2>14. CASE CommandExits(n)
    BY <2>14, CalledIsJob DEF CommandExits, CallsOK, At
  <2>15. CASE ReplyDone(n)
    <3>1. 0 \in 0 .. MaxCalls
      BY ExecutorAssumption
    <3> QED
      BY <2>15, <3>1 DEF ReplyDone, Job, Places
  <2>16. ASSUME NEW f \in Files, ReadAnswers(n, f)
         PROVE  LocalsOK'
    <3>1. Called(n) \in Job
      BY <2>16, CalledIsJob DEF ReadAnswers, CanRead, CanCall
    <3>2. Called(n).seen \cup {f} \in SUBSET Files /\ Called(n).reads + 1 \in Nat
      BY <3>1 DEF Job
    <3>3. [Called(n) EXCEPT !.seen = Called(n).seen \cup {f},
                            !.reads = Called(n).reads + 1] \in Job
      BY <3>1, <3>2 DEF Job
    <3> QED
      BY <2>16, <3>3 DEF ReadAnswers
  <2>17. ASSUME NEW f \in Files, ReadRuns(n, f)
         PROVE  LocalsOK'
    <3>1. disk[f] \in Contents
      BY DEF RestOK
    <3>2. job[n].seen \cup {f} \in SUBSET Files /\ job[n].reads + 1 \in Nat
      BY DEF Job
    <3> DEFINE j == [job[n] EXCEPT !.at = "settled", !.seen = job[n].seen \cup {f},
                       !.reads = job[n].reads + 1, !.tool = "read", !.file = f, !.got = disk[f]]
    <3>3. j \in Job
      BY <3>1, <3>2, SettledIsJob
    <3>4. job' = [job EXCEPT ![n] = j]
      BY <2>17 DEF ReadRuns
    <3> HIDE DEF j
    <3> QED
      BY <3>3, <3>4, <1>1
  <2>18. ASSUME NEW f \in Files, WriteRuns(n, f)
         PROVE  LocalsOK'
    <3>1. disk[f] + 1 \in Contents
      BY <2>18, ExecutorAssumption DEF RestOK, Contents, WriteRuns
    <3> QED
      BY <2>18, <3>1, SettledIsJob DEF WriteRuns
  <2>19. ASSUME NEW f \in Files, WriteStrays(n, f)
         PROVE  LocalsOK'
    BY <2>19, <1>2 DEF WriteStrays
  <2>20. CASE Resume(n)
    <3>1. At(n, "settled")
      BY <2>20 DEF Resume, QueueOK
    <3>2. Called(n) \in Job
      BY <3>1, CalledIsJob DEF CallsOK, At
    <3>3. Called(n).written \cup {job[n].file} \in SUBSET Files
      BY <3>2 DEF Job
    <3>4. [Called(n) EXCEPT !.written = Called(n).written \cup {job[n].file}] \in Job
      BY <3>2, <3>3 DEF Job
    <3> QED
      BY <2>20, <3>2, <3>4 DEF Resume
  <2>21. CASE GatesEnd(n)
    BY <2>21, <1>2 DEF GatesEnd
  <2> QED
    BY <1>8, <2>1, <2>2, <2>3, <2>4, <2>5, <2>6, <2>7, <2>8, <2>9, <2>10, <2>11, <2>12,
       <2>13, <2>14, <2>15, <2>16, <2>17, <2>18, <2>19, <2>20, <2>21
    DEF Advance
<1> QED
  BY <1>5, <1>6, <1>7, <1>8 DEF Next

-----------------------------------------------------------------------------
\* The steps of a call that neither touch the workspace nor the queue.
Ordinary(n) ==
  \/ Start(n) \/ SurveyArrives(n) \/ Routed(n) \/ RoutingFails(n)
  \/ StepsRunOut(n) \/ StepThrows(n) \/ Step(n)
  \/ \E c \in Costs : ReplyCalls(n, c) \/ ReplyTruncated(n, c) \/ ReplyFinishes(n, c)
                      \/ BriefCollected(n, c)
  \/ ReplyFails(n) \/ BriefFails(n)
  \/ CallComesToNothing(n) \/ CommandRuns(n) \/ CommandExits(n) \/ ReplyDone(n)
  \/ \E f \in Files : ReadAnswers(n, f) \/ WriteStrays(n, f)
  \/ GatesEnd(n)

LEMMA StepKinds ==
  ASSUME [Next]_vars
  PROVE  \/ SurveyTaken \/ Cancel \/ UNCHANGED vars
         \/ \E n \in Nodes : \/ Ordinary(n) \/ Resume(n)
                             \/ \E f \in Files : ReadRuns(n, f) \/ WriteRuns(n, f)
                                                 \/ CommandWrites(n, f)
BY DEF Next, Advance, Ordinary

\* What they have in common.
Quiet(n) ==
  /\ job' = [job EXCEPT ![n] = job'[n]]
  /\ UNCHANGED workspace
  /\ job[n].at # "settled" /\ job'[n].at # "settled"
  /\ job'[n].at = "command" => job[n].calls < MaxCalls /\ job'[n].calls = job[n].calls

LEMMA OrdinaryIsQuiet ==
  ASSUME LocalsOK, NEW n \in Nodes, Ordinary(n)
  PROVE  Quiet(n)
<1> USE DEF LocalsOK
<1>1. ASSUME NEW how, End(n, how), UNCHANGED workspace, job[n].at # "settled"
      PROVE  Quiet(n)
  BY <1>1 DEF End, Idle, Quiet
<1>2. ASSUME NEW p, Move(n, p), UNCHANGED workspace, job[n].at # "settled", p # "settled",
             p = "command" => job[n].calls < MaxCalls
      PROVE  Quiet(n)
  BY <1>2 DEF Move, Job, Quiet
<1>3. ASSUME LeaveLoop(n), UNCHANGED workspace, job[n].at # "settled"
      PROVE  Quiet(n)
  BY <1>3, <1>1, <1>2 DEF LeaveLoop, Conclude
<1>4. ASSUME NEW j, job' = [job EXCEPT ![n] = j], UNCHANGED workspace,
             job[n].at # "settled", j.at # "settled", j.at # "command"
      PROVE  Quiet(n)
  BY <1>4 DEF Quiet
<1>5. Called(n).at = "calls"
  BY DEF Called, Job
<1>6. Checkpointed.at = "routing" /\ [Idle({}, {}) EXCEPT !.at = "survey"].at = "survey"
  BY DEF Checkpointed, Idle
<1>7. CASE Start(n)
  BY <1>7, <1>4, <1>6 DEF Start, At
<1>8. CASE SurveyArrives(n)
  BY <1>8, <1>4, <1>6 DEF SurveyArrives, At
<1>9. CASE Routed(n)
  <2> DEFINE j == [job[n] EXCEPT !.at = "loop", !.start = meter, !.carry = carried[n],
                     !.only = IF twoPhase /\ Writes[n] # {} THEN "read" ELSE "all"]
  <2>1. j.at = "loop"
    BY DEF Job
  <2>2. job' = [job EXCEPT ![n] = j]
    BY <1>9 DEF Routed
  <2>3. UNCHANGED workspace /\ job[n].at # "settled"
    BY <1>9 DEF Routed, At
  <2> HIDE DEF j
  <2> QED
    BY <2>1, <2>2, <2>3, <1>4
<1>10. CASE RoutingFails(n) \/ StepThrows(n) \/ ReplyFails(n) \/ BriefFails(n) \/ GatesEnd(n)
  BY <1>10, <1>1 DEF RoutingFails, StepThrows, ReplyFails, BriefFails, GatesEnd, At
<1>11. CASE StepsRunOut(n)
  BY <1>11, <1>3 DEF StepsRunOut, At
<1>12. CASE Step(n)
  <2>1. CASE Spent(n) > MaxNodeTokens
    BY <1>12, <2>1, <1>1 DEF Step, At, workspace
  <2>2. CASE ~(Spent(n) > MaxNodeTokens)
    BY <1>12, <2>2 DEF Step, At, Job, Quiet
  <2> QED
    BY <2>1, <2>2
<1>13. ASSUME NEW c \in Costs, ReplyCalls(n, c)
       PROVE  Quiet(n)
  BY <1>13 DEF ReplyCalls, At, Job, Quiet
<1>14. ASSUME NEW c \in Costs, ReplyTruncated(n, c)
       PROVE  Quiet(n)
  BY <1>14, <1>2 DEF ReplyTruncated, At
<1>15. ASSUME NEW c \in Costs, ReplyFinishes(n, c)
       PROVE  Quiet(n)
  BY <1>15, <1>3 DEF ReplyFinishes, At
<1>16. ASSUME NEW c \in Costs, BriefCollected(n, c)
       PROVE  Quiet(n)
  <2>1. CASE End(n, "contract")
    BY <1>16, <2>1, <1>1 DEF BriefCollected, At
  <2>2. CASE job' = [job EXCEPT ![n].at = "loop", ![n].only = "write"]
    <3>1. [job[n] EXCEPT !.at = "loop", !.only = "write"].at = "loop"
      BY DEF Job
    <3>2. job' = [job EXCEPT ![n] = [job[n] EXCEPT !.at = "loop", !.only = "write"]]
      BY <2>2
    <3>3. UNCHANGED workspace /\ job[n].at # "settled"
      BY <1>16 DEF BriefCollected, At
    <3> QED
      BY <3>1, <3>2, <3>3, <1>4
  <2> QED
    BY <1>16, <2>1, <2>2 DEF BriefCollected
<1>17. CASE CallComesToNothing(n)
  BY <1>17, <1>4, <1>5 DEF CallComesToNothing, CanCall, At
<1>18. CASE CommandRuns(n)
  BY <1>18, <1>2 DEF CommandRuns, CanCall, At
<1>19. CASE CommandExits(n)
  BY <1>19, <1>4, <1>5 DEF CommandExits, At
<1>20. CASE ReplyDone(n)
  BY <1>20 DEF ReplyDone, At, Job, Quiet
<1>21. ASSUME NEW f \in Files, ReadAnswers(n, f)
       PROVE  Quiet(n)
  <2>1. [Called(n) EXCEPT !.seen = @ \cup {f}, !.reads = @ + 1].at = "calls"
    BY DEF Called, Job
  <2> QED
    BY <1>21, <2>1, <1>4 DEF ReadAnswers, CanRead, CanCall, At
<1>22. ASSUME NEW f \in Files, WriteStrays(n, f)
       PROVE  Quiet(n)
  BY <1>22, <1>1 DEF WriteStrays, CanCall, At
<1> QED
  BY <1>7, <1>8, <1>9, <1>10, <1>11, <1>12, <1>13, <1>14, <1>15, <1>16, <1>17, <1>18, <1>19,
     <1>20, <1>21, <1>22
  DEF Ordinary

-----------------------------------------------------------------------------
\* What a call has counted, taken and noted.
SameBooks(n) ==
  /\ job'[n].used = job[n].used /\ job'[n].reads = job[n].reads
  /\ job'[n].only = job[n].only
  /\ job'[n].start = job[n].start /\ job'[n].carry = job[n].carry
  /\ job'[n].written = job[n].written /\ job'[n].commanded = job[n].commanded
  /\ job'[n].base = job[n].base

Clean(n) == \E noticed \in Noticed(n) : ~Strays(n, noticed)
Passing == {"ok", "unchecked", "gates"}
Ends(n) ==
  \E how \in Outcomes :
    /\ End(n, how)
    /\ how \in Passing =>
         At(n, "gates") \/ (Clean(n) /\ job[n].at \notin {"out", "survey", "routing"})
GoesOn(n) ==
  /\ SameBooks(n) /\ UNCHANGED outcome
  /\ job[n].at \notin {"out", "survey", "routing"}
  /\ job'[n].at \notin {"out", "survey", "routing"}
  /\ job'[n].at = "gates" => Clean(n)
Briefed(n) ==
  /\ \E c \in Costs : BriefCollected(n, c)
  /\ job' = [job EXCEPT ![n].at = "loop", ![n].only = "write"]
  /\ UNCHANGED outcome

AtSurvey == [Idle({}, {}) EXCEPT !.at = "survey"]

Begins(n) == (Start(n) \/ SurveyArrives(n)) /\ job'[n] \in {Checkpointed, AtSurvey}
StepsOn(n) == Step(n) /\ ~(Spent(n) > MaxNodeTokens)

\* An ordinary step begins or ends a call, or is one of a few that change its books.
LEMMA OrdinaryBooks ==
  ASSUME LocalsOK, NEW n \in Nodes, Ordinary(n)
  PROVE  \/ Ends(n) \/ Begins(n) \/ Routed(n) \/ StepsOn(n) \/ Briefed(n) \/ GoesOn(n)
         \/ \E f \in Files : ReadAnswers(n, f)
<1> USE DEF LocalsOK
<1> DEFINE Busy == job[n].at \notin {"out", "survey", "routing"}
<1>1. ASSUME NEW p \in Places \ {"out", "survey", "routing"}, Move(n, p), Busy,
             UNCHANGED outcome, p = "gates" => Clean(n)
      PROVE  GoesOn(n)
  BY <1>1 DEF Move, SameBooks, Job, GoesOn
<1>2. ASSUME NEW how \in Outcomes, End(n, how),
             how \in Passing => At(n, "gates") \/ (Clean(n) /\ Busy)
      PROVE  Ends(n)
  BY <1>2 DEF Ends
<1>3. ASSUME LeaveLoop(n), Busy
      PROVE  Ends(n) \/ GoesOn(n)
  <2>1. CASE job[n].only = "read"
    BY <1>3, <2>1, <1>1 DEF LeaveLoop, Places
  <2>2. CASE Conclude(n)
    <3>1. CASE End(n, "stray_file") \/ End(n, "contract")
      BY <3>1, <1>2 DEF Outcomes, Passing
    <3>2. CASE Clean(n) /\ End(n, "ok")
      BY <3>2, <1>2, <1>3 DEF Outcomes, Passing
    <3>3. CASE Clean(n) /\ Move(n, "gates") /\ UNCHANGED outcome
      BY <3>3, <1>1, <1>3 DEF Places
    <3> QED
      BY <2>2, <3>1, <3>2, <3>3 DEF Conclude, Clean
  <2> QED
    BY <1>3, <2>1, <2>2 DEF LeaveLoop
<1>4. ASSUME job' = [job EXCEPT ![n] = Called(n)], Busy, UNCHANGED outcome
      PROVE  GoesOn(n)
  BY <1>4 DEF Called, SameBooks, Job, GoesOn
<1>5. CASE Start(n) \/ SurveyArrives(n)
  BY <1>5 DEF Start, SurveyArrives, AtSurvey, Begins
<1>6. CASE RoutingFails(n) \/ StepThrows(n) \/ ReplyFails(n) \/ BriefFails(n) \/ GatesEnd(n)
  <2>1. CASE GatesEnd(n)
    <3>1. At(n, "gates") /\ \E how \in {"ok", "gates", "unchecked"} : End(n, how)
      BY <2>1 DEF GatesEnd
    <3>2. {"ok", "gates", "unchecked"} \subseteq Outcomes
      BY DEF Outcomes
    <3> QED
      BY <3>1, <3>2 DEF Ends
  <2>2. CASE RoutingFails(n) \/ ReplyFails(n) \/ BriefFails(n)
    BY <2>2, <1>2 DEF RoutingFails, ReplyFails, BriefFails, Outcomes, Passing
  <2>3. CASE StepThrows(n)
    BY <2>3, <1>2 DEF StepThrows, Outcomes, Passing
  <2> QED
    BY <1>6, <2>1, <2>2, <2>3
<1>7. CASE StepsRunOut(n)
  BY <1>7, <1>3 DEF StepsRunOut, At
<1>8. CASE Step(n)
  BY <1>8, <1>2 DEF Step, StepsOn, Outcomes, Passing
<1>9. ASSUME NEW c \in Costs, ReplyCalls(n, c)
      PROVE  GoesOn(n)
  BY <1>9 DEF ReplyCalls, At, SameBooks, Job, GoesOn
<1>10. ASSUME NEW c \in Costs, ReplyTruncated(n, c)
       PROVE  GoesOn(n)
  BY <1>10, <1>1 DEF ReplyTruncated, At, Places
<1>11. ASSUME NEW c \in Costs, ReplyFinishes(n, c)
       PROVE  Ends(n) \/ GoesOn(n)
  BY <1>11, <1>3 DEF ReplyFinishes, At
<1>12. ASSUME NEW c \in Costs, BriefCollected(n, c)
       PROVE  Ends(n) \/ Briefed(n)
  BY <1>12, <1>2 DEF BriefCollected, Briefed, Outcomes, Passing
<1>13. CASE CallComesToNothing(n) \/ CommandExits(n)
  BY <1>13, <1>4 DEF CallComesToNothing, CommandExits, CanCall, At
<1>14. CASE CommandRuns(n)
  BY <1>14, <1>1 DEF CommandRuns, CanCall, At, Places
<1>15. CASE ReplyDone(n)
  BY <1>15 DEF ReplyDone, At, SameBooks, Job, GoesOn
<1>16. ASSUME NEW f \in Files, WriteStrays(n, f)
       PROVE  Ends(n)
  BY <1>16, <1>2 DEF WriteStrays, Outcomes, Passing
<1> QED
  BY <1>5, <1>6, <1>7, <1>8, <1>9, <1>10, <1>11, <1>12, <1>13, <1>14, <1>15, <1>16
  DEF Ordinary

\* The books of a call that has ended, or begins.
LEMMA FreshBooks ==
  ASSUME LocalsOK, NEW n \in Nodes, Ends(n) \/ Begins(n)
  PROVE  /\ job'[n].used = 0 /\ job'[n].reads = 0 /\ job'[n].only = "all"
         /\ job'[n].start = 0 /\ job'[n].carry = 0
         /\ Ends(n) => /\ job'[n].at = "out" /\ job'[n].written = job[n].written
                       /\ job'[n].commanded = job[n].commanded
         /\ Begins(n) => /\ job'[n].commanded = {} /\ job'[n].written = {}
                         /\ \/ job'[n].at = "survey"
                            \/ job'[n].at = "routing" /\ job'[n].base = disk
<1>1. ASSUME NEW how, End(n, how)
      PROVE  job'[n] = Idle(job[n].written, job[n].commanded)
  BY <1>1 DEF End, LocalsOK
<1>2. /\ Checkpointed.used = 0 /\ Checkpointed.reads = 0 /\ Checkpointed.only = "all"
      /\ Checkpointed.start = 0 /\ Checkpointed.carry = 0 /\ Checkpointed.at = "routing"
      /\ Checkpointed.written = {} /\ Checkpointed.commanded = {} /\ Checkpointed.base = disk
  BY DEF Checkpointed, Idle
<1>3. /\ AtSurvey.used = 0 /\ AtSurvey.reads = 0 /\ AtSurvey.only = "all"
      /\ AtSurvey.start = 0 /\ AtSurvey.carry = 0 /\ AtSurvey.at = "survey"
      /\ AtSurvey.written = {} /\ AtSurvey.commanded = {}
  BY DEF AtSurvey, Idle
<1>4. CASE Ends(n)
  <2>1. job'[n] = Idle(job[n].written, job[n].commanded)
    BY <1>1, <1>4 DEF Ends
  <2>2. /\ job'[n].used = 0 /\ job'[n].reads = 0 /\ job'[n].only = "all"
        /\ job'[n].start = 0 /\ job'[n].carry = 0 /\ job'[n].at = "out"
        /\ job'[n].written = job[n].written /\ job'[n].commanded = job[n].commanded
    BY <2>1 DEF Idle
  <2>3. ~Begins(n)
    BY <1>2, <1>3, <2>2 DEF Begins
  <2> QED
    BY <2>2, <2>3
<1>5. CASE Begins(n)
  <2>1. job'[n].at # "out"
    BY <1>2, <1>3, <1>5 DEF Begins
  <2>2. ~Ends(n)
    <3>1. SUFFICES ASSUME NEW how, End(n, how)
                   PROVE  FALSE
      BY DEF Ends
    <3>2. job'[n] = Idle(job[n].written, job[n].commanded)
      BY <1>1, <3>1
    <3>3. job'[n].at = "out"
      BY <3>2 DEF Idle
    <3> QED
      BY <2>1, <3>3
  <2>3. CASE job'[n] = Checkpointed
    BY <1>2, <2>2, <2>3
  <2>4. CASE job'[n] = AtSurvey
    BY <1>3, <2>2, <2>4
  <2> QED
    BY <1>5, <2>3, <2>4 DEF Begins
<1> QED
  BY <1>4, <1>5

\* What the tools do to the books.
LEMMA ToolBooks ==
  ASSUME LocalsOK, NEW n \in Nodes
  PROVE  /\ \A f \in Files : ReadRuns(n, f) =>
              /\ job'[n].at = "settled" /\ job'[n].reads = job[n].reads + 1
              /\ job'[n].used = job[n].used /\ job'[n].only = job[n].only
              /\ job'[n].written = job[n].written /\ job'[n].commanded = job[n].commanded
              /\ job'[n].base = job[n].base
         /\ \A f \in Files : ReadAnswers(n, f) =>
              /\ job'[n].at = "calls" /\ job'[n].reads = job[n].reads + 1
              /\ job'[n].used = job[n].used /\ job'[n].only = job[n].only
              /\ job'[n].written = job[n].written /\ job'[n].commanded = job[n].commanded
              /\ job'[n].base = job[n].base
         /\ \A f \in Files : WriteRuns(n, f) => SameBooks(n) /\ job'[n].at = "settled"
         /\ \A f \in Files : CommandWrites(n, f) =>
              /\ job'[n] = [job[n] EXCEPT !.commanded = @ \cup {f}]
         /\ Resume(n) =>
              /\ job'[n].at = "calls" /\ job'[n].reads = job[n].reads
              /\ job'[n].used = job[n].used /\ job'[n].only = job[n].only
              /\ job[n].written \subseteq job'[n].written
              /\ job'[n].commanded = job[n].commanded
              /\ job'[n].base = job[n].base
<1> USE DEF LocalsOK
<1>1. ASSUME NEW f \in Files, ReadRuns(n, f)
      PROVE  /\ job'[n].at = "settled" /\ job'[n].reads = job[n].reads + 1
             /\ job'[n].used = job[n].used /\ job'[n].only = job[n].only
             /\ job'[n].written = job[n].written /\ job'[n].commanded = job[n].commanded
             /\ job'[n].base = job[n].base
  BY <1>1 DEF ReadRuns, Job
<1>2. ASSUME NEW f \in Files, ReadAnswers(n, f)
      PROVE  /\ job'[n].at = "calls" /\ job'[n].reads = job[n].reads + 1
             /\ job'[n].used = job[n].used /\ job'[n].only = job[n].only
             /\ job'[n].written = job[n].written /\ job'[n].commanded = job[n].commanded
             /\ job'[n].base = job[n].base
  BY <1>2 DEF ReadAnswers, Called, Job
<1>3. ASSUME NEW f \in Files, WriteRuns(n, f)
      PROVE  SameBooks(n) /\ job'[n].at = "settled"
  BY <1>3 DEF WriteRuns, SameBooks, Job
<1>4. ASSUME NEW f \in Files, CommandWrites(n, f)
      PROVE  job'[n] = [job[n] EXCEPT !.commanded = @ \cup {f}]
  BY <1>4 DEF CommandWrites, Job
<1>5. ASSUME Resume(n)
      PROVE  /\ job'[n].at = "calls" /\ job'[n].reads = job[n].reads
             /\ job'[n].used = job[n].used /\ job'[n].only = job[n].only
             /\ job[n].written \subseteq job'[n].written
             /\ job'[n].commanded = job[n].commanded
             /\ job'[n].base = job[n].base
  <2>1. CASE job' = [job EXCEPT ![n] = Called(n)]
    BY <2>1 DEF Called, Job
  <2>2. CASE job' = [job EXCEPT ![n] = [Called(n) EXCEPT !.written = @ \cup {job[n].file}]]
    BY <2>2 DEF Called, Job
  <2> QED
    BY <1>5, <2>1, <2>2 DEF Resume
<1> QED
  BY <1>1, <1>2, <1>3, <1>4, <1>5

-----------------------------------------------------------------------------
\* The queue holds each node whose tool has settled, once.
LEMMA QueueAppends ==
  ASSUME LocalsOK, QueueOK, NEW n \in Nodes, ~At(n, "settled"),
         settled' = Append(settled, n),
         job' = [job EXCEPT ![n] = job'[n]], job'[n].at = "settled"
  PROVE  QueueOK'
<1> USE DEF QueueOK
<1>1. DOMAIN settled = 1 .. Len(settled) /\ Len(settled) \in Nat
  BY LenProperties
<1>2. /\ settled' \in Seq(Nodes) /\ DOMAIN settled' = 1 .. Len(settled) + 1
      /\ \A i \in DOMAIN settled : settled'[i] = settled[i]
      /\ settled'[Len(settled) + 1] = n
  BY <1>1
<1>3. \A i \in DOMAIN settled : settled[i] # n
  OBVIOUS
<1>4. \A m \in Nodes : At(m, "settled")' <=> m = n \/ At(m, "settled")
  BY DEF At, LocalsOK
<1>5. {settled'[i] : i \in DOMAIN settled'} = {settled[i] : i \in DOMAIN settled} \cup {n}
  BY <1>1, <1>2
<1>6. {settled'[i] : i \in DOMAIN settled'} = {m \in Nodes : At(m, "settled")'}
  BY <1>4, <1>5
<1>7. \A i, k \in DOMAIN settled' : settled'[i] = settled'[k] => i = k
  BY <1>1, <1>2, <1>3
<1> QED
  BY <1>2, <1>6, <1>7

LEMMA QueueResumes ==
  ASSUME LocalsOK, QueueOK, NEW n \in Nodes, settled # <<>>, Head(settled) = n,
         settled' = Tail(settled),
         job' = [job EXCEPT ![n] = job'[n]], job'[n].at # "settled"
  PROVE  QueueOK'
<1> USE DEF QueueOK
<1>1. DOMAIN settled = 1 .. Len(settled) /\ Len(settled) \in Nat \ {0}
  BY LenProperties, EmptySeq
<1>2. /\ settled' \in Seq(Nodes) /\ DOMAIN settled' = 1 .. Len(settled) - 1
      /\ \A i \in DOMAIN settled' : settled'[i] = settled[i + 1]
      /\ settled[1] = n
  BY <1>1, HeadTailProperties
<1>3. \A i \in DOMAIN settled : i # 1 => settled[i] # n
  BY <1>1, <1>2
<1>4. \A m \in Nodes : At(m, "settled")' <=> m # n /\ At(m, "settled")
  BY DEF At, LocalsOK
<1>5. {settled'[i] : i \in DOMAIN settled'} = {settled[i] : i \in DOMAIN settled} \ {n}
  <2>1. \A i \in DOMAIN settled' : i + 1 \in DOMAIN settled /\ i + 1 # 1
    BY <1>1, <1>2
  <2>2. \A i \in DOMAIN settled : i # 1 => i - 1 \in DOMAIN settled' /\ settled'[i - 1] = settled[i]
    BY <1>1, <1>2
  <2>3. \A m \in {settled'[i] : i \in DOMAIN settled'} :
          m \in {settled[i] : i \in DOMAIN settled} \ {n}
    BY <1>2, <1>3, <2>1
  <2>4. \A m \in {settled[i] : i \in DOMAIN settled} \ {n} :
          m \in {settled'[i] : i \in DOMAIN settled'}
    <3>1. SUFFICES ASSUME NEW i \in DOMAIN settled, settled[i] # n
                   PROVE  \E k \in DOMAIN settled' : settled'[k] = settled[i]
      OBVIOUS
    <3>2. i # 1
      BY <1>2, <3>1
    <3> QED
      BY <2>2, <3>2
  <2> QED
    BY <2>3, <2>4
<1>6. {settled'[i] : i \in DOMAIN settled'} = {m \in Nodes : At(m, "settled")'}
  BY <1>4, <1>5
<1>7. \A i, k \in DOMAIN settled' : settled'[i] = settled'[k] => i = k
  <2>1. \A i \in DOMAIN settled' : i + 1 \in DOMAIN settled /\ i \in Int
    BY <1>1, <1>2
  <2> QED
    BY <1>2, <2>1
<1> QED
  BY <1>2, <1>6, <1>7

LEMMA QueueStep ==
  ASSUME TInv, [Next]_vars
  PROVE  QueueOK' /\ CallsOK'
<1> USE DEF TInv, LocalsOK
<1>1. CASE SurveyTaken \/ Cancel \/ UNCHANGED vars
  BY <1>1 DEF SurveyTaken, Cancel, vars, workspace, QueueOK, CallsOK, At
<1>2. ASSUME NEW n \in Nodes, Quiet(n)
      PROVE  QueueOK' /\ CallsOK'
  <2>1. \A m \in Nodes : At(m, "settled")' <=> At(m, "settled")
    BY <1>2 DEF Quiet, At
  <2>2. QueueOK'
    BY <1>2, <2>1 DEF Quiet, workspace, QueueOK
  <2> QED
    BY <1>2, <2>2 DEF Quiet, CallsOK
<1>3. ASSUME NEW n \in Nodes, NEW f \in Files, ReadRuns(n, f) \/ WriteRuns(n, f)
      PROVE  QueueOK' /\ CallsOK'
  <2>1. /\ job' = [job EXCEPT ![n] = job'[n]] /\ job'[n].at = "settled"
        /\ job'[n].calls = job[n].calls
    <3>1. CASE ReadRuns(n, f)
      BY <3>1 DEF ReadRuns, Job
    <3>2. CASE WriteRuns(n, f)
      BY <3>2 DEF WriteRuns, Job
    <3> QED
      BY <1>3, <3>1, <3>2
  <2>2. ~At(n, "settled") /\ job[n].calls < MaxCalls /\ settled' = Append(settled, n)
    BY <1>3 DEF ReadRuns, WriteRuns, CanRead, CanCall, At
  <2> QED
    BY <2>1, <2>2, QueueAppends DEF CallsOK
<1>4. ASSUME NEW n \in Nodes, Resume(n)
      PROVE  QueueOK' /\ CallsOK'
  <2>1. job' = [job EXCEPT ![n] = job'[n]] /\ job'[n].at = "calls"
    <3>1. Called(n).at = "calls"
           /\ [Called(n) EXCEPT !.written = @ \cup {job[n].file}].at = "calls"
      BY DEF Called, Job
    <3> QED
      BY <1>4, <3>1 DEF Resume
  <2>2. settled # <<>> /\ Head(settled) = n /\ settled' = Tail(settled)
    BY <1>4 DEF Resume
  <2> QED
    BY <2>1, <2>2, QueueResumes DEF CallsOK
<1>5. ASSUME NEW n \in Nodes, NEW f \in Files, CommandWrites(n, f)
      PROVE  QueueOK' /\ CallsOK'
  <2>1. /\ settled' = settled
        /\ \A m \in Nodes : job'[m].at = job[m].at /\ job'[m].calls = job[m].calls
    BY <1>5 DEF CommandWrites, Job
  <2> QED
    BY <2>1 DEF QueueOK, CallsOK, At
<1> QED
  BY <1>1, <1>2, <1>3, <1>4, <1>5, StepKinds, OrdinaryIsQuiet

-----------------------------------------------------------------------------
\* The variables that hold no locals keep their types.
LEMMA BumpTypes ==
  ASSUME NEW e, DOMAIN e \subseteq Resources, \A r \in DOMAIN e : e[r] \in Nat,
         NEW w \in SUBSET Resources
  PROVE  /\ DOMAIN Bump(e, w) = DOMAIN e \cup w
         /\ \A r \in DOMAIN Bump(e, w) : Bump(e, w)[r] \in Nat
         /\ DOMAIN Register(e, w) = DOMAIN e \cup w
         /\ \A r \in DOMAIN Register(e, w) : Register(e, w)[r] \in Nat
<1>1. DOMAIN e \cup BumpSet(e, w) = DOMAIN e \cup w
  BY DEF BumpSet
<1>2. \A r : EpochOf(e, r) \in Nat
  BY DEF EpochOf
<1> QED
  BY <1>1, <1>2 DEF Bump, Register

LEMMA RestStep ==
  ASSUME TInv, [Next]_vars
  PROVE  RestOK'
<1> USE DEF TInv
<1>1. CASE SurveyTaken \/ Cancel \/ UNCHANGED vars
  BY <1>1 DEF SurveyTaken, Cancel, vars, workspace, spending, RestOK
<1>2. ASSUME NEW n \in Nodes, Ordinary(n)
      PROVE  RestOK'
  <2>1. UNCHANGED workspace
    BY <1>2, OrdinaryIsQuiet DEF Quiet
  <2>2. meter' \in Nat /\ carried' \in [Nodes -> Nat] /\ own' \in [Nodes -> Nat]
    <3>1. Spent(n) \in Nat
      BY DEF Spent, StartOK, LocalsOK, Job, RestOK
    <3>2. CASE UNCHANGED spending
      BY <3>2 DEF spending, RestOK
    <3>3. ASSUME NEW c \in Costs, Pay(n, c)
          PROVE  meter' \in Nat /\ carried' \in [Nodes -> Nat] /\ own' \in [Nodes -> Nat]
      BY <3>3, ExecutorAssumption DEF Pay, RestOK
    <3>4. CASE Step(n)
      BY <3>1, <3>4 DEF Step, Book, RestOK
    <3> QED
      BY <1>2, <3>2, <3>3, <3>4 DEF Ordinary, Start, SurveyArrives, Routed, RoutingFails,
         StepsRunOut, StepThrows, ReplyCalls, ReplyTruncated, ReplyFinishes, BriefCollected,
         ReplyFails, BriefFails, CallComesToNothing, CommandRuns, CommandExits, ReplyDone,
         ReadAnswers, WriteStrays, GatesEnd
  <2>3. outcome' \in [Nodes -> Outcomes]
    <3>1. ASSUME NEW how \in Outcomes, End(n, how)
          PROVE  outcome' \in [Nodes -> Outcomes]
      BY <3>1 DEF End, RestOK
    <3>2. ASSUME LeaveLoop(n)
          PROVE  outcome' \in [Nodes -> Outcomes]
      BY <3>1, <3>2 DEF LeaveLoop, Conclude, RestOK, Outcomes
    <3>3. CASE UNCHANGED outcome
      BY <3>3 DEF RestOK
    <3>4. CASE Start(n)
      BY <3>4 DEF Start, RestOK, Outcomes
    <3>5. CASE Step(n)
      BY <3>1, <3>3, <3>5 DEF Step, Outcomes
    <3>6. ASSUME NEW c \in Costs, BriefCollected(n, c)
          PROVE  outcome' \in [Nodes -> Outcomes]
      BY <3>1, <3>3, <3>6 DEF BriefCollected, Outcomes
    <3>7. CASE RoutingFails(n) \/ StepThrows(n) \/ ReplyFails(n) \/ BriefFails(n) \/ GatesEnd(n)
      BY <3>1, <3>7 DEF RoutingFails, StepThrows, ReplyFails, BriefFails, GatesEnd, Outcomes
    <3>8. ASSUME NEW f \in Files, WriteStrays(n, f)
          PROVE  outcome' \in [Nodes -> Outcomes]
      BY <3>1, <3>8 DEF WriteStrays, Outcomes
    <3> QED
      BY <1>2, <3>2, <3>3, <3>4, <3>5, <3>6, <3>7, <3>8 DEF Ordinary, SurveyArrives, Routed,
         StepsRunOut, ReplyCalls, ReplyTruncated, ReplyFinishes, CallComesToNothing,
         CommandRuns, CommandExits, ReplyDone, ReadAnswers
  <2>4. /\ survey' \in {"none", "running", "taken"} /\ cancelled' \in BOOLEAN
        /\ twoPhase' \in BOOLEAN /\ attempts' \in [Nodes -> 0 .. MaxAttempts]
    <3>1. CASE Start(n)
      BY <3>1, ExecutorAssumption DEF Start, RestOK
    <3>2. CASE UNCHANGED <<survey, cancelled, twoPhase, attempts>>
      BY <3>2 DEF RestOK
    <3> QED
      BY <1>2, <3>1, <3>2 DEF Ordinary, SurveyArrives, Routed, RoutingFails,
         StepsRunOut, StepThrows, Step, ReplyCalls, ReplyTruncated, ReplyFinishes,
         BriefCollected, ReplyFails, BriefFails, CallComesToNothing, CommandRuns, CommandExits,
         ReplyDone, ReadAnswers, WriteStrays, GatesEnd
  <2> QED
    BY <2>1, <2>2, <2>3, <2>4 DEF RestOK, workspace
<1>3. ASSUME NEW n \in Nodes, NEW f \in Files,
             ReadRuns(n, f) \/ WriteRuns(n, f) \/ CommandWrites(n, f)
      PROVE  RestOK'
  <2>1. disk' \in [Files -> Contents]
    <3>1. disk[f] < MaxVersion => disk[f] + 1 \in Contents
      BY ExecutorAssumption DEF RestOK, Contents
    <3> QED
      BY <1>3, <3>1 DEF ReadRuns, WriteRuns, CommandWrites, RestOK
  <2>2. UNCHANGED <<epochs, cache, announced, spending, survey, cancelled, twoPhase,
                    outcome, attempts>>
    BY <1>3 DEF ReadRuns, WriteRuns, CommandWrites
  <2> QED
    BY <2>1, <2>2 DEF RestOK, spending
<1>4. ASSUME NEW n \in Nodes, Resume(n)
      PROVE  RestOK'
  <2>1. job[n].file \in Files /\ job[n].got \in Contents /\ Reads[n] \subseteq Resources
    BY ExecutorAssumption DEF LocalsOK, Job
  <2>2. {job[n].file} \subseteq Resources
    BY <2>1, NamesAssumption
  <2>3. UNCHANGED <<disk, spending, survey, cancelled, twoPhase, outcome, attempts>>
    BY <1>4 DEF Resume
  <2>4. CASE job[n].tool = "read"
    <3>1. epochs' = Register(epochs, Reads[n]) /\ announced' = announced
      BY <1>4, <2>4 DEF Resume
    <3>2. DOMAIN epochs' \subseteq Resources /\ \A r \in DOMAIN epochs' : epochs'[r] \in Nat
      <4>1. /\ DOMAIN Register(epochs, Reads[n]) = DOMAIN epochs \cup Reads[n]
            /\ \A r \in DOMAIN Register(epochs, Reads[n]) : Register(epochs, Reads[n])[r] \in Nat
        BY <2>1, BumpTypes DEF RestOK
      <4> QED
        BY <2>1, <3>1, <4>1 DEF RestOK
    <3>3. \A k \in DOMAIN cache' : cache'[k] \in Contents
      BY <1>4, <2>1, <2>4 DEF Resume, Store, RestOK
    <3> QED
      BY <2>3, <3>1, <3>2, <3>3 DEF RestOK, spending
  <2>5. CASE job[n].tool = "write"
    <3>1. epochs' = Bump(epochs, {job[n].file}) /\ cache' = cache
      BY <1>4, <2>5 DEF Resume
    <3>2. DOMAIN epochs' \subseteq Resources /\ \A r \in DOMAIN epochs' : epochs'[r] \in Nat
      <4>1. /\ DOMAIN Bump(epochs, {job[n].file}) = DOMAIN epochs \cup {job[n].file}
            /\ \A r \in DOMAIN Bump(epochs, {job[n].file}) : Bump(epochs, {job[n].file})[r] \in Nat
        BY <2>2, BumpTypes DEF RestOK
      <4> QED
        BY <2>2, <3>1, <4>1 DEF RestOK
    <3>3. announced' \in [Files -> Contents]
      BY <1>4, <2>1, <2>5 DEF Resume, RestOK
    <3> QED
      BY <2>3, <3>1, <3>2, <3>3 DEF RestOK, spending
  <2> QED
    BY <1>4, <2>4, <2>5 DEF Resume
<1> QED
  BY <1>1, <1>2, <1>3, <1>4, StepKinds

LEMMA StartStep ==
  ASSUME TInv, [Next]_vars
  PROVE  StartOK'
<1> USE DEF TInv
<1>1. meter' \in Nat /\ meter' >= meter
  <2>1. ASSUME NEW n \in Nodes, NEW c \in Costs, Pay(n, c)
        PROVE  meter' >= meter
    BY <2>1, ExecutorAssumption DEF Pay, RestOK
  <2>2. ASSUME NEW n \in Nodes, Ordinary(n)
        PROVE  meter' >= meter
    <3>1. CASE UNCHANGED meter
      BY <3>1 DEF RestOK
    <3> QED
      BY <2>1, <2>2, <3>1 DEF Ordinary, Start, SurveyArrives, Routed, RoutingFails,
         StepsRunOut, StepThrows, Step, ReplyCalls, ReplyTruncated, ReplyFinishes,
         BriefCollected, ReplyFails, BriefFails, CallComesToNothing, CommandRuns, CommandExits,
         ReplyDone, ReadAnswers, WriteStrays, GatesEnd, spending
  <2>3. ASSUME UNCHANGED meter
        PROVE  meter' >= meter
    BY <2>3 DEF RestOK
  <2>4. meter' >= meter
    BY <2>2, <2>3, StepKinds DEF SurveyTaken, Cancel, vars, spending, Resume, ReadRuns,
       WriteRuns, CommandWrites
  <2> QED
    BY <2>4, RestStep DEF RestOK
<1>2. \A n \in Nodes : job'[n].start \in {job[n].start, 0, meter}
  <2>1. CASE SurveyTaken \/ Cancel \/ UNCHANGED vars
    BY <2>1 DEF SurveyTaken, Cancel, vars
  <2>2. ASSUME NEW n \in Nodes, Ordinary(n)
        PROVE  \A m \in Nodes : job'[m].start \in {job[m].start, 0, meter}
    <3>1. \A m \in Nodes \ {n} : job'[m] = job[m]
      BY <2>2, OrdinaryIsQuiet DEF Quiet, LocalsOK
    <3>2. job'[n].start \in {job[n].start, 0, meter}
      <4>1. CASE Ends(n)
        BY <4>1, FreshBooks
      <4>2. CASE Begins(n)
        BY <4>2, FreshBooks
      <4>3. CASE Routed(n)
        BY <4>3 DEF Routed, LocalsOK, Job
      <4>4. CASE StepsOn(n) \/ Briefed(n) \/ GoesOn(n)
        BY <4>4 DEF StepsOn, Step, Briefed, GoesOn, SameBooks, LocalsOK, Job
      <4>5. ASSUME NEW f \in Files, ReadAnswers(n, f)
            PROVE  job'[n].start = job[n].start
        BY <4>5 DEF ReadAnswers, Called, LocalsOK, Job
      <4> QED
        BY <2>2, <4>1, <4>2, <4>3, <4>4, <4>5, OrdinaryBooks
    <3> QED
      BY <3>1, <3>2
  <2>3. ASSUME NEW n \in Nodes, NEW f \in Files, CommandWrites(n, f)
        PROVE  \A m \in Nodes : job'[m].start = job[m].start
    BY <2>3 DEF CommandWrites, LocalsOK, Job
  <2>4. ASSUME NEW n \in Nodes, NEW f \in Files, ReadRuns(n, f) \/ WriteRuns(n, f)
        PROVE  \A m \in Nodes : job'[m].start = job[m].start
    <3>1. CASE ReadRuns(n, f)
      BY <3>1 DEF ReadRuns, LocalsOK, Job
    <3>2. CASE WriteRuns(n, f)
      BY <3>2 DEF WriteRuns, LocalsOK, Job
    <3> QED
      BY <2>4, <3>1, <3>2
  <2>5. ASSUME NEW n \in Nodes, Resume(n)
        PROVE  \A m \in Nodes : job'[m].start = job[m].start
    <3>1. /\ Called(n).start = job[n].start
          /\ [Called(n) EXCEPT !.written = @ \cup {job[n].file}].start = job[n].start
      BY DEF Called, LocalsOK, Job
    <3> QED
      BY <2>5, <3>1 DEF Resume, LocalsOK
  <2> QED
    BY <2>1, <2>2, <2>3, <2>4, <2>5, StepKinds
<1> QED
  <2>1. \A n \in Nodes : job[n].start \in Nat /\ job[n].start <= meter /\ meter \in Nat
    BY DEF StartOK, LocalsOK, RestOK, Job
  <2>2. SUFFICES ASSUME NEW n \in Nodes
                 PROVE  job'[n].start <= meter'
    BY DEF StartOK
  <2> QED
    BY <1>1, <1>2, <2>1

-----------------------------------------------------------------------------
LEMMA InitTyped ==
  ASSUME Init
  PROVE  TInv
<1>1. LocalsOK
  BY IdleIsJob DEF Init, LocalsOK
<1>2. QueueOK
  BY DEF Init, QueueOK, At, Idle
<1>3. RestOK
  <2>1. 0 \in Contents /\ 0 \in 0 .. MaxAttempts
    BY ExecutorAssumption DEF Contents
  <2>2. disk \in [Files -> Contents] /\ announced \in [Files -> Contents]
    BY <2>1 DEF Init
  <2>3. DOMAIN epochs = {} /\ DOMAIN cache = {}
    BY DEF Init
  <2>4. carried \in [Nodes -> Nat] /\ own \in [Nodes -> Nat] /\ meter \in Nat
    BY DEF Init
  <2>5. outcome \in [Nodes -> Outcomes] /\ attempts \in [Nodes -> 0 .. MaxAttempts]
    BY <2>1 DEF Init, Outcomes
  <2>6. /\ survey \in {"none", "running", "taken"} /\ cancelled \in BOOLEAN
        /\ twoPhase \in BOOLEAN
    BY DEF Init
  <2> QED
    BY <2>2, <2>3, <2>4, <2>5, <2>6 DEF RestOK
<1>4. CallsOK /\ StartOK
  BY DEF Init, CallsOK, StartOK, Idle
<1> QED
  BY <1>1, <1>2, <1>3, <1>4 DEF TInv

LEMMA TypedAlways == Spec => []TInv
<1>1. TInv /\ [Next]_vars => TInv'
  BY LocalsStep, QueueStep, RestStep, StartStep DEF TInv
<1> QED
  BY <1>1, InitTyped, PTL DEF Spec

\* Every variable of the executor keeps its type, and the queue of resumed awaits
\* holds exactly the nodes whose tool has settled.
THEOREM ExecutorTypeCorrect == Spec => []TypeOK
<1>1. TInv => TypeOK
  BY DEF TInv, LocalsOK, QueueOK, RestOK, TypeOK
<1> QED
  BY <1>1, TypedAlways, PTL

-----------------------------------------------------------------------------
\* Steps: before its first step a call has used none, and gather keeps the reserve.
GatherOK ==
  \A n \in Nodes :
    /\ job[n].at \in {"out", "survey", "routing"} => job[n].used = 0 /\ job[n].only = "all"
    /\ job[n].only = "read" => Remaining(n) >= Reserve(n)

\* The reserve is a part of the total and enough for every declared path.
LEMMA ReserveFits ==
  ASSUME NEW n \in Nodes
  PROVE  /\ Cardinality(Writes[n]) \in Nat /\ Reserve(n) \in Nat
         /\ Reserve(n) >= Cardinality(Writes[n]) + 1
         /\ job[n].used = 0 => Remaining(n) >= Reserve(n)
<1>1. Cardinality(Writes[n]) \in Nat
  BY ExecutorAssumption, FS_CardinalityType
<1> DEFINE w == Cardinality(Writes[n])
           total == TotalSteps(MaxSteps, w)
<1>2. total \in Nat /\ total >= 1 /\ total >= w + 1
  BY <1>1, ExecutorAssumption DEF TotalSteps, AtLeast
<1>3. (total + 2) \div 3 \in Nat /\ (total + 2) \div 3 <= total
  BY <1>2
<1>4. Reserve(n) \in Nat /\ Reserve(n) >= w + 1 /\ Reserve(n) <= total
  BY <1>1, <1>2, <1>3 DEF Reserve, ReservedSteps, AtLeast
<1>5. job[n].used = 0 => Remaining(n) = total
  BY <1>2 DEF Remaining, RemainingSteps
<1> QED
  BY <1>1, <1>2, <1>4, <1>5

\* One more step leaves one less.
LEMMA StepTakesOne ==
  ASSUME NEW n \in Nodes, job[n].used \in Nat, Remaining(n) > Reserve(n),
         job'[n].used = job[n].used + 1
  PROVE  Remaining(n)' >= Reserve(n)
<1> DEFINE total == TotalSteps(MaxSteps, Cardinality(Writes[n]))
<1>1. Cardinality(Writes[n]) \in Nat /\ Reserve(n) \in Nat
  BY ReserveFits
<1>2. total \in Nat
  BY <1>1, ExecutorAssumption DEF TotalSteps, AtLeast
<1>3. Remaining(n) = IF job[n].used > total THEN 0 ELSE total - job[n].used
  BY DEF Remaining, RemainingSteps
<1>4. Remaining(n)' = IF job'[n].used > total THEN 0 ELSE total - job'[n].used
  BY DEF Remaining, RemainingSteps
<1> QED
  BY <1>1, <1>2, <1>3, <1>4

LEMMA GatherStep ==
  ASSUME TInv, GatherOK, [Next]_vars
  PROVE  GatherOK'
<1> USE DEF TInv, LocalsOK
<1> DEFINE Fits(m) ==
      /\ job[m].at \in {"out", "survey", "routing"} => job[m].used = 0 /\ job[m].only = "all"
      /\ job[m].only = "read" => Remaining(m) >= Reserve(m)
<1>1. ASSUME NEW m \in Nodes, job'[m] = job[m]
      PROVE  Fits(m)'
  BY <1>1 DEF GatherOK, Remaining, Reserve
<1>2. ASSUME NEW m \in Nodes, job'[m].used = job[m].used, job'[m].only = job[m].only,
             job'[m].at \notin {"out", "survey", "routing"}
      PROVE  Fits(m)'
  BY <1>2 DEF GatherOK, Remaining, Reserve
<1>3. ASSUME NEW n \in Nodes, Ordinary(n)
      PROVE  Fits(n)'
  <2>1. CASE Ends(n) \/ Begins(n)
    <3>1. job'[n].used = 0 /\ job'[n].only = "all"
      BY <2>1, FreshBooks
    <3> QED
      BY <3>1
  <2>2. CASE Routed(n)
    <3>1. job[n].at = "routing" /\ job'[n].used = job[n].used /\ job'[n].at = "loop"
      BY <2>2 DEF Routed, At, Job
    <3>2. Remaining(n) >= Reserve(n) /\ UNCHANGED <<Remaining(n), Reserve(n)>>
      BY <3>1, ReserveFits DEF GatherOK, Remaining, Reserve
    <3> QED
      BY <3>1, <3>2
  <2>3. CASE StepsOn(n)
    <3>1. /\ job'[n].used = job[n].used + 1 /\ job'[n].only = job[n].only
          /\ job'[n].at = "chat" /\ MayStep(n) /\ job[n].used \in Nat
      BY <2>3 DEF StepsOn, Step, Job
    <3>2. job[n].only = "read" => Remaining(n)' >= Reserve(n)
      BY <3>1, StepTakesOne DEF MayStep
    <3> QED
      BY <3>1, <3>2 DEF Reserve
  <2>4. CASE Briefed(n)
    BY <2>4 DEF Briefed, Job
  <2>5. CASE GoesOn(n)
    BY <2>5, <1>2 DEF GoesOn, SameBooks
  <2>6. ASSUME NEW f \in Files, ReadAnswers(n, f)
        PROVE  Fits(n)'
    BY <2>6, <1>2, ToolBooks
  <2> HIDE DEF Fits
  <2> QED
    BY <1>3, <2>1, <2>2, <2>3, <2>4, <2>5, <2>6, OrdinaryBooks
<1> HIDE DEF Fits
<1>4. ASSUME NEW n \in Nodes, Ordinary(n)
      PROVE  \A m \in Nodes : Fits(m)'
  <2>1. \A m \in Nodes \ {n} : job'[m] = job[m]
    BY <1>4, OrdinaryIsQuiet DEF Quiet
  <2> QED
    BY <2>1, <1>1, <1>3, <1>4
<1>5. ASSUME NEW n \in Nodes, NEW f \in Files, ReadRuns(n, f) \/ WriteRuns(n, f)
      PROVE  \A m \in Nodes : Fits(m)'
  <2>1. \A m \in Nodes \ {n} : job'[m] = job[m]
    BY <1>5 DEF ReadRuns, WriteRuns
  <2>2. Fits(n)'
    BY <1>2, <1>5, ToolBooks DEF SameBooks
  <2> QED
    BY <2>1, <2>2, <1>1
<1>6. ASSUME NEW n \in Nodes, NEW f \in Files, CommandWrites(n, f)
      PROVE  \A m \in Nodes : Fits(m)'
  <2>1. \A m \in Nodes \ {n} : job'[m] = job[m]
    BY <1>6 DEF CommandWrites
  <2>2. job'[n].at = "command" /\ job'[n].used = job[n].used /\ job'[n].only = job[n].only
    BY <1>6 DEF CommandWrites, At, Job
  <2> QED
    BY <2>1, <2>2, <1>1, <1>2
<1>7. ASSUME NEW n \in Nodes, Resume(n)
      PROVE  \A m \in Nodes : Fits(m)'
  <2>1. \A m \in Nodes \ {n} : job'[m] = job[m]
    BY <1>7 DEF Resume
  <2> QED
    BY <2>1, <1>1, <1>2, <1>7, ToolBooks
<1>8. \A m \in Nodes : Fits(m)'
  BY <1>1, <1>4, <1>5, <1>6, <1>7, StepKinds DEF SurveyTaken, Cancel, vars
<1> QED
  BY <1>8 DEF GatherOK, Fits

\* However many steps gather takes, apply has one for every declared path and one to
\* finish (StepBudget's reserve).
THEOREM ApplyHasItsSteps == Spec => []ApplyCanWriteEverything
<1>1. Init => GatherOK
  BY DEF Init, GatherOK, Idle
<1>2. TInv /\ GatherOK /\ [Next]_vars => GatherOK'
  BY GatherStep
<1>3. TInv /\ GatherOK => ApplyCanWriteEverything
  <2>1. SUFFICES ASSUME TInv, GatherOK, NEW n \in Nodes, job[n].only = "read"
                 PROVE  Remaining(n) >= Cardinality(Writes[n]) + 1
    BY DEF ApplyCanWriteEverything
  <2>2. Remaining(n) \in Int
    <3>1. TotalSteps(MaxSteps, Cardinality(Writes[n])) \in Nat /\ job[n].used \in Nat
      BY <2>1, ReserveFits, ExecutorAssumption DEF TInv, LocalsOK, Job, TotalSteps, AtLeast
    <3> QED
      BY <3>1 DEF Remaining, RemainingSteps
  <2> QED
    BY <2>1, <2>2, ReserveFits DEF GatherOK
<1> QED
  BY <1>1, <1>2, <1>3, TypedAlways, PTL DEF Spec

-----------------------------------------------------------------------------
\* A step changes the locals of one call at most.
LEMMA OthersStay ==
  ASSUME TInv, NEW n \in Nodes,
         \/ Ordinary(n) \/ Resume(n)
         \/ \E f \in Files : ReadRuns(n, f) \/ WriteRuns(n, f) \/ CommandWrites(n, f)
  PROVE  \A m \in Nodes \ {n} : job'[m] = job[m]
<1> USE DEF TInv, LocalsOK
<1>1. ASSUME Ordinary(n)
      PROVE  \A m \in Nodes \ {n} : job'[m] = job[m]
  BY <1>1, OrdinaryIsQuiet DEF Quiet
<1>2. ASSUME Resume(n)
      PROVE  \A m \in Nodes \ {n} : job'[m] = job[m]
  BY <1>2 DEF Resume
<1>3. ASSUME NEW f \in Files, ReadRuns(n, f) \/ WriteRuns(n, f) \/ CommandWrites(n, f)
      PROVE  \A m \in Nodes \ {n} : job'[m] = job[m]
  BY <1>3 DEF ReadRuns, WriteRuns, CommandWrites
<1> QED
  BY <1>1, <1>2, <1>3

LEMMA OneCallMoves ==
  ASSUME TInv, [Next]_vars
  PROVE  \/ job' = job /\ (SurveyTaken \/ Cancel \/ UNCHANGED vars)
         \/ \E n \in Nodes :
              /\ \A m \in Nodes \ {n} : job'[m] = job[m]
              /\ \/ Ordinary(n) \/ Resume(n)
                 \/ \E f \in Files : ReadRuns(n, f) \/ WriteRuns(n, f) \/ CommandWrites(n, f)
<1>1. SurveyTaken \/ Cancel \/ UNCHANGED vars => job' = job
  BY DEF SurveyTaken, Cancel, vars
<1> QED
  BY <1>1, StepKinds, OthersStay

-----------------------------------------------------------------------------
\* Reads: the refusal comes before the read that would exceed the budget.
LEMMA ReadAllowed ==
  ASSUME TInv, NEW n \in Nodes \cap Required \cap CanWrite, NEW f \in Files, CanRead(n, f),
         Writes[n] # {}, job[n].written = {}
  PROVE  job[n].reads + 1 <= AtLeast(1, MaxReads)
<1>1. ~ReadsExhausted(MaxReads, job[n].reads)
  BY DEF CanRead, WriteOnlyNow, OwesAWrite
<1>2. job[n].reads \in Nat
  BY DEF TInv, LocalsOK, Job
<1> QED
  BY <1>1, <1>2, ExecutorAssumption DEF ReadsExhausted, AtLeast

LEMMA ReadingStep ==
  ASSUME TInv, ReadingIsForced, [Next]_vars
  PROVE  ReadingIsForced'
<1> DEFINE Forced(m) == Writes[m] # {} /\ job[m].written = {} =>
                          job[m].reads <= AtLeast(1, MaxReads)
<1>1. SUFFICES ASSUME NEW m \in Nodes \cap Required \cap CanWrite
               PROVE  Forced(m)'
  BY DEF ReadingIsForced
<1>2. ASSUME job'[m].reads = job[m].reads, job[m].written \subseteq job'[m].written
      PROVE  Forced(m)'
  BY <1>2 DEF ReadingIsForced
<1>3. CASE job'[m] = job[m]
  BY <1>2, <1>3
<1>4. ASSUME NEW f \in Files, CanRead(m, f), job'[m].reads = job[m].reads + 1,
             job'[m].written = job[m].written
      PROVE  Forced(m)'
  BY <1>4, ReadAllowed
<1>5. CASE Ordinary(m)
  <2>1. CASE Ends(m) \/ Begins(m)
    <3>1. job'[m].reads = 0
      BY <2>1, FreshBooks DEF TInv
    <3> QED
      BY <3>1, ExecutorAssumption DEF AtLeast
  <2>2. CASE Routed(m) \/ StepsOn(m) \/ Briefed(m)
    <3>1. job'[m].reads = job[m].reads /\ job'[m].written = job[m].written
      BY <2>2 DEF Routed, StepsOn, Step, Briefed, TInv, LocalsOK, Job
    <3> QED
      BY <1>2, <3>1
  <2>3. CASE GoesOn(m)
    BY <1>2, <2>3 DEF GoesOn, SameBooks
  <2>4. ASSUME NEW f \in Files, ReadAnswers(m, f)
        PROVE  Forced(m)'
    BY <1>4, <2>4, ToolBooks DEF ReadAnswers, TInv
  <2> HIDE DEF Forced
  <2> QED
    BY <1>5, <2>1, <2>2, <2>3, <2>4, OrdinaryBooks DEF TInv
<1>6. ASSUME NEW f \in Files, ReadRuns(m, f)
      PROVE  Forced(m)'
  BY <1>4, <1>6, ToolBooks DEF ReadRuns, TInv
<1>7. ASSUME NEW f \in Files, WriteRuns(m, f)
      PROVE  Forced(m)'
  BY <1>2, <1>7, ToolBooks DEF TInv, SameBooks
<1>8. ASSUME NEW f \in Files, CommandWrites(m, f)
      PROVE  Forced(m)'
  BY <1>2, <1>8 DEF CommandWrites, TInv, LocalsOK, Job
<1>9. CASE Resume(m)
  BY <1>2, <1>9, ToolBooks DEF TInv
<1> HIDE DEF Forced
<1> QED
  BY <1>3, <1>5, <1>6, <1>7, <1>8, <1>9, OneCallMoves

\* A node that owes a write and has made none is refused the read that would
\* exceed its budget, also within one reply.
THEOREM ReadsAreWithdrawn == Spec => []ReadingIsForced
<1>1. Init => ReadingIsForced
  BY ExecutorAssumption DEF Init, ReadingIsForced, Idle, AtLeast
<1>2. TInv /\ ReadingIsForced /\ [Next]_vars => ReadingIsForced'
  BY ReadingStep
<1> QED
  BY <1>1, <1>2, TypedAlways, PTL DEF Spec

-----------------------------------------------------------------------------
\* Stray files: since the checkpoint files only move on, and every file a command
\* wrote has; a call under way has no outcome; what is at its gates or beyond has
\* been found clean.
CheckpointHolds(m) ==
  /\ job[m].at \notin {"out", "survey"} =>
       \A f \in Files : /\ job[m].base[f] <= disk[f]
                        /\ f \in job[m].commanded => job[m].base[f] < disk[f]
  /\ job[m].at # "out" => outcome[m] = "none"
  /\ job[m].at = "gates" \/ outcome[m] \in Passing =>
       \A f \in job[m].commanded \cap Hashed : IsWritable(m, f)

CheckpointOK == \A m \in Nodes : CheckpointHolds(m)

\* What verify finds clean has every change of a hashed file inside the declaration.
LEMMA CleanIsWritable ==
  ASSUME NEW m \in Nodes, Clean(m), NEW f \in Hashed, disk[f] # job[m].base[f]
  PROVE  IsWritable(m, f)
<1>1. f \in Changed(m) /\ f \notin Large
  BY DEF Changed, Hashed
<1> QED
  BY <1>1 DEF Clean, Noticed, Strays

LEMMA DiskGrows ==
  ASSUME TInv, [Next]_vars, NEW f \in Files
  PROVE  disk[f] \in Nat /\ disk'[f] \in Nat /\ disk[f] <= disk'[f]
<1>1. disk[f] \in Nat /\ disk'[f] \in Nat
  BY RestStep, ExecutorAssumption DEF TInv, RestOK, Contents
<1>2. ASSUME NEW n \in Nodes, NEW g \in Files, WriteRuns(n, g) \/ CommandWrites(n, g)
      PROVE  disk[f] <= disk'[f]
  <2>1. disk' = [disk EXCEPT ![g] = disk[g] + 1]
    BY <1>2 DEF WriteRuns, CommandWrites
  <2> QED
    BY <1>1, <2>1 DEF TInv, RestOK
<1>3. CASE disk' = disk
  BY <1>1, <1>3
<1>4. ASSUME NEW n \in Nodes, Ordinary(n)
      PROVE  disk' = disk
  BY <1>4, OrdinaryIsQuiet DEF Quiet, workspace, TInv
<1> QED
  BY <1>1, <1>2, <1>3, <1>4, StepKinds DEF SurveyTaken, Cancel, vars, workspace, Resume, ReadRuns

\* A step gives an outcome to the call it moves only.
LEMMA OutcomeOfOne ==
  ASSUME TInv, NEW n \in Nodes, NEW m \in Nodes \ {n},
         \/ Ordinary(n) \/ Resume(n)
         \/ \E f \in Files : ReadRuns(n, f) \/ WriteRuns(n, f) \/ CommandWrites(n, f)
  PROVE  outcome'[m] = outcome[m]
<1>1. CASE Ends(n)
  BY <1>1 DEF Ends, End, TInv, RestOK
<1>2. CASE Begins(n)
  BY <1>2 DEF Begins, Start, SurveyArrives, TInv, RestOK
<1>3. CASE Routed(n) \/ StepsOn(n) \/ Briefed(n) \/ GoesOn(n)
  BY <1>3 DEF Routed, StepsOn, Step, Briefed, GoesOn
<1>4. ASSUME NEW f \in Files, ReadAnswers(n, f)
      PROVE  outcome'[m] = outcome[m]
  BY <1>4 DEF ReadAnswers
<1>5. CASE Ordinary(n)
  BY <1>1, <1>2, <1>3, <1>4, <1>5, OrdinaryBooks DEF TInv
<1>6. CASE \/ Resume(n)
           \/ \E f \in Files : ReadRuns(n, f) \/ WriteRuns(n, f) \/ CommandWrites(n, f)
  BY <1>6 DEF Resume, ReadRuns, WriteRuns, CommandWrites
<1> QED
  BY <1>5, <1>6

LEMMA CheckpointStep ==
  ASSUME TInv, CheckpointOK, [Next]_vars
  PROVE  CheckpointOK'
<1>1. SUFFICES ASSUME NEW m \in Nodes
               PROVE  CheckpointHolds(m)'
  BY DEF CheckpointOK
<1>2. /\ CheckpointHolds(m)
      /\ job[m].base \in [Files -> Contents] /\ job[m].commanded \subseteq Files
      /\ \A f \in Files : job[m].base[f] \in Nat
  BY ExecutorAssumption DEF CheckpointOK, TInv, LocalsOK, Job, Contents
<1>3. \A f \in Files : disk[f] \in Nat /\ disk'[f] \in Nat /\ disk[f] <= disk'[f]
  BY DiskGrows
<1>4. ASSUME job'[m].base = job[m].base, job'[m].commanded = job[m].commanded,
             outcome'[m] = outcome[m], job[m].at \notin {"out", "survey"},
             job'[m].at = "gates" => job[m].at = "gates" \/ Clean(m)
      PROVE  CheckpointHolds(m)'
  <2>1. \A f \in Files : /\ job'[m].base[f] <= disk'[f]
                         /\ f \in job'[m].commanded => job'[m].base[f] < disk'[f]
    BY <1>2, <1>3, <1>4 DEF CheckpointHolds
  <2>2. outcome'[m] = "none"
    BY <1>2, <1>4 DEF CheckpointHolds
  <2>3. job'[m].at = "gates" => \A f \in job'[m].commanded \cap Hashed : IsWritable(m, f)
    <3>1. \A f \in job[m].commanded : disk[f] # job[m].base[f]
      BY <1>2, <1>3, <1>4 DEF CheckpointHolds
    <3> QED
      BY <1>2, <1>4, <3>1, CleanIsWritable DEF CheckpointHolds
  <2> QED
    BY <2>1, <2>2, <2>3 DEF CheckpointHolds, Passing, IsWritable, Meets
<1>5. ASSUME job'[m] = job[m], outcome'[m] = outcome[m]
      PROVE  CheckpointHolds(m)'
  <2>1. \A f \in Files : disk'[f] \in Nat /\ disk[f] <= disk'[f]
    BY <1>3
  <2> QED
    BY <1>2, <1>3, <1>5 DEF CheckpointHolds, IsWritable, Meets
<1>6. CASE Ends(m)
  <2>1. PICK how \in Outcomes :
          /\ End(m, how)
          /\ how \in Passing =>
               At(m, "gates") \/ (Clean(m) /\ job[m].at \notin {"out", "survey", "routing"})
    BY <1>6 DEF Ends
  <2>2. job'[m].at = "out" /\ job'[m].commanded = job[m].commanded
    BY <1>6, FreshBooks DEF TInv
  <2>3. outcome'[m] = how
    BY <2>1 DEF End, TInv, RestOK
  <2>4. how \in Passing => \A f \in job[m].commanded \cap Hashed : IsWritable(m, f)
    <3>1. job[m].at \notin {"out", "survey", "routing"} =>
            \A f \in job[m].commanded : disk[f] # job[m].base[f]
      BY <1>2, <1>3 DEF CheckpointHolds
    <3> QED
      BY <1>2, <2>1, <3>1, CleanIsWritable DEF CheckpointHolds, At
  <2>5. outcome'[m] \in Passing => \A f \in job'[m].commanded \cap Hashed : IsWritable(m, f)
    BY <2>2, <2>3, <2>4
  <2> QED
    BY <2>2, <2>5 DEF CheckpointHolds, IsWritable, Meets
<1>7. CASE Begins(m) /\ ~Ends(m)
  <2>1. /\ job'[m].commanded = {}
        /\ job'[m].at = "survey" \/ (job'[m].at = "routing" /\ job'[m].base = disk)
    BY <1>7, FreshBooks DEF TInv
  <2>2. outcome'[m] = "none"
    BY <1>2, <1>7 DEF Begins, Start, SurveyArrives, CheckpointHolds, At, TInv, RestOK
  <2> QED
    BY <1>3, <2>1, <2>2 DEF CheckpointHolds, Passing
<1>8. CASE Routed(m) \/ StepsOn(m) \/ Briefed(m)
  <2>1. /\ job'[m].base = job[m].base /\ job'[m].commanded = job[m].commanded
        /\ job[m].at \notin {"out", "survey"} /\ job'[m].at # "gates"
    BY <1>8 DEF Routed, StepsOn, Step, Briefed, BriefCollected, At, TInv, LocalsOK, Job
  <2>2. outcome' = outcome
    BY <1>8 DEF Routed, StepsOn, Step, Briefed
  <2> QED
    BY <1>4, <2>1, <2>2
<1>9. CASE GoesOn(m)
  BY <1>4, <1>9 DEF GoesOn, SameBooks
<1>10. ASSUME NEW f \in Files, ReadAnswers(m, f)
       PROVE  CheckpointHolds(m)'
  BY <1>4, <1>10, ToolBooks DEF ReadAnswers, CanRead, CanCall, At, TInv
<1>11. CASE Ordinary(m)
  BY <1>6, <1>7, <1>8, <1>9, <1>10, <1>11, OrdinaryBooks DEF TInv
<1>12. ASSUME NEW f \in Files, ReadRuns(m, f)
       PROVE  CheckpointHolds(m)'
  BY <1>4, <1>12, ToolBooks DEF ReadRuns, CanRead, CanCall, At, TInv
<1>13. ASSUME NEW f \in Files, WriteRuns(m, f)
       PROVE  CheckpointHolds(m)'
  BY <1>4, <1>13, ToolBooks DEF WriteRuns, SameBooks, CanCall, At, TInv
<1>14. CASE Resume(m)
  <2>1. job[m].at = "settled"
    BY <1>14 DEF Resume, TInv, QueueOK, At
  <2> QED
    BY <1>4, <1>14, <2>1, ToolBooks DEF Resume, TInv
<1>15. ASSUME NEW f \in Files, CommandWrites(m, f)
       PROVE  CheckpointHolds(m)'
  <2>1. /\ job'[m].at = "command" /\ job[m].at = "command" /\ job'[m].base = job[m].base
        /\ job'[m].commanded = job[m].commanded \cup {f}
    BY <1>15 DEF CommandWrites, At, TInv, LocalsOK, Job
  <2>2. disk'[f] = disk[f] + 1 /\ outcome' = outcome
    BY <1>15 DEF CommandWrites, TInv, RestOK
  <2>3. outcome'[m] = "none"
    BY <1>2, <2>1, <2>2 DEF CheckpointHolds
  <2>4. \A g \in Files : /\ job'[m].base[g] <= disk'[g]
                         /\ g \in job'[m].commanded => job'[m].base[g] < disk'[g]
    BY <1>2, <1>3, <2>1, <2>2 DEF CheckpointHolds
  <2> QED
    BY <2>1, <2>3, <2>4 DEF CheckpointHolds, Passing
<1>16. CASE SurveyTaken \/ Cancel \/ UNCHANGED vars
  BY <1>5, <1>16 DEF SurveyTaken, Cancel, vars
<1>17. ASSUME NEW n \in Nodes, n # m, job'[m] = job[m],
              \/ Ordinary(n) \/ Resume(n)
              \/ \E f \in Files : ReadRuns(n, f) \/ WriteRuns(n, f) \/ CommandWrites(n, f)
       PROVE  CheckpointHolds(m)'
  BY <1>5, <1>17, OutcomeOfOne
<1> QED
  BY <1>11, <1>12, <1>13, <1>14, <1>15, <1>16, <1>17, OneCallMoves

LEMMA CheckpointAlways == Spec => []CheckpointOK
<1>1. Init => CheckpointOK
  BY DEF Init, CheckpointOK, CheckpointHolds, Idle, Passing
<1>2. TInv /\ CheckpointOK /\ [Next]_vars => CheckpointOK'
  BY CheckpointStep
<1> QED
  BY <1>1, <1>2, TypedAlways, PTL DEF Spec

\* What a command changed outside its node's declaration is found before the gates,
\* whatever the other nodes do meanwhile, if it is among the files that verify
\* hashes: ignored, unreadable and large files are not (checkpoint.ts, hashTree).
THEOREM StraysAreFound == Spec => []StrayFilesFail
<1>1. CheckpointOK => StrayFilesFail
  BY DEF CheckpointOK, CheckpointHolds, StrayFilesFail, Passing, At
<1> QED
  BY <1>1, CheckpointAlways, PTL

-----------------------------------------------------------------------------
\* Freshness: what epochs do to keys.
LEMMA RegisterKeepsEpochs ==
  ASSUME NEW e, NEW rs, NEW r
  PROVE  /\ EpochOf(Register(e, rs), r) = EpochOf(e, r)
         /\ DOMAIN Register(e, rs) = DOMAIN e \cup rs
BY DEF EpochOf, Register

LEMMA BumpMovesEpochs ==
  ASSUME NEW e, \A r \in DOMAIN e : e[r] \in Nat, NEW w, NEW r
  PROVE  /\ EpochOf(e, r) \in Nat /\ EpochOf(e, r) <= EpochOf(Bump(e, w), r)
         /\ r \in DOMAIN e /\ Meets(w, r) => EpochOf(e, r) < EpochOf(Bump(e, w), r)
         /\ DOMAIN e \subseteq DOMAIN Bump(e, w)
<1>1. EpochOf(e, r) \in Nat
  BY DEF EpochOf
<1>2. DOMAIN Bump(e, w) = DOMAIN e \cup BumpSet(e, w)
  BY DEF Bump
<1>3. r \in BumpSet(e, w) => EpochOf(Bump(e, w), r) = EpochOf(e, r) + 1
  BY <1>2 DEF Bump, EpochOf
<1>4. r \notin BumpSet(e, w) => EpochOf(Bump(e, w), r) = EpochOf(e, r)
  BY <1>2 DEF Bump, EpochOf
<1>5. r \in DOMAIN e /\ Meets(w, r) => r \in BumpSet(e, w)
  BY DEF BumpSet
<1> QED
  BY <1>1, <1>2, <1>3, <1>4, <1>5

LEMMA KeyParts ==
  ASSUME NEW e, NEW f, NEW rs
  PROVE  /\ Key(e, f, rs).file = f /\ DOMAIN Key(e, f, rs).at = rs
         /\ \A r \in rs : Key(e, f, rs).at[r] = EpochOf(e, r)
BY DEF Key

\* A key is of now when no resource in it has moved on; it covers its file when one of
\* them overlaps it.
OfNow(k) == \A r \in DOMAIN k.at : k.at[r] = EpochOf(epochs, r)
Covered(k) == Meets(DOMAIN k.at, k.file)

\* Resources in keys have rows, keys are of now or of the past, and what a covered key of
\* now finds is no older than what was announced.
KeyHolds(k) ==
  /\ k.file \in Files /\ DOMAIN k.at \subseteq DOMAIN epochs /\ DOMAIN k.at \subseteq Resources
  /\ \A r \in DOMAIN k.at : k.at[r] \in Nat /\ k.at[r] <= EpochOf(epochs, r)
  /\ OfNow(k) /\ Covered(k) => cache[k] >= announced[k.file]

\* Results in the queue lie between what was announced and what is on disk, and a
\* result behind a write of the same file is no older than that write.
QueueFresh ==
  /\ \A f \in Files : announced[f] <= disk[f]
  /\ \A i \in DOMAIN settled :
       LET a == job[settled[i]] IN announced[a.file] <= a.got /\ a.got <= disk[a.file]
  /\ \A i, j \in DOMAIN settled :
       LET a == job[settled[i]]
           b == job[settled[j]]
       IN i < j /\ a.tool = "write" /\ a.file = b.file => a.got <= b.got

CacheOK == QueueFresh /\ \A k \in DOMAIN cache : KeyHolds(k)

LEMMA KeysStay ==
  ASSUME CacheOK, UNCHANGED <<epochs, cache, announced>>
  PROVE  \A k \in DOMAIN cache' : KeyHolds(k)'
BY DEF CacheOK, KeyHolds, OfNow, Covered, EpochOf, Meets

\* The queue under a step that leaves it alone.
LEMMA QueueStays ==
  ASSUME TInv, [Next]_vars, QueueFresh, UNCHANGED <<settled, announced>>,
         \A i \in DOMAIN settled : /\ job'[settled[i]].tool = job[settled[i]].tool
                                   /\ job'[settled[i]].file = job[settled[i]].file
                                   /\ job'[settled[i]].got = job[settled[i]].got
  PROVE  QueueFresh'
<1>1. \A f \in Files : announced[f] \in Nat /\ disk[f] \in Nat /\ disk'[f] \in Nat /\ disk[f] <= disk'[f]
  BY DiskGrows, ExecutorAssumption DEF TInv, RestOK, Contents
<1>2. \A i \in DOMAIN settled : job[settled[i]].file \in Files /\ job[settled[i]].got \in Nat
  BY ExecutorAssumption DEF TInv, QueueOK, LocalsOK, Job, Contents
<1>3. \A f \in Files : announced'[f] <= disk'[f]
  BY <1>1 DEF QueueFresh
<1>4. ASSUME NEW i \in DOMAIN settled'
      PROVE  LET a == job'[settled'[i]] IN announced'[a.file] <= a.got /\ a.got <= disk'[a.file]
  <2>1. /\ announced[job[settled[i]].file] <= job[settled[i]].got
        /\ job[settled[i]].got <= disk[job[settled[i]].file]
    BY DEF QueueFresh
  <2>2. /\ job'[settled'[i]].file = job[settled[i]].file
        /\ job'[settled'[i]].got = job[settled[i]].got
    OBVIOUS
  <2> QED
    BY <1>1, <1>2, <2>1, <2>2
<1>5. \A i, j \in DOMAIN settled' :
        LET a == job'[settled'[i]]
            b == job'[settled'[j]]
        IN i < j /\ a.tool = "write" /\ a.file = b.file => a.got <= b.got
  BY DEF QueueFresh
<1> QED
  BY <1>3, <1>4, <1>5 DEF QueueFresh

\* A result goes to the end of the queue with what is on disk.
LEMMA QueueTakes ==
  ASSUME TInv, [Next]_vars, QueueFresh, UNCHANGED announced, NEW n \in Nodes,
         \A m \in Nodes \ {n} : job'[m] = job[m],
         ~At(n, "settled"), settled' = Append(settled, n),
         job'[n].file \in Files, job'[n].got = disk'[job'[n].file]
  PROVE  QueueFresh'
<1>1. \A f \in Files : announced[f] \in Nat /\ disk[f] \in Nat /\ disk'[f] \in Nat /\ disk[f] <= disk'[f]
  BY DiskGrows, ExecutorAssumption DEF TInv, RestOK, Contents
<1>2. \A i \in DOMAIN settled : /\ settled[i] \in Nodes \ {n}
                                /\ job[settled[i]].file \in Files /\ job[settled[i]].got \in Nat
  <2>1. \A i \in DOMAIN settled : settled[i] \in Nodes /\ At(settled[i], "settled")
    BY DEF TInv, QueueOK
  <2>2. \A i \in DOMAIN settled : settled[i] # n
    BY <2>1
  <2>3. ASSUME NEW m \in Nodes
        PROVE  job[m].file \in Files /\ job[m].got \in Nat
    <3>1. job[m] \in Job
      BY DEF TInv, LocalsOK
    <3>2. job[m].file \in Files /\ job[m].got \in 0 .. MaxVersion
      BY <3>1 DEF Job, Contents
    <3> QED
      BY <3>2
  <2> QED
    BY <2>1, <2>2, <2>3
<1>3. DOMAIN settled = 1 .. Len(settled) /\ Len(settled) \in Nat
  BY LenProperties DEF TInv, QueueOK
<1>4. /\ DOMAIN settled' = 1 .. Len(settled) + 1 /\ settled'[Len(settled) + 1] = n
      /\ \A i \in DOMAIN settled : settled'[i] = settled[i]
  BY <1>3 DEF TInv, QueueOK
<1>5. \A i \in DOMAIN settled' : i \in DOMAIN settled \/ i = Len(settled) + 1
  BY <1>3, <1>4
<1>6. \A i \in DOMAIN settled : job'[settled'[i]] = job[settled[i]]
  BY <1>2, <1>4
<1>7. \A f \in Files : announced'[f] <= disk'[f]
  BY <1>1 DEF QueueFresh
<1>8. ASSUME NEW i \in DOMAIN settled'
      PROVE  LET a == job'[settled'[i]] IN announced'[a.file] <= a.got /\ a.got <= disk'[a.file]
  <2>1. CASE i \in DOMAIN settled
    BY <1>1, <1>2, <1>6, <2>1 DEF QueueFresh
  <2>2. CASE i = Len(settled) + 1
    BY <1>1, <1>4, <1>7, <2>2
  <2> QED
    BY <1>5, <2>1, <2>2
<1>9. ASSUME NEW i \in DOMAIN settled', NEW j \in DOMAIN settled', i < j
      PROVE  LET a == job'[settled'[i]]
                 b == job'[settled'[j]]
             IN a.tool = "write" /\ a.file = b.file => a.got <= b.got
  <2>1. i \in DOMAIN settled
    BY <1>3, <1>4, <1>9
  <2>2. CASE j \in DOMAIN settled
    BY <1>6, <1>9, <2>1, <2>2 DEF QueueFresh
  <2>3. CASE j = Len(settled) + 1
    <3>1. job'[settled'[j]].got = disk'[job'[settled'[j]].file]
      BY <1>4, <2>3
    <3> QED
      BY <1>8, <3>1
  <2> QED
    BY <1>5, <2>2, <2>3
<1> QED
  BY <1>7, <1>8, <1>9 DEF QueueFresh

\* The head of the queue resumes: what it announces is no newer than what follows.
LEMMA QueueGives ==
  ASSUME TInv, QueueFresh, NEW n \in Nodes, Resume(n)
  PROVE  QueueFresh'
<1>1. /\ DOMAIN settled = 1 .. Len(settled) /\ Len(settled) \in Nat \ {0}
      /\ settled # <<>> /\ settled[1] = n
  BY LenProperties, EmptySeq DEF TInv, QueueOK, Resume
<1>2. /\ DOMAIN settled' = 1 .. Len(settled) - 1
      /\ \A i \in DOMAIN settled' : settled'[i] = settled[i + 1]
  BY <1>1, HeadTailProperties DEF TInv, QueueOK, Resume
<1>3. \A i \in DOMAIN settled' : /\ i \in Nat /\ i + 1 \in DOMAIN settled /\ i + 1 # 1 /\ 1 < i + 1
                                 /\ 1 \in DOMAIN settled
  BY <1>1, <1>2
<1>4. \A i \in DOMAIN settled' : settled'[i] = settled[i + 1] /\ settled[i + 1] \in Nodes \ {n}
  BY <1>1, <1>2, <1>3 DEF TInv, QueueOK
<1>5. \A m \in Nodes \ {n} : job'[m] = job[m]
  BY DEF Resume, TInv, LocalsOK
<1>6. \A i \in DOMAIN settled' : job'[settled'[i]] = job[settled[i + 1]]
  BY <1>4, <1>5
<1>7. /\ \A f \in Files : announced[f] \in Nat /\ disk[f] \in Nat
      /\ job[n].file \in Files /\ job[n].got \in Nat
  BY ExecutorAssumption DEF TInv, RestOK, LocalsOK, Job, Contents
<1>8. disk' = disk
  BY DEF Resume
<1>9. ASSUME NEW i \in DOMAIN settled', NEW j \in DOMAIN settled', i < j
      PROVE  LET a == job'[settled'[i]]
                 b == job'[settled'[j]]
             IN a.tool = "write" /\ a.file = b.file => a.got <= b.got
  <2>1. i + 1 < j + 1
    BY <1>3, <1>9
  <2> QED
    BY <1>3, <1>6, <2>1 DEF QueueFresh
<1>10. CASE job[n].tool = "read"
  <2>1. announced' = announced
    BY <1>10 DEF Resume
  <2> QED
    BY <1>3, <1>6, <1>8, <1>9, <2>1 DEF QueueFresh
<1>11. CASE job[n].tool = "write"
  <2>1. announced' = [announced EXCEPT ![job[n].file] = job[n].got]
    BY <1>11 DEF Resume
  <2>2. \A f \in Files : announced'[f] = IF f = job[n].file THEN job[n].got ELSE announced[f]
    BY <2>1 DEF TInv, RestOK
  <2>3. announced[job[n].file] <= job[n].got /\ job[n].got <= disk[job[n].file]
    BY <1>1 DEF QueueFresh
  <2>4. \A f \in Files : announced'[f] <= disk'[f]
    BY <1>8, <2>2, <2>3 DEF QueueFresh
  <2>5. ASSUME NEW i \in DOMAIN settled'
        PROVE  LET a == job'[settled'[i]]
               IN announced'[a.file] <= a.got /\ a.got <= disk'[a.file]
    <3>1. job[settled[i + 1]].file \in Files
      BY <1>4 DEF TInv, LocalsOK, Job
    <3>2. /\ announced[job[settled[i + 1]].file] <= job[settled[i + 1]].got
          /\ job[settled[i + 1]].got <= disk[job[settled[i + 1]].file]
      BY <1>3 DEF QueueFresh
    <3>3. job[settled[i + 1]].file = job[n].file => job[n].got <= job[settled[i + 1]].got
      BY <1>1, <1>3, <1>11 DEF QueueFresh
    <3> QED
      BY <1>6, <1>8, <2>2, <3>1, <3>2, <3>3
  <2> QED
    BY <1>9, <2>4, <2>5 DEF QueueFresh
<1> QED
  BY <1>10, <1>11 DEF Resume

LEMMA QueueFreshStep ==
  ASSUME TInv, QueueFresh, [Next]_vars
  PROVE  QueueFresh'
<1>1. \A i \in DOMAIN settled : settled[i] \in Nodes /\ At(settled[i], "settled")
  BY DEF TInv, QueueOK
<1>2. CASE SurveyTaken \/ Cancel \/ UNCHANGED vars
  BY <1>2, QueueStays DEF SurveyTaken, Cancel, vars, workspace
<1>3. ASSUME NEW n \in Nodes, Ordinary(n)
      PROVE  QueueFresh'
  <2>1. Quiet(n)
    BY <1>3, OrdinaryIsQuiet DEF TInv
  <2>2. \A i \in DOMAIN settled : job'[settled[i]] = job[settled[i]]
    BY <1>1, <2>1 DEF Quiet, At, TInv, LocalsOK
  <2> QED
    BY <2>1, <2>2, QueueStays DEF Quiet, workspace
<1>4. ASSUME NEW n \in Nodes, NEW f \in Files, CommandWrites(n, f)
      PROVE  QueueFresh'
  <2>1. \A m \in Nodes : /\ job'[m].tool = job[m].tool /\ job'[m].file = job[m].file
                         /\ job'[m].got = job[m].got
    BY <1>4 DEF CommandWrites, TInv, LocalsOK, Job
  <2> QED
    BY <1>1, <1>4, <2>1, QueueStays DEF CommandWrites
<1>5. ASSUME NEW n \in Nodes, NEW f \in Files, ReadRuns(n, f) \/ WriteRuns(n, f)
      PROVE  QueueFresh'
  <2>1. /\ UNCHANGED announced /\ ~At(n, "settled") /\ settled' = Append(settled, n)
        /\ \A m \in Nodes \ {n} : job'[m] = job[m]
    BY <1>5 DEF ReadRuns, WriteRuns, CanRead, CanCall, At, TInv, LocalsOK
  <2>2. CASE ReadRuns(n, f)
    <3>1. job'[n].file = f /\ job'[n].got = disk[f] /\ disk' = disk
      BY <2>2 DEF ReadRuns, TInv, LocalsOK, Job
    <3> QED
      BY <2>1, <3>1, QueueTakes
  <2>3. CASE WriteRuns(n, f)
    <3>1. job'[n].file = f /\ job'[n].got = disk[f] + 1 /\ disk'[f] = disk[f] + 1
      BY <2>3 DEF WriteRuns, TInv, LocalsOK, RestOK, Job
    <3> QED
      BY <2>1, <3>1, QueueTakes
  <2> QED
    BY <1>5, <2>2, <2>3
<1>6. ASSUME NEW n \in Nodes, Resume(n)
      PROVE  QueueFresh'
  BY <1>6, QueueGives
<1> QED
  BY <1>2, <1>3, <1>4, <1>5, <1>6, StepKinds

\* A read that resumes is stored under a key of now, with contents no older than what
\* was announced; other keys keep what they find.
LEMMA ReadIsStored ==
  ASSUME TInv, CacheOK, NEW n \in Nodes, Resume(n), job[n].tool = "read"
  PROVE  \A k \in DOMAIN cache' : KeyHolds(k)'
<1> SUFFICES ASSUME NEW key, key = Key(epochs, job[n].file, Reads[n])
             PROVE  \A k \in DOMAIN cache' : KeyHolds(k)'
  OBVIOUS
<1>1. /\ cache' = Store(cache, key, job[n].got) /\ epochs' = Register(epochs, Reads[n])
      /\ announced' = announced
  BY DEF Resume
<1>2. /\ \A r : EpochOf(epochs', r) = EpochOf(epochs, r)
      /\ DOMAIN epochs' = DOMAIN epochs \cup Reads[n]
  BY <1>1, RegisterKeepsEpochs
<1>3. /\ DOMAIN cache' = DOMAIN cache \cup {key} /\ cache'[key] = job[n].got
      /\ \A k \in DOMAIN cache : k # key => cache'[k] = cache[k]
  BY <1>1 DEF Store
<1>4. /\ key.file = job[n].file /\ DOMAIN key.at = Reads[n]
      /\ \A r \in Reads[n] : key.at[r] = EpochOf(epochs, r)
  BY KeyParts
<1>5. /\ job[n].file \in Files /\ Reads[n] \subseteq Resources
      /\ \A r : EpochOf(epochs, r) \in Nat
  BY ExecutorAssumption DEF TInv, LocalsOK, Job, RestOK, EpochOf
<1>6. announced[job[n].file] <= job[n].got
  <2>1. settled # <<>> /\ 1 \in DOMAIN settled /\ settled[1] = n
    BY LenProperties, EmptySeq DEF TInv, QueueOK, Resume
  <2> QED
    BY <2>1 DEF CacheOK, QueueFresh
<1>7. KeyHolds(key)'
  <2>1. cache'[key] >= announced'[key.file]
    <3>1. job[n].got \in Int /\ announced[job[n].file] \in Int
      BY <1>5, ExecutorAssumption DEF TInv, LocalsOK, Job, RestOK, Contents
    <3> QED
      BY <1>1, <1>3, <1>4, <1>6, <3>1
  <2>2. \A r \in DOMAIN key.at : key.at[r] \in Nat /\ key.at[r] <= EpochOf(epochs', r)
    BY <1>2, <1>4, <1>5
  <2> QED
    BY <1>2, <1>4, <1>5, <2>1, <2>2 DEF KeyHolds
<1>8. ASSUME NEW k \in DOMAIN cache, k # key
      PROVE  KeyHolds(k)'
  <2>1. KeyHolds(k)
    BY DEF CacheOK
  <2>2. OfNow(k)' => OfNow(k)
    BY <1>2 DEF OfNow
  <2>3. Covered(k)' <=> Covered(k)
    BY DEF Covered, Meets
  <2>4. \A r \in DOMAIN k.at : k.at[r] \in Nat /\ k.at[r] <= EpochOf(epochs', r)
    BY <1>2, <2>1 DEF KeyHolds
  <2> QED
    BY <1>1, <1>2, <1>3, <1>8, <2>1, <2>2, <2>3, <2>4 DEF KeyHolds
<1> QED
  BY <1>3, <1>7, <1>8

\* A write that is announced moves on every covered key of its file.
LEMMA WriteIsAnnounced ==
  ASSUME TInv, CacheOK, NEW n \in Nodes, Resume(n), job[n].tool = "write"
  PROVE  \A k \in DOMAIN cache' : KeyHolds(k)'
<1> DEFINE f == job[n].file
<1>1. /\ cache' = cache /\ epochs' = Bump(epochs, {f})
      /\ announced' = [announced EXCEPT ![f] = job[n].got]
  BY DEF Resume
<1>2. \A g \in Files : g # f => announced'[g] = announced[g]
  BY <1>1 DEF TInv, RestOK
<1>3. \A r \in DOMAIN epochs : epochs[r] \in Nat
  BY DEF TInv, RestOK
<1>4. /\ \A r : /\ EpochOf(epochs, r) \in Nat /\ EpochOf(epochs', r) \in Nat
                /\ EpochOf(epochs, r) <= EpochOf(epochs', r)
                /\ r \in DOMAIN epochs /\ Meets({f}, r) => EpochOf(epochs, r) < EpochOf(epochs', r)
      /\ DOMAIN epochs \subseteq DOMAIN epochs'
  <2>1. ASSUME NEW r
        PROVE  /\ EpochOf(epochs, r) \in Nat /\ EpochOf(epochs', r) \in Nat
               /\ EpochOf(epochs, r) <= EpochOf(epochs', r)
               /\ r \in DOMAIN epochs /\ Meets({f}, r) => EpochOf(epochs, r) < EpochOf(epochs', r)
    <3>1. EpochOf(epochs', r) \in Nat
      <4>1. \A s \in DOMAIN epochs' : epochs'[s] \in Nat
        BY <1>1, <1>3 DEF Bump, BumpSet, EpochOf
      <4> QED
        BY <4>1 DEF EpochOf
    <3> QED
      BY <1>1, <1>3, <3>1, BumpMovesEpochs
  <2>2. DOMAIN epochs \subseteq DOMAIN epochs'
    BY <1>1 DEF Bump
  <2> QED
    BY <2>1, <2>2
<1> HIDE DEF f
<1>5. SUFFICES ASSUME NEW k \in DOMAIN cache
               PROVE  KeyHolds(k)'
  BY <1>1
<1>6. KeyHolds(k)
  BY DEF CacheOK
<1>7. \A r \in DOMAIN k.at : k.at[r] \in Nat /\ k.at[r] <= EpochOf(epochs', r)
  BY <1>4, <1>6 DEF KeyHolds
<1>8. OfNow(k)' => \A r \in DOMAIN k.at : EpochOf(epochs, r) = EpochOf(epochs', r)
  BY <1>4, <1>6 DEF KeyHolds, OfNow
<1>9. OfNow(k)' => OfNow(k)
  BY <1>8 DEF OfNow
<1>10. Covered(k)' <=> Covered(k)
  BY DEF Covered, Meets
<1>11. OfNow(k)' /\ Covered(k) => k.file # f
  <2>1. SUFFICES ASSUME OfNow(k)', Covered(k), k.file = f
                 PROVE  FALSE
    OBVIOUS
  <2>2. PICK r \in DOMAIN k.at : <<r, k.file>> \in Overlap
    BY <2>1 DEF Covered, Meets
  <2>3. r \in DOMAIN epochs /\ r \in Resources /\ k.file \in Resources
    BY <1>6, <2>2, NamesAssumption DEF KeyHolds
  <2>4. Meets({f}, r)
    BY <2>1, <2>2, <2>3, NamesAssumption DEF Meets
  <2> QED
    BY <1>4, <1>8, <2>1, <2>2, <2>3, <2>4
<1> QED
  BY <1>1, <1>2, <1>4, <1>6, <1>7, <1>9, <1>10, <1>11 DEF KeyHolds

LEMMA CacheStep ==
  ASSUME TInv, CacheOK, [Next]_vars
  PROVE  CacheOK'
<1>1. QueueFresh'
  BY QueueFreshStep DEF CacheOK
<1>2. UNCHANGED <<epochs, cache, announced>> \/ \E n \in Nodes : Resume(n)
  <2>1. ASSUME NEW n \in Nodes, Ordinary(n)
        PROVE  UNCHANGED <<epochs, cache, announced>>
    BY <2>1, OrdinaryIsQuiet DEF Quiet, workspace, TInv
  <2> QED
    BY <2>1, StepKinds
    DEF SurveyTaken, Cancel, vars, workspace, ReadRuns, WriteRuns, CommandWrites
<1>3. \A k \in DOMAIN cache' : KeyHolds(k)'
  BY <1>2, KeysStay, ReadIsStored, WriteIsAnnounced DEF Resume
<1> QED
  BY <1>1, <1>3 DEF CacheOK

\* Whoever wrote, and although readers and writers overlap: a read of a file inside the
\* node's declared reads is never served contents older than the last write that was
\* told of.
THEOREM CacheIsNeverBehind == Spec => []CacheKnowsBumps
<1>1. Init => CacheOK
  <2>1. SUFFICES ASSUME Init
                 PROVE  CacheOK
    OBVIOUS
  <2>2. DOMAIN settled = {} /\ DOMAIN cache = {}
    BY <2>1 DEF Init
  <2>3. \A f \in Files : announced[f] <= disk[f]
    BY <2>1 DEF Init
  <2> QED
    BY <2>2, <2>3 DEF CacheOK, QueueFresh
<1>2. TInv /\ CacheOK /\ [Next]_vars => CacheOK'
  BY CacheStep
<1>3. CacheOK => CacheKnowsBumps
  <2>1. SUFFICES ASSUME CacheOK, NEW n \in Nodes, NEW f \in Files, Meets(Reads[n], f),
                        Has(cache, Key(epochs, f, Reads[n]))
                 PROVE  cache[Key(epochs, f, Reads[n])] >= announced[f]
    BY DEF CacheKnowsBumps
  <2> DEFINE key == Key(epochs, f, Reads[n])
  <2>2. KeyHolds(key)
    BY <2>1 DEF CacheOK, Has
  <2>3. OfNow(key) /\ Covered(key) /\ key.file = f
    BY <2>1, KeyParts DEF OfNow, Covered
  <2> HIDE DEF key
  <2>4. cache[key] >= announced[f]
    BY <2>2, <2>3 DEF KeyHolds
  <2> QED
    BY <2>4 DEF key
<1> QED
  BY <1>1, <1>2, <1>3, TypedAlways, PTL DEF Spec
-----------------------------------------------------------------------------
\* The survey: as long as it is not taken, whoever is past waiting for it declared no
\* source, and so has written none.

SurveyOK ==
  survey # "taken" =>
    /\ \A n \in Nodes :
         /\ job[n].at \notin {"out", "survey"} => ~NeedsGates(n)
         /\ At(n, "settled") /\ job[n].tool = "write" => job[n].file \notin Source
    /\ \A f \in Files \cap Source : announced[f] = 0

LEMMA NoNoteIsSource ==
  ASSUME NotesMeetNoSource, NEW n \in Nodes, ~NeedsGates(n), NEW f \in Files, IsWritable(n, f)
  PROVE  f \notin Source
BY ExecutorAssumption DEF NotesMeetNoSource, NeedsGates, IsWritable, Meets

\* A call that neither begins nor ends was under way.
LEMMA UnderWay ==
  ASSUME TInv, NEW n \in Nodes, Ordinary(n), ~Begins(n), ~Ends(n)
  PROVE  job[n].at \notin {"out", "survey"}
<1>1. CASE Routed(n)
  BY <1>1 DEF Routed, At
<1>2. CASE StepsOn(n)
  BY <1>2 DEF StepsOn, Step, At
<1>3. CASE Briefed(n)
  BY <1>3 DEF Briefed, BriefCollected, At
<1>4. CASE GoesOn(n)
  BY <1>4 DEF GoesOn
<1>5. ASSUME NEW f \in Files, ReadAnswers(n, f)
      PROVE  job[n].at \notin {"out", "survey"}
  BY <1>5 DEF ReadAnswers, CanRead, CanCall, At
<1> QED
  BY <1>1, <1>2, <1>3, <1>4, <1>5, OrdinaryBooks DEF TInv

\* Only a call that begins asks for the survey, only the survey takes it, and only the
\* human cancels.
LEMMA AdvanceKeeps ==
  ASSUME NEW n \in Nodes, Advance(n)
  PROVE  survey' = survey /\ cancelled' = cancelled
<1>1. CASE SurveyArrives(n) \/ Routed(n) \/ RoutingFails(n) \/ StepsRunOut(n) \/ StepThrows(n)
  BY <1>1 DEF SurveyArrives, Routed, RoutingFails, StepsRunOut, StepThrows
<1>2. CASE Step(n) \/ ReplyFails(n) \/ BriefFails(n) \/ GatesEnd(n) \/ Resume(n)
  BY <1>2 DEF Step, ReplyFails, BriefFails, GatesEnd, Resume
<1>3. ASSUME NEW c \in Costs, \/ ReplyCalls(n, c) \/ ReplyTruncated(n, c)
                              \/ ReplyFinishes(n, c) \/ BriefCollected(n, c)
      PROVE  survey' = survey /\ cancelled' = cancelled
  BY <1>3 DEF ReplyCalls, ReplyTruncated, ReplyFinishes, BriefCollected
<1>4. CASE CallComesToNothing(n) \/ CommandRuns(n) \/ CommandExits(n) \/ ReplyDone(n)
  BY <1>4 DEF CallComesToNothing, CommandRuns, CommandExits, ReplyDone
<1>5. ASSUME NEW f \in Files, \/ ReadAnswers(n, f) \/ ReadRuns(n, f)
                              \/ WriteRuns(n, f) \/ WriteStrays(n, f)
      PROVE  survey' = survey /\ cancelled' = cancelled
  BY <1>5 DEF ReadAnswers, ReadRuns, WriteRuns, WriteStrays
<1> QED
  BY <1>1, <1>2, <1>3, <1>4, <1>5 DEF Advance

LEMMA SurveyMoves ==
  ASSUME TInv, [Next]_vars, survey' # "taken"
  PROVE  survey # "taken"
BY AdvanceKeeps DEF Next, vars, SurveyTaken, Cancel, Start, CommandWrites

LEMMA SurveyStep ==
  ASSUME NotesMeetNoSource, TInv, SurveyOK, [Next]_vars
  PROVE  SurveyOK'
<1>1. SUFFICES ASSUME survey' # "taken"
               PROVE  SurveyOK'
  BY DEF SurveyOK
<1>2. survey # "taken"
  BY <1>1, SurveyMoves
<1> DEFINE Holds(n) == /\ job[n].at \notin {"out", "survey"} => ~NeedsGates(n)
                       /\ At(n, "settled") /\ job[n].tool = "write" => job[n].file \notin Source
           Untouched == \A f \in Files \cap Source : announced[f] = 0
<1>3. Untouched /\ \A n \in Nodes : Holds(n)
  BY <1>2 DEF SurveyOK
<1>4. ASSUME NEW n \in Nodes, job'[n] = job[n]
      PROVE  Holds(n)'
  BY <1>3, <1>4 DEF At, NeedsGates
<1>5. ASSUME NEW n \in Nodes, Ordinary(n)
      PROVE  Holds(n)' /\ Untouched'
  <2>1. announced' = announced /\ job'[n].at # "settled"
    BY <1>5, OrdinaryIsQuiet DEF TInv, Quiet, workspace
  <2>2. job'[n].at \notin {"out", "survey"} => ~NeedsGates(n)
    <3>1. CASE Ends(n)
      BY <3>1, FreshBooks DEF TInv
    <3>2. CASE Begins(n)
      <4>1. CASE SurveyArrives(n)
        BY <1>2, <4>1 DEF SurveyArrives
      <4>2. CASE Start(n)
        <5>1. CASE StartsAtOnce(n)
          BY <1>2, <5>1 DEF StartsAtOnce
        <5>2. CASE ~StartsAtOnce(n)
          BY <4>2, <5>2 DEF Start, TInv, LocalsOK, Idle
        <5> QED
          BY <5>1, <5>2
      <4> QED
        BY <3>2, <4>1, <4>2 DEF Begins
    <3>3. CASE ~Ends(n) /\ ~Begins(n)
      BY <1>3, <1>5, <3>3, UnderWay
    <3> QED
      BY <3>1, <3>2, <3>3
  <2> QED
    BY <1>3, <2>1, <2>2 DEF At, NeedsGates
<1>6. ASSUME NEW n \in Nodes, NEW f \in Files, ReadRuns(n, f) \/ WriteRuns(n, f)
      PROVE  Holds(n)' /\ Untouched'
  <2>1. job[n].at = "calls" /\ announced' = announced
    BY <1>6 DEF ReadRuns, CanRead, WriteRuns, CanCall, At
  <2>2. ~NeedsGates(n)
    BY <1>3, <2>1
  <2>3. CASE ReadRuns(n, f)
    <3>1. job'[n].tool = "read"
      BY <2>3 DEF ReadRuns, TInv, LocalsOK, Job
    <3> QED
      BY <1>3, <2>1, <2>2, <3>1 DEF NeedsGates
  <2>4. CASE WriteRuns(n, f)
    <3>1. job'[n].file = f /\ IsWritable(n, f)
      BY <2>4 DEF WriteRuns, TInv, LocalsOK, Job
    <3> QED
      BY <1>3, <2>1, <2>2, <3>1, NoNoteIsSource DEF NeedsGates
  <2> QED
    BY <1>6, <2>3, <2>4
<1>7. ASSUME NEW n \in Nodes, NEW f \in Files, CommandWrites(n, f)
      PROVE  Holds(n)' /\ Untouched'
  <2>1. /\ job'[n].at = job[n].at /\ job'[n].tool = job[n].tool /\ job'[n].file = job[n].file
        /\ announced' = announced
    BY <1>7 DEF CommandWrites, TInv, LocalsOK, Job
  <2> QED
    BY <1>3, <2>1 DEF At, NeedsGates
<1>8. ASSUME NEW n \in Nodes, Resume(n)
      PROVE  Holds(n)' /\ Untouched'
  <2>1. settled # <<>> /\ 1 \in DOMAIN settled /\ settled[1] = n
    BY <1>8, LenProperties, EmptySeq DEF TInv, QueueOK, Resume
  <2>2. At(n, "settled")
    BY <2>1 DEF TInv, QueueOK
  <2>3. ~NeedsGates(n) /\ (job[n].tool = "write" => job[n].file \notin Source)
    BY <1>3, <2>2 DEF At
  <2>4. Untouched'
    BY <1>3, <1>8, <2>3 DEF Resume, TInv, RestOK
  <2>5. job'[n].at = "calls"
    BY <1>8, ToolBooks DEF TInv
  <2> QED
    BY <2>3, <2>4, <2>5 DEF At, NeedsGates
<1>9. CASE job' = job /\ (SurveyTaken \/ Cancel \/ UNCHANGED vars)
  <2>1. announced' = announced
    BY <1>9 DEF SurveyTaken, Cancel, vars, workspace
  <2> QED
    BY <1>3, <1>4, <1>9, <2>1 DEF SurveyOK
<1> HIDE DEF Holds, Untouched
<1>10. Untouched' /\ (\A n \in Nodes : Holds(n)') => SurveyOK'
  BY DEF Holds, Untouched, SurveyOK
<1> QED
  BY <1>4, <1>5, <1>6, <1>7, <1>8, <1>9, <1>10, OneCallMoves

\* Whichever nodes come first: no source file is written through the tools before the
\* survey of the gates is taken, provided that notes meet no source.
THEOREM SurveyComesFirst ==
  ASSUME NotesMeetNoSource
  PROVE  Spec => []SurveyIsPristine
<1>1. Init => SurveyOK
  BY DEF Init, SurveyOK, Idle, At
<1>2. TInv /\ SurveyOK /\ [Next]_vars => SurveyOK'
  BY SurveyStep
<1>3. SurveyOK => SurveyIsPristine
  BY DEF SurveyOK, SurveyIsPristine
<1> QED
  BY <1>1, <1>2, <1>3, TypedAlways, PTL DEF Spec

-----------------------------------------------------------------------------
\* What a call does between its start and its gates is a step of NodeExecutor.
LEMMA ProgressIsAdvance ==
  ASSUME NEW n \in Nodes, Progress(n)
  PROVE  Advance(n)
<1>1. CASE RoutedTold(n) \/ StepTold(n) \/ ReplyTold(n)
  BY <1>1 DEF RoutedTold, StepTold, ReplyTold, Advance
<1>2. CASE CallTold(n)
  BY <1>2 DEF CallTold, Advance
<1>3. CASE ResultTold(n)
  BY <1>3 DEF ResultTold, Advance
<1>4. ASSUME NEW c \in Costs, BriefTold(n, c) \/ TruncatedTold(n, c)
      PROVE  Advance(n)
  BY <1>4 DEF BriefTold, TruncatedTold, Advance
<1>5. ASSUME NEW c \in Costs, NEW k \in 1 .. MaxCalls, CallsTold(n, c, k)
      PROVE  Advance(n)
  BY <1>5 DEF CallsTold, Advance
<1>6. CASE Silent(n)
  BY <1>6 DEF Silent, Advance
<1> QED
  BY <1>1, <1>2, <1>3, <1>4, <1>5, <1>6 DEF Progress

LEMMA JudgedIsGatesEnd ==
  ASSUME NEW n \in Nodes, Judged(n)
  PROVE  GatesEnd(n)
<1>1. /\ At(n, "gates")
      /\ UNCHANGED <<workspace, spending, survey, cancelled, twoPhase, attempts>>
  BY DEF Judged
<1>2. End(n, "ok") \/ End(n, "gates") \/ (cancelled /\ End(n, "unchecked"))
  BY DEF Judged
<1> QED
  BY <1>1, <1>2 DEF GatesEnd

\* Every step of the calls with their conversations and their gates is one of the calls.
LEMMA GateStepIsStep == [GateNext]_gateVars => [Next]_vars
<1> SUFFICES ASSUME [GateNext]_gateVars
             PROVE  [Next]_vars
  OBVIOUS
<1>1. CASE UNCHANGED gateVars
  BY <1>1 DEF gateVars, allVars
<1>2. CASE (SurveyTaken \/ Cancel) /\ UNCHANGED <<talkVars, vector>>
  BY <1>2 DEF Next
<1>3. ASSUME NEW n \in Nodes, GateProgress(n)
      PROVE  [Next]_vars
  <2>1. CASE Progress(n)
    BY <2>1, ProgressIsAdvance DEF Next
  <2>2. CASE GateRan(n)
    BY <2>2 DEF GateRan, allVars
  <2>3. CASE Judged(n)
    BY <2>3, JudgedIsGatesEnd DEF Next, Advance
  <2> QED
    BY <1>3, <2>1, <2>2, <2>3 DEF GateProgress
<1>4. ASSUME NEW n \in Nodes, Started(n)
      PROVE  [Next]_vars
  BY <1>4 DEF Started, Next
<1>5. ASSUME NEW n \in Nodes, NEW f \in Files, CommandWrites(n, f)
      PROVE  [Next]_vars
  BY <1>5 DEF Next
<1> QED
  BY <1>1, <1>2, <1>3, <1>4, <1>5 DEF GateNext

\* Every step of a run of the calls with their conversations and their gates is a step
\* of NodeExecutor or leaves it alone: what is proved of the one holds of the other.
THEOREM GatesImplementExecutor == GateSpec => Spec
<1>1. GateInit => Init
  BY DEF GateInit, TalkInit
<1> QED
  BY <1>1, GateStepIsStep, PTL DEF GateSpec, Spec

-----------------------------------------------------------------------------
(* The gates' verdict.  What a node wrote is inside its declaration, its     *)
(* vector grows only at the gates, a gate after the other, and whether the   *)
(* node passed is what the vector says.                                      *)

WritesOK(n) ==
  /\ \A f \in job[n].written : IsWritable(n, f)
  /\ At(n, "settled") /\ job[n].tool = "write" => IsWritable(n, job[n].file)

GateNames == STRING \cup {"secrets"}
ResultsOf(gate) == [gate : {gate}, passed : BOOLEAN, lines : SUBSET Lines]
VectorOK(n) ==
  /\ vector[n] # <<>> => job[n].at \in {"gates", "out"}
  /\ vector[n] \in Seq(UNION {ResultsOf(gate) : gate \in GateNames})
  /\ Len(vector[n]) <= Len(Selected(n))
  /\ \A i \in DOMAIN vector[n] : vector[n][i].gate = Selected(n)[i]

PassOK(n) ==
  /\ outcome[n] \in {"ok", "unchecked"} =>
       /\ Passes(n)
       /\ outcome[n] = "ok" /\ job[n].written # {} => Len(vector[n]) = Len(Selected(n))
       /\ outcome[n] = "unchecked" => cancelled
  /\ outcome[n] = "gates" => ~Passes(n)

GateOK == DOMAIN vector = Nodes /\ \A n \in Nodes : WritesOK(n) /\ VectorOK(n) /\ PassOK(n)

LEMMA OneIsSeq ==
  ASSUME NEW S, NEW e \in S
  PROVE  <<e>> \in Seq(S)
OBVIOUS

LEMMA SelectedGates ==
  ASSUME NEW n \in Nodes
  PROVE  Selected(n) \in Seq(GateNames) /\ Len(Selected(n)) \in Nat
<1>1. <<"secrets">> \in Seq(GateNames)
  BY OneIsSeq DEF GateNames
<1>2. Scripts \in Seq(GateNames)
  BY GatesAssumption DEF GateNames
<1>3. <<"secrets">> \o Scripts \in Seq(GateNames)
  BY <1>1, <1>2, ConcatProperties
<1>4. Selected(n) \in Seq(GateNames)
  BY <1>1, <1>3 DEF Selected
<1> QED
  BY <1>4, LenProperties

\* Up to its gates a call ends well only if it had nothing to write.
LEMMA EndsBeforeGates ==
  ASSUME TInv, NEW n \in Nodes, Progress(n)
  PROVE  /\ job[n].at \notin {"out", "gates"}
         /\ \/ outcome' = outcome
            \/ \E how \in Outcomes : /\ outcome' = [outcome EXCEPT ![n] = how]
                                     /\ how \notin {"unchecked", "gates"}
                                     /\ how = "ok" => Writes[n] = {}
<1> DEFINE Goal == \/ outcome' = outcome
                   \/ \E how \in Outcomes : /\ outcome' = [outcome EXCEPT ![n] = how]
                                            /\ how \notin {"unchecked", "gates"}
                                            /\ how = "ok" => Writes[n] = {}
<1>1. ASSUME NEW how \in Outcomes \ {"ok", "unchecked", "gates"}, End(n, how)
      PROVE  Goal
  BY <1>1 DEF End
<1>2. ASSUME LeaveLoop(n)
      PROVE  Goal
  BY <1>1, <1>2 DEF LeaveLoop, Conclude, End, Outcomes
<1> HIDE DEF Goal
<1>3. ASSUME RoutedTold(n) \/ ReplyTold(n)
      PROVE  job[n].at \notin {"out", "gates"} /\ Goal
  BY <1>3 DEF RoutedTold, Routed, ReplyTold, ReplyDone, At, Goal
<1>4. ASSUME StepTold(n)
      PROVE  job[n].at \notin {"out", "gates"} /\ Goal
  BY <1>1, <1>4 DEF StepTold, Step, At, Outcomes, Goal
<1>5. ASSUME CallTold(n)
      PROVE  job[n].at \notin {"out", "gates"} /\ Goal
  <2>1. job[n].at = "calls"
    BY <1>5 DEF CallTold, At
  <2>2. \/ CallComesToNothing(n) \/ CommandRuns(n)
        \/ \E f \in Files : \/ ReadAnswers(n, f) \/ ReadRuns(n, f) \/ WriteRuns(n, f)
                           \/ WriteStrays(n, f)
    BY <1>5 DEF CallTold
  <2>3. ASSUME NEW f \in Files, WriteStrays(n, f)
        PROVE  Goal
    <3>1. End(n, "stray_call") /\ "stray_call" \in Outcomes \ {"ok", "unchecked", "gates"}
      BY <2>3 DEF WriteStrays, Outcomes
    <3> QED
      BY <1>1, <3>1
  <2>4. ASSUME NEW f \in Files, ReadAnswers(n, f) \/ ReadRuns(n, f) \/ WriteRuns(n, f)
        PROVE  Goal
    BY <2>4 DEF ReadAnswers, ReadRuns, WriteRuns, Goal
  <2>5. CASE CallComesToNothing(n) \/ CommandRuns(n)
    <3>1. outcome' = outcome
      BY <2>5 DEF CallComesToNothing, CommandRuns
    <3> QED
      BY <2>1, <3>1 DEF Goal
  <2> QED
    BY <2>1, <2>2, <2>3, <2>4, <2>5
<1>6. ASSUME ResultTold(n)
      PROVE  job[n].at \notin {"out", "gates"} /\ Goal
  <2>1. CASE Resume(n)
    <3>1. settled # <<>> /\ 1 \in DOMAIN settled /\ settled[1] = n
      BY <2>1, LenProperties, EmptySeq DEF TInv, QueueOK, Resume
    <3>2. At(n, "settled")
      BY <3>1 DEF TInv, QueueOK
    <3> QED
      BY <2>1, <3>2 DEF Resume, At, Goal
  <2>2. CASE CommandExits(n)
    BY <2>2 DEF CommandExits, At, Goal
  <2> QED
    BY <1>6, <2>1, <2>2 DEF ResultTold
<1>7. ASSUME NEW c \in Costs, BriefTold(n, c) \/ TruncatedTold(n, c)
      PROVE  job[n].at \notin {"out", "gates"} /\ Goal
  <2>1. CASE BriefTold(n, c)
    <3>1. At(n, "brief") /\ (outcome' = outcome \/ End(n, "contract"))
      BY <2>1 DEF BriefTold, BriefCollected
    <3> QED
      BY <1>1, <3>1 DEF At, Outcomes, Goal
  <2>2. CASE TruncatedTold(n, c)
    BY <2>2 DEF TruncatedTold, ReplyTruncated, At, Goal
  <2> QED
    BY <1>7, <2>1, <2>2
<1>8. ASSUME NEW c \in Costs, NEW k \in 1 .. MaxCalls, CallsTold(n, c, k)
      PROVE  job[n].at \notin {"out", "gates"} /\ Goal
  BY <1>8 DEF CallsTold, ReplyCalls, At, Goal
<1>9. ASSUME Silent(n)
      PROVE  job[n].at \notin {"out", "gates"} /\ Goal
  <2>1. CASE SurveyArrives(n) \/ RoutingFails(n) \/ StepThrows(n) \/ ReplyFails(n) \/ BriefFails(n)
    BY <1>1, <2>1
    DEF SurveyArrives, RoutingFails, StepThrows, ReplyFails, BriefFails, At, Outcomes, Goal
  <2>2. CASE StepsRunOut(n)
    BY <1>2, <2>2 DEF StepsRunOut, At
  <2>3. ASSUME NEW c \in Costs, ReplyFinishes(n, c)
        PROVE  job[n].at \notin {"out", "gates"} /\ Goal
    BY <1>2, <2>3 DEF ReplyFinishes, At
  <2> QED
    BY <1>9, <2>1, <2>2, <2>3 DEF Silent
<1> QED
  BY <1>3, <1>4, <1>5, <1>6, <1>7, <1>8, <1>9 DEF Progress, Goal

\* What a node notes as written it was allowed to write.
LEMMA WritesStep ==
  ASSUME TInv, \A n \in Nodes : WritesOK(n), [Next]_vars
  PROVE  \A n \in Nodes : WritesOK(n)'
<1> SUFFICES ASSUME NEW m \in Nodes
             PROVE  WritesOK(m)'
  OBVIOUS
<1>1. WritesOK(m)
  OBVIOUS
<1>2. CASE job'[m] = job[m]
  BY <1>1, <1>2 DEF WritesOK, At, IsWritable
<1>3. ASSUME job'[m].at # "settled", job'[m].written \subseteq job[m].written
      PROVE  WritesOK(m)'
  BY <1>1, <1>3 DEF WritesOK, At, IsWritable
<1>4. CASE Ordinary(m)
  <2>1. job'[m].at # "settled"
    BY <1>4, OrdinaryIsQuiet DEF TInv, Quiet
  <2>2. job'[m].written \subseteq job[m].written
    <3>1. CASE Ends(m) \/ Begins(m)
      BY <3>1, FreshBooks DEF TInv
    <3>2. CASE Routed(m) \/ StepsOn(m) \/ Briefed(m)
      BY <3>2 DEF Routed, StepsOn, Step, Briefed, TInv, LocalsOK, Job
    <3>3. CASE GoesOn(m)
      BY <3>3 DEF GoesOn, SameBooks
    <3>4. ASSUME NEW f \in Files, ReadAnswers(m, f)
          PROVE  job'[m].written \subseteq job[m].written
      BY <3>4, ToolBooks DEF TInv
    <3> QED
      BY <1>4, <3>1, <3>2, <3>3, <3>4, OrdinaryBooks DEF TInv
  <2> QED
    BY <1>3, <2>1, <2>2
<1>5. ASSUME NEW f \in Files, ReadRuns(m, f)
      PROVE  WritesOK(m)'
  <2>1. job'[m].tool = "read" /\ job'[m].written = job[m].written
    BY <1>5 DEF ReadRuns, TInv, LocalsOK, Job
  <2> QED
    BY <1>1, <2>1 DEF WritesOK, IsWritable
<1>6. ASSUME NEW f \in Files, WriteRuns(m, f)
      PROVE  WritesOK(m)'
  <2>1. job'[m].file = f /\ job'[m].written = job[m].written /\ IsWritable(m, f)
    BY <1>6 DEF WriteRuns, TInv, LocalsOK, Job
  <2> QED
    BY <1>1, <2>1 DEF WritesOK, IsWritable
<1>7. ASSUME NEW f \in Files, CommandWrites(m, f)
      PROVE  WritesOK(m)'
  <2>1. /\ job'[m].at = job[m].at /\ job'[m].tool = job[m].tool /\ job'[m].file = job[m].file
        /\ job'[m].written = job[m].written
    BY <1>7 DEF CommandWrites, TInv, LocalsOK, Job
  <2> QED
    BY <1>1, <2>1 DEF WritesOK, At, IsWritable
<1>8. CASE Resume(m)
  <2>1. settled # <<>> /\ 1 \in DOMAIN settled /\ settled[1] = m
    BY <1>8, LenProperties, EmptySeq DEF TInv, QueueOK, Resume
  <2>2. At(m, "settled")
    BY <2>1 DEF TInv, QueueOK
  <2>3. Called(m).written = job[m].written
    BY DEF Called, TInv, LocalsOK, Job
  <2>4. CASE job[m].tool = "read"
    <3>1. job'[m] = Called(m)
      BY <1>8, <2>4 DEF Resume, TInv, LocalsOK
    <3>2. job'[m].at = "calls"
      BY <1>8, ToolBooks DEF TInv
    <3> QED
      BY <1>3, <2>3, <3>1, <3>2
  <2>5. CASE job[m].tool = "write"
    <3>1. job'[m] = [Called(m) EXCEPT !.written = @ \cup {job[m].file}]
      BY <1>8, <2>5 DEF Resume, TInv, LocalsOK
    <3>2. job'[m].written \subseteq job[m].written \cup {job[m].file}
      BY <2>3, <3>1
    <3>3. job'[m].at = "calls"
      BY <1>8, ToolBooks DEF TInv
    <3> QED
      BY <1>1, <2>2, <2>5, <3>2, <3>3 DEF WritesOK, At, IsWritable
  <2> QED
    BY <1>8, <2>4, <2>5 DEF Resume
<1> QED
  BY <1>2, <1>4, <1>5, <1>6, <1>7, <1>8, OneCallMoves

\* The verdict of other nodes, and of this one while nothing of it changes.
LEMMA VerdictStays ==
  ASSUME NEW m \in Nodes, VectorOK(m), PassOK(m), vector'[m] = vector[m],
         job'[m].at = job[m].at, job'[m].written = job[m].written,
         outcome'[m] = outcome[m], cancelled => cancelled'
  PROVE  VectorOK(m)' /\ PassOK(m)'
<1>1. Selected(m)' = Selected(m) /\ Passes(m)' = Passes(m)
  BY DEF Selected, Passes, Accepted, NeedsGates, Unchanged
<1> QED
  BY <1>1 DEF VectorOK, PassOK

\* A call under way whose gates have not begun has no vector.
LEMMA VerdictWaits ==
  ASSUME NEW n \in Nodes, vector'[n] = <<>>,
         outcome'[n] \notin {"unchecked", "gates"}, outcome'[n] = "ok" => job'[n].written = {}
  PROVE  VectorOK(n)' /\ PassOK(n)'
<1>1. Len(<<>>) = 0 /\ DOMAIN <<>> = {} /\ \A S : <<>> \in Seq(S)
  BY EmptySeq
<1>2. Passes(n)'
  BY <1>1 DEF Passes
<1>3. Len(Selected(n)') \in Nat
  BY SelectedGates
<1> QED
  BY <1>1, <1>2, <1>3 DEF VectorOK, PassOK

LEMMA AppendedAt ==
  ASSUME NEW S, NEW q \in Seq(S), NEW e \in S
  PROVE  /\ Append(q, e) \in Seq(S) /\ Len(Append(q, e)) = Len(q) + 1
         /\ \A i \in DOMAIN Append(q, e) :
              \/ i \in DOMAIN q /\ Append(q, e)[i] = q[i]
              \/ i = Len(q) + 1 /\ Append(q, e)[i] = e
<1>1. /\ Append(q, e) \in Seq(S) /\ Len(Append(q, e)) = Len(q) + 1
      /\ \A i \in 1 .. Len(q) : Append(q, e)[i] = q[i]
      /\ Append(q, e)[Len(q) + 1] = e
  BY AppendProperties
<1>2. DOMAIN Append(q, e) = 1 .. Len(q) + 1 /\ DOMAIN q = 1 .. Len(q) /\ Len(q) \in Nat
  BY <1>1, LenProperties
<1>3. \A i \in 1 .. Len(q) + 1 : i \in 1 .. Len(q) \/ i = Len(q) + 1
  BY <1>2
<1> DEFINE r == Append(q, e)
<1>4. \A i \in 1 .. Len(q) : r[i] = q[i]
  BY <1>1
<1> HIDE DEF r
<1>5. ASSUME NEW i \in DOMAIN r
      PROVE  \/ i \in DOMAIN q /\ r[i] = q[i]
             \/ i = Len(q) + 1 /\ r[i] = e
  <2>1. i \in 1 .. Len(q) \/ i = Len(q) + 1
    BY <1>2, <1>3, <1>5 DEF r
  <2>2. CASE i \in 1 .. Len(q)
    <3>1. i \in DOMAIN q
      BY <1>2, <2>2
    <3>2. r[i] = q[i]
      BY <1>4, <2>2
    <3> QED
      BY <3>1, <3>2
  <2>3. CASE i = Len(q) + 1
    BY <1>1, <2>3 DEF r
  <2> QED
    BY <2>1, <2>2, <2>3
<1> QED
  BY <1>1, <1>5 DEF r

LEMMA VerdictsAreResults ==
  ASSUME NEW gate, NEW result \in Verdicts(gate)
  PROVE  result \in ResultsOf(gate)
<1>1. CASE result = Result(gate, TRUE, {})
  BY <1>1 DEF Result, ResultsOf
<1>2. ASSUME NEW l \in SUBSET Lines, result = Result(gate, FALSE, l)
      PROVE  result \in ResultsOf(gate)
  BY <1>2 DEF Result, ResultsOf
<1> QED
  BY <1>1, <1>2 DEF Verdicts

LEMMA GateRanStep ==
  ASSUME TInv, CheckpointOK, GateOK, NEW n \in Nodes, GateRan(n)
  PROVE  VectorOK(n)' /\ PassOK(n)'
<1>1. /\ At(n, "gates") /\ Len(vector[n]) < Len(Selected(n)) /\ UNCHANGED allVars
  BY DEF GateRan
<1>2. PICK result \in Verdicts(Selected(n)[Len(vector[n]) + 1]) :
        vector' = [vector EXCEPT ![n] = Append(vector[n], result)]
  BY DEF GateRan
<1> DEFINE old == vector[n]
           S == UNION {ResultsOf(gate) : gate \in GateNames}
<1>3. old \in Seq(S) /\ Len(old) \in Nat
  BY LenProperties DEF GateOK, VectorOK
<1>4. Selected(n) \in Seq(GateNames) /\ Len(Selected(n)) \in Nat
  BY SelectedGates
<1>5. Selected(n)[Len(old) + 1] \in GateNames
  <2>1. Len(old) + 1 \in 1 .. Len(Selected(n))
    BY <1>1, <1>3, <1>4
  <2> QED
    BY <1>4, <2>1, ElementOfSeq
<1>6. result.gate = Selected(n)[Len(old) + 1] /\ result \in S
  <2>1. result \in ResultsOf(Selected(n)[Len(old) + 1])
    BY <1>2, VerdictsAreResults
  <2> QED
    BY <1>5, <2>1 DEF ResultsOf
<1>7. vector'[n] = Append(old, result)
  BY <1>2 DEF GateOK
<1> HIDE DEF old, S
<1>8. /\ vector'[n] \in Seq(S) /\ Len(vector'[n]) = Len(old) + 1
      /\ \A i \in DOMAIN vector'[n] :
           \/ i \in DOMAIN old /\ vector'[n][i] = old[i]
           \/ i = Len(old) + 1 /\ vector'[n][i] = result
  BY <1>3, <1>6, <1>7, AppendedAt
<1>9. \A i \in DOMAIN vector'[n] : vector'[n][i].gate = Selected(n)[i]
  BY <1>6, <1>8 DEF GateOK, VectorOK, old
<1>10. Selected(n)' = Selected(n)
  BY <1>1 DEF allVars, vars, Selected
<1>11. job'[n] = job[n] /\ outcome'[n] = "none"
  BY <1>1 DEF allVars, vars, CheckpointOK, CheckpointHolds, At
<1> QED
  BY <1>1, <1>3, <1>4, <1>8, <1>9, <1>10, <1>11 DEF VectorOK, PassOK, At, S, old

LEMMA JudgedStep ==
  ASSUME TInv, GateOK, NEW n \in Nodes, Judged(n)
  PROVE  VectorOK(n)' /\ PassOK(n)'
<1> DEFINE how == IF ~Passes(n) THEN "gates"
                  ELSE IF Len(vector[n]) = Len(Selected(n)) THEN "ok" ELSE "unchecked"
<1>1. /\ cancelled \/ Len(vector[n]) = Len(Selected(n))
      /\ UNCHANGED <<vector, cancelled>> /\ End(n, how)
  BY DEF Judged
<1>2. job'[n] = Idle(job[n].written, job[n].commanded) /\ outcome'[n] = how
  BY <1>1 DEF End, TInv, LocalsOK, RestOK
<1> HIDE DEF how
<1>3. job'[n].at = "out" /\ job'[n].written = job[n].written
  BY <1>2 DEF Idle
<1>4. Selected(n)' = Selected(n) /\ Passes(n)' = Passes(n)
  BY <1>1, <1>3 DEF Selected, Passes, Accepted, NeedsGates, Unchanged
<1>5. VectorOK(n)'
  BY <1>1, <1>3, <1>4 DEF GateOK, VectorOK
<1>6. PassOK(n)'
  BY <1>1, <1>2, <1>4 DEF PassOK, how
<1> QED
  BY <1>5, <1>6

\* What a call does up to its gates leaves it without a vector.
LEMMA ProgressStep ==
  ASSUME TInv, CheckpointOK, GateOK, NEW n \in Nodes, Progress(n), UNCHANGED vector,
         WritesOK(n)'
  PROVE  VectorOK(n)' /\ PassOK(n)'
<1>1. job[n].at \notin {"out", "gates"}
  BY EndsBeforeGates
<1>2. vector'[n] = <<>> /\ outcome[n] = "none"
  BY <1>1 DEF GateOK, VectorOK, CheckpointOK, CheckpointHolds
<1>3. /\ outcome'[n] \notin {"unchecked", "gates"}
      /\ outcome'[n] = "ok" => Writes[n] = {}
  <2>1. DOMAIN outcome = Nodes
    BY DEF TInv, RestOK
  <2> QED
    BY <1>2, <2>1, EndsBeforeGates
<1>4. Writes[n] = {} => job'[n].written = {}
  BY DEF WritesOK, IsWritable, Meets
<1> QED
  BY <1>2, <1>3, <1>4, VerdictWaits

LEMMA GateStep ==
  ASSUME TInv, CheckpointOK, GateOK, [GateNext]_gateVars
  PROVE  GateOK'
<1> DEFINE Kept == \A m \in Nodes : VectorOK(m)' /\ PassOK(m)'
<1>1. [Next]_vars
  BY GateStepIsStep
<1>2. \A n \in Nodes : WritesOK(n)'
  BY <1>1, WritesStep DEF GateOK
<1>3. DOMAIN vector' = Nodes
  BY DEF GateOK, GateNext, gateVars, GateProgress, GateRan, Judged, Started
<1>4. ASSUME UNCHANGED <<vector, job, outcome>>, cancelled => cancelled'
      PROVE  Kept
  BY <1>4, VerdictStays DEF GateOK
<1>5. ASSUME NEW n \in Nodes, \/ Ordinary(n) \/ Resume(n)
                              \/ \E f \in Files : \/ ReadRuns(n, f) \/ WriteRuns(n, f)
                                                 \/ CommandWrites(n, f),
             \A m \in Nodes \ {n} : vector'[m] = vector[m], cancelled' = cancelled,
             VectorOK(n)' /\ PassOK(n)'
      PROVE  Kept
  <2>1. \A m \in Nodes \ {n} : job'[m] = job[m] /\ outcome'[m] = outcome[m]
    <3>1. \A m \in Nodes \ {n} : outcome'[m] = outcome[m]
      BY <1>5, OutcomeOfOne
    <3>2. \A m \in Nodes \ {n} : job'[m] = job[m]
      BY <1>5, OthersStay
    <3> QED
      BY <3>1, <3>2
  <2> QED
    BY <1>5, <2>1, VerdictStays DEF GateOK
<1>6. ASSUME UNCHANGED gateVars
      PROVE  Kept
  <2>1. UNCHANGED <<vector, job, outcome, cancelled>>
    BY <1>6 DEF gateVars, allVars, vars
  <2> QED
    BY <1>4, <2>1
<1>7. ASSUME (SurveyTaken \/ Cancel) /\ UNCHANGED <<talkVars, vector>>
      PROVE  Kept
  <2>1. UNCHANGED <<vector, job, outcome>> /\ (cancelled' = cancelled \/ cancelled')
    BY <1>7 DEF SurveyTaken, Cancel
  <2> QED
    BY <1>4, <2>1
<1>8. ASSUME NEW n \in Nodes, Progress(n), UNCHANGED vector
      PROVE  Kept
  <2>1. Advance(n)
    BY <1>8, ProgressIsAdvance
  <2>2. Ordinary(n) \/ Resume(n) \/ \E f \in Files : ReadRuns(n, f) \/ WriteRuns(n, f)
    BY <2>1 DEF Advance, Ordinary
  <2>3. VectorOK(n)' /\ PassOK(n)'
    BY <1>2, <1>8, ProgressStep
  <2>4. cancelled' = cancelled
    BY <2>1, AdvanceKeeps
  <2> QED
    BY <1>5, <1>8, <2>2, <2>3, <2>4
<1>9. ASSUME NEW n \in Nodes, GateRan(n)
      PROVE  Kept
  <2>1. /\ VectorOK(n)' /\ PassOK(n)'
        /\ \A m \in Nodes \ {n} : vector'[m] = vector[m] /\ job'[m] = job[m]
                                 /\ outcome'[m] = outcome[m]
        /\ cancelled' = cancelled
    BY <1>9, GateRanStep DEF GateRan, allVars, vars, GateOK
  <2> QED
    BY <2>1, VerdictStays DEF GateOK
<1>10. ASSUME NEW n \in Nodes, Judged(n)
       PROVE  Kept
  <2>1. Ordinary(n) /\ vector' = vector /\ cancelled' = cancelled
    BY <1>10, JudgedIsGatesEnd DEF Judged, Ordinary
  <2>2. VectorOK(n)' /\ PassOK(n)'
    BY <1>10, JudgedStep
  <2> QED
    BY <1>5, <2>1, <2>2
<1>11. ASSUME NEW n \in Nodes, Started(n)
       PROVE  Kept
  <2>1. /\ Ordinary(n) /\ cancelled' = cancelled
        /\ vector' = [vector EXCEPT ![n] = <<>>] /\ outcome' = [outcome EXCEPT ![n] = "none"]
    BY <1>11 DEF Started, Start, Ordinary
  <2>2. vector'[n] = <<>> /\ outcome'[n] = "none" /\ \A m \in Nodes \ {n} : vector'[m] = vector[m]
    BY <2>1 DEF GateOK, TInv, RestOK
  <2>3. VectorOK(n)' /\ PassOK(n)'
    BY <2>2, VerdictWaits
  <2> QED
    BY <1>5, <2>1, <2>2, <2>3
<1>12. ASSUME NEW n \in Nodes, NEW f \in Files, CommandWrites(n, f), UNCHANGED vector
       PROVE  Kept
  <2>1. /\ job'[n].at = job[n].at /\ job'[n].written = job[n].written
        /\ outcome' = outcome /\ cancelled' = cancelled
    BY <1>12 DEF CommandWrites, TInv, LocalsOK, Job
  <2>2. VectorOK(n)' /\ PassOK(n)'
    BY <1>12, <2>1, VerdictStays DEF GateOK
  <2> QED
    BY <1>5, <1>12, <2>1, <2>2
<1> HIDE DEF Kept
<1>13. Kept
  BY <1>6, <1>7, <1>8, <1>9, <1>10, <1>11, <1>12 DEF GateNext, GateProgress
<1> QED
  BY <1>2, <1>3, <1>13 DEF GateOK, Kept

\* A result is accepted exactly if it is not a new failure.
LEMMA RefusedIsNew ==
  ASSUME NotesMeetNoSource, TInv, NEW n \in Nodes, WritesOK(n), VectorOK(n),
         NEW result \in Ran(n)
  PROVE  Accepted(n, result) <=> ~IsNew(result)
<1>1. Accepted(n, result) => ~IsNew(result)
  BY DEF Accepted, Unchanged, IsNew
<1>2. ~NeedsGates(n) => result.gate = "secrets"
  <2>1. SUFFICES ASSUME ~NeedsGates(n)
                 PROVE  result.gate = "secrets"
    OBVIOUS
  <2>2. job[n].written \cap Source = {}
    <3>1. job[n].written \subseteq Files
      BY DEF TInv, LocalsOK, Job
    <3> QED
      BY <2>1, <3>1, NoNoteIsSource DEF WritesOK
  <2>3. Selected(n) = <<"secrets">>
    BY <2>2 DEF Selected
  <2>4. PICK i \in DOMAIN vector[n] : result = vector[n][i]
    BY DEF Ran
  <2>5. i = 1
    BY <2>3, LenProperties DEF VectorOK
  <2> QED
    BY <2>3, <2>4, <2>5 DEF VectorOK
<1>3. ~Accepted(n, result) => IsNew(result)
  BY <1>2 DEF Accepted, Unchanged, IsNew
<1> QED
  BY <1>1, <1>3

\* The gates whose results a whole vector holds.
LEMMA WholeVector ==
  ASSUME NEW n \in Nodes, VectorOK(n), Len(vector[n]) = Len(Selected(n))
  PROVE  {result.gate : result \in Ran(n)} = CalledFor(n)
<1>1. DOMAIN vector[n] = DOMAIN Selected(n)
  <2>1. DOMAIN vector[n] = 1 .. Len(vector[n])
    BY LenProperties DEF VectorOK
  <2>2. DOMAIN Selected(n) = 1 .. Len(Selected(n))
    BY SelectedGates, LenProperties
  <2> QED
    BY <2>1, <2>2
<1>2. {result.gate : result \in Ran(n)} = {Selected(n)[i] : i \in DOMAIN Selected(n)}
  BY <1>1 DEF VectorOK, Ran
<1>3. ASSUME job[n].written \cap Source = {}
      PROVE  {Selected(n)[i] : i \in DOMAIN Selected(n)} = {"secrets"}
  <2>1. Selected(n) = <<"secrets">>
    BY <1>3 DEF Selected
  <2> QED
    BY <2>1
<1>4. ASSUME job[n].written \cap Source # {}
      PROVE  {Selected(n)[i] : i \in DOMAIN Selected(n)}
               = {"secrets"} \cup {Scripts[i] : i \in DOMAIN Scripts}
  <2>1. Selected(n) = <<"secrets">> \o Scripts
    BY <1>4 DEF Selected
  <2>2. <<"secrets">> \in Seq({"secrets"}) /\ Scripts \in Seq(STRING)
    BY OneIsSeq, GatesAssumption
  <2> HIDE DEF Selected
  <2>3. Selected(n) \in Seq(GateNames) /\ Len(Selected(n)) = 1 + Len(Scripts)
    BY <2>1, <2>2, SelectedGates
  <2>4. /\ DOMAIN Selected(n) = 1 .. 1 + Len(Scripts) /\ DOMAIN Scripts = 1 .. Len(Scripts)
        /\ Len(Scripts) \in Nat
    BY <2>2, <2>3, LenProperties
  <2>5. Selected(n)[1] = "secrets"
    BY <2>1, <2>2
  <2>6. \A i \in 1 .. Len(Scripts) : Selected(n)[i + 1] = Scripts[i]
    BY <2>1, <2>2, <2>4
  <2>7. \A i \in 1 .. 1 + Len(Scripts) : i = 1 \/ (i - 1 \in 1 .. Len(Scripts) /\ (i - 1) + 1 = i)
    BY <2>4
  <2>8. \A i \in 1 .. Len(Scripts) : i + 1 \in 1 .. 1 + Len(Scripts)
    BY <2>4
  <2>9. 1 \in 1 .. 1 + Len(Scripts)
    BY <2>4
  <2>10. ASSUME NEW i \in DOMAIN Selected(n)
         PROVE  Selected(n)[i] \in {"secrets"} \cup {Scripts[k] : k \in DOMAIN Scripts}
    <3>1. CASE i = 1
      BY <2>5, <3>1
    <3>2. ASSUME i - 1 \in 1 .. Len(Scripts), (i - 1) + 1 = i
          PROVE  Selected(n)[i] \in {Scripts[k] : k \in DOMAIN Scripts}
      <4>1. Selected(n)[(i - 1) + 1] = Scripts[i - 1]
        BY <2>6, <3>2
      <4> QED
        BY <2>4, <3>2, <4>1
    <3> QED
      BY <2>4, <2>7, <2>10, <3>1, <3>2
  <2>11. ASSUME NEW k \in DOMAIN Scripts
         PROVE  Scripts[k] \in {Selected(n)[i] : i \in DOMAIN Selected(n)}
    <3>1. k + 1 \in DOMAIN Selected(n) /\ Selected(n)[k + 1] = Scripts[k]
      BY <2>4, <2>6, <2>8, <2>11
    <3> QED
      BY <3>1
  <2>12. "secrets" \in {Selected(n)[i] : i \in DOMAIN Selected(n)}
    BY <2>4, <2>5, <2>9
  <2> QED
    BY <2>10, <2>11, <2>12
<1> QED
  BY <1>2, <1>3, <1>4 DEF CalledFor

\* Whatever the gates print: they refuse a node exactly for a new failure, and one
\* that passes has had every gate run that its writes call for, or the run was
\* cancelled; again provided that notes meet no source.
THEOREM NewFailuresAlwaysDecide ==
  ASSUME NotesMeetNoSource
  PROVE  GateSpec => []NewFailuresDecide
<1>1. GateInit => GateOK
  <2>1. SUFFICES ASSUME GateInit
                 PROVE  GateOK
    OBVIOUS
  <2>2. ASSUME NEW n \in Nodes
        PROVE  WritesOK(n) /\ VectorOK(n) /\ PassOK(n)
    <3>1. /\ vector[n] = <<>> /\ job[n] = Idle({}, {}) /\ outcome[n] = "none"
      BY <2>1 DEF GateInit, TalkInit, Init
    <3>2. job[n].written = {} /\ job[n].at = "out"
      BY <3>1 DEF Idle
    <3>3. Len(<<>>) = 0 /\ DOMAIN <<>> = {} /\ \A S : <<>> \in Seq(S)
      BY EmptySeq
    <3>4. Len(Selected(n)) \in Nat
      BY SelectedGates
    <3> QED
      BY <3>1, <3>2, <3>3, <3>4 DEF WritesOK, VectorOK, PassOK, At
  <2> QED
    BY <2>1, <2>2 DEF GateOK, GateInit
<1>2. TInv /\ CheckpointOK /\ GateOK /\ [GateNext]_gateVars => GateOK'
  BY GateStep
<1>3. TInv /\ GateOK => NewFailuresDecide
  <2>1. SUFFICES ASSUME TInv, GateOK
                 PROVE  NewFailuresDecide
    OBVIOUS
  <2>2. ASSUME NEW n \in Nodes, outcome[n] \in {"ok", "unchecked"}
        PROVE  \A result \in Ran(n) : ~IsNew(result)
    BY <2>1, <2>2, RefusedIsNew DEF GateOK, PassOK, Passes, Ran
  <2>3. ASSUME NEW n \in Nodes, outcome[n] = "gates"
        PROVE  \E result \in Ran(n) : IsNew(result)
    BY <2>1, <2>3, RefusedIsNew DEF GateOK, PassOK, Passes, Ran
  <2>4. ASSUME NEW n \in Nodes, outcome[n] = "ok", job[n].written # {}
        PROVE  {result.gate : result \in Ran(n)} = CalledFor(n)
    BY <2>1, <2>4, WholeVector DEF GateOK, PassOK
  <2>5. \A n \in Nodes : outcome[n] = "unchecked" => cancelled
    BY <2>1 DEF GateOK, PassOK
  <2> QED
    BY <2>2, <2>3, <2>4, <2>5 DEF NewFailuresDecide
<1> QED
  BY <1>1, <1>2, <1>3, GatesImplementExecutor, TypedAlways, CheckpointAlways, PTL DEF GateSpec

-----------------------------------------------------------------------------
(* What the model of a node is told.  Between two messages of its phase the  *)
(* list answers all calls; while a reply is worked on, all but those of the  *)
(* reply, of which the first are answered.                                   *)

\* The last reply is the last message of the model's.
LEMMA LastReplyIs ==
  ASSUME NEW S, NEW list \in Seq(S), NEW p \in DOMAIN list, list[p].role = "assistant",
         \A j \in p + 1 .. Len(list) : list[j].role # "assistant"
  PROVE  LastReply(list) = p
<1> DEFINE I == {i \in 1 .. Len(list) : list[i].role = "assistant"}
<1>1. LastReply(list) = IF I # {} THEN Max(I) ELSE 0
  BY DEF LastReply, SelectLastInSeq
<1>2. DOMAIN list = 1 .. Len(list) /\ Len(list) \in Nat
  BY LenProperties
<1>3. p \in I /\ \A i \in I : p >= i
  BY <1>2
<1>4. I \subseteq Nat
  BY <1>2
<1> HIDE DEF I
<1>5. \A x \in I : (\A y \in I : x >= y) => x = p
  BY <1>3, <1>4
<1>6. Max(I) = p
  BY <1>3, <1>5 DEF Max
<1> QED
  BY <1>1, <1>3, <1>6

Msg == [role : {"system", "user", "assistant", "tool"}, calls : 0 .. MaxCalls,
        body : {"short", "long", "elided"}]

Opened(list) ==
  /\ list \in Seq(Msg) /\ Len(list) >= 2
  /\ list[1] = Message("system") /\ list[2] = Message("user")

\* The calls of a message are answered by as many results, at once and in order.
AnsweredIn(list, i) ==
  LET k == list[i].calls IN
    /\ i + k <= Len(list)
    /\ \A j \in i + 1 .. i + k : list[j].role = "tool"
    /\ i + k < Len(list) => list[i + k + 1].role # "tool"

Bound(list) ==
  Opened(list) /\ \A i \in 1 .. Len(list) : list[i].role = "assistant" => AnsweredIn(list, i)

\* The message p has m answers so far, and those before it have them all.
Answering(list, p, m) ==
  /\ Opened(list) /\ p \in 1 .. Len(list) /\ list[p].role = "assistant"
  /\ m <= list[p].calls /\ Len(list) = p + m
  /\ \A j \in p + 1 .. Len(list) : list[j].role = "tool"
  /\ \A i \in 1 .. p - 1 : list[i].role = "assistant" => AnsweredIn(list, i)

\* The last reply is p, and as long as few messages follow it they are whole.
FreshAfter(list, p) ==
  /\ list[p].role = "assistant"
  /\ \A j \in p + 1 .. Len(list) : list[j].role # "assistant"
  /\ Len(list) - p <= KeepRecent => \A j \in p + 1 .. Len(list) : list[j].body # "elided"

Fresh(list) ==
  \/ \A j \in 1 .. Len(list) : list[j].role # "assistant"
  \/ \E p \in 1 .. Len(list) : FreshAfter(list, p)

LEMMA Appended ==
  ASSUME NEW list \in Seq(Msg), NEW m \in Msg
  PROVE  /\ list \o <<m>> \in Seq(Msg) /\ Len(list) \in Nat
         /\ Len(list \o <<m>>) = Len(list) + 1
         /\ \A i \in 1 .. Len(list) : (list \o <<m>>)[i] = list[i]
         /\ (list \o <<m>>)[Len(list) + 1] = m
         /\ \A i \in 1 .. Len(list) + 1 : i \in 1 .. Len(list) \/ i = Len(list) + 1
<1>1. list \o <<m>> = Append(list, m)
  BY AppendIsConcat
<1>2. Len(list) \in Nat
  BY LenProperties
<1>3. \A i \in 1 .. Len(list) + 1 : i \in 1 .. Len(list) \/ i = Len(list) + 1
  BY <1>2
<1> QED
  BY <1>1, <1>2, <1>3, AppendProperties

LEMMA OpenedAppended ==
  ASSUME NEW list, Opened(list), NEW m \in Msg
  PROVE  Opened(list \o <<m>>)
BY Appended DEF Opened

\* An answered message stays so if no result follows at once.
LEMMA AnsweredAppended ==
  ASSUME NEW list, Opened(list), NEW m \in Msg, NEW i \in 1 .. Len(list),
         AnsweredIn(list, i), i + list[i].calls < Len(list) \/ m.role # "tool"
  PROVE  AnsweredIn(list \o <<m>>, i)
<1> DEFINE l == list \o <<m>>
<1>1. /\ l \in Seq(Msg) /\ Len(list) \in Nat /\ Len(l) = Len(list) + 1
      /\ \A j \in 1 .. Len(list) : l[j] = list[j]
      /\ l[Len(list) + 1] = m
  BY Appended DEF Opened
<1>2. list[i] \in Msg
  BY ElementOfSeq DEF Opened
<1>3. list[i].calls \in Nat
  BY <1>2, ExecutorAssumption DEF Msg
<1> HIDE DEF l
<1>4. l[i] = list[i]
  BY <1>1
<1> DEFINE k == list[i].calls
<1>5. i + k <= Len(list)
  BY DEF AnsweredIn
<1>6. \A j \in i + 1 .. i + k : l[j].role = "tool"
  <2>1. \A j \in i + 1 .. i + k : j \in 1 .. Len(list)
    BY <1>1, <1>3, <1>5
  <2>2. \A j \in i + 1 .. i + k : list[j].role = "tool"
    BY DEF AnsweredIn
  <2> QED
    BY <1>1, <2>1, <2>2
<1>7. ASSUME i + k < Len(l)
      PROVE  l[i + k + 1].role # "tool"
  <2>1. CASE i + k < Len(list)
    <3>1. i + k + 1 \in 1 .. Len(list)
      BY <1>1, <1>3, <2>1
    <3> QED
      BY <1>1, <2>1, <3>1 DEF AnsweredIn
  <2>2. CASE i + k = Len(list)
    BY <1>1, <2>2
  <2>3. i + k < Len(list) \/ i + k = Len(list)
    BY <1>1, <1>3, <1>5, <1>7
  <2> QED
    BY <2>1, <2>2, <2>3
<1> QED
  BY <1>1, <1>3, <1>4, <1>5, <1>6, <1>7 DEF AnsweredIn, l

LEMMA BoundByUser ==
  ASSUME NEW list, Bound(list), NEW m \in Msg, m.role = "user"
  PROVE  Bound(list \o <<m>>)
<1>1. Opened(list \o <<m>>)
  BY OpenedAppended DEF Bound
<1>2. ASSUME NEW i \in 1 .. Len(list), list[i].role = "assistant"
      PROVE  AnsweredIn(list \o <<m>>, i)
  BY <1>2, AnsweredAppended DEF Bound
<1> QED
  BY <1>1, <1>2, Appended DEF Bound, Opened

LEMMA BoundAnswering ==
  ASSUME NEW list, Bound(list), NEW m \in Msg, m.role = "assistant"
  PROVE  Answering(list \o <<m>>, Len(list) + 1, 0)
<1>1. Opened(list \o <<m>>)
  BY OpenedAppended DEF Bound
<1>2. ASSUME NEW i \in 1 .. Len(list), list[i].role = "assistant"
      PROVE  AnsweredIn(list \o <<m>>, i)
  BY <1>2, AnsweredAppended DEF Bound
<1>3. /\ Len(list) \in Nat /\ Len(list \o <<m>>) = Len(list) + 1
      /\ \A i \in 1 .. Len(list) : (list \o <<m>>)[i] = list[i]
      /\ (list \o <<m>>)[Len(list) + 1] = m
  BY Appended DEF Bound, Opened
<1>4. 0 <= m.calls
  BY ExecutorAssumption DEF Msg
<1>5. Len(list) + 1 \in 1 .. Len(list) + 1
  BY <1>3
<1>6. (Len(list) + 1) - 1 = Len(list) /\ (Len(list) + 1) + 0 = Len(list) + 1
      /\ (Len(list) + 1) + 1 .. Len(list) + 1 = {}
  BY <1>3
<1> HIDE DEF Answering
<1> QED
  BY <1>1, <1>2, <1>3, <1>4, <1>5, <1>6 DEF Answering

LEMMA OneMoreAnswer ==
  ASSUME NEW list, NEW p, NEW m \in Nat, Answering(list, p, m), m < list[p].calls,
         NEW r \in Msg, r.role = "tool"
  PROVE  Answering(list \o <<r>>, p, m + 1)
<1> DEFINE l == list \o <<r>>
<1>1. /\ l \in Seq(Msg) /\ Len(list) \in Nat /\ Len(l) = Len(list) + 1
      /\ \A j \in 1 .. Len(list) : l[j] = list[j]
      /\ l[Len(list) + 1] = r
      /\ \A i \in 1 .. Len(list) + 1 : i \in 1 .. Len(list) \/ i = Len(list) + 1
  BY Appended DEF Answering, Opened
<1>2. p \in Nat /\ p \in 1 .. Len(list) /\ Len(list) = p + m
  BY <1>1 DEF Answering
<1>3. Opened(l)
  BY OpenedAppended DEF Answering
<1> HIDE DEF l
<1>4. p \in 1 .. Len(l) /\ l[p].role = "assistant"
  BY <1>1, <1>2 DEF Answering
<1>5. m + 1 <= l[p].calls
  <2>1. l[p] = list[p] /\ list[p] \in Msg
    BY <1>1, <1>2, ElementOfSeq DEF Answering, Opened
  <2>2. list[p].calls \in Nat
    BY <2>1, ExecutorAssumption DEF Msg
  <2> QED
    BY <2>1, <2>2
<1>6. Len(l) = p + (m + 1)
  BY <1>1, <1>2
<1>7. \A j \in p + 1 .. Len(l) : l[j].role = "tool"
  <2>1. \A j \in p + 1 .. Len(list) : l[j].role = "tool"
    BY <1>1, <1>2 DEF Answering
  <2> QED
    BY <1>1, <1>2, <2>1
<1>8. ASSUME NEW i \in 1 .. p - 1, l[i].role = "assistant"
      PROVE  AnsweredIn(l, i)
  <2>1. i \in 1 .. Len(list) /\ l[i] = list[i]
    BY <1>1, <1>2
  <2>2. AnsweredIn(list, i)
    BY <1>8, <2>1 DEF Answering
  <2>3. i + list[i].calls < Len(list)
    <3>1. list[i].calls \in Nat
      <4>1. list[i] \in Msg
        BY <2>1, ElementOfSeq DEF Answering, Opened
      <4> QED
        BY <4>1, ExecutorAssumption DEF Msg
    <3>2. i + list[i].calls < p
      <4>1. p \in i + 1 .. i + list[i].calls => list[p].role = "tool"
        BY <2>2 DEF AnsweredIn
      <4> QED
        BY <1>2, <3>1, <4>1 DEF Answering
    <3> QED
      BY <1>2, <3>1, <3>2
  <2> QED
    BY <2>1, <2>2, <2>3, AnsweredAppended DEF Answering, l
<1> QED
  BY <1>3, <1>4, <1>5, <1>6, <1>7, <1>8 DEF Answering, l

LEMMA AllAnswered ==
  ASSUME NEW list, NEW p, Answering(list, p, list[p].calls)
  PROVE  Bound(list)
<1>1. Len(list) \in Nat /\ p \in 1 .. Len(list) /\ Len(list) = p + list[p].calls
  BY LenProperties DEF Answering, Opened
<1>2. AnsweredIn(list, p)
  <2>1. list[p] \in Msg
    BY <1>1, ElementOfSeq DEF Answering, Opened
  <2>2. list[p].calls \in Nat
    BY <2>1, ExecutorAssumption DEF Msg
  <2> QED
    BY <1>1, <2>2 DEF Answering, AnsweredIn
<1>3. ASSUME NEW i \in 1 .. Len(list), list[i].role = "assistant"
      PROVE  AnsweredIn(list, i)
  <2>1. i \in 1 .. p - 1 \/ i = p \/ i \in p + 1 .. Len(list)
    BY <1>1
  <2> QED
    BY <1>2, <1>3, <2>1 DEF Answering
<1> QED
  BY <1>3 DEF Answering, Bound

LEMMA CompactedKeeps ==
  ASSUME NEW list \in Seq(Msg)
  PROVE  /\ Compacted(list) \in Seq(Msg) /\ Len(Compacted(list)) = Len(list)
         /\ \A i \in 1 .. Len(list) :
              /\ Compacted(list)[i].role = list[i].role
              /\ Compacted(list)[i].calls = list[i].calls
              /\ ~Eligible(list, i) => Compacted(list)[i] = list[i]
<1>1. Len(list) \in Nat /\ DOMAIN list = 1 .. Len(list)
  BY LenProperties
<1>2. CASE Weight(list) <= CompactAt
  BY <1>2 DEF Compacted
<1>3. CASE ~(Weight(list) <= CompactAt)
  <2> DEFINE l == [i \in 1 .. Len(list) |->
                     IF Eligible(list, i) THEN Elided(list[i]) ELSE list[i]]
  <2>1. Compacted(list) = l
    BY <1>1, <1>3 DEF Compacted
  <2>2. \A i \in 1 .. Len(list) : list[i] \in Msg
    BY ElementOfSeq
  <2>3. \A i \in 1 .. Len(list) : l[i] \in Msg /\ l[i].role = list[i].role /\ l[i].calls = list[i].calls
    BY <2>2 DEF Elided, Msg
  <2>4. l \in Seq(Msg)
    BY <1>1, <2>3, IsASeq
  <2>5. Len(l) = Len(list)
    BY <1>1, <2>4, LenProperties
  <2>6. \A i \in 1 .. Len(list) : ~Eligible(list, i) => l[i] = list[i]
    OBVIOUS
  <2> HIDE DEF l
  <2> QED
    BY <2>1, <2>3, <2>4, <2>5, <2>6
<1> QED
  BY <1>2, <1>3

LEMMA BoundCompacted ==
  ASSUME NEW list, Bound(list)
  PROVE  Bound(Compacted(list))
<1> DEFINE l == Compacted(list)
<1>1. Len(list) \in Nat /\ Len(list) >= 2
  BY LenProperties DEF Bound, Opened
<1>2. /\ l \in Seq(Msg) /\ Len(l) = Len(list)
      /\ \A i \in 1 .. Len(list) :
           l[i].role = list[i].role /\ l[i].calls = list[i].calls
                /\ (~Eligible(list, i) => l[i] = list[i])
  BY CompactedKeeps DEF Bound, Opened
<1> HIDE DEF l
<1>3. l[1] = list[1] /\ l[2] = list[2]
  BY <1>1, <1>2 DEF Eligible
<1>4. ASSUME NEW i \in 1 .. Len(list), list[i].role = "assistant"
      PROVE  AnsweredIn(l, i)
  <2>1. AnsweredIn(list, i) /\ l[i].calls = list[i].calls
    BY <1>2, <1>4 DEF Bound
  <2>2. list[i].calls \in Nat
    <3>1. list[i] \in Msg
      BY ElementOfSeq DEF Bound, Opened
    <3> QED
      BY <3>1, ExecutorAssumption DEF Msg
  <2>3. \A j \in 1 .. Len(list) : l[j].role = list[j].role
    BY <1>2
  <2> QED
    BY <1>1, <1>2, <2>1, <2>2, <2>3 DEF AnsweredIn
<1> QED
  BY <1>2, <1>3, <1>4 DEF Bound, Opened, l

\* A message that is not elided does no harm, nor does a compaction.
LEMMA FreshAppended ==
  ASSUME NEW list \in Seq(Msg), Fresh(list), NEW m \in Msg, m.body # "elided"
  PROVE  Fresh(list \o <<m>>)
<1> DEFINE l == list \o <<m>>
<1>1. /\ l \in Seq(Msg) /\ Len(list) \in Nat /\ Len(l) = Len(list) + 1
      /\ \A j \in 1 .. Len(list) : l[j] = list[j]
      /\ l[Len(list) + 1] = m
      /\ \A i \in 1 .. Len(list) + 1 : i \in 1 .. Len(list) \/ i = Len(list) + 1
  BY Appended
<1> HIDE DEF l
<1>2. CASE m.role = "assistant"
  <2>1. Len(l) \in 1 .. Len(l) /\ Len(l) + 1 .. Len(l) = {}
    BY <1>1
  <2>2. FreshAfter(l, Len(l))
    BY <1>1, <1>2, <2>1 DEF FreshAfter
  <2> QED
    BY <2>1, <2>2 DEF Fresh, l
<1>3. CASE m.role # "assistant" /\ \A j \in 1 .. Len(list) : list[j].role # "assistant"
  BY <1>1, <1>3 DEF Fresh, l
<1>4. ASSUME m.role # "assistant", NEW p \in 1 .. Len(list), FreshAfter(list, p)
      PROVE  Fresh(l)
  <2>1. \A j \in p + 1 .. Len(l) : j \in p + 1 .. Len(list) \/ j = Len(list) + 1
    BY <1>1
  <2>2. \A j \in p + 1 .. Len(list) : l[j] = list[j]
    BY <1>1
  <2>3. p \in 1 .. Len(l) /\ l[p] = list[p]
    BY <1>1
  <2>4. Len(l) - p <= KeepRecent => Len(list) - p <= KeepRecent
    BY <1>1, TranscriptAssumption
  <2>5. FreshAfter(l, p)
    BY <1>1, <1>4, <2>1, <2>2, <2>3, <2>4 DEF FreshAfter
  <2> QED
    BY <2>3, <2>5 DEF Fresh
<1> QED
  BY <1>2, <1>3, <1>4 DEF Fresh, l

LEMMA FreshCompacted ==
  ASSUME NEW list \in Seq(Msg), Fresh(list)
  PROVE  Fresh(Compacted(list))
<1> DEFINE l == Compacted(list)
<1>1. /\ l \in Seq(Msg) /\ Len(l) = Len(list)
      /\ \A i \in 1 .. Len(list) :
           l[i].role = list[i].role /\ (~Eligible(list, i) => l[i] = list[i])
  BY CompactedKeeps
<1>2. Len(list) \in Nat
  BY LenProperties
<1> HIDE DEF l
<1>3. CASE \A j \in 1 .. Len(list) : list[j].role # "assistant"
  BY <1>1, <1>3 DEF Fresh, l
<1>4. ASSUME NEW p \in 1 .. Len(list), FreshAfter(list, p)
      PROVE  Fresh(l)
  <2>1. \A j \in p + 1 .. Len(list) : j \in 1 .. Len(list)
    BY <1>2
  <2>2. Len(list) - p <= KeepRecent => \A j \in p + 1 .. Len(list) : ~Eligible(list, j)
    BY <1>2, TranscriptAssumption DEF Eligible
  <2>3. FreshAfter(l, p)
    BY <1>1, <1>4, <2>1, <2>2 DEF FreshAfter
  <2> QED
    BY <1>1, <2>3 DEF Fresh
<1> QED
  BY <1>3, <1>4 DEF Fresh, l

-----------------------------------------------------------------------------
Replying == {"calls", "settled", "command"}

TalkOK(n) ==
  /\ job[n].at \in {"loop", "chat"} => Bound(talk[n]) /\ Fresh(talk[n])
  /\ job[n].at \in Replying =>
       /\ Fresh(talk[n])
       /\ \E p \in Nat :
            /\ Answering(talk[n], p, job[n].calls)
            /\ job[n].at # "calls" => job[n].calls < talk[n][p].calls
  /\ job[n].at \notin Replying => job[n].calls = 0

TalkInv == DOMAIN talk = Nodes /\ \A n \in Nodes : TalkOK(n)

LEMMA MessagesAreMsg ==
  /\ \A role \in {"system", "user", "assistant", "tool"} :
       Message(role) \in Msg /\ Message(role).role = role /\ Message(role).calls = 0
       /\ Message(role).body # "elided"
  /\ \A k \in 1 .. MaxCalls : /\ Calling(k) \in Msg /\ Calling(k).role = "assistant"
                              /\ Calling(k).body # "elided"
  /\ \A m \in Results : m \in Msg /\ m.role = "tool" /\ m.body # "elided"
<1>1. \A role \in {"system", "user", "assistant", "tool"} :
       Message(role) \in Msg /\ Message(role).role = role /\ Message(role).calls = 0
       /\ Message(role).body # "elided"
  BY ExecutorAssumption DEF Message, Msg
<1>2. ASSUME NEW k \in 1 .. MaxCalls
      PROVE  Calling(k) \in Msg /\ Calling(k).role = "assistant" /\ Calling(k).body # "elided"
  BY ExecutorAssumption DEF Message, Calling, Msg
<1>3. ASSUME NEW m \in Results
      PROVE  m \in Msg /\ m.role = "tool" /\ m.body # "elided"
  BY ExecutorAssumption DEF Message, Results, Notice, Msg
<1> QED
  BY <1>1, <1>2, <1>3

LEMMA OpeningIsBound == Bound(Opening) /\ Fresh(Opening)
<1>1. Message("system") \in Msg /\ Message("user") \in Msg
      /\ Message("system").role # "assistant" /\ Message("user").role # "assistant"
  BY MessagesAreMsg
<1> DEFINE a == Message("system")
           b == Message("user")
<1> HIDE DEF a, b
<1>2. <<a, b>> \in Seq(Msg) /\ Len(<<a, b>>) = 2 /\ <<a, b>>[1] = a /\ <<a, b>>[2] = b
  BY <1>1 DEF a, b
<1>3. \A i \in 1 .. 2 : <<a, b>>[i].role # "assistant"
  BY <1>1, <1>2 DEF a, b
<1> QED
  BY <1>2, <1>3 DEF Bound, Opened, Fresh, Opening, a, b

\* What a node hears while it goes on.
LEMMA HeardIs ==
  ASSUME TalkInv, NEW n \in Nodes, NEW messages, Hears(n, messages)
  PROVE  /\ job'[n].at \notin {"gates", "out"} => talk'[n] = talk[n] \o messages
         /\ \A m \in Nodes \ {n} : talk'[m] = talk[m]
BY DEF TalkInv, Hears

\* Nothing is to be said of a call that talks to no model.
LEMMA NobodyTalks ==
  ASSUME NEW n \in Nodes, job'[n].at \notin {"loop", "chat"} \cup Replying, job'[n].calls = 0
  PROVE  TalkOK(n)'
BY DEF TalkOK, Replying

LEMMA EndTalks ==
  ASSUME TInv, NEW n \in Nodes, NEW how, End(n, how)
  PROVE  TalkOK(n)'
<1>1. job'[n].at = "out" /\ job'[n].calls = 0
  BY DEF End, TInv, LocalsOK, Idle
<1> QED
  BY <1>1, NobodyTalks DEF Replying

\* The number of calls the last reply made.
LEMMA AskedIs ==
  ASSUME NEW n \in Nodes, NEW p \in Nat, Answering(talk[n], p, job[n].calls)
  PROVE  Asked(n) = talk[n][p].calls
<1>1. talk[n] \in Seq(Msg) /\ p \in DOMAIN talk[n]
  BY LenProperties DEF Answering, Opened
<1>2. talk[n][p].role = "assistant" /\ \A j \in p + 1 .. Len(talk[n]) : talk[n][j].role # "assistant"
  BY DEF Answering
<1>3. LastReply(talk[n]) = p
  BY <1>1, <1>2, LastReplyIs
<1> QED
  BY <1>3 DEF Asked

\* One call of the reply is answered.
LEMMA AnswerTold ==
  ASSUME TInv, TalkInv, NEW n \in Nodes, job[n].at \in Replying, NEW m \in Results,
         Hears(n, <<m>>), job'[n].at = "calls", job'[n].calls = job[n].calls + 1,
         job[n].calls < Asked(n)
  PROVE  TalkOK(n)'
<1>1. talk'[n] = talk[n] \o <<m>>
  BY HeardIs
<1>2. Fresh(talk[n])
  BY DEF TalkInv, TalkOK
<1>3. PICK p \in Nat : Answering(talk[n], p, job[n].calls)
  BY DEF TalkInv, TalkOK
<1>4. job[n].calls \in Nat
  BY ExecutorAssumption DEF TInv, LocalsOK, Job
<1>5. m \in Msg /\ m.role = "tool" /\ m.body # "elided"
  BY MessagesAreMsg
<1>6. Answering(talk[n] \o <<m>>, p, job[n].calls + 1)
  BY <1>3, <1>4, <1>5, AskedIs, OneMoreAnswer
<1>7. talk[n] \in Seq(Msg)
  BY <1>3 DEF Answering, Opened
<1>8. Fresh(talk[n] \o <<m>>)
  BY <1>2, <1>5, <1>7, FreshAppended
<1>9. Fresh(talk'[n]) /\ Answering(talk'[n], p, job'[n].calls)
  BY <1>1, <1>6, <1>8
<1> QED
  BY <1>9 DEF TalkOK, Replying

LEMMA CalledBooks ==
  ASSUME TInv, NEW n \in Nodes
  PROVE  Called(n).at = "calls" /\ Called(n).calls = job[n].calls + 1
BY DEF Called, TInv, LocalsOK, Job

LEMMA CallTalks ==
  ASSUME TInv, TalkInv, NEW n \in Nodes, CallTold(n)
  PROVE  TalkOK(n)'
<1>1. job[n].at = "calls" /\ job[n].calls < Asked(n)
  BY DEF CallTold, At
<1>2. PICK p \in Nat : Answering(talk[n], p, job[n].calls)
  BY <1>1 DEF TalkInv, TalkOK, Replying
<1>3. ASSUME UNCHANGED talk, job'[n].at \in {"settled", "command"}, job'[n].calls = job[n].calls
      PROVE  TalkOK(n)'
  <2>1. Fresh(talk'[n])
    BY <1>1, <1>3 DEF TalkInv, TalkOK, Replying
  <2>2. Answering(talk'[n], p, job'[n].calls) /\ job'[n].calls < talk'[n][p].calls
    BY <1>1, <1>2, <1>3, AskedIs
  <2> QED
    BY <1>3, <2>1, <2>2 DEF TalkOK, Replying
<1>4. CASE CallComesToNothing(n) /\ Hears(n, <<Notice>>)
  <2>1. Notice \in Results
    BY DEF Results
  <2>2. job'[n] = Called(n)
    BY <1>4 DEF CallComesToNothing, TInv, LocalsOK
  <2> QED
    BY <1>1, <1>4, <2>1, <2>2, CalledBooks, AnswerTold DEF Replying
<1>5. ASSUME NEW f \in Files, ReadAnswers(n, f), NEW m \in Results, Hears(n, <<m>>)
      PROVE  TalkOK(n)'
  <2>1. job'[n].at = "calls" /\ job'[n].calls = job[n].calls + 1
    <3>1. job'[n] = [Called(n) EXCEPT !.seen = @ \cup {f}, !.reads = @ + 1]
      BY <1>5 DEF ReadAnswers, TInv, LocalsOK
    <3> QED
      BY <3>1 DEF Called, TInv, LocalsOK, Job
  <2> QED
    BY <1>1, <1>5, <2>1, AnswerTold DEF Replying
<1>6. ASSUME NEW f \in Files, ReadRuns(n, f) \/ WriteRuns(n, f), UNCHANGED talk
      PROVE  TalkOK(n)'
  <2>1. CASE ReadRuns(n, f)
    <3>1. job'[n].at = "settled" /\ job'[n].calls = job[n].calls
      BY <2>1 DEF ReadRuns, TInv, LocalsOK, Job
    <3> QED
      BY <1>3, <1>6, <3>1
  <2>2. CASE WriteRuns(n, f)
    <3>1. job'[n].at = "settled" /\ job'[n].calls = job[n].calls
      BY <2>2 DEF WriteRuns, TInv, LocalsOK, Job
    <3> QED
      BY <1>3, <1>6, <3>1
  <2> QED
    BY <1>6, <2>1, <2>2
<1>7. ASSUME NEW f \in Files, WriteStrays(n, f)
      PROVE  TalkOK(n)'
  BY <1>7, EndTalks DEF WriteStrays
<1>8. CASE CommandRuns(n) /\ UNCHANGED talk
  BY <1>3, <1>8 DEF CommandRuns, Move, TInv, LocalsOK, Job
<1> QED
  BY <1>4, <1>5, <1>6, <1>7, <1>8 DEF CallTold

LEMMA ResultTalks ==
  ASSUME TInv, TalkInv, NEW n \in Nodes, ResultTold(n)
  PROVE  TalkOK(n)'
<1>1. PICK m \in Results : Hears(n, <<m>>)
  BY DEF ResultTold
<1>2. ASSUME job[n].at \in {"settled", "command"}, job'[n].at = "calls",
             job'[n].calls = job[n].calls + 1
      PROVE  TalkOK(n)'
  <2>1. job[n].calls < Asked(n)
    BY <1>2, AskedIs DEF TalkInv, TalkOK, Replying
  <2> QED
    BY <1>1, <1>2, <2>1, AnswerTold DEF Replying
<1>3. CASE Resume(n)
  <2>1. settled # <<>> /\ 1 \in DOMAIN settled /\ settled[1] = n
    BY <1>3, LenProperties, EmptySeq DEF TInv, QueueOK, Resume
  <2>2. At(n, "settled")
    BY <2>1 DEF TInv, QueueOK
  <2>3. \/ job'[n] = Called(n)
        \/ job'[n] = [Called(n) EXCEPT !.written = @ \cup {job[n].file}]
    BY <1>3 DEF Resume, TInv, LocalsOK
  <2>4. job'[n].at = "calls" /\ job'[n].calls = job[n].calls + 1
    BY <2>3 DEF Called, TInv, LocalsOK, Job
  <2> QED
    BY <1>2, <2>2, <2>4 DEF At
<1>4. CASE CommandExits(n)
  <2>1. job'[n] = Called(n) /\ job[n].at = "command"
    BY <1>4 DEF CommandExits, At, TInv, LocalsOK
  <2> QED
    BY <1>2, <2>1, CalledBooks
<1> QED
  BY <1>3, <1>4 DEF ResultTold

\* A reply that calls, one that is cut off, and the end of the calls of a reply.
LEMMA ReplyTalks ==
  ASSUME TInv, TalkInv, NEW n \in Nodes,
         \/ ReplyTold(n)
         \/ \E c \in Costs : TruncatedTold(n, c) \/ \E k \in 1 .. MaxCalls : CallsTold(n, c, k)
  PROVE  TalkOK(n)'
<1>1. ASSUME ReplyTold(n)
      PROVE  TalkOK(n)'
  <2>1. /\ job[n].at = "calls" /\ job[n].calls = Asked(n) /\ talk' = talk
        /\ job'[n].at = "loop" /\ job'[n].calls = 0
    BY <1>1 DEF ReplyTold, ReplyDone, At, talkVars, TInv, LocalsOK, Job
  <2>2. PICK p \in Nat : Answering(talk[n], p, job[n].calls)
    BY <2>1 DEF TalkInv, TalkOK, Replying
  <2>3. Bound(talk[n])
    BY <2>1, <2>2, AskedIs, AllAnswered
  <2> QED
    BY <2>1, <2>3 DEF TalkInv, TalkOK, Replying
<1>2. ASSUME NEW c \in Costs, TruncatedTold(n, c)
      PROVE  TalkOK(n)'
  <2>1. /\ job[n].at = "chat" /\ job'[n].at = "loop" /\ job'[n].calls = job[n].calls
    BY <1>2 DEF TruncatedTold, ReplyTruncated, Move, At, TInv, LocalsOK, Job
  <2>2. PICK text \in {<<>>, <<Message("assistant")>>} : Hears(n, text \o <<Message("user")>>)
    BY <1>2 DEF TruncatedTold
  <2> DEFINE u == Message("user")
             a == Message("assistant")
  <2>3. u \in Msg /\ a \in Msg /\ u.role = "user" /\ a.role = "assistant" /\ a.calls = 0
        /\ u.body # "elided" /\ a.body # "elided"
    BY MessagesAreMsg
  <2> HIDE DEF u, a
  <2>4. talk'[n] = talk[n] \o (text \o <<u>>)
    BY <2>1, <2>2, HeardIs DEF u
  <2>5. Bound(talk[n]) /\ Fresh(talk[n]) /\ talk[n] \in Seq(Msg) /\ job[n].calls = 0
    BY <2>1 DEF TalkInv, TalkOK, Replying, Bound, Opened
  <2>6. <<>> \in Seq(Msg) /\ <<u>> \in Seq(Msg) /\ <<a>> \in Seq(Msg)
    BY <2>3, OneIsSeq, EmptySeq
  <2>7. CASE text = <<>>
    <3>1. talk'[n] = talk[n] \o <<u>>
      BY <2>4, <2>6, <2>7, ConcatEmptySeq
    <3>2. Bound(talk[n] \o <<u>>) /\ Fresh(talk[n] \o <<u>>)
      BY <2>3, <2>5, BoundByUser, FreshAppended
    <3> QED
      BY <2>1, <2>5, <3>1, <3>2 DEF TalkOK, Replying
  <2>8. CASE text = <<a>>
    <3>1. talk'[n] = (talk[n] \o <<a>>) \o <<u>>
      BY <2>4, <2>5, <2>6, <2>8, ConcatAssociative
    <3> DEFINE l == talk[n] \o <<a>>
    <3>2. Answering(l, Len(talk[n]) + 1, 0) /\ l[Len(talk[n]) + 1] = a
      BY <2>3, <2>5, BoundAnswering, Appended
    <3>3. Fresh(l)
      BY <2>3, <2>5, FreshAppended
    <3> HIDE DEF l
    <3>4. Bound(l) /\ l \in Seq(Msg)
      BY <2>3, <3>2, AllAnswered DEF Answering, Opened
    <3>5. Bound(l \o <<u>>) /\ Fresh(l \o <<u>>)
      BY <2>3, <3>3, <3>4, BoundByUser, FreshAppended
    <3>6. Bound(talk'[n]) /\ Fresh(talk'[n])
      BY <3>1, <3>5 DEF l
    <3> QED
      BY <2>1, <2>5, <3>6 DEF TalkOK, Replying
  <2> QED
    BY <2>2, <2>7, <2>8 DEF a
<1>3. ASSUME NEW c \in Costs, NEW k \in 1 .. MaxCalls, CallsTold(n, c, k)
      PROVE  TalkOK(n)'
  <2>1. /\ job[n].at = "chat" /\ job'[n].at = "calls" /\ job'[n].calls = job[n].calls
    BY <1>3 DEF CallsTold, ReplyCalls, At, TInv, LocalsOK, Job
  <2>2. Hears(n, <<Calling(k)>>)
    BY <1>3 DEF CallsTold
  <2>3. talk'[n] = talk[n] \o <<Calling(k)>>
    BY <2>1, <2>2, HeardIs
  <2>4. Bound(talk[n]) /\ Fresh(talk[n]) /\ talk[n] \in Seq(Msg) /\ job[n].calls = 0
    BY <2>1 DEF TalkInv, TalkOK, Replying, Bound, Opened
  <2>5. Calling(k) \in Msg /\ Calling(k).role = "assistant" /\ Calling(k).body # "elided"
    BY MessagesAreMsg
  <2>6. Answering(talk'[n], Len(talk[n]) + 1, job'[n].calls) /\ Fresh(talk'[n])
    BY <2>1, <2>3, <2>4, <2>5, BoundAnswering, FreshAppended
  <2>7. Len(talk[n]) + 1 \in Nat
    BY <2>4, LenProperties
  <2> QED
    BY <2>1, <2>6, <2>7 DEF TalkOK, Replying
<1> QED
  BY <1>1, <1>2, <1>3

\* The two notices a step may push, around the compaction.
LEMMA NoticeKeeps ==
  ASSUME NEW list, Bound(list), Fresh(list), NEW notice \in {<<>>, <<Message("user")>>}
  PROVE  Bound(list \o notice) /\ Fresh(list \o notice)
<1>1. list \in Seq(Msg)
  BY DEF Bound, Opened
<1>2. CASE notice = <<>>
  BY <1>1, <1>2, ConcatEmptySeq
<1>3. CASE notice = <<Message("user")>>
  BY <1>1, <1>3, MessagesAreMsg, BoundByUser, FreshAppended
<1> QED
  BY <1>2, <1>3

LEMMA StepTalks ==
  ASSUME TInv, TalkInv, NEW n \in Nodes, StepTold(n)
  PROVE  TalkOK(n)'
<1>1. Step(n) /\ job[n].at = "loop"
  BY DEF StepTold, Step, At
<1>2. ASSUME End(n, "contract")
      PROVE  TalkOK(n)'
  BY <1>2, EndTalks
<1>3. ASSUME job' = [job EXCEPT ![n].at = "chat", ![n].used = @ + 1]
      PROVE  TalkOK(n)'
  <2>1. job'[n].at = "chat" /\ job'[n].calls = job[n].calls
    BY <1>3 DEF TInv, LocalsOK, Job
  <2>2. PICK urge \in {<<>>, <<Message("user")>>}, warn \in {<<>>, <<Message("user")>>} :
          talk' = [talk EXCEPT ![n] = Compacted(@ \o urge) \o warn]
    BY <2>1 DEF StepTold, At
  <2>3. talk'[n] = Compacted(talk[n] \o urge) \o warn
    BY <2>2 DEF TalkInv
  <2>4. Bound(talk[n]) /\ Fresh(talk[n]) /\ job[n].calls = 0
    BY <1>1 DEF TalkInv, TalkOK, Replying
  <2>5. Bound(talk[n] \o urge) /\ Fresh(talk[n] \o urge)
    BY <2>4, NoticeKeeps
  <2>6. Bound(Compacted(talk[n] \o urge)) /\ Fresh(Compacted(talk[n] \o urge))
    BY <2>5, BoundCompacted, FreshCompacted DEF Bound, Opened
  <2>7. Bound(talk'[n]) /\ Fresh(talk'[n])
    BY <2>3, <2>6, NoticeKeeps
  <2> QED
    BY <2>1, <2>4, <2>7 DEF TalkOK, Replying
<1> QED
  BY <1>1, <1>2, <1>3 DEF Step

\* Where a call starts, where a phase starts, and what says nothing.
LEMMA RestTalks ==
  ASSUME TInv, TalkInv, NEW n \in Nodes,
         RoutedTold(n) \/ Silent(n) \/ \E c \in Costs : BriefTold(n, c)
  PROVE  TalkOK(n)'
<1>1. ASSUME talk'[n] = Opening, job'[n].at = "loop", job'[n].calls = job[n].calls,
             job[n].at \notin Replying
      PROVE  TalkOK(n)'
  BY <1>1, OpeningIsBound DEF TalkInv, TalkOK, Replying
<1>2. ASSUME RoutedTold(n)
      PROVE  TalkOK(n)'
  <2>1. job[n].at = "routing" /\ job'[n].at = "loop" /\ job'[n].calls = job[n].calls
    BY <1>2 DEF RoutedTold, Routed, At, TInv, LocalsOK, Job
  <2>2. talk'[n] = Opening
    BY <1>2 DEF RoutedTold, TalkInv
  <2> QED
    BY <1>1, <2>1, <2>2 DEF Replying
<1>3. ASSUME NEW c \in Costs, BriefTold(n, c)
      PROVE  TalkOK(n)'
  <2>1. CASE End(n, "contract")
    BY <2>1, EndTalks
  <2>2. CASE job' = [job EXCEPT ![n].at = "loop", ![n].only = "write"]
    <3>1. job[n].at = "brief" /\ job'[n].at = "loop" /\ job'[n].calls = job[n].calls
      BY <1>3, <2>2 DEF BriefTold, BriefCollected, At, TInv, LocalsOK, Job
    <3>2. talk'[n] = Opening
      BY <1>3, <3>1 DEF BriefTold, TalkInv, At
    <3> QED
      BY <1>1, <3>1, <3>2 DEF Replying
  <2> QED
    BY <1>3, <2>1, <2>2 DEF BriefTold, BriefCollected
<1>4. ASSUME LeaveLoop(n), job[n].at \in {"loop", "chat"}
      PROVE  TalkOK(n)'
  <2>1. (\E how \in Outcomes : End(n, how)) \/ Move(n, "brief") \/ Move(n, "gates")
    BY <1>4 DEF LeaveLoop, Conclude, Outcomes
  <2>2. ASSUME NEW p \in {"brief", "gates"}, Move(n, p)
        PROVE  TalkOK(n)'
    <3>1. job'[n].at = p /\ job'[n].calls = job[n].calls
      BY <2>2 DEF Move, TInv, LocalsOK, Job
    <3>2. job[n].calls = 0
      BY <1>4 DEF TalkInv, TalkOK, Replying
    <3> QED
      BY <3>1, <3>2, NobodyTalks DEF Replying
  <2> QED
    BY <2>1, <2>2, EndTalks
<1>5. ASSUME Silent(n)
      PROVE  TalkOK(n)'
  <2>1. CASE SurveyArrives(n)
    <3>1. job'[n].at = "routing" /\ job'[n].calls = 0
      BY <2>1 DEF SurveyArrives, Checkpointed, Idle, TInv, LocalsOK
    <3> QED
      BY <3>1, NobodyTalks DEF Replying
  <2>2. CASE RoutingFails(n) \/ StepThrows(n) \/ ReplyFails(n) \/ BriefFails(n)
    BY <2>2, EndTalks DEF RoutingFails, StepThrows, ReplyFails, BriefFails
  <2>3. CASE StepsRunOut(n)
    BY <1>4, <2>3 DEF StepsRunOut, At
  <2>4. ASSUME NEW c \in Costs, ReplyFinishes(n, c)
        PROVE  TalkOK(n)'
    BY <1>4, <2>4 DEF ReplyFinishes, At
  <2> QED
    BY <1>5, <2>1, <2>2, <2>3, <2>4 DEF Silent
<1> QED
  BY <1>2, <1>3, <1>5

\* A step says something to one model at most.
LEMMA OthersHearNothing ==
  ASSUME TalkInv, NEW n \in Nodes, Progress(n)
  PROVE  DOMAIN talk' = Nodes /\ \A m \in Nodes \ {n} : talk'[m] = talk[m]
<1> DEFINE Goal == DOMAIN talk' = Nodes /\ \A m \in Nodes \ {n} : talk'[m] = talk[m]
<1>1. ASSUME NEW messages, Hears(n, messages)
      PROVE  Goal
  BY <1>1 DEF Hears, TalkInv
<1>2. ASSUME UNCHANGED talk
      PROVE  Goal
  BY <1>2 DEF TalkInv
<1>3. CASE RoutedTold(n) \/ \E c \in Costs : BriefTold(n, c)
  BY <1>3 DEF RoutedTold, BriefTold, TalkInv
<1>4. CASE StepTold(n)
  <2>1. CASE At(n, "out")'
    BY <1>1, <1>4, <2>1 DEF StepTold
  <2>2. CASE ~At(n, "out")'
    BY <1>4, <2>2 DEF StepTold, TalkInv
  <2> QED
    BY <2>1, <2>2
<1> HIDE DEF Goal
<1>5. ASSUME CallTold(n)
      PROVE  Goal
  BY <1>1, <1>2, <1>5 DEF CallTold
<1>6. ASSUME ResultTold(n)
      PROVE  Goal
  BY <1>1, <1>6 DEF ResultTold
<1>7. ASSUME ReplyTold(n)
      PROVE  Goal
  BY <1>2, <1>7 DEF ReplyTold, talkVars
<1>8. ASSUME NEW c \in Costs, TruncatedTold(n, c)
      PROVE  Goal
  BY <1>1, <1>8 DEF TruncatedTold
<1>9. ASSUME NEW c \in Costs, NEW k \in 1 .. MaxCalls, CallsTold(n, c, k)
      PROVE  Goal
  BY <1>1, <1>9 DEF CallsTold
<1>10. ASSUME Silent(n)
      PROVE  Goal
  BY <1>1, <1>10 DEF Silent
<1>11. Goal
  BY <1>3, <1>4, <1>5, <1>6, <1>7, <1>8, <1>9, <1>10 DEF Progress, Goal
<1> QED
  BY <1>11 DEF Goal

LEMMA TalkStep ==
  ASSUME TInv, TalkInv, [GateNext]_gateVars
  PROVE  TalkInv'
<1>1. ASSUME NEW m \in Nodes, talk'[m] = talk[m], job'[m].at = job[m].at,
             job'[m].calls = job[m].calls
      PROVE  TalkOK(m)'
  <2>1. TalkOK(m)
    BY DEF TalkInv
  <2> QED
    BY <1>1, <2>1 DEF TalkOK, Replying
<1>2. ASSUME UNCHANGED <<talk, job>>
      PROVE  TalkInv'
  BY <1>1, <1>2 DEF TalkInv
<1>3. ASSUME NEW n \in Nodes, \A m \in Nodes \ {n} : job'[m] = job[m] /\ talk'[m] = talk[m],
             DOMAIN talk' = Nodes, TalkOK(n)'
      PROVE  TalkInv'
  BY <1>1, <1>3 DEF TalkInv
<1>4. CASE UNCHANGED gateVars \/ ((SurveyTaken \/ Cancel) /\ UNCHANGED <<talkVars, vector>>)
  BY <1>2, <1>4 DEF gateVars, allVars, vars, talkVars, SurveyTaken, Cancel
<1>5. ASSUME NEW n \in Nodes, Progress(n)
      PROVE  TalkInv'
  <2>1. TalkOK(n)'
    BY <1>5, CallTalks, ResultTalks, ReplyTalks, StepTalks, RestTalks DEF Progress
  <2>2. Advance(n)
    BY <1>5, ProgressIsAdvance
  <2>3. \A m \in Nodes \ {n} : job'[m] = job[m]
    BY <2>2, OthersStay DEF Advance, Ordinary
  <2> QED
    BY <1>3, <1>5, <2>1, <2>3, OthersHearNothing
<1>6. ASSUME NEW n \in Nodes, GateRan(n)
      PROVE  TalkInv'
  BY <1>2, <1>6 DEF GateRan, allVars, vars, talkVars
<1>7. ASSUME NEW n \in Nodes, End(n, IF ~Passes(n) THEN "gates"
                                   ELSE IF Len(vector[n]) = Len(Selected(n)) THEN "ok"
                                   ELSE "unchecked"), UNCHANGED talk
      PROVE  TalkInv'
  <2>1. TalkOK(n)'
    BY <1>7, EndTalks
  <2>2. \A m \in Nodes \ {n} : job'[m] = job[m]
    BY <1>7 DEF End, TInv, LocalsOK
  <2> QED
    BY <1>3, <1>7, <2>1, <2>2 DEF TalkInv
<1>8. ASSUME NEW n \in Nodes, Started(n)
      PROVE  TalkInv'
  <2>1. /\ UNCHANGED talk
        /\ \/ job' = [job EXCEPT ![n] = Checkpointed]
           \/ job' = [job EXCEPT ![n] = [Idle({}, {}) EXCEPT !.at = "survey"]]
    BY <1>8 DEF Started, Start, talkVars
  <2>2. job'[n].at \in {"routing", "survey"} /\ job'[n].calls = 0
    BY <2>1 DEF Checkpointed, Idle, TInv, LocalsOK
  <2>3. TalkOK(n)'
    BY <2>2, NobodyTalks DEF Replying
  <2>4. \A m \in Nodes \ {n} : job'[m] = job[m]
    BY <2>1 DEF TInv, LocalsOK
  <2> QED
    BY <1>3, <2>1, <2>3, <2>4 DEF TalkInv
<1>9. ASSUME NEW n \in Nodes, NEW f \in Files, CommandWrites(n, f), UNCHANGED talk
      PROVE  TalkInv'
  <2>1. /\ job'[n].at = job[n].at /\ job'[n].calls = job[n].calls
        /\ \A m \in Nodes \ {n} : job'[m] = job[m]
    BY <1>9 DEF CommandWrites, TInv, LocalsOK, Job
  <2> QED
    BY <1>1, <1>3, <1>9, <2>1 DEF TalkInv
<1> QED
  BY <1>4, <1>5, <1>6, <1>7, <1>8, <1>9 DEF GateNext, GateProgress, Judged, talkVars

LEMMA TalkAlways == GateSpec => []TalkInv
<1>1. GateInit => TalkInv
  <2>1. SUFFICES ASSUME GateInit
                 PROVE  TalkInv
    OBVIOUS
  <2>2. DOMAIN talk = Nodes /\ job = [n \in Nodes |-> Idle({}, {})]
    BY <2>1 DEF GateInit, TalkInit, Init
  <2> QED
    BY <2>2 DEF TalkInv, TalkOK, Idle, Replying
<1>2. TInv /\ TalkInv /\ [GateNext]_gateVars => TalkInv'
  BY TalkStep
<1> QED
  BY <1>1, <1>2, GatesImplementExecutor, TypedAlways, PTL DEF GateSpec

\* Whatever the replies, the results and the compactions: in every request the calls of
\* a message are answered by as many results, at once and in order, behind the system
\* prompt and the contract (compaction.ts).
THEOREM RequestsAlwaysBind == GateSpec => []RequestsBind
<1>1. TalkInv => RequestsBind
  <2>1. SUFFICES ASSUME TalkInv, NEW n \in Nodes, At(n, "chat")
                 PROVE  /\ Len(talk[n]) >= 2 /\ SubSeq(talk[n], 1, 2) = Opening
                        /\ \A i \in DOMAIN talk[n] :
                             talk[n][i].role = "assistant" => AnsweredIn(talk[n], i)
    BY DEF RequestsBind, AnsweredIn
  <2>2. Bound(talk[n])
    BY <2>1 DEF TalkInv, TalkOK, At
  <2>3. talk[n] \in Seq(Msg) /\ DOMAIN talk[n] = 1 .. Len(talk[n]) /\ Len(talk[n]) >= 2
        /\ Len(talk[n]) \in Nat
    BY <2>2, LenProperties DEF Bound, Opened
  <2>4. SubSeq(talk[n], 1, 2) = Opening
    <3> DEFINE l == talk[n]
               s == SubSeq(l, 1, 2)
    <3>1. l[1] = Message("system") /\ l[2] = Message("user")
      BY <2>2 DEF Bound, Opened
    <3> HIDE DEF l
    <3>2. \A i \in 1 .. 2 : l[i] \in Msg
      BY <3>1, MessagesAreMsg
    <3>3. s \in Seq(Msg) /\ Len(s) = 2 /\ s[1] = l[1] /\ s[2] = l[2]
      BY <3>2, SubSeqProperties
    <3> HIDE DEF s
    <3> DEFINE a == Message("system")
               b == Message("user")
    <3>4. a \in Msg /\ b \in Msg
      BY MessagesAreMsg
    <3> HIDE DEF a, b
    <3>5. <<a, b>> \in Seq(Msg) /\ Len(<<a, b>>) = 2
      BY <3>4
    <3>6. \A i \in 1 .. 2 : s[i] = <<a, b>>[i]
      BY <3>1, <3>3 DEF a, b
    <3>7. s = <<a, b>>
      BY <3>3, <3>5, <3>6, SeqEqual
    <3> QED
      BY <3>7 DEF s, l, a, b, Opening
  <2> QED
    BY <2>2, <2>3, <2>4 DEF Bound
<1> QED
  BY <1>1, TalkAlways, PTL

\* And what the last reply asked to see is whole in the next request, as long as no more
\* messages follow the reply than compaction spares.
THEOREM FreshResultsStayWhole == GateSpec => []FreshResultsAreWhole
<1>1. TalkInv => FreshResultsAreWhole
  <2>1. SUFFICES ASSUME TalkInv, NEW n \in Nodes, At(n, "chat")
                 PROVE  LastReply(talk[n]) > 0 /\ Len(talk[n]) - LastReply(talk[n]) <= KeepRecent =>
                          \A j \in LastReply(talk[n]) + 1 .. Len(talk[n]) :
                            talk[n][j].body # "elided"
    BY DEF FreshResultsAreWhole
  <2>2. Fresh(talk[n]) /\ talk[n] \in Seq(Msg)
    BY <2>1 DEF TalkInv, TalkOK, At, Bound, Opened
  <2>3. CASE \A j \in 1 .. Len(talk[n]) : talk[n][j].role # "assistant"
    <3>1. {i \in 1 .. Len(talk[n]) : talk[n][i].role = "assistant"} = {}
      BY <2>3
    <3>2. LastReply(talk[n]) = 0
      BY <3>1 DEF LastReply, SelectLastInSeq
    <3> QED
      BY <3>2
  <2>4. ASSUME NEW p \in 1 .. Len(talk[n]), FreshAfter(talk[n], p)
        PROVE  LastReply(talk[n]) = p
    <3>1. p \in DOMAIN talk[n]
      BY <2>2, LenProperties
    <3> QED
      BY <2>2, <2>4, <3>1, LastReplyIs DEF FreshAfter
  <2> QED
    BY <2>2, <2>3, <2>4 DEF Fresh, FreshAfter
<1> QED
  BY <1>1, TalkAlways, PTL

=============================================================================
