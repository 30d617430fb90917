------------------------------ MODULE NodeGates ------------------------------
(***************************************************************************)
(* The gates that judge what a node wrote (core/src/gates/vector.ts and    *)
(* the end of cli/src/executor.ts), one gate after the other, against the  *)
(* survey of the untouched workspace.  A gate's output is a set of lines,  *)
(* colours and durations taken away: of a long output the last twelve.     *)
(***************************************************************************)
EXTENDS NodeTranscript

CONSTANTS
  Lines,     \* what a gate may print
  Scripts,   \* gates the project's package.json has, in the order they run
  Surveyed   \* what each of them said of the untouched workspace

Result(gate, passed, lines) == [gate |-> gate, passed |-> passed, lines |-> lines]

\* A gate that throws, or whose script is killed at its timeout, fails with
\* what it printed.
Verdicts(gate) == {Result(gate, TRUE, {})} \cup {Result(gate, FALSE, l) : l \in SUBSET Lines}

ASSUME GatesAssumption ==
  /\ Scripts \in Seq(STRING)
  /\ "secrets" \notin {Scripts[i] : i \in DOMAIN Scripts}
  /\ \A i \in DOMAIN Scripts : Surveyed[Scripts[i]] \in Verdicts(Scripts[i])

VARIABLE vector   \* the results of the gates of each node's last call

gateVars == <<allVars, vector>>

GateInit == TalkInit /\ vector = [n \in Nodes |-> <<>>]

-----------------------------------------------------------------------------
\* Mutant of Selected: the scripts run only if all that was written is source.
SelectedIfAll(n) ==
  IF job[n].written \subseteq Source THEN <<"secrets">> \o Scripts ELSE <<"secrets">>

\* Prose and the program's own reports are only scanned for secrets; what the
\* commands wrote is not looked at.
Selected(n) ==
  IF job[n].written \cap Source # {} THEN <<"secrets">> \o Scripts ELSE <<"secrets">>

\* Mutant of Unchanged: one old line excuses the others.
UnchangedIfAny(result) ==
  LET prior == Surveyed[result.gate] IN
    ~prior.passed /\ (result.lines \cap prior.lines # {} \/ result.lines = prior.lines)

\* Every line was there before; a silent failure repeats only a silent one.
Unchanged(result) ==
  LET prior == Surveyed[result.gate] IN
    /\ ~prior.passed /\ result.lines \subseteq prior.lines
    /\ result.lines = {} => prior.lines = {}

\* acceptUnchangedBaselineFailures, for the nodes that waited for the survey.
Accepted(n, result) ==
  \/ result.passed
  \/ result.gate # "secrets" /\ NeedsGates(n) /\ Unchanged(result)

Passes(n) == \A i \in DOMAIN vector[n] : Accepted(n, vector[n][i])

Started(n) == Start(n) /\ vector' = [vector EXCEPT ![n] = <<>>] /\ UNCHANGED talkVars

\* The signal is looked at between two gates, and a gate runs to its end.
GateRan(n) ==
  /\ At(n, "gates") /\ ~cancelled /\ Len(vector[n]) < Len(Selected(n))
  /\ \E result \in Verdicts(Selected(n)[Len(vector[n]) + 1]) :
       vector' = [vector EXCEPT ![n] = Append(@, result)]
  /\ UNCHANGED allVars

\* An aborted vector passes on what it has, which may be nothing.
Judged(n) ==
  /\ At(n, "gates") /\ (cancelled \/ Len(vector[n]) = Len(Selected(n)))
  /\ End(n, IF ~Passes(n) THEN "gates"
            ELSE IF Len(vector[n]) = Len(Selected(n)) THEN "ok" ELSE "unchecked")
  /\ UNCHANGED <<workspace, spending, survey, cancelled, twoPhase, attempts, vector, talkVars>>

GateProgress(n) == (Progress(n) /\ UNCHANGED vector) \/ GateRan(n) \/ Judged(n)

GateNext ==
  \/ (SurveyTaken \/ Cancel) /\ UNCHANGED <<talkVars, vector>>
  \/ \E n \in Nodes :
       \/ GateProgress(n) \/ Started(n)
       \/ \E f \in Files : CommandWrites(n, f) /\ UNCHANGED <<talkVars, vector>>

GateSpec ==
  /\ GateInit /\ [][GateNext]_gateVars
  /\ WF_gateVars(SurveyTaken /\ UNCHANGED <<talkVars, vector>>)
  /\ \A n \in Nodes : WF_gateVars(GateProgress(n))

-----------------------------------------------------------------------------
Ran(n) == {vector[n][i] : i \in DOMAIN vector[n]}

\* A failure that the untouched workspace did not show: a secret, a gate that
\* passed before, a line that was not there, or silence where there were lines.
IsNew(result) ==
  /\ ~result.passed
  /\ \/ result.gate = "secrets" \/ Surveyed[result.gate].passed
     \/ result.lines \ Surveyed[result.gate].lines # {}
     \/ result.lines = {} /\ Surveyed[result.gate].lines # {}

\* The gates that what was written calls for.
CalledFor(n) ==
  {"secrets"} \cup (IF job[n].written \cap Source = {} THEN {}
                    ELSE {Scripts[i] : i \in DOMAIN Scripts})

\* The gates refuse a node for a new failure and for nothing else, and let it pass
\* only if none of those that ran found one (executor.ts: "Only a new diagnostic
\* should reject the node").  All the gates that its writes call for have run by
\* then; without one of them a node passes only when the run was cancelled.
NewFailuresDecide ==
  \A n \in Nodes :
    /\ outcome[n] = "gates" => \E result \in Ran(n) : IsNew(result)
    /\ outcome[n] \in {"ok", "unchecked"} => \A result \in Ran(n) : ~IsNew(result)
    /\ outcome[n] = "ok" /\ job[n].written # {} =>
         {result.gate : result \in Ran(n)} = CalledFor(n)
    /\ outcome[n] = "unchecked" => cancelled
=============================================================================
