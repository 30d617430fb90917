---------------------------- MODULE NodeExecutor ----------------------------
(***************************************************************************)
(* cli/src/executor.ts: executeNode for the nodes of one run, several at a *)
(* time.  A call surveys the gates, takes its checkpoint, is routed, then  *)
(* loops over model replies (once, or to gather and then to apply) whose   *)
(* tool calls read and write the workspace through the cache, and is       *)
(* judged by verify, by the required write and by the gates.  One action   *)
(* is a stretch between two awaits.  Messages, compaction, retrieval and   *)
(* the notices that only advise the model are left out.                    *)
(***************************************************************************)
EXTENDS EpochCache, FiniteSets, Sequences

CONSTANTS
  Nodes,
  Writes, Reads,  \* node.sets
  Required,       \* nodes whose writePolicy is required
  CanWrite,       \* nodes whose persona may use the mutating tools
  Source,         \* names that requiresProjectValidation holds of
  Unhashed,       \* files below DEFAULT_IGNORES, and files that cannot be read
  Large,          \* files that verify knows by size and time of change only
  MaxSteps, MaxReads, MaxNodeTokens, MaxRunTokens,  \* configuration
  Costs,          \* tokens one reply or one brief may use
  MaxCalls,       \* bound: calls in one reply
  MaxAttempts,    \* bound: calls of executeNode for one node
  MaxVersion      \* bound: writes to one file

ASSUME ExecutorAssumption ==
  /\ Writes \in [Nodes -> SUBSET Resources]
  /\ \A n \in Nodes : IsFiniteSet(Writes[n])
  /\ Reads \in [Nodes -> SUBSET Resources]
  /\ Required \subseteq Nodes /\ CanWrite \subseteq Nodes /\ Source \subseteq Resources
  /\ Unhashed \subseteq Files /\ Large \subseteq Files
  /\ MaxSteps \in Nat /\ MaxReads \in Nat
  /\ MaxNodeTokens \in Nat \ {0} /\ MaxRunTokens \in Nat \ {0}
  /\ Costs \subseteq Nat /\ MaxCalls \in Nat /\ MaxAttempts \in Nat /\ MaxVersion \in Nat

-----------------------------------------------------------------------------
(* The limits of one call as functions of its counters: core/src/run/step- *)
(* budget.ts and core/src/run/read-budget.ts.                              *)

AtLeast(a, b) == IF a >= b THEN a ELSE b

\* StepBudget: one step per declared path and one to finish, whatever the
\* configuration says; a third of the total is held back for writing.
TotalSteps(maxSteps, writes) == AtLeast(AtLeast(1, maxSteps), writes + 1)
ReservedSteps(maxSteps, writes) ==
  AtLeast(writes + 1, (TotalSteps(maxSteps, writes) + 2) \div 3)
RemainingSteps(maxSteps, writes, used) ==
  LET total == TotalSteps(maxSteps, writes) IN IF used > total THEN 0 ELSE total - used

ReadsExhausted(maxReads, reads) == reads >= AtLeast(1, maxReads)

\* Mutant of OwesAWrite: the steps alone withdraw the read tools.
OwesAWriteOnSteps(required, declared, written, readsExhausted, stepsLow) ==
  required /\ declared # {} /\ written = {} /\ stepsLow

\* mustWriteNow: reading is withdrawn from a node that owes a write and has
\* stalled; one that has written may keep checking its work.
OwesAWrite(required, declared, written, readsExhausted, stepsLow) ==
  required /\ declared # {} /\ written = {} /\ (readsExhausted \/ stepsLow)

-----------------------------------------------------------------------------
VARIABLES
  disk,       \* contents of each file, as the number of times it was written
  epochs, cache,
  settled,    \* nodes whose tool has run, in the order their awaits resume
  announced,  \* history: the newest contents of each file a bump told of
  meter,      \* tokens of the whole run
  carried,    \* spentByNode
  own,        \* history: tokens of the node's own replies
  survey,     \* projectGateBaseline: "none", "running" or "taken"
  cancelled,
  twoPhase,   \* configuration, either way
  job,        \* the locals of the current or last call for each node
  outcome,    \* how that call ended
  attempts    \* calls made for each node

workspace == <<disk, epochs, cache, settled, announced>>
spending == <<meter, carried, own>>
vars == <<workspace, spending, survey, cancelled, twoPhase, job, outcome, attempts>>

Places == {"out", "survey", "routing", "loop", "chat", "calls", "settled",
           "command", "brief", "gates"}
Contents == 0 .. MaxVersion
NoTool == "none"
Job == [at : Places, only : {"all", "read", "write"},
        used : Nat, reads : Nat, calls : 0 .. MaxCalls,
        seen : SUBSET Files, written : SUBSET Files,
        commanded : SUBSET Files,              \* history: written by its commands
        base : [Files -> Contents], start : Nat, carry : Nat,
        tool : {NoTool, "read", "write"}, file : Files, got : Contents]

Outcomes == {"none", "ok", "unchecked", "contract", "stray_call", "stray_file",
             "gates", "error", "budget", "cancelled"}

\* No call: of the last one only what it wrote is remembered.
Idle(written, commanded) ==
  [at |-> "out", only |-> "all", used |-> 0, reads |-> 0, calls |-> 0,
   seen |-> {}, written |-> written, commanded |-> commanded,
   base |-> [f \in Files |-> 0], start |-> 0, carry |-> 0,
   tool |-> NoTool, file |-> CHOOSE f \in Files : TRUE, got |-> 0]

\* The checkpoint hashes the tree.
Checkpointed == [Idle({}, {}) EXCEPT !.at = "routing", !.base = disk]

Init ==
  /\ disk = [f \in Files |-> 0] /\ announced = disk
  /\ epochs = [r \in {} |-> 0] /\ cache = [k \in {} |-> 0] /\ settled = <<>>
  /\ meter = 0 /\ carried = [n \in Nodes |-> 0] /\ own = carried
  /\ survey = "none" /\ cancelled = FALSE /\ twoPhase \in BOOLEAN
  /\ job = [n \in Nodes |-> Idle({}, {})]
  /\ outcome = [n \in Nodes |-> "none"] /\ attempts = [n \in Nodes |-> 0]

-----------------------------------------------------------------------------
At(n, place) == job[n].at = place
Running == {n \in Nodes : ~At(n, "out")}

IsWritable(n, f) == Meets(Writes[n], f)

\* The supervisor's locks: a claim meets the write sets of the nodes at work,
\* and reads are looked at but not locked.
CanStart(n) ==
  \A m \in Running \ {n} : \A r \in Writes[n] \cup Reads[n] : ~Meets(Writes[m], r)

NeedsGates(n) == Writes[n] \cap Source # {}

Remaining(n) == RemainingSteps(MaxSteps, Cardinality(Writes[n]), job[n].used)
Reserve(n) == ReservedSteps(MaxSteps, Cardinality(Writes[n]))

\* What the share check counts: everything the run used since the call began.
Spent(n) == job[n].carry + (meter - job[n].start)

WriteOnlyNow(n) ==
  /\ n \in CanWrite
  /\ OwesAWrite(n \in Required, Writes[n], job[n].written,
                ReadsExhausted(MaxReads, job[n].reads), Remaining(n) <= Reserve(n))

Move(n, place) == job' = [job EXCEPT ![n].at = place]

\* The call returns or throws.
End(n, how) ==
  /\ job' = [job EXCEPT ![n] = Idle(@.written, @.commanded)]
  /\ outcome' = [outcome EXCEPT ![n] = how]

\* Mutant of Called: the loop counts the call and forgets to go on.
CalledStaying(n) == [job[n] EXCEPT !.calls = @ + 1]

Called(n) ==
  [job[n] EXCEPT !.at = "calls", !.calls = @ + 1,
     !.tool = NoTool, !.file = CHOOSE f \in Files : TRUE, !.got = 0]

Pay(n, c) == meter' = meter + c /\ own' = [own EXCEPT ![n] = @ + c] /\ UNCHANGED carried

-----------------------------------------------------------------------------
\* Mutant of StartsAtOnce: nobody waits for the survey.
NeverWaits(n) == TRUE

StartsAtOnce(n) == ~NeedsGates(n) \/ survey = "taken"

\* The supervisor calls executeNode: for the first time, or again after a
\* failure, a rejection or a cascade.
Start(n) ==
  /\ At(n, "out") /\ attempts[n] < MaxAttempts /\ CanStart(n) /\ ~cancelled
  /\ attempts' = [attempts EXCEPT ![n] = @ + 1]
  /\ outcome' = [outcome EXCEPT ![n] = "none"]
  /\ IF StartsAtOnce(n)
     THEN job' = [job EXCEPT ![n] = Checkpointed] /\ UNCHANGED survey
     ELSE /\ job' = [job EXCEPT ![n] = [Idle({}, {}) EXCEPT !.at = "survey"]]
          /\ survey' = IF survey = "none" THEN "running" ELSE survey
  /\ UNCHANGED <<workspace, spending, cancelled, twoPhase>>

SurveyTaken ==
  /\ survey = "running" /\ survey' = "taken"
  /\ UNCHANGED <<workspace, spending, cancelled, twoPhase, job, outcome, attempts>>

SurveyArrives(n) ==
  /\ At(n, "survey") /\ survey = "taken"
  /\ job' = [job EXCEPT ![n] = Checkpointed]
  /\ UNCHANGED <<workspace, spending, survey, cancelled, twoPhase, outcome, attempts>>

\* The share is counted from here; the tree was hashed before the await.
Routed(n) ==
  /\ At(n, "routing")
  /\ job' = [job EXCEPT ![n].at = "loop", ![n].start = meter,
               ![n].carry = carried[n],
               ![n].only = IF twoPhase /\ Writes[n] # {} THEN "read" ELSE "all"]
  /\ UNCHANGED <<workspace, spending, survey, cancelled, twoPhase, outcome, attempts>>

RoutingFails(n) ==
  /\ At(n, "routing") /\ End(n, "error")
  /\ UNCHANGED <<workspace, spending, survey, cancelled, twoPhase, attempts>>

-----------------------------------------------------------------------------
\* After the last phase: verify, the required write, then the gates, in one
\* stretch.

\* Mutant of Noticed: the check trusts what the tools reported.
Reported(n) == {job[n].written}

\* The walk of the tree passes the ignored directories by, so what changed there
\* is in neither hash; a write that leaves the bytes as they were is none here.
Changed(n) == {f \in Files \ Unhashed : disk[f] # job[n].base[f]}

\* The files whose every change shows in their hash.
Hashed == Files \ (Unhashed \cup Large)

\* What verify may see of the changes: of a large file nothing, if the writer kept its
\* size and put its time back.
Noticed(n) == {Changed(n) \ missed : missed \in SUBSET Large}

Strays(n, noticed) == \E f \in noticed : ~IsWritable(n, f)

Conclude(n) ==
  \E noticed \in Noticed(n) :
    \/ Strays(n, noticed) /\ End(n, "stray_file")
    \/ /\ ~Strays(n, noticed)
       /\ n \in Required /\ Writes[n] # {} /\ job[n].written = {}
       /\ End(n, "contract")
    \/ /\ ~Strays(n, noticed)
       /\ n \in Required => job[n].written # {}
       /\ Writes[n] # {}
       /\ Move(n, "gates") /\ UNCHANGED outcome
    \/ /\ ~Strays(n, noticed)
       /\ Writes[n] = {}
       /\ End(n, "ok")

LeaveLoop(n) ==
  IF job[n].only = "read" THEN Move(n, "brief") /\ UNCHANGED outcome ELSE Conclude(n)

\* Mutant of MayStep: gather may run the steps down, as long as it has tokens.
MayStepToTheEnd(n) ==
  Remaining(n) > 0 /\ (job[n].only = "read" => Spent(n) < MaxNodeTokens \div 2)

\* Gather stops at the reserve of steps and at half of the node's tokens.
MayStep(n) ==
  IF job[n].only = "read"
  THEN Remaining(n) > Reserve(n) /\ Spent(n) < MaxNodeTokens \div 2
  ELSE Remaining(n) > 0

StepsRunOut(n) ==
  /\ At(n, "loop") /\ ~MayStep(n) /\ LeaveLoop(n)
  /\ UNCHANGED <<workspace, spending, survey, cancelled, twoPhase, attempts>>

StepThrows(n) ==
  /\ At(n, "loop") /\ MayStep(n)
  /\ \/ cancelled /\ End(n, "cancelled")
     \/ ~cancelled /\ meter >= MaxRunTokens /\ End(n, "budget")
  /\ UNCHANGED <<workspace, spending, survey, cancelled, twoPhase, attempts>>

\* Mutant of Book: spend is only booked when a call ends well.
BookNothing(n) == carried' = carried

Book(n) == carried' = [carried EXCEPT ![n] = Spent(n)]

\* A step is used up and the spend booked before the share is checked.
Step(n) ==
  /\ At(n, "loop") /\ MayStep(n) /\ ~cancelled /\ meter < MaxRunTokens
  /\ Book(n)
  /\ IF Spent(n) > MaxNodeTokens
     THEN End(n, "contract")
     ELSE /\ job' = [job EXCEPT ![n].at = "chat", ![n].used = @ + 1]
          /\ UNCHANGED outcome
  /\ UNCHANGED <<workspace, meter, own, survey, cancelled, twoPhase, attempts>>

ReplyCalls(n, c) ==
  /\ At(n, "chat") /\ Pay(n, c)
  /\ job' = [job EXCEPT ![n].at = "calls"]
  /\ UNCHANGED <<workspace, survey, cancelled, twoPhase, outcome, attempts>>

\* No call and cut off at the output limit: the loop goes on.
ReplyTruncated(n, c) ==
  /\ At(n, "chat") /\ Pay(n, c) /\ Move(n, "loop")
  /\ UNCHANGED <<workspace, survey, cancelled, twoPhase, outcome, attempts>>

ReplyFinishes(n, c) ==
  /\ At(n, "chat") /\ Pay(n, c) /\ LeaveLoop(n)
  /\ UNCHANGED <<workspace, survey, cancelled, twoPhase, attempts>>

\* The provider fails, or its stream is aborted by the token.
ReplyFails(n) ==
  /\ At(n, "chat") /\ End(n, "error")
  /\ UNCHANGED <<workspace, spending, survey, cancelled, twoPhase, attempts>>

-----------------------------------------------------------------------------
\* The calls of one reply, one after the other.
CanCall(n) == At(n, "calls") /\ job[n].calls < MaxCalls

\* A read after the withdrawal, a tool the persona lacks, the same call again,
\* or a write that fails: the model gets a message, no more.
CallComesToNothing(n) ==
  /\ CanCall(n)
  /\ job' = [job EXCEPT ![n] = Called(n)]
  /\ UNCHANGED <<workspace, spending, survey, cancelled, twoPhase, outcome, attempts>>

CanRead(n, f) == CanCall(n) /\ f \notin job[n].seen /\ ~WriteOnlyNow(n)

\* A hit, or a tool that throws: it counts, but nothing is stored.
ReadAnswers(n, f) ==
  /\ CanRead(n, f)
  /\ job' = [job EXCEPT ![n] = [Called(n) EXCEPT !.seen = @ \cup {f}, !.reads = @ + 1]]
  /\ UNCHANGED <<workspace, spending, survey, cancelled, twoPhase, outcome, attempts>>

\* The tool reads at once; its result waits in the queue of resumed awaits.
ReadRuns(n, f) ==
  /\ CanRead(n, f) /\ ~Has(cache, Key(epochs, f, Reads[n]))
  /\ job' = [job EXCEPT ![n] = [job[n] EXCEPT
        !.at = "settled", !.seen = @ \cup {f}, !.reads = @ + 1,
        !.tool = "read", !.file = f, !.got = disk[f]]]
  /\ settled' = Append(settled, n)
  /\ UNCHANGED <<disk, epochs, cache, announced, spending, survey, cancelled, twoPhase,
                 outcome, attempts>>

\* write_file and edit_file: the write is made at once, told of later.
WriteRuns(n, f) ==
  /\ CanCall(n) /\ n \in CanWrite /\ IsWritable(n, f) /\ disk[f] < MaxVersion
  /\ disk' = [disk EXCEPT ![f] = @ + 1]
  /\ job' = [job EXCEPT ![n] = [job[n] EXCEPT
        !.at = "settled", !.tool = "write", !.file = f, !.got = disk[f] + 1]]
  /\ settled' = Append(settled, n)
  /\ UNCHANGED <<epochs, cache, announced, spending, survey, cancelled, twoPhase, outcome,
                 attempts>>

\* assertWritable throws through the loop.
WriteStrays(n, f) ==
  /\ CanCall(n) /\ n \in CanWrite /\ ~IsWritable(n, f)
  /\ End(n, "stray_call")
  /\ UNCHANGED <<workspace, spending, survey, cancelled, twoPhase, attempts>>

\* The await of a tool resumes, first come first served: the result is stored
\* under the epochs of now, or the write is noted and the epochs bumped.
Resume(n) ==
  /\ settled # <<>> /\ Head(settled) = n /\ settled' = Tail(settled)
  /\ \/ /\ job[n].tool = "read"
        /\ cache' = Store(cache, Key(epochs, job[n].file, Reads[n]), job[n].got)
        /\ epochs' = Register(epochs, Reads[n])
        /\ job' = [job EXCEPT ![n] = Called(n)]
        /\ UNCHANGED announced
     \/ /\ job[n].tool = "write"
        /\ epochs' = Bump(epochs, {job[n].file})
        /\ announced' = [announced EXCEPT ![job[n].file] = job[n].got]
        /\ job' = [job EXCEPT ![n] = [Called(n) EXCEPT !.written = @ \cup {job[n].file}]]
        /\ UNCHANGED cache
  /\ UNCHANGED <<disk, spending, survey, cancelled, twoPhase, outcome, attempts>>

CommandRuns(n) ==
  /\ CanCall(n) /\ n \in CanWrite /\ Move(n, "command")
  /\ UNCHANGED <<workspace, spending, survey, cancelled, twoPhase, outcome, attempts>>

\* The subprocess writes where the system lets it.
CommandWrites(n, f) ==
  /\ At(n, "command") /\ disk[f] < MaxVersion
  /\ disk' = [disk EXCEPT ![f] = @ + 1]
  /\ job' = [job EXCEPT ![n].commanded = @ \cup {f}]
  /\ UNCHANGED <<epochs, cache, settled, announced, spending, survey, cancelled, twoPhase,
                 outcome, attempts>>

\* run_command reports no writes: nothing is noted and nothing bumped.
CommandExits(n) ==
  /\ At(n, "command") /\ job' = [job EXCEPT ![n] = Called(n)]
  /\ UNCHANGED <<workspace, spending, survey, cancelled, twoPhase, outcome, attempts>>

ReplyDone(n) ==
  /\ At(n, "calls") /\ job[n].calls > 0 /\ job' = [job EXCEPT ![n].at = "loop", ![n].calls = 0]
  /\ UNCHANGED <<workspace, spending, survey, cancelled, twoPhase, outcome, attempts>>

-----------------------------------------------------------------------------
BriefCollected(n, c) ==
  /\ At(n, "brief") /\ Pay(n, c)
  /\ \/ job' = [job EXCEPT ![n].at = "loop", ![n].only = "write"] /\ UNCHANGED outcome
     \/ End(n, "contract")  \* it names blockers
  /\ UNCHANGED <<workspace, survey, cancelled, twoPhase, attempts>>

\* Mutant of BriefFails: a brief that fails is asked for again.
BriefAskedAgain(n) ==
  /\ At(n, "brief") /\ Move(n, "loop")
  /\ UNCHANGED <<workspace, spending, survey, cancelled, twoPhase, outcome, attempts>>

\* Whatever goes wrong, a cancellation too, is reported as the contract.
BriefFails(n) ==
  /\ At(n, "brief") /\ End(n, "contract")
  /\ UNCHANGED <<workspace, spending, survey, cancelled, twoPhase, attempts>>

\* runGates leaves its loop when the token is cancelled and counts what it has.
GatesEnd(n) ==
  /\ At(n, "gates")
  /\ \/ End(n, "ok")
     \/ End(n, "gates")
     \/ cancelled /\ End(n, "unchecked")
  /\ UNCHANGED <<workspace, spending, survey, cancelled, twoPhase, attempts>>

Cancel ==
  /\ ~cancelled /\ cancelled' = TRUE
  /\ UNCHANGED <<workspace, spending, survey, twoPhase, job, outcome, attempts>>

-----------------------------------------------------------------------------
\* Steps a call under way takes by itself or at the end of an await.
Advance(n) ==
  \/ SurveyArrives(n) \/ Routed(n) \/ RoutingFails(n)
  \/ StepsRunOut(n) \/ StepThrows(n) \/ Step(n)
  \/ \E c \in Costs : ReplyCalls(n, c) \/ ReplyTruncated(n, c) \/ ReplyFinishes(n, c)
                      \/ BriefCollected(n, c)
  \/ ReplyFails(n) \/ BriefFails(n)
  \/ CallComesToNothing(n) \/ CommandRuns(n) \/ CommandExits(n) \/ ReplyDone(n)
  \/ \E f \in Files : ReadAnswers(n, f) \/ ReadRuns(n, f) \/ WriteRuns(n, f) \/ WriteStrays(n, f)
  \/ Resume(n) \/ GatesEnd(n)

Next ==
  \/ SurveyTaken \/ Cancel
  \/ \E n \in Nodes : Start(n) \/ Advance(n) \/ \E f \in Files : CommandWrites(n, f)

Spec == Init /\ [][Next]_vars

\* Commands and gates have timeouts, a model's stream is taken to end, and the
\* event loop resumes every await whose promise settled.
Fairness == WF_vars(SurveyTaken) /\ \A n \in Nodes : WF_vars(Advance(n))

FairSpec == Spec /\ Fairness

-----------------------------------------------------------------------------
\* The shape of every variable; a node waits in the queue of resumed awaits
\* exactly while its tool has settled.
TypeOK ==
  /\ disk \in [Files -> Contents] /\ announced \in [Files -> Contents]
  /\ DOMAIN epochs \subseteq Resources /\ \A r \in DOMAIN epochs : epochs[r] \in Nat
  /\ \A k \in DOMAIN cache : cache[k] \in Contents
  /\ settled \in Seq(Nodes) /\ {settled[i] : i \in DOMAIN settled} = {n \in Nodes : At(n, "settled")}
  /\ meter \in Nat /\ carried \in [Nodes -> Nat] /\ own \in [Nodes -> Nat]
  /\ survey \in {"none", "running", "taken"} /\ cancelled \in BOOLEAN /\ twoPhase \in BOOLEAN
  /\ job \in [Nodes -> Job] /\ outcome \in [Nodes -> Outcomes]
  /\ attempts \in [Nodes -> 0 .. MaxAttempts]

\* A read of a file inside the node's declared reads is never served contents
\* older than the last write a bump told of, whoever wrote, and although
\* readers and writers overlap (epoch.ts: "a write makes prior keys
\* unreachable").
CacheKnowsBumps ==
  \A n \in Nodes, f \in Files :
    LET key == Key(epochs, f, Reads[n])
    IN Meets(Reads[n], f) /\ Has(cache, key) => cache[key] >= announced[f]

\* A node that owes a write and has made none has not read more often than its
\* budget, also within one reply (executor.ts: "Re-evaluated per tool call, not
\* per step").
ReadingIsForced ==
  \A n \in Nodes \cap Required \cap CanWrite :
    Writes[n] # {} /\ job[n].written = {} => job[n].reads <= AtLeast(1, MaxReads)

\* However gather goes, it leaves to apply a step for every declared path and one to
\* finish (step-budget.ts: "Steps held back for writing").
ApplyCanWriteEverything ==
  \A n \in Nodes : job[n].only = "read" => Remaining(n) >= Cardinality(Writes[n]) + 1

\* At every request the node has used no more than its share, up to what each
\* earlier attempt could not book: its last reply and its brief (executor.ts:
\* "a retry spends what is left of it rather than starting again").
ShareIsPerNode ==
  \A n \in Nodes, c \in Costs :
    At(n, "chat") /\ (\A d \in Costs : d <= c) =>
      own[n] <= MaxNodeTokens + 2 * c * (attempts[n] - 1)

\* What a node's commands changed outside its declaration, among the files that
\* verify hashes, is noticed: the node never reaches the gates (checkpoint.ts:
\* "detection is enough, because it fails the node").  Files below an ignored
\* directory, files that cannot be read and large ones may be written unnoticed.
StrayFilesFail ==
  \A n \in Nodes :
    At(n, "gates") \/ outcome[n] \in {"ok", "unchecked", "gates"} =>
      \A f \in job[n].commanded \cap Hashed : IsWritable(n, f)

\* No source file has been written through the tools before the survey of the
\* gates is taken (executor.ts: "none can race ahead and contaminate the
\* baseline").
SurveyIsPristine ==
  survey # "taken" => \A f \in Files \cap Source : announced[f] = 0

\* What that needs of the names: one that asks for no gates (.md and the like, .aca/,
\* .studio/) meets no source file.  A directory that is spelled like a note would.
NotesMeetNoSource ==
  \A r \in Resources \ Source, f \in Files \cap Source : <<r, f>> \notin Overlap

\* Every call of executeNode ends, whatever the model answers.
CallsEnd == \A n \in Nodes : ~At(n, "out") ~> At(n, "out")

-----------------------------------------------------------------------------
\* What the code or its documents say and the code does not do.

\* Only a node whose own command wrote outside its set is failed for it
\* (executor.ts: "Detects a subprocess that wrote outside the declaration").
OnlyTheOffenderFails ==
  \A n \in Nodes : outcome[n] = "stray_file" => \E f \in job[n].commanded : ~IsWritable(n, f)

\* No command's write outside its node's set gets past verify (checkpoint.ts: "what
\* catches a subprocess that ignored its instructions").
EveryStrayFails ==
  \A n \in Nodes : At(n, "gates") => \A f \in job[n].commanded : IsWritable(n, f)

\* Every file a passed node wrote was among the files its gates looked at
\* (executor.ts: "Secrets still scan every actual write").
EveryWriteIsScanned ==
  \A n \in Nodes : outcome[n] = "ok" => job[n].commanded \subseteq job[n].written

\* A node is charged for its own replies (executor.ts: "Token spend per node
\* id").
ChargedForItsOwn == \A n \in Nodes : carried[n] <= own[n]

\* While it gathers a node may read (executor.ts: "the forcing function is not
\* consulted").
GatherMayRead == \A n \in Nodes : job[n].only = "read" /\ At(n, "calls") => ~WriteOnlyNow(n)

\* Gather writes nothing (docs/09-loop-redesign.md: "gather changes nothing, so
\* nothing needs tracking").
GatherWritesNothing == \A n \in Nodes : job[n].only = "read" => job[n].written = {}

\* A cached read shows the file as it is (docs/01-flow-review.md: the cache is
\* "only sound if nothing has mutated the underlying resource").
HitIsFresh ==
  \A n \in Nodes, f \in Files :
    CanRead(n, f) /\ Has(cache, Key(epochs, f, Reads[n])) /\ settled = <<>> =>
      cache[Key(epochs, f, Reads[n])] = disk[f]

\* A node that wrote passes only with its gates run.
PassedMeansGated == \A n \in Nodes : outcome[n] # "unchecked"
=============================================================================
