# Auto-Code-Agent: a formal model

TLA+ modules, TLC configurations and TLAPS proofs for Auto-Code-Agent (`src/packages`). The program
plans a goal into a graph of nodes, runs each node with a model and tools, reviews the result, and
recovers from failures by retry, escalation to a human, or rollback with cascade. It is
single-threaded TypeScript on one SQLite database per workspace; a daemon serves several windows, a
terminal runs the same core in its own process.

Contents: [the system](#the-system), [modules](#modules), [runs](#runs), [proofs](#proofs),
[known divergences](#known-divergences), [not modelled](#not-modelled), [plan](#plan).

## The system

Control moves only at an `await`. A stretch of code between two awaits is atomic with respect to
everything else in the process; every database operation is synchronous. What is concurrent: the
nodes of one batch (`Promise.all`), the frames of each socket, timers, hooks that wait for a model
or a human, several sessions and runs of one workspace, several windows and applications, and a later
process that finds what an earlier one left in the database.

| component | code | state | operations | talks to |
|---|---|---|---|---|
| lock manager | `core/scheduler/locks.ts` | table `locks` | acquire, release, park, unpark, forceRelease | event log |
| resource names | `core/scheduler/resource.ts` | none | normalise, intersect | locks, cascade, cache, planner |
| run supervisor | `core/run/supervisor.ts` | node status, attempts, review loops | run, runNode, park, handleFailure, rollbackNode | locks, classifier, cascade, review, log, hooks |
| classifier, cascade | `core/recovery`, `core/scheduler/cascade.ts` | none | classify, cascadeInvalidate | supervisor |
| review | `core/review/loop.ts`, `cli/reviewer.ts` | rounds, critiques seen | accept, reject | supervisor, router |
| cancellation, budget | `core/run/cancellation.ts`, `core/budget/meter.ts` | token, spend | cancel, throwIfCancelled, record, check | supervisor, executor |
| event log, fold | `core/events` | table `events` | append, read, fold | every screen, replay |
| approval broker | `daemon/approvals.ts` | clients, pending, timers | attach, detach, request, respond | supervisor hook, sockets |
| session manager | `daemon/sessions.ts` | maps `runs` and `plans` | plan, start, reject, cancel, chat | planner, supervisor, every client |
| desktop window | `desktop/renderer` | rows, bubbles, busy, cards, run and nodes | send, approve, reject, cancel, reconnect | sessions, broker |
| daemon process, desktop main | `daemon/server.ts`, `bin.ts`, `client.ts`, `desktop/main` | info file, sockets, child process | listen, stop, adopt, replace, spawn, quit | windows |
| terminal | `cli/tui` | busy, approval, what was drawn last, resolver, supervisor | submit, answer, cancel, exit | planner, supervisor, chat |
| node executor | `cli/executor.ts`, `core/run/*` | conversation, budgets | executeNode, runPhase | router, tools, cache, gates |
| gates | `core/gates/vector.ts` | survey of the workspace | runGates, compare | executor |
| epoch cache | `core/cache/epoch.ts` | tables `resource_epochs`, `cache` | bump, key, get, set, register | executor |
| checkpoint | `tools/checkpoint.ts` | file hashes | captureBaseline, verify, write | executor |
| planner | `core/plan`, `cli/generator.ts` | none between calls | plan, repair, normalise, validate | router, structured output |
| router, probe | `providers/router.ts`, `probe.ts` | listing cache, breakers, measured cards | catalogue, shortlist, applyScorecards | planner, executor, reviewer, chat |
| stream readers | `providers/anthropic.ts`, `openai-compat.ts`, `ollama.ts` | slots of open calls | read a stream, write messages | executor, chat |
| personas | `core/persona`, `tools/registry.ts` | none | requirementFor, resolvePermission | router, executor, planner |
| memory | `core/memory`, `cli/workspace-service.ts` | chunks, words, hashes | index, search | clients, executor |
| chat | `core/chat/thread.ts`, `cli/chat.ts` | thread | append, toChatMessages, rounds | sessions, terminal |

What is hard, and what makes each part correct:

- **Locks.** Whole-set acquisition over overlapping names, a refusal half-way, retained rows of a
  parked node, rows of other runs and of dead ones. Correct: no two owners hold intersecting rows; an
  owner holds its whole set or nothing; a parked hold survives everything but its own decision.
- **Supervisor.** A batch settles in any order; a cascade relabels nodes that are suspended at an
  await; one rejection ends the loop while siblings go on; attempts are reset by grants and
  cascades. Correct: a node in flight holds its writes, nothing starts after a cancellation, a
  finished run leaves nothing behind, and the run ends.
- **Log and screens.** Events of several nodes interleave, some steps log twice or less than they
  changed. Correct: what is derived from the log is true of the run.
- **Approvals, sessions, windows.** Two windows answer, a timer denies, sockets drop frames and come
  back, ids come from the clock. Correct: each request is decided once and by a human, one
  execution of a plan at a time, a rejected proposal never runs, and all windows show one stream.
- **Processes.** Applications adopt, replace and spawn daemons; quitting stops what was spawned.
  Correct: nobody stops a run by closing a window (the code does: see `quit`).
- **Terminal.** One approval slot for all that ask, lines typed while a turn goes on, Esc at any
  moment, keys that go by a screen drawn before the last change. Correct: nothing runs that was not
  granted, Esc stops the run, a turn ends.
- **Executor, gates, cache, checkpoint.** Several nodes read and write one tree between their
  awaits; commands write without saying so; two phases share step, read and token limits; messages
  are compacted under the model's eyes. Correct: no cached read is older than a write that was told
  of, undeclared writes to hashed files never reach the gates, only new failures reject, requests stay answerable,
  and every call ends.
- **Planner, router.** Sessions share breakers, a cache and cards that a probe replaces under way;
  a model answers anything. Correct: what is proposed can be run to its end, and planning ends.
- **Memory.** Indexing awaits between deleting and inserting; callers overlap, files change, the
  daemon dies. Correct: the rows are those of the marked text, the index catches up.
- **Chat, streams.** Frames interleave and break off; turns overlap and crash in the middle; the
  window cuts the thread. Correct: a server accepts every request, and calls are the model's.

`PROJECT.json` lists every component with its status, and under `hazards` the line where each of
these bites.

## Modules

| module | models | state and actions |
|---|---|---|
| `ResourceNames` | `resource.ts` | `NormalizeResource`, `ResourcesIntersect`, `SetsIntersect` on sequences of segments, and `Touches`, what a name means in a tree of files |
| `LockTable` | the `locks` table and the SQL of `locks.ts` | pure operators from one table to the next: `Acquire` (with `Taken`, what was inserted before the conflict), `Release`, `Park`, `Unpark`, `ForceRelease` |
| `LockManager` | the calls supervisors make on one table | `locks`, `phase`; one action for each call, and `Abandon` for a cancelled run or a dead process; history `robbed`, who lost a row to a node of another run with the same id |
| `LockOwnership` | what the lock manager promises | owners take whole sets when nothing of another node id overlaps, and drop them; who shares its id with the taker loses what overlaps |
| `Recovery` | `classify`, `cascadeInvalidate` | pure operators; the search is a function on its depth |
| `Review` | `loop.ts`, `reviewer.ts` | pure operators: `SemanticHash`, `Reject`, `Opinion` |
| `RunSupervisor` | one run of `supervisor.ts` | see below |
| `EventFold` | `fold`, `event-lines.ts`, the timeline | `Apply` folds one event into a view of the run, `Show` into what the desktop shows; `ProgressLines` |
| `RunEvents` | the supervisor with its log | each action of `RunSupervisor` conjoined with the events it appends; `view` and `window` are the folds so far |
| `ApprovalBroker` | `approvals.ts`, the socket, the approval card | `pending`, `verdict`, frames in both directions, `screen` |
| `OneShotDecision` | what an approval gate promises | each request is decided once |
| `SessionManager` | the run half of `sessions.ts` | the maps, `stage`, and the executions under way |
| `Desk` | windows on the sessions | see below |
| `Engine`, `Desktop` | daemon processes; the application that adopts, replaces or spawns one, and its window's socket | `proc`, `info`, `work`, `socket`, `listeners`; `main`, `child`, `window` |
| `Terminal` | `run-tui.tsx`, `app.tsx` | `busy` and `approval` of `AppState`, `screen` (both as drawn last), the two refs of `Root`, where each turn and each node is |
| `EpochCache` | `epoch.ts` | pure operators: `Bump`, `Register`, `Key`, `Has`, `Store` |
| `NodeExecutor` | `executeNode` with its checkpoint, tools, cache, budgets and gates | see below |
| `NodeTranscript` | its messages, notices and `compaction.ts` | `talk`, `told`; each action of the executor with what it says |
| `NodeGates` | `vector.ts` and the comparison with the survey | `vector`; `GateRan` runs one gate, `Judged` decides |
| `PlanRules` | `normalize.ts`, `validate.ts` | pure operators on a graph: `NormalizeDag`, `Errors`, `Warnings` |
| `ModelRouter` | `router.ts`, the needle search of `probe.ts` | pure operators on a router `[breakers, cards, cache, pinned]` |
| `Planner` | `planner.ts` over `generator.ts`, `structured.ts` and the router, beside `models.probe` | `router`, `calls`, `probe`, `now` |
| `Personas` | `registry.ts`, the permission matrix, the simulation of `Models.tsx` | pure operators |
| `Memory` | `chunker.ts`, `store.ts` under `indexWorkspace` and `search` | `files`, `marks`, `chunks`, `words`, the passes and the searches under way |
| `Streams` | three stream readers, three wire forms | pure operators: `Chunks` (what a reader makes of frames), `Wire`, `Binds` |
| `Conversation` | chat of `sessions.ts` and `run-tui.tsx` on `thread.ts` | `thread`, `turn` |
| `Views` | `thread-groups.ts`, `DiffReview.tsx` | pure operators: `Arrived`, `GroupThread`, `DiffRows`, `DiffHunks` |
| `*_proofs` | theorems about the module they extend | |
| `MC*` | plans, resources, replies and names for TLC | |

Composition: `RunSupervisor` is built on `LockTable` and `Recovery`, `RunEvents` on it and
`EventFold`; `NodeGates` on `NodeTranscript` on `NodeExecutor` on `EpochCache`; `Desk` on
`SessionManager`; `Desktop` on `Engine`; `Planner` on `PlanRules` and `ModelRouter`; `Conversation` on
`Streams`. `safety` and `log` take what a node's execution does as a choice of outcome; `two_nodes` and
`one_node` take when it is called as a choice within its locks.

**RunSupervisor.** `pc[n]` names the await at which node `n` is suspended: `executing` (the
executor), `reviewing`, `widening`, `rolling_back`, `awaiting_human`. `Dispatch` is the top of the
loop and needs every node of the last batch settled; `Launch(n)` is `runNode` up to its first
await. A batch is launched by one synchronous loop in plan order, so every other action requires
`launching = {}` but the budget's: it runs out by the clock as well, and so between two launches of a
batch (`BudgetRunsOut`). The ways out of an await are one action each, and each contains everything the
code does before the next await: `HandleFailure` (retry and fallback give the locks back and
requeue; widening and rollback await a hook; escalation parks), `ReviewApproves`, `ReviewRejects`,
`HumanGrants`, `HumanDenies`, `RollbackDone` (release, then relabel every consumer the cascade
found, those in flight included). `ExecuteCancelled` is the throw that leaves the locks in place and
ends the loop while siblings are in flight; they go on settling afterwards, as their promises do.
What a hook answers is nondeterministic: the kind of error, the verdict, the critique, the human's
decision.

**NodeExecutor.** `job[n]` holds the locals of the call of `executeNode` under way for node `n`, and
`job[n].at` the await at which it is suspended: `survey` (the pristine run of the gates that all
nodes share), `routing`, `chat` (a model reply), `settled` (a tool that has run and whose await has
not resumed), `command`, `brief`, `gates`. `loop` and `calls` are the top of `runPhase`'s loop and of
its loop over the calls of a reply; the code does not yield there, so letting others act in between
adds behaviours and removes none. `Start` is the supervisor's call, allowed when the write sets of
the nodes at work meet neither the reads nor the writes of the new one, which is what its locks
say. `ReadRuns` and `WriteRuns` act on the tree at once; `Resume` is what the executor does with the
result: it stores a read under the epochs of that moment, or notes a write and bumps. Awaits of
promises that have settled resume in the order they settled; the queue `settled` lets anything else
happen in between. `Conclude` is the stretch from `verify` through the required write to the start of
the gates. A command may write any file at any moment while it runs, and reports nothing.
`carried` is `spentByNode`, `meter` the meter of the run. A model reply is a nondeterministic choice:
any calls, none, or a failure, at any cost of `Costs`. Edits a user makes outside the program are not
modelled. `NodeTranscript` adds the list of messages each step sends, where of a message only its
role, its calls and whether its body is long or elided is kept; `NodeGates` runs the gates one by
one and compares their lines with the survey's.

**Desk.** A call travels on `uplink[w]`, what the daemon says on `downlink[w]`; `waiting[w]` is
`RendererClient.waiting`. `Dispatch(w)` is the daemon's handler of the next frame and contains the
session manager's operation; `Tell` broadcasts to every attached window and answers the caller, in
one order. `Receive(w)` is one frame handled by `App.tsx`. `Close` and `Reconnect` are the socket's:
what is on the way is lost, calls are rejected, and nothing is asked for again. A window adds a row
of its own for each chat or plan call that failed or was rejected by the close; the model keeps these
beside the rows it was told (`errors`), so that the place where they stand between them does not
matter. `chat.tool` and `chat.toolResult` are two broadcasts (`Round`, `ToolReturns`), with any other frame between
them.

**LockManager.** An owner is a node of a run; `NodeOf` is its id, which `findConflict` and the upsert go
by. Planners number nodes `n1, n2, ...`, so two runs share ids: an acquire refuses intersecting rows of
other ids, and takes those of its own id over from whichever run has them (`Namesakes`). Within one run ids
are distinct, which plans ensure (`AcceptedPlansFinish`) and `RunAssumption` states.

**Conversation.** A tool's result passes the output guard, which puts a long one aside in a file. When
that write throws, the turn ends with calls that have no result (`GuardFailsStored`, `GuardFailsShared`): a stored
thread is read without them, the terminal's list stays torn. The history `torn` says that this happened,
or that turns overlapped.

Abstractions: the lock table, the executor and the cache take resource names as a finite set with
any reflexive symmetric relation `Overlap`; `Planner_proofs` shows that the names of `resource.ts` are
such a relation. The text of errors, critiques, lines and events is reduced to what the code
distinguishes. History variables (named as such where they are declared) influence nothing. Mutated
operators stand before the ones they replace and are used by no specification.

Bounds. `MaxGrants` (how often the human says yes in a run: the code has no limit, and with an
unlimited human a run may indeed be granted for ever), `MaxAttaches` (connections opened),
`MaxStarts` (approvals of one plan object), `Ids` (readings of the clock), `MaxClicks` (a question counts as
three, a closed socket as one), `MaxLost`,
`MaxQueued`, `MaxUnderWay` (what users do, sockets lost, calls and frames on the way), `MaxOpens`,
`MaxLaunches`, `MaxCrashes` (workspaces opened, applications started, processes that die),
`MaxRounds` of `Desk` (rounds of tools of a question), `MaxCalls` and `MaxCalling` (calls in one reply, replies with calls), `MaxVersion` (writes to one file),
`MaxEdits` (changes of files), `Costs` (tokens of one reply), `MaxProbes`, `MaxTime`, and the executor's
`MaxAttempts` (calls of `executeNode` for one node). `MaxRepairs`, `MaxFixes`, `Threshold`, `Cooldown`,
`Trials`, `Keep`, `Limit`, `CompactAt`, `KeepRecent`, `MaxSteps`, `MaxReads`, the supervisor's `MaxAttempts`,
`MaxReviewRounds`, `MaxCascadeDepth` and `Width` are the program's own options or constants, given small
values.

## Runs

| run | instance | shows |
|---|---|---|
| `two_runs` | two runs with two nodes each, both with a node `n1`; a directory, its two files and one more resource | only the acquire of a namesake takes rows from a parked node, and the table implements `LockOwnership` |
| `safety` | three nodes of which two may run at once, one dependency, one read/write feed, one write/write conflict; two attempts, one review round, one grant, a budget | the safety of the supervisor, and a cascade that leaves no finished reader behind |
| `log` | two nodes that feed on each other, two grants, a budget, cascades cut at depth one, under fairness | the folds agree with the run on finished nodes, pending approvals and activity; the run ends |
| `two_requests` | two windows, three connections, two approvals, timers under fairness | one decision for each request, by a human or the timer, and each is decided |
| `two_nodes` | a coder that must change the source and declares the directory as its reads, beside a scribe of a note in that directory; one call in a reply, two writes to a file, the note known by size and time only | the cache never serves less than a write that was told of, stray writes to hashed files never reach the gates, the survey sees untouched sources, gather leaves the steps of apply |
| `one_node` | the coder alone, with its messages and its gates: five steps, two calls in a reply, one phase or two, two scripts of which one failed before, under fairness | reads are withdrawn in time, compaction parts nothing and spares the latest results, new failures alone reject and every gate called for runs, every call ends |
| `planning` | two sessions, two models behind breakers, a probe; graphs with overlapping and re-spelled writes, twins, a ring, bad personas and dependencies; one repair, under fairness | proposed plans run to their end and order their writers, the cache is the measured one, open breakers keep calls away, planning ends |
| `indexing` | one file with two contents, two passes, one search, two edits, one crash, under fairness | rows of the marked text, the index catches up, a search misses nothing |
| `chat` | two turns, two rounds with a refused, a repeated and a written call; three kinds of server, frames in any order, streams cut anywhere, results that cannot be put aside, overlap, a crash, a short window | requests are well formed while nothing is torn, every call sent from a stored thread has a result however turns overlap, calls are the model's |
| `terminal` | two turns, of two nodes and of one, all keys at all moments and before the screen is drawn again, nodes that ask again and again, under fairness | nothing runs unapproved, Esc stops the run, turns end |
| `desk` | two windows, two requests and a question with two rounds of tools, five clicks, one lost socket | one execution at a time, rejection stands, one stream for all windows but for each one's own error rows, every waiting call is in hand |
| `quit` | one application, three daemon processes, two builds, a crash | expected violation: see [known divergences](#known-divergences) |

The MC modules also state assumptions that TLC evaluates, the pure algorithms against reference
definitions over bounded inputs: names intersect whenever they reach a common file, but for the
recorded exception, and normalisation is idempotent (`MCPlanner`: `Conservative`, `Canonicalises`);
personas that may write have a tool for it, the reviewer is independent of the coder, and the
simulation of the models view agrees with the router but for a window that was not measured
(`WritersHaveTools`, `ReviewIsIndependent`, `SimulationMirrors`); rewording does not make a critique new
and review is bounded (`MCRunSupervisor`: `RewordingIsNoProgress`, `ReviewIsBounded`); chunks lose no line
(`MCMemory`: `NothingIsLost`); conversation groups lose nothing and join results to their calls, and the
diff is whole, shortest and fully in its hunks (`MCConversation`); progress lines follow their calls
(`MCRunEvents`: `LinesFollowCalls`).

Why these bounds are enough to be interesting: the plan of `safety` has, with two places in a batch,
a reader in flight while its input is rolled back, a reader that is done and whose own reader is done
when its input is rolled back, a writer blocked by a writer, a node that waits for a dependency a
cascade takes away, and every failure kind on a first and on a last attempt. The
lock instance has names that contain each other, a claim refused at its second resource, a claim
refused for a read after all its writes were in, and an owner that shares a resource with two
others. Two approvals and two windows suffice for answers that cross each other, the timer and a
disconnection. In `two_nodes` the write of one node moves the key of the other, before, during and
after a read that is under way; the coder has three steps, of which apply's reserve is two, and gather
stops at the reserve while it still has tokens. In `one_node` gather stops for want of tokens, the read limit is one and a reply holds two calls, so
the limit passes within a reply, and the list outgrows `CompactAt` in the second step. In `planning`
a breaker opens at the second failure while the other session is between ranking and calling, and a
listing is under way when the probe applies its card. In `chat` the arguments of two calls arrive in
two pieces each, which interleave in every way.

Fairness. The supervisor's is weak fairness of `Proceed`: the event loop runs what is runnable, and
every hook settles (the broker's timer answers for a silent human; the executor, the reviewer and the
rollback hook return or throw). No individual continuation is favoured, and neither `Cancel` nor the
budget must ever happen. The executor's is weak fairness of each node's own continuation and of the
survey: commands and gates have timeouts, a model's reply is taken to end (the adapters set no
timeout on it). The planner's is weak fairness of each session's continuation: a provider's call
returns or throws. Memory's is weak fairness of each caller, who indexes again and again; it is not
assumed that the daemon stays up. The broker assumes that `setTimeout` fires and nothing else. The
terminal assumes that models answer, that the screen is drawn, and that somebody answers the approval
on it: there is no timer behind it. Of a node it is assumed, strongly, that one which could end again
and again does: its steps are counted, so it cannot ask to push forever, and a stuck one is not granted
another start without end. `two_runs`, `safety`, `two_nodes`, `chat` and `desk` check
safety and assume no fairness.

Deadlock checking is off where the system really stops: a run ends, all connections allowed were
used, all plans are done, all turns are over. Only `indexing` goes on for ever, and checks it.

## Proofs

All for arbitrary constants under the named assumptions of the modules: any finite plan, any
dependency graph, any resources and overlap relation, any width and caps, any leftover rows, any
number of windows, sessions, models and clients. Where a theorem needs more than that, the
hypothesis is in its statement and below. The `*_proofs` modules group components; each part is
headed by a comment and independent of the others.

`RunSupervisor_proofs`
- `SInv` is the supervisor's inductive invariant. None of the checked invariants is inductive alone:
  that a node in flight holds its writes depends on what a cascade may relabel, on flags being
  exactly those of parked nodes (otherwise `Release` would spare rows), on a launching node being
  startable, and on attempts being below the cap whenever a node can still be executed. `Fits(n,
  status, await, attempts, table)` says all of that about one node; `NodesFit` says it of every
  node; `LaunchingIsStartable` and `CompletedIsOver` speak of the loop. The proof has one lemma for
  what each table operation does to the fit of its own node, one that a step on one node leaves the
  others fitting, and one step per action. From it: `InFlightHolds`, `ConflictsAreSerialized`,
  `WaitersHoldNothing`, `ParkedKeeps`, `AttemptsStayCapped`, `CancelStopsStarts`, and the refinement
  `RunImplementsOwnership`. Assumed: that the rows earlier runs left exclude each other (which `Exclusion`
  gives), whatever ids they bear; the refinement starts from an empty table. That the ids within the
  plan are distinct is in `RunAssumption`.
- `RunLeavesOnlyItsParked`. A completed run has every node done (`CompletedIsOver`). For a paused one,
  an idle node that is not parked may keep rows only after a grant or a cancellation (`Retains`). With
  the approval hook wired a parked node is in flight, so the loop cannot pause; without it nobody
  grants; and a cancelled loop does not pause (`PausedIsOver`). So only a run without the hook pauses;
  no run here has that configuration, and the property rests on the proof.
- The cascade. The search of `Reached` is recursive, and `LevelsExist` shows by induction on the depth
  that its levels exist; `CascadeCloses` then says that a search which was not cut short has found every
  reader of what it found, because its last level added nobody who writes. `CascadeLeavesNobody` is
  that for every rollback of the run, and needs no more than the types. What it leaves out is a reader
  in flight, which is not done yet: `WidthOneMissesNobody` shows that there is none when the width is
  one (`Alone`), so `NoOutdatedResult`, which fails at width two, holds then. Assumed: `MaxCascadeDepth`
  is not 0.
- The event log. Each step's events are shown to tell exactly what the step changed (`Tells`). `LogInv`
  adds that a node is suspended only with the statuses of its await and that one about to be
  launched is not suspended: what settles is never a node already done, whose log would then say
  otherwise. `DoneIsAlwaysShown` and `ActivityIsAlwaysShown` need nothing else;
  `PendingIsAlwaysShown` assumes `HasApprover`, because parking logs `approval.requested` whether or not
  there is anybody to ask.

`Planner_proofs`
- The relation of `resource.ts` is reflexive and symmetric, which is what `LockAssumption` and
  `NamesAssumption` ask of `Overlap`; and `CacheStaysMeasured`, from the shape of the router's fields:
  cards are replaced and the cache dropped in one step, and a listing that returns afterwards is
  measured with the new cards.
- `BreakersAreRespected`. A session may call a model whose breaker has opened since it ranked;
  `LateOK` counts such calls: while a breaker is open, those that ended late and those still in hand
  are together fewer than the sessions, because the one that opened it is not among them.
- `AcceptedPlansFinish`. `PlanInv` adds to the breakers that what is planned is a normalised graph with
  no `Errors`. That such a graph runs to its end is a fact about finite graphs:
  from any node a walk along unfinished dependencies (`WalkExists`) meets itself (`WalkMeetsItself`,
  by counting), which is the ring `Errors` reports (`CycleIsWalked`); `LevelsOfFinished` and
  `PlanIsList` carry it through the levels of the model and through normalisation.
- `PlainWritersAreOrdered`. `TouchingNamesMeet` shows that two names which reach a common file
  intersect, for plain spellings, unless one is a directory and the other a pattern strictly below it
  (`Missed`). `PlainDags` excludes just these, and `MCPlanner` has both sides: `AnswersArePlain` for the
  checked answers, `NestedIsMissed` for a pair `resource.ts` really lets pass.
- The lock manager on the lemmas of `LockTable_proofs` (`AcquireExcludes`: a claim never creates a
  conflict; `AcquireIsAllOrNothing` and `AcquireGivesNobody`: a claim gives its owner the whole set or
  nothing and nobody else a row; `AcquireSparesOthers`: owners with another id keep theirs). Nothing is assumed of node ids.
  `IInv` says of each owner that its rows are of its write set, and, unless it was robbed, that they are
  what its phase says; a claim either leaves another owner's rows as they are, or makes it a robbed one.
  `Retention` names the only step that may take a parked row, the acquire of a namesake, and
  `Refinement` maps a robbed owner to one that owns nothing. That nobody is robbed fails
  (`NobodyIsRobbed`, below).

`NodeExecutor_proofs`
- `TInv` types the state and adds that a node is in the queue of resumed awaits once, exactly while its
  tool has settled; `TypeOK` alone is not inductive, because a second occurrence would outlive the
  first. `ApplyCanWriteEverything` follows from `GatherOK` (each step takes one, and gather takes it
  only above the reserve), `ReadingIsForced` from the same types because a read is refused once the
  budget is used. For `StrayFilesFail`, `CheckpointHolds` says that versions only grow past the
  checkpoint, and that what a command wrote is newer than it; the claim is about the files `verify`
  hashes (`Hashed`), and `EveryStrayFails`, which is about all, fails.
- `CacheKnowsBumps` needs `CacheOK`. `QueueFresh`: a result that waits is no older than what is
  announced of its file, and a write in the queue is no newer than what waits behind it about the
  same file; the order of the queue makes this inductive. `KeyHolds`: every name of a stored key has
  a row and its epoch never exceeds the row's, and a key all of whose epochs are the present ones
  and which covers its file holds contents no older than announced. A write that is announced moves
  on every row that overlaps its file, so no covered key of that file is current any more; that
  `Register` gives every name of a key a row is what lets `Bump` find it.
- `SurveyComesFirst`. `SurveyOK`: until the promise all nodes share has settled, only nodes that need no
  gates are past it, and what these write and announce is no source. Assumed (`NotesMeetNoSource`):
  the names that ask for no gates, those of notes, overlap no source.
- `NewFailuresAlwaysDecide`. `GateOK` says which prefix of the scripts a vector covers; a result
  is accepted exactly if it is not a new failure (`RefusedIsNew`), and a whole vector has the gates that
  the writes call for (`WholeVector`).
- `RequestsAlwaysBind` and `FreshResultsStayWhole`. `TalkInv` describes the list of messages of a node
  at each await: a call and its results stand in order, compaction cuts between turns and elides
  only results older than it keeps. `GatesImplementExecutor`: the executor with messages and gates
  implements the executor, so all of this holds of it.

`Desk_proofs`
- `MInv` ties the session manager's maps, the statuses and the executions together; `ExecutesOnce` and
  `RejectionStands` follow. Every step of the windows, their sockets and the daemon is a step of
  `SessionManager` or leaves it alone (`DeskImplementsSessions`), so the two hold with any number of
  windows, whatever is lost.
- `DeskInv` adds the sockets: a window that was never lost is attached, and one that is not attached
  has nothing on the way in either direction. With it and the types `StreamIsTheSame` (what a window
  shows, its own error rows apart, and what is on its way are what was said) and `NoCallIsForgotten` are inductive.

`Daemon_proofs`
- The broker. `BInv` says that a request is pending once, exactly while its promise waits, and that a
  yes was said by somebody. `PendingMeansWaiting`, and `BrokerImplementsDecision`: every step of the
  broker decides one outstanding request or stutters.
- `ListenersGoWithTheirSockets`. `SocketInv` adds that a listener belongs to the daemon at the other
  end of an open window's socket, and that a window whose main process is at work is still
  connecting, so that no answer of main's reopens an open one.
- Memory. `RowsFit`: the rows of a file are those of its marked text, and none while a pass is between
  deleting and inserting, unless two passes met on it (`IndexHoldsTheMarkedText`). `WordsFit`: every
  chunk has its text row, also between the two halves of a store, unless a crash cut the indexing of its
  file off (its two INSERTs commit one by one, so the last chunk written may be without);
  `QueriesFit`: what a search found by its text includes every such chunk that spoke of the name
  (`NoHitIsMissed`).

`Terminal_proofs`
- `SInv`: the resolver that is held is that of the card to be drawn, and whoever else waits has lost his
  to a later request (`HeardOrLost`). What is drawn may lag behind both; `MeantIsHeard` is the step that
  matters: a yes at a card that is not drawn away yet is for its asker if he can still be heard, and
  otherwise for whoever holds the resolver. One turn is under way, and after Esc is heard no node starts.
  `NothingIsRunUnasked` and `EscStopsAnyRun` follow.

`Conversation_proofs`
- `ChatInv` has three parts. Of types it needs that what a turn still has to answer is called under its
  own round and was said (`IsSaid`). `IdsAreUsed` and `OneAtATime` are what a new message is fresh by. The
  third part speaks of a list *with the results that its turn still owes* (`Whole`), because a list on
  its own is only tied again when the last call is answered: of a stored thread it says that results
  are in their places, ids are a call's own, and the answered calls of a reply come first (`Tied`); of
  the list of a request, also that none is left over (`AllMatched`). `RoundKeeps` adds a reply with calls,
  `DueComes` moves a result from what is owed to what is there, `TiedIsSent` carries it through
  `toChatMessages` for any window of rows: a window cuts a reply's results at the end, so
  those that stay are the first. `RequestsAreAlwaysWellFormed` follows with `OrderBinds`, for each of
  the three wires. When turns overlap only `AnswersFollow` is left, and suffices for
  `CallsAreAlwaysAnswered`. A turn that ends with calls unanswered takes what it owed with it; of a thread that
  is tied with it, the part that is there is tied (`FirstPart`, for `Crash` and `GuardFailsStored`).
- The readers. `HasRead(reader, calls, got)`: each call that has begun has one slot, with the fragments
  that `got` counts. One lemma per kind of frame (`SlotIsMade`, `SlotIsExtended`, `OtherIsRead`),
  `FrameIsRead` for the three adapters, and `StreamIsRead` by induction along the frames; `OrderedComes`
  shows that every interleaving counts up to all fragments, `JsonIsParsed` that arguments parse only when
  whole. With `KeptIsPart`, `HeardIs`: what is heard of a reply are calls it made, each once.
  `CallsAreAlwaysAsSaid` follows. Assumed (`ConversationAssumption`): the ids of one reply's calls
  differ, which is the server's promise, or for Ollama that of a random suffix.

Induction. The library's induction theorems take an operator as a parameter; the same principle
stated of a *set* of numbers (`Induction`, from `WFMin`) is one the provers can use. So
what recursive functions compute for every input is proved where a theorem needs it: the picking of
segments (`PickedWhole`), walks in a graph, the folds of lists in the memory index, the reading of a
stream (`ReadByStep`), the filter of a list (`KeptByStep`).

The theorems also cover invariants that no run lists any more because a run's property implies them
or they are proved for all constants (`TypeOK` of four modules, `WriteExclusion`, `WholeSetOrNothing`,
`ConflictsSerialize`, `AttemptsCapped`, `ListenersHaveSockets`).

Only model-checked: liveness (`RunEnds`, `EveryRequestIsDecided`, `CallsEnd`, `PlanningEnds`,
`IndexCatchesUp`, `EveryTurnEnds`; it is out of the prover's reach, as is ENABLED). Every safety
property of the passing runs has a theorem. The chunker, the diff, the groups and the progress lines are checked over
bounded inputs; they, the simulation of the models view and the reviewer's `Opinion` appear in assumptions that
TLC evaluates and in no run's property.

How the modules were written for this: recursion is by recursive functions, one for each idea
(`Picked` in `ResourceNames`), the cycle search of `PlanRules` is by what a ring is and not by the order
in which it is found, names of the actions of `LockManager` and `Memory` carry a prefix because their
theorems share a module with others, and `waiting` in `Desk` is a set.

## Known divergences

Met while modelling. One is a listed run:

- `quit`: `before-quit` kills the daemon the application spawned, with the run it holds
  (desktop/src/main/index.ts:213), while index.ts:205 and docs/04-interfaces.md:110 promise that
  closing the window does not.

The others are stated as properties that fail; each is reproduced by listing the property in the
configuration named, with the change given.

| property | where it fails | what happens |
|---|---|---|
| `RunSupervisor.NoOutdatedResult` | `safety` | a node in flight that a neighbour's rollback dirtied still settles as done (cascade.ts:25) |
| `RunSupervisor.RunEnds` | plan `Retained*` in `safety`, under `FairSpec` | a granted node keeps its rows while it waits for a node a cascade requeued; if that one needs the rows, the loop spins |
| `RunSupervisor.RunEnds` | `safety` with two nodes, `Owners <- WithOld` and its `WithOld*`, `Leftover <- OldRow`, under `FairSpec` | a row left by a cancelled run blocks a node of the next (docs/05-implementation-plan.md:225) |
| `RunSupervisor.DenialStands` | `safety` | the cascade also reaches failed nodes, so a denied node runs again (approvals.ts:50) |
| `RunSupervisor.NoRowOutlivesTheRun` | `safety` | a cancelled node leaves its rows in the table (docs/07-implementation-status.md:44) |
| `RunSupervisor.CancelStopsTheLoop` | `safety` under `UnattendedSpec` | a cancellation does not reach a node that waits for a human (docs/05-implementation-plan.md:125) |
| `LockManager.NobodyIsRobbed` | `two_runs` | `findConflict` compares `node_id` only; planners number nodes `n1, n2, ...`, so a second run's `n1` takes over what the first run's parked `n1` retains (locks.ts:144) |
| `RunEvents.FailedIsTerminal` | `log` | a truncated cascade logs run.failed and the run goes on (supervisor.ts:141) |
| `RunEvents.ReplayYieldsStatus` | `log` | after a retry the fold says failed of a ready node (fold.ts:37) |
| `ApprovalBroker.ScreenShowsPending` | `two_requests` | with two approvals outstanding a window shows only the last (approvals.ts:33) |
| `SessionManager.RunningIsCancellable` | `desk` | rejecting a run under way makes it impossible to cancel (docs/01-flow-review.md:97) |
| `SessionManager.ProposalIsAnswerable` | `desk` | ids are readings of the clock, so of two plans asked for in one millisecond the second takes the first one's id, and approving what is shown starts the other (sessions.ts:295) |
| `Desk.CancelIsOneClickAway` | `desk` | another proposal replaces the run a window shows, and with it the button (docs/06-ui-design.md) |
| `Terminal.GrantedOnSight` | `terminal` | `useInput` goes by the last render and `onApproval` ignores the id, so a key between a request and the drawing of its card grants what is not on the screen yet (run-tui.tsx:157, 177; app.tsx:120) |
| `Terminal.EscIsHeeded` | `terminal` | Esc before the supervisor is known, while the turn plans, does not keep its nodes from starting |
| `NodeExecutor.OnlyTheOffenderFails` | `two_nodes` | `verify` compares the whole tree, so a node is failed for a neighbour's legal write (executor.ts:896) |
| `NodeExecutor.EveryStrayFails` | `two_nodes` | `verify` passes ignored directories and unreadable files by, and of files of 256 KB and more it compares size and time only (checkpoint.ts:174, 204) |
| `NodeExecutor.EveryWriteIsScanned` | `two_nodes` | the gates get the writes the tools reported, and `run_command` reports none (executor.ts:931) |
| `NodeExecutor.HitIsFresh` | `two_nodes`, `MaxAttempts = 2` | nothing is bumped when a command writes; a retry is served old contents (docs/05-implementation-plan.md:65) |
| `NodeExecutor.ChargedForItsOwn` | `two_nodes` | the share of a node is measured on the meter of the run (executor.ts:152) |
| `NodeExecutor.GatherMayRead`, `GatherWritesNothing` | `one_node` | a gathering node whose reads are used up is refused reads; a mutating tool that was not offered in gather is executed (docs/09-loop-redesign.md:148) |
| `NodeExecutor.PassedMeansGated` | `two_nodes` | a node whose gates were cut short by a cancellation passes (vector.ts:35) |
| `Planner.WritersAreOrdered` | `planning` with a plan of the names in `NestedIsMissed` (`MCPlanner`) | a directory and a pattern below it are taken as apart (`a/` and `a/b/**`) |
| `Planner.ProbingTwiceAgrees` | `planning`, `MaxProbes = 2` | a second probe starts from the measured window and can only shrink it (probe.ts:231) |
| `Conversation.NothingIsOwed` | `chat` | a long result whose file cannot be written ends the turn with a call unanswered in the terminal's list, and every later request is sent with it (run-tui.tsx:394, output-guard.ts:94) |
| `Conversation.ThreadIsContinued` | `chat` | `thread.messages` reads the oldest rows, so a long thread stops moving (thread.ts:54) |

Further disagreements, read in the code and not stated as properties:

- Supervisor, review: one repeated critique escalates although loop.ts:70 speaks of two; a reviewer
  that cannot be asked approves (reviewer.ts:135). An unknown persona is a coder to the router and has
  no permission (registry.ts:155, tools/registry.ts:105), and a plan's persona is any string.
- Planner, router: rejection reasons never reach the next plan (planner.ts:122); a reply that does not
  parse counts against the breaker; a measured window of 16000 fails a requirement of 16384; the
  simulation counts a window that was not measured as 0; write `*` is accepted (validate.ts:87).
- Memory: words of deleted chunks stay (store.ts:128 deletes the chunks first); a file whose embedding
  failed is marked as indexed (store.ts:136); a crash between delete and mark, and a revert of the
  file, leaves it without chunks; a crash between the INSERT of a chunk and that of its text (store.ts:150,
  store.ts:165) leaves a chunk that a search without the embedder misses until its file is indexed
  again; deleted files stay in the index; two passes at a time mix rows.
- Windows: opening a workspace again subscribes again, so events come twice (methods.ts:192); a
  reconnected window neither resubscribes nor asks for what it missed; a chat turn whose provider
  throws leaves its bubble; other windows keep the card of a proposal that was turned down; the semantic
  line id of a tool call repeats over attempts, so a result may mark an older line; the timeline
  ignores dirtied and retried nodes; overlapping turns may join a result to another turn's call.
- Processes: two applications started at once spawn two daemons; a stopping daemon removes its
  successor's info file (server.ts:204); two builds replace each other's daemon in turn.
- Terminal: `onApproval` ignores the id, a second request overwrites the resolver of the first
  (docs/06-ui-design.md:294); a failed plan leaves its stage running.
- Executor: `elidedStub` says "call it again" (compaction.ts:80) and the executor refuses the repeat
  (executor.ts:609); of a reply with more calls than compaction spares the first results are never
  seen; the gates are compared by their last twelve lines only (executor.ts:1136).

## Not modelled

The context assembler (a sort and a cut over text that reaches no decision but the prompt), the
workspace registry, configuration, database access and log files (file I/O without a protocol),
rendering in the terminal (also its stages and board) and the desktop, wire formats and HTTP of the providers, the patterns of
the guards and of the secrets scan, the ranking of search results (numeric), sandbox and path
handling (process and file system I/O). Residency, the tool-call shim, `FallbackTracker`, and
checkpoint's `snapshot` and `rollback` have no caller in the program. Chat's and planning's tokens are
not charged to a run, so no meter appears in their models beyond the chat's own.

## Plan

1. Done: locks, supervisor, log, broker, sessions, executor, cache, with their proofs.
2. Done: names, planner, router, personas, review, memory, streams, chat, messages and gates of a
   node, windows on the sessions, daemon processes, terminal.
3. Left to model: the composition of the executor with the supervisor, in which `executing` is the
   executor's own steps (the product is beyond TLC at useful bounds; a refinement by outcome would do);
   the executor's own events in the fold.
4. Left to prove: which nodes a granted or cancelled run can leave rows of (`NoRowOutlivesTheRun` fails
   for these two; `Retains` says that there are no others).
