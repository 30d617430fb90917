----------------------------- MODULE EventFold -----------------------------
(***************************************************************************)
(* fold of core/src/events/fold.ts: the state of a run that screens and a  *)
(* replay derive from the event log.  Tokens, cost and the chosen model    *)
(* are left out.  Then what the desktop makes of the same events beside    *)
(* the fold: the lines under the conversation and the sign that a run is   *)
(* at work (views/event-lines.ts), and the lanes of views/Timeline.tsx.    *)
(***************************************************************************)
EXTENDS Naturals, SequencesExt

NoNode == "no node"

\* What each event says of the run, and of the node it names.
RunStatusAfter ==
  [ type \in {"run.created", "plan.proposed", "plan.approved", "run.started", "run.paused",
              "run.cancelled", "run.completed", "run.failed"} |->
      CASE type = "run.created"   -> "planning"
        [] type = "plan.proposed" -> "awaiting_approval"
        [] type = "run.paused"    -> "paused"
        [] type = "run.cancelled" -> "cancelled"
        [] type = "run.completed" -> "completed"
        [] type = "run.failed"    -> "failed"
        [] OTHER                  -> "running" ]

NodeStatusAfter ==
  [ type \in {"node.ready", "node.started", "node.blocked", "node.parked", "node.done",
              "node.failed", "node.rolled_back", "node.dirtied"} |->
      CASE type = "node.ready"   -> "ready"
        [] type = "node.started" -> "running"
        [] type = "node.blocked" -> "blocked"
        [] type = "node.parked"  -> "parked"
        [] type = "node.done"    -> "done"
        [] type = "node.failed"  -> "failed"
        [] type = "node.dirtied" -> "dirty"
        [] OTHER                 -> "rolled_back" ]

Event(type, node) == [type |-> type, node |-> node]
Rows(type, node, resources) == [type |-> type, node |-> node, resources |-> resources]
Counted(type, node, count) == [type |-> type, node |-> node, count |-> count]

\* The folded run before its first event.
EmptyView(nodes) ==
  [ run |-> "planning",
    node |-> [n \in nodes |-> "pending"],
    tries |-> [n \in nodes |-> 0],
    rounds |-> [n \in nodes |-> 0],
    held |-> {},
    asks |-> {} ]

\* An approval is identified by the node it was asked for: a node asks once at
\* a time.  A forced release carries no resources and takes none away.
Apply(v, e) ==
  [ run |-> IF e.type \in DOMAIN RunStatusAfter THEN RunStatusAfter[e.type] ELSE v.run,
    node |-> IF e.type \in DOMAIN NodeStatusAfter
             THEN [v.node EXCEPT ![e.node] = NodeStatusAfter[e.type]] ELSE v.node,
    tries |-> IF e.type = "node.retried" THEN [v.tries EXCEPT ![e.node] = e.count] ELSE v.tries,
    rounds |-> IF e.type = "review.rejected"
               THEN [v.rounds EXCEPT ![e.node] = e.count] ELSE v.rounds,
    held |-> IF e.type = "lock.acquired" THEN v.held \cup e.resources
             ELSE IF e.type = "lock.released" THEN v.held \ e.resources ELSE v.held,
    asks |-> IF e.type = "approval.requested" THEN v.asks \cup {e.node}
             ELSE IF e.type \in {"approval.granted", "approval.denied"}
             THEN v.asks \ {e.node} ELSE v.asks ]

Fold(v, events) == FoldLeft(Apply, v, events)

-----------------------------------------------------------------------------
\* describeEvent: the events worth a line, and its tone.  A rollback is told
\* only with its reason, a result fails in red.
Tone ==
  [t \in {"run.created", "plan.approved", "run.started", "node.started", "node.routed",
          "tool.called", "tool.cache_hit", "tool.result", "review.requested"} |-> "normal"] @@
  [t \in {"plan.proposed", "run.completed", "node.done", "gate.passed",
          "review.approved", "approval.granted"} |-> "good"] @@
  [t \in {"plan.rejected", "run.paused", "run.cancelled", "node.retried", "node.parked",
          "node.blocked", "node.steps_low", "tool.exhausted", "model.truncated",
          "review.rejected", "approval.requested", "approval.denied",
          "budget.warning"} |-> "warn"] @@
  [t \in {"run.failed", "node.failed", "node.rolled_back", "gate.failed",
          "budget.exceeded"} |-> "bad"]

NoCall == "no call id"

\* A line: which call it shows (or none), how that stands, and its tone.
Line(call, status, tone) == [call |-> call, status |-> status, tone |-> tone]

Outcome(e) == IF e.failed THEN "failed" ELSE IF e.cached THEN "cached" ELSE "completed"

\* A call opens a line; its result changes the latest line of that call id, or
\* gets a line of its own when there is none.
ProgressStep(lines, e) ==
  LET opened == {i \in DOMAIN lines : lines[i].call = e.call /\ e.call # NoCall}
      at == Max(opened)
  IN IF \/ e.type \notin DOMAIN Tone
        \/ e.type = "node.rolled_back" /\ ~e.reasoned
     THEN lines
     ELSE IF e.type \in {"tool.called", "tool.cache_hit"}
     THEN Append(lines, Line(e.call, IF e.type = "tool.called" THEN "running" ELSE "cached",
                             "normal"))
     ELSE IF e.type # "tool.result"
     THEN Append(lines, Line(NoCall, e.type, Tone[e.type]))
     ELSE IF opened = {}
     THEN Append(lines, Line(NoCall, Outcome(e), IF e.failed THEN "bad" ELSE "normal"))
     ELSE [lines EXCEPT ![at].status = Outcome(e),
                        ![at].tone = IF e.failed THEN "bad" ELSE @]

ProgressLines(events, limit) ==
  LET all == FoldLeft(ProgressStep, <<>>, events)
  IN SubSeq(all, Max({1, Len(all) - limit + 1}), Len(all))

-----------------------------------------------------------------------------
\* Mutant of ActiveAfter: a cancellation is not an end.
ActiveThoughCancelled(active, e) ==
  CASE e.type \in {"run.created", "run.started", "plan.approved"} -> TRUE
    [] e.type \in {"run.completed", "run.failed", "run.paused", "plan.proposed"} -> FALSE
    [] OTHER -> active

\* runIsActive: started and not ended; a proposed plan waits for a person.
ActiveAfter(active, e) ==
  CASE e.type \in {"run.created", "run.started", "plan.approved"} -> TRUE
    [] e.type \in {"run.completed", "run.failed", "run.cancelled", "run.paused",
                   "plan.proposed"} -> FALSE
    [] OTHER -> active

\* The timeline's colours: five of the node events the fold knows.
LaneAfter ==
  [ x \in {"node.started", "node.done", "node.failed", "node.blocked", "node.parked"} |->
      NodeStatusAfter[x] ]

TimelineStep(lanes, e) ==
  IF e.type \in DOMAIN LaneAfter THEN [lanes EXCEPT ![e.node] = LaneAfter[e.type]] ELSE lanes

\* What a window shows of a run.
Blank(nodes) == [active |-> FALSE, lanes |-> [n \in nodes |-> "none"]]

Show(window, events) ==
  [ active |-> FoldLeft(ActiveAfter, window.active, events),
    lanes |-> FoldLeft(TimelineStep, window.lanes, events) ]
=============================================================================
