---------------------------- MODULE MCRunEvents ----------------------------
(* The small plans of MCRunSupervisor, with the event log. *)
EXTENDS MCRunSupervisor, RunEvents

Calls == {"c1", "c2"}
Of(type, call, failed) == [type |-> type, call |-> call, failed |-> failed, cached |-> FALSE]
Shown == {Of("tool.called", c, FALSE) : c \in Calls}
         \cup {Of("tool.result", c, f) : c \in Calls, f \in BOOLEAN}
         \cup {Of(t, NoCall, FALSE) : t \in {"node.done", "lock.acquired"}}

\* Two nodes' calls at once: each is called once, and answered once, later.
Answered(events) ==
  /\ \A c \in Calls : \A t \in {"tool.called", "tool.result"} :
       Cardinality({i \in DOMAIN events : events[i].type = t /\ events[i].call = c}) <= 1
  /\ \A i \in DOMAIN events : events[i].type = "tool.result" =>
       \E j \in 1..(i - 1) : events[j].type = "tool.called" /\ events[j].call = events[i].call

\* However the calls interleave, each has one line, in the order of the calls, and
\* the line says how the call ended, or that it runs.
ASSUME LinesFollowCalls ==
  \A events \in UNION {{e \in [1..n -> Shown] : Answered(e)} : n \in 0..5} :
    LET lines == ProgressLines(events, 6)
        told == SelectSeq(events, LAMBDA e : e.type \in {"tool.called", "node.done"})
        results(c) == {i \in DOMAIN events : events[i].type = "tool.result" /\ events[i].call = c}
    IN /\ [i \in DOMAIN lines |-> lines[i].call] = [i \in DOMAIN told |-> told[i].call]
       /\ \A i \in DOMAIN lines : lines[i].call \in Calls =>
            lines[i].status = IF results(lines[i].call) = {} THEN "running"
                              ELSE LET k == CHOOSE k \in results(lines[i].call) : TRUE
                                   IN IF events[k].failed THEN "failed" ELSE "completed"
=============================================================================
