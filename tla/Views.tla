-------------------------------- MODULE Views --------------------------------
(***************************************************************************)
(* What a window shows.  Of a conversation: App.tsx makes an entry of each *)
(* notification, and views/thread-groups.ts folds the work between two     *)
(* things that were said into one group.  Of a change: diffLines of        *)
(* views/DiffReview.tsx makes the hunks a person reviews; a text is the    *)
(* sequence of its lines.                                                  *)
(***************************************************************************)
EXTENDS Naturals, FiniteSets, SequencesExt

NoTool == "no tool"
Entry(role, prose, thinking, tool, fenced) ==
  [role |-> role, prose |-> prose, thinking |-> thinking, tool |-> tool, fenced |-> fenced]

\* A turn with neither prose nor thinking only clears the bubble.
Arrived(entries, note) ==
  CASE note.method = "chat.turn" /\ (note.prose \/ note.thinking) ->
         Append(entries, Entry(note.role, note.prose, note.thinking, NoTool, FALSE))
    [] note.method = "chat.tool" -> Append(entries, Entry("tool", TRUE, FALSE, note.tool, FALSE))
    [] note.method = "chat.toolResult" ->
         Append(entries, Entry("tool", TRUE, FALSE, note.tool, TRUE))
    [] OTHER -> entries

\* isWork: tools, and rounds of the model without prose.
IsWork(e) == e.role = "tool" \/ (e.role = "assistant" /\ ~e.prose)

Nothing == 0

\* Entry number i joins a group: a result goes to the latest call of its tool that
\* has none yet; without one it is a step of its own, as every call is.
Joined(group, e, i) ==
  LET open == {k \in DOMAIN group.steps : /\ group.steps[k].result = Nothing
                                          /\ group.steps[k].tool = e.tool}
  IN IF e.role = "assistant"
     THEN [group EXCEPT !.thinking = IF e.thinking THEN Append(@, i) ELSE @]
     ELSE IF e.fenced /\ open # {} THEN [group EXCEPT !.steps[Max(open)].result = i]
     ELSE [group EXCEPT !.steps =
             Append(@, [tool |-> e.tool, call |-> IF e.fenced THEN Nothing ELSE i,
                        result |-> IF e.fenced THEN i ELSE Nothing])]

GroupThread(entries) ==
  LET step(groups, i) ==
        LET goes == groups # <<>> /\ Last(groups).kind = "activity"
            open == IF goes THEN groups
                    ELSE Append(groups, [kind |-> "activity", steps |-> <<>>, thinking |-> <<>>])
        IN IF ~IsWork(entries[i])
           THEN Append(groups, [kind |-> "message", entry |-> i])
           ELSE [open EXCEPT ![Len(open)] = Joined(@, entries[i], i)]
  IN FoldLeftDomain(step, <<>>, entries)

-----------------------------------------------------------------------------
\* The table of longest common subsequences of the tails from i and j.
CommonTails(a, b) ==
  LET lcs[i \in 1..(Len(a) + 1), j \in 1..(Len(b) + 1)] ==
        IF i > Len(a) \/ j > Len(b) THEN 0
        ELSE IF a[i] = b[j] THEN lcs[i + 1, j + 1] + 1
        ELSE Max({lcs[i + 1, j], lcs[i, j + 1]})
  IN lcs

Absent == 0
DiffRow(kind, before, after) == [kind |-> kind, before |-> before, after |-> after]

\* Equal lines are walked together; of two ways on, the longer tail in common,
\* and the deletion first.
DiffRows(a, b) ==
  LET lcs == CommonTails(a, b)
      walk[i \in 1..(Len(a) + 1), j \in 1..(Len(b) + 1)] ==
        LET deletes == /\ i <= Len(a)
                       /\ j > Len(b) \/ lcs[i + 1, j] >= lcs[i, j + 1]
        IN IF i > Len(a) /\ j > Len(b) THEN <<>>
           ELSE IF i <= Len(a) /\ j <= Len(b) /\ a[i] = b[j]
           THEN <<DiffRow("same", i, j)>> \o walk[i + 1, j + 1]
           ELSE IF deletes THEN <<DiffRow("del", i, Absent)>> \o walk[i + 1, j]
           ELSE <<DiffRow("add", Absent, j)>> \o walk[i, j + 1]
  IN walk[1, 1]

\* The rows near a change, as runs of neighbours; three rows are near in the code.
DiffHunks(rows, near) ==
  LET changed == {k \in DOMAIN rows : rows[k].kind # "same"}
      kept == {k \in DOMAIN rows : \E c \in changed : k <= c + near /\ c <= k + near}
      \* The first row of the run that k is in.
      start(k) == Min({s \in 1..k : s..k \subseteq kept})
  IN {[rows |-> {j \in kept : start(j) = start(k)},
       beforeStart |-> rows[start(k)].before,
       afterStart |-> rows[start(k)].after] : k \in kept}
=============================================================================
