--------------------------- MODULE MCConversation ---------------------------
(* A reply of two calls, of which one is refused and one repeated in the next round, and a call in prose. *)
EXTENDS Conversation, Views

CallOf(id, name, args) == [id |-> id, name |-> name, args |-> args]
ReadA == CallOf(1, "read", "a")
WriteB == CallOf(2, "write", "b")
Saying(text, calls, prose) == [text |-> text, calls |-> calls, prose |-> prose]
SmallReplies == {Saying(FALSE, <<ReadA, WriteB>>, NoArgs), Saying(TRUE, <<>>, ReadA)}
Prose == {ReadA}

Spoken(role, prose, thinking) ==
  [method |-> "chat.turn", role |-> role, prose |-> prose, thinking |-> thinking]
Worked(method, tool) == [method |-> method, tool |-> tool]
Notes == {Spoken("user", TRUE, FALSE), Spoken("assistant", TRUE, TRUE),
          Spoken("assistant", FALSE, TRUE), Spoken("assistant", FALSE, FALSE),
          [method |-> "chat.delta"]}
         \cup {Worked(m, n) : m \in {"chat.tool", "chat.toolResult"}, n \in {"read", "grep"}}
Entries(notes) == FoldLeft(Arrived, <<>>, notes)
GroupsOf(notes) == GroupThread(Entries(notes))
StepsOf(groups) ==
  UNION {ToSet(groups[g].steps) : g \in {k \in DOMAIN groups : groups[k].kind = "activity"}}

\* Whatever arrives in whichever order, nothing is lost and nothing shown twice:
\* what was said is a message, in order, and every call and every result is in
\* exactly one step.
ASSUME NothingIsLost ==
  \A notes \in SeqOf(Notes, 4) :
    LET entries == Entries(notes)
        groups == GroupThread(entries)
        messages == SelectSeq(groups, LAMBDA g : g.kind = "message")
        steps == StepsOf(groups)
        work == {i \in DOMAIN entries : entries[i].role = "tool"}
    IN /\ [k \in DOMAIN messages |-> entries[messages[k].entry]] =
            SelectSeq(entries, LAMBDA e : ~IsWork(e))
       /\ \A i \in work :
            Cardinality({s \in steps : i \in {s.call, s.result}}) = 1
       /\ \A k \in 1..(Len(groups) - 1) :
            "message" \in {groups[k].kind, groups[k + 1].kind}

\* A turn's calls are answered one after the other, so in a thread where turns do
\* not overlap each step joins a call to its own result: the entry after it.
OneTurn == {<<Worked("chat.tool", n), Worked("chat.toolResult", n)>> : n \in {"read", "grep"}}
Between == {<<>>, <<Spoken("assistant", FALSE, TRUE)>>, <<Spoken("user", TRUE, FALSE)>>}
ASSUME ResultsMeetTheirCalls ==
  \A first, second, third \in OneTurn : \A x, y \in Between :
    \A s \in StepsOf(GroupsOf(first \o x \o second \o y \o third)) : s.result = s.call + 1

Texts == BoundedSeq({"x", "y"}, 3)
Side(rows, text, kinds, side) ==
  LET own == SelectSeq(rows, LAMBDA r : r.kind \in kinds)
  IN [k \in DOMAIN own |-> text[own[k][side]]]

\* The lengths of the subsequences two texts have in common.
CommonLengths(a, b) ==
  {Cardinality(K) : K \in {K \in SUBSET DOMAIN a : \E f \in [K -> DOMAIN b] :
     /\ \A i \in K : a[i] = b[f[i]]
     /\ \A i, j \in K : i < j => f[i] < f[j]}}

\* The rows are both texts, each whole and in order, and no fewer lines are shown
\* as changed than must be.
ASSUME DiffIsWholeAndShort ==
  \A a, b \in Texts :
    LET rows == DiffRows(a, b)
        same == {k \in DOMAIN rows : rows[k].kind = "same"}
    IN /\ Side(rows, a, {"same", "del"}, "before") = a
       /\ Side(rows, b, {"same", "add"}, "after") = b
       /\ \A k \in same : a[rows[k].before] = b[rows[k].after]
       /\ Cardinality(same) = Max(CommonLengths(a, b))

\* Every change is in one hunk, a hunk has no row that is far from every change,
\* and there are none when the texts are the same.
ASSUME HunksHoldTheChanges ==
  \A a, b \in Texts : \A near \in 0..2 :
    LET rows == DiffRows(a, b)
        hunks == DiffHunks(rows, near)
        changed == {k \in DOMAIN rows : rows[k].kind # "same"}
    IN /\ \A k \in changed : Cardinality({h \in hunks : k \in h.rows}) = 1
       /\ \A h \in hunks : \A k \in h.rows : \E c \in changed \cap h.rows : k - c \in -near..near
       /\ a = b <=> hunks = {}
=============================================================================
