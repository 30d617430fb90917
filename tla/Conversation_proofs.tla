------------------------- MODULE Conversation_proofs -------------------------
(***************************************************************************)
(* What holds of a conversation for any replies, any number of turns and   *)
(* any limits: requests are well formed as long as nothing is torn, no     *)
(* call goes out without a result even if they do, and what is called is   *)
(* what the model said, however its stream was cut.                        *)
(***************************************************************************)
EXTENDS Conversation, TLAPS, FiniteSetTheorems, SequenceTheorems, WellFoundedInduction

-----------------------------------------------------------------------------
(* What the lists and the turns are made of. *)
Uttered == Salvageable \cup UNION {ToSet(reply.calls) : reply \in Replies}
CallIds == Turns \X Nat \X {call.id : call \in Uttered}
CallNames == {call.name : call \in Uttered}
CallArgs == {call.args : call \in Uttered} \cup {NoArgs}
Calls == [id : CallIds, name : CallNames, args : CallArgs]
Tickets == [id : CallIds, name : CallNames]
Messaged == [role : {"user", "assistant", "tool"}, by : Turns, calls : Seq(Tickets),
             of : CallIds \cup {<<>>}, name : CallNames \cup {<<>>}]
Rows ==
  {row \in Messaged :
     /\ row.role = "tool" <=> row.of # <<>>
     /\ row.of # <<>> => row.calls = <<>>}
Places == {"idle", "routing", "asking", "calls", "forced", "ended"}

\* What is called is what was said, in the locals m of turn t.
IsSaid(m) ==
  \A call \in ToSet(m.calls) :
    \E said \in ToSet(m.said) :
      /\ call.id = said.id /\ call.name = said.name
      /\ call.args = said.args \/ (call.args = NoArgs /\ ~m.whole)
TurnFits(t, m) ==
  /\ DOMAIN m = DOMAIN NoTurn /\ m.at \in Places /\ m.round \in Nat
  /\ m.messages \in Seq(Rows) /\ m.calls \in Seq(Calls)
  /\ m.at = "idle" => m.round = 0
  /\ m.at # "calls" => m.calls = <<>>
  /\ \A q \in DOMAIN m.calls : m.calls[q].id[1] = t /\ m.calls[q].id[2] = m.round
  /\ IsSaid(m)
ChatFits ==
  /\ thread \in Seq(Rows) /\ shared \in Seq(Rows)
  /\ DOMAIN turn = Turns /\ \A t \in Turns : TurnFits(t, turn[t])

\* Call k of row i has its result, in its place.
Matched(rows, i, k) ==
  /\ i + k \in DOMAIN rows
  /\ rows[i + k].of = rows[i].calls[k].id /\ rows[i + k].name = rows[i].calls[k].name

InPlace(rows) ==
  \A j \in DOMAIN rows : rows[j].of # <<>> =>
    \E i \in 1 .. j - 1 : \E k \in DOMAIN rows[i].calls : j = i + k /\ Matched(rows, i, k)

\* Every result is that of a call, all calls have theirs.
AllMatched(rows) ==
  InPlace(rows) /\ \A i \in DOMAIN rows : \A k \in DOMAIN rows[i].calls : Matched(rows, i, k)

\* No two calls have one id, and the calls of a reply that have results come first.
OwnIds(rows) ==
  \A i, l \in DOMAIN rows : \A k \in DOMAIN rows[i].calls, m \in DOMAIN rows[l].calls :
    rows[i].calls[k].id = rows[l].calls[m].id => i = l /\ k = m
FirstOnes(rows) ==
  \A i \in DOMAIN rows : \A k \in DOMAIN rows[i].calls :
    Matched(rows, i, k) => \A m \in 1 .. k : Matched(rows, i, m)
Tied(rows) == InPlace(rows) /\ OwnIds(rows) /\ FirstOnes(rows)

\* However turns mingle: a result comes after its call; every call has one.
AnswersFollow(rows) ==
  \A i, j \in DOMAIN rows : \A k \in DOMAIN rows[i].calls : rows[j].of = rows[i].calls[k].id => i < j
AllAnswered(rows) ==
  \A i \in DOMAIN rows : \A k \in DOMAIN rows[i].calls :
    \E j \in i + 1 .. Len(rows) : rows[j].of = rows[i].calls[k].id

\* A list with the results that the calls of a turn will still have.
Due(t, calls) == [q \in DOMAIN calls |-> ResultOf(t, calls[q])]
Whole(rows, t) == rows \o Due(t, turn[t].calls)

\* Ids are used up round by round.
IsUsed(id) ==
  \/ id[2] < turn[id[1]].round
  \/ id[2] = turn[id[1]].round /\ turn[id[1]].at \in {"calls", "ended"}
IdsAreUsed ==
  \A i \in DOMAIN thread :
    /\ thread[i].of # <<>> => IsUsed(thread[i].of)
    /\ \A k \in DOMAIN thread[i].calls : IsUsed(thread[i].calls[k].id)

OneAtATime == ~torn => \A t, u \in Active : t = u
ThreadFits ==
  /\ AnswersFollow(thread)
  /\ ~torn => (\A t \in Active : Tied(Whole(thread, t))) /\ (Active = {} => Tied(thread))
SharedFits ==
  ~torn => (\A t \in Active : AllMatched(Whole(shared, t))) /\ (Active = {} => AllMatched(shared))
MessagesFit ==
  \A t \in Turns :
    /\ AllAnswered(Whole(turn[t].messages, t))
    /\ ~torn => AllMatched(Whole(turn[t].messages, t))
ChatInv ==
  /\ ChatFits /\ OneAtATime /\ IdsAreUsed
  /\ IsStored => ThreadFits /\ MessagesFit
  /\ ~IsStored => SharedFits

-----------------------------------------------------------------------------
(* Lists of messages. *)
LEMMA NoIdIsEmpty == <<>> \notin CallIds
BY DEF CallIds

LEMMA RowsHave ==
  ASSUME NEW rows \in Seq(Rows)
  PROVE  /\ Len(rows) \in Nat /\ DOMAIN rows = 1 .. Len(rows)
         /\ \A i \in DOMAIN rows :
              /\ rows[i] \in Rows /\ rows[i].calls \in Seq(Tickets)
              /\ Len(rows[i].calls) \in Nat /\ DOMAIN rows[i].calls = 1 .. Len(rows[i].calls)
              /\ \A k \in DOMAIN rows[i].calls : rows[i].calls[k].id \in CallIds
              /\ rows[i].of # <<>> => rows[i].calls = <<>>
<1>1. Len(rows) \in Nat /\ DOMAIN rows = 1 .. Len(rows)
  BY LenProperties
<1>2. ASSUME NEW i \in DOMAIN rows
      PROVE  /\ rows[i] \in Rows /\ rows[i].calls \in Seq(Tickets)
             /\ rows[i].of # <<>> => rows[i].calls = <<>>
  <2>1. rows[i] \in Rows
    BY <1>1, ElementOfSeq
  <2>2. rows[i] \in Messaged /\ (rows[i].of # <<>> => rows[i].calls = <<>>)
    BY <2>1 DEF Rows
  <2> QED
    BY <2>1, <2>2 DEF Messaged
<1>3. ASSUME NEW i \in DOMAIN rows
      PROVE  /\ Len(rows[i].calls) \in Nat /\ DOMAIN rows[i].calls = 1 .. Len(rows[i].calls)
             /\ \A k \in DOMAIN rows[i].calls : rows[i].calls[k].id \in CallIds
  <2>1. rows[i].calls \in Seq(Tickets)
    BY <1>2
  <2>2. Len(rows[i].calls) \in Nat /\ DOMAIN rows[i].calls = 1 .. Len(rows[i].calls)
    BY <2>1, LenProperties
  <2>3. \A k \in DOMAIN rows[i].calls : rows[i].calls[k] \in Tickets
    BY <2>1, <2>2, ElementOfSeq
  <2> QED
    BY <2>2, <2>3 DEF Tickets
<1> QED
  BY <1>1, <1>2, <1>3

LEMMA AddedAt ==
  ASSUME NEW S, NEW s \in Seq(S), NEW e \in S
  PROVE  /\ Append(s, e) \in Seq(S) /\ Len(Append(s, e)) = Len(s) + 1
         /\ DOMAIN Append(s, e) = 1 .. Len(s) + 1 /\ Append(s, e)[Len(s) + 1] = e
         /\ \A i \in 1 .. Len(s) : Append(s, e)[i] = s[i]
BY AppendProperties, LenProperties

\* Something that calls nothing is said.
IsPlain(row) == row \in Rows /\ row.calls = <<>> /\ row.of = <<>>

LEMMA PlainKeeps ==
  ASSUME NEW rows \in Seq(Rows), NEW e, IsPlain(e)
  PROVE  /\ Append(rows, e) \in Seq(Rows)
         /\ AllMatched(rows) => AllMatched(Append(rows, e))
         /\ Tied(rows) => Tied(Append(rows, e))
         /\ AnswersFollow(rows) => AnswersFollow(Append(rows, e))
         /\ AllAnswered(rows) => AllAnswered(Append(rows, e))
<1> DEFINE L == Len(rows)
<1>1. PICK new : new = Append(rows, e)
  OBVIOUS
<1>2. /\ new \in Seq(Rows) /\ Len(new) = L + 1 /\ DOMAIN new = 1 .. L + 1 /\ new[L + 1] = e
      /\ \A i \in 1 .. L : new[i] = rows[i]
  BY <1>1, AddedAt DEF IsPlain
<1>3. L \in Nat /\ DOMAIN rows = 1 .. L
  BY RowsHave
<1> HIDE DEF L
<1>4. \A i \in DOMAIN new : (i \in DOMAIN rows /\ new[i] = rows[i]) \/ i = L + 1
  BY <1>2, <1>3
<1>5. DOMAIN new[L + 1].calls = {} /\ new[L + 1].of = <<>>
  BY <1>2 DEF IsPlain
<1>6. \A i \in DOMAIN rows : \A k \in DOMAIN rows[i].calls :
        /\ Matched(rows, i, k) => Matched(new, i, k)
        /\ Matched(new, i, k) => Matched(rows, i, k)
  <2> SUFFICES ASSUME NEW i \in DOMAIN rows, NEW k \in DOMAIN rows[i].calls
               PROVE  (Matched(rows, i, k) => Matched(new, i, k)) /\ (Matched(new, i, k) => Matched(rows, i, k))
    OBVIOUS
  <2>1. new[i] = rows[i] /\ rows[i].calls[k].id # <<>> /\ DOMAIN rows \subseteq DOMAIN new
    BY <1>2, <1>3, RowsHave, NoIdIsEmpty
  <2>2. i + k \in DOMAIN new /\ i + k \notin DOMAIN rows => new[i + k].of = <<>>
    BY <1>4, <1>5
  <2> QED
    BY <1>2, <1>3, <2>1, <2>2 DEF Matched
<1>7. InPlace(rows) => InPlace(new)
  <2> SUFFICES ASSUME InPlace(rows), NEW j \in DOMAIN new, new[j].of # <<>>
               PROVE  \E i \in 1 .. j - 1 : \E k \in DOMAIN new[i].calls : j = i + k /\ Matched(new, i, k)
    BY DEF InPlace
  <2>1. j \in DOMAIN rows /\ rows[j].of # <<>>
    BY <1>4, <1>5
  <2>2. PICK i \in 1 .. j - 1 : \E k \in DOMAIN rows[i].calls : j = i + k /\ Matched(rows, i, k)
    BY <2>1 DEF InPlace
  <2>3. i \in DOMAIN rows /\ new[i] = rows[i]
    BY <1>2, <1>3, <2>1
  <2> QED
    BY <1>6, <2>2, <2>3
<1>8. AllMatched(rows) => AllMatched(new)
  BY <1>4, <1>5, <1>6, <1>7 DEF AllMatched
<1>9. OwnIds(rows) => OwnIds(new)
  BY <1>4, <1>5 DEF OwnIds
<1>10. FirstOnes(rows) => FirstOnes(new)
  <2> SUFFICES ASSUME FirstOnes(rows), NEW i \in DOMAIN new, NEW k \in DOMAIN new[i].calls, Matched(new, i, k),
                      NEW m \in 1 .. k
               PROVE  Matched(new, i, m)
    BY DEF FirstOnes
  <2>1. i \in DOMAIN rows /\ new[i] = rows[i]
    BY <1>4, <1>5
  <2>2. m \in DOMAIN rows[i].calls
    BY <2>1, RowsHave
  <2> QED
    BY <1>6, <2>1, <2>2 DEF FirstOnes
<1>11. AnswersFollow(rows) => AnswersFollow(new)
  <2> SUFFICES ASSUME AnswersFollow(rows), NEW i \in DOMAIN new, NEW j \in DOMAIN new, NEW k \in DOMAIN new[i].calls,
                      new[j].of = new[i].calls[k].id
               PROVE  i < j
    BY DEF AnswersFollow
  <2>1. i \in DOMAIN rows /\ new[i] = rows[i]
    BY <1>4, <1>5
  <2>2. new[i].calls[k].id # <<>>
    BY <2>1, RowsHave, NoIdIsEmpty
  <2>3. j \in DOMAIN rows /\ new[j] = rows[j]
    BY <1>4, <1>5, <2>2
  <2> QED
    BY <2>1, <2>3 DEF AnswersFollow
<1>12. AllAnswered(rows) => AllAnswered(new)
  <2> SUFFICES ASSUME AllAnswered(rows), NEW i \in DOMAIN new, NEW k \in DOMAIN new[i].calls
               PROVE  \E j \in i + 1 .. Len(new) : new[j].of = new[i].calls[k].id
    BY DEF AllAnswered
  <2>1. i \in DOMAIN rows /\ new[i] = rows[i]
    BY <1>4, <1>5
  <2>2. PICK j \in i + 1 .. Len(rows) : rows[j].of = rows[i].calls[k].id
    BY <2>1 DEF AllAnswered
  <2>3. j \in i + 1 .. Len(new) /\ new[j] = rows[j]
    BY <1>2, <1>3, <2>1, <2>2 DEF L
  <2> QED
    BY <2>1, <2>2, <2>3
<1> QED
  BY <1>1, <1>2, <1>7, <1>8, <1>9, <1>10, <1>11, <1>12 DEF Tied

\* What is cut off at the end takes nothing from what stays.
LEMMA PartKeeps ==
  ASSUME NEW rows \in Seq(Rows), NEW n \in 0 .. Len(rows)
  PROVE  /\ SubSeq(rows, 1, n) \in Seq(Rows)
         /\ Tied(rows) => Tied(SubSeq(rows, 1, n))
         /\ AnswersFollow(rows) => AnswersFollow(SubSeq(rows, 1, n))
<1>1. Len(rows) \in Nat /\ DOMAIN rows = 1 .. Len(rows)
  BY RowsHave
<1>2. n \in Nat /\ n <= Len(rows) /\ \A i \in 1 .. n : i \in 1 .. Len(rows) /\ rows[i] \in Rows
  BY <1>1, RowsHave
<1>3. PICK part : part = SubSeq(rows, 1, n)
  OBVIOUS
<1>4. part \in Seq(Rows) /\ Len(part) = n /\ DOMAIN part = 1 .. n /\ \A i \in 1 .. n : part[i] = rows[i]
  BY <1>1, <1>2, <1>3, SubSeqProperties
<1>5. \A i \in 1 .. n : \A k \in DOMAIN rows[i].calls :
        /\ Matched(rows, i, k) /\ i + k \in 1 .. n => Matched(part, i, k)
        /\ Matched(part, i, k) => Matched(rows, i, k) /\ i + k \in 1 .. n
  BY <1>1, <1>2, <1>4 DEF Matched
<1>6. InPlace(rows) => InPlace(part)
  <2> SUFFICES ASSUME InPlace(rows), NEW j \in 1 .. n, part[j].of # <<>>
               PROVE  \E i \in 1 .. j - 1 : \E k \in DOMAIN part[i].calls : j = i + k /\ Matched(part, i, k)
    BY <1>4 DEF InPlace
  <2>1. PICK i \in 1 .. j - 1 : \E k \in DOMAIN rows[i].calls : j = i + k /\ Matched(rows, i, k)
    BY <1>1, <1>2, <1>4 DEF InPlace
  <2>2. i \in 1 .. n
    BY <1>2
  <2> QED
    BY <1>4, <1>5, <2>1, <2>2
<1>7. OwnIds(rows) => OwnIds(part)
  BY <1>1, <1>2, <1>4 DEF OwnIds
<1>8. FirstOnes(rows) => FirstOnes(part)
  <2> SUFFICES ASSUME FirstOnes(rows), NEW i \in 1 .. n, NEW k \in DOMAIN rows[i].calls, Matched(part, i, k),
                      NEW m \in 1 .. k
               PROVE  Matched(part, i, m)
    BY <1>4 DEF FirstOnes
  <2>1. Matched(rows, i, k) /\ i + k \in 1 .. n
    BY <1>5
  <2>2. Matched(rows, i, m)
    BY <1>1, <1>2, <2>1 DEF FirstOnes
  <2>3. m \in DOMAIN rows[i].calls /\ k \in Nat /\ i + m \in 1 .. n
    BY <1>1, <1>2, <2>1, RowsHave
  <2> QED
    BY <1>5, <2>2, <2>3
<1>9. AnswersFollow(rows) => AnswersFollow(part)
  BY <1>1, <1>2, <1>4 DEF AnswersFollow
<1> QED
  BY <1>3, <1>4, <1>6, <1>7, <1>8, <1>9 DEF Tied

LEMMA FirstPart ==
  ASSUME NEW rows \in Seq(Rows), NEW due \in Seq(Rows), Tied(rows \o due)
  PROVE  Tied(rows)
<1>1. PICK all : all = rows \o due
  OBVIOUS
<1>2. /\ all \in Seq(Rows) /\ Len(all) = Len(rows) + Len(due)
      /\ \A i \in 1 .. Len(rows) + Len(due) : all[i] = IF i <= Len(rows) THEN rows[i] ELSE due[i - Len(rows)]
  BY <1>1, ConcatProperties
<1>3. Len(rows) \in Nat /\ Len(due) \in Nat
  BY LenProperties
<1>4. PICK part : part = SubSeq(all, 1, Len(rows))
  OBVIOUS
<1>5. Len(rows) \in 0 .. Len(all)
  BY <1>2, <1>3
<1>6. Tied(part) /\ part \in Seq(Rows)
  BY <1>1, <1>2, <1>4, <1>5, PartKeeps
<1>7. \A i \in 1 .. Len(rows) : all[i] \in Rows /\ all[i] = rows[i]
  BY <1>2, <1>3, RowsHave
<1>8. Len(part) = Len(rows) /\ \A i \in 1 .. Len(rows) : part[i] = rows[i]
  BY <1>2, <1>3, <1>4, <1>7, SubSeqProperties
<1>9. part = rows
  BY <1>6, <1>8, SeqEqual
<1> QED
  BY <1>6, <1>9

\* The results that are due.
LEMMA DueAre ==
  ASSUME NEW t \in Turns, NEW calls \in Seq(Calls)
  PROVE  /\ Due(t, calls) \in Seq(Rows) /\ Len(Due(t, calls)) = Len(calls) /\ Len(calls) \in Nat
         /\ DOMAIN calls = 1 .. Len(calls) /\ DOMAIN Due(t, calls) = 1 .. Len(calls)
         /\ \A q \in 1 .. Len(calls) :
              /\ calls[q] \in Calls /\ Due(t, calls)[q] = ResultOf(t, calls[q])
              /\ ResultOf(t, calls[q]).of = calls[q].id /\ ResultOf(t, calls[q]).name = calls[q].name
              /\ ResultOf(t, calls[q]).calls = <<>> /\ ResultOf(t, calls[q]) \in Rows
              /\ calls[q].id \in CallIds
<1>1. Len(calls) \in Nat /\ DOMAIN calls = 1 .. Len(calls)
  BY LenProperties
<1>2. ASSUME NEW q \in 1 .. Len(calls)
      PROVE  /\ calls[q] \in Calls /\ Due(t, calls)[q] = ResultOf(t, calls[q])
             /\ ResultOf(t, calls[q]).of = calls[q].id /\ ResultOf(t, calls[q]).name = calls[q].name
             /\ ResultOf(t, calls[q]).calls = <<>> /\ ResultOf(t, calls[q]) \in Rows
             /\ calls[q].id \in CallIds
  <2>1. calls[q] \in Calls
    BY ElementOfSeq
  <2>2. Due(t, calls)[q] = ResultOf(t, calls[q])
    BY <1>1 DEF Due
  <2>3. calls[q].id \in CallIds /\ calls[q].name \in CallNames /\ calls[q].id # <<>>
    BY <2>1, NoIdIsEmpty DEF Calls
  <2>4. PICK r, m : r = ResultOf(t, calls[q]) /\ m = Message("tool", t)
    OBVIOUS
  <2>5. m \in Messaged /\ m.role = "tool" /\ m.calls = <<>> /\ r = [m EXCEPT !.of = calls[q].id, !.name = calls[q].name]
    BY <2>4 DEF Message, ResultOf, Messaged
  <2>6. r \in Messaged /\ r.role = "tool" /\ r.calls = <<>> /\ r.of = calls[q].id /\ r.name = calls[q].name
    BY <2>3, <2>5 DEF Messaged
  <2> QED
    BY <2>1, <2>2, <2>3, <2>4, <2>6 DEF Rows
<1>3. Due(t, calls) = [q \in 1 .. Len(calls) |-> ResultOf(t, calls[q])]
  BY <1>1 DEF Due
<1> QED
  BY <1>1, <1>2, <1>3

LEMMA EmptyTail ==
  ASSUME NEW S, NEW s \in Seq(S)
  PROVE  s \o <<>> = s
  BY ConcatEmptySeq

LEMMA NothingDue ==
  ASSUME NEW t, NEW rows \in Seq(Rows)
  PROVE  rows \o Due(t, <<>>) = rows
<1>1. Due(t, <<>>) = <<>>
  BY DEF Due
<1> QED
  BY <1>1, EmptyTail

\* A result that comes was due.
LEMMA DueComes ==
  ASSUME NEW t \in Turns, NEW rows \in Seq(Rows), NEW calls \in Seq(Calls), calls # <<>>
  PROVE  Append(rows, ResultOf(t, Head(calls))) \o Due(t, Tail(calls)) = rows \o Due(t, calls)
<1> DEFINE c == Len(calls)
           L == Len(rows)
           row == ResultOf(t, Head(calls))
<1>1. c \in Nat \ {0} /\ Head(calls) = calls[1] /\ Tail(calls) \in Seq(Calls) /\ Len(Tail(calls)) = c - 1
      /\ \A q \in 1 .. c - 1 : Tail(calls)[q] = calls[q + 1]
  BY HeadTailProperties, EmptySeq
<1>2. row \in Rows /\ row = Due(t, calls)[1]
  BY <1>1, DueAre
<1>3. PICK one : one = Append(rows, row)
  OBVIOUS
<1>4. /\ one \in Seq(Rows) /\ Len(one) = L + 1 /\ one[L + 1] = row
      /\ \A i \in 1 .. L : one[i] = rows[i]
  BY <1>2, <1>3, AddedAt
<1>5. PICK left, all : left = Due(t, Tail(calls)) /\ all = Due(t, calls)
  OBVIOUS
<1>6. /\ left \in Seq(Rows) /\ Len(left) = c - 1 /\ all \in Seq(Rows) /\ Len(all) = c
      /\ \A q \in 1 .. c - 1 : left[q] = all[q + 1]
  <2>1. left \in Seq(Rows) /\ Len(left) = c - 1 /\ all \in Seq(Rows) /\ Len(all) = c
    BY <1>1, <1>5, DueAre
  <2>2. ASSUME NEW q \in 1 .. c - 1
        PROVE  left[q] = all[q + 1]
    <3>1. left[q] = ResultOf(t, Tail(calls)[q])
      BY <1>1, <1>5, DueAre
    <3>2. q + 1 \in 1 .. c
      BY <1>1
    <3>3. all[q + 1] = ResultOf(t, calls[q + 1])
      BY <1>5, <3>2, DueAre
    <3> QED
      BY <1>1, <3>1, <3>3
  <2> QED
    BY <2>1, <2>2
<1>7. L \in Nat
  BY LenProperties
<1>8. /\ Len(one \o left) = L + c /\ Len(rows \o all) = L + c
      /\ one \o left \in Seq(Rows) /\ rows \o all \in Seq(Rows)
  <2>1. c \in Nat
    BY <1>1
  <2> HIDE DEF c
  <2>2. Len(one \o left) = Len(one) + Len(left) /\ one \o left \in Seq(Rows)
    BY <1>4, <1>6, ConcatProperties
  <2>3. Len(rows \o all) = L + c /\ rows \o all \in Seq(Rows)
    BY <1>6, ConcatProperties
  <2> QED
    BY <1>4, <1>6, <1>7, <2>1, <2>2, <2>3
<1> HIDE DEF c, L, row
<1>9. ASSUME NEW i \in 1 .. L + c
      PROVE  (one \o left)[i] = (rows \o all)[i]
  <2>1. CASE i <= L
    <3>1. i \in 1 .. L /\ i \in 1 .. L + 1
      BY <1>7, <2>1
    <3>2. (one \o left)[i] = one[i] /\ (rows \o all)[i] = rows[i]
      BY <1>1, <1>4, <1>6, <1>7, <1>9, <2>1, ConcatProperties DEF L
    <3> QED
      BY <1>4, <3>1, <3>2
  <2>2. CASE i = L + 1
    <3>1. (one \o left)[i] = one[i] /\ (rows \o all)[i] = all[1]
      BY <1>1, <1>4, <1>6, <1>7, <1>9, <2>2, ConcatProperties DEF L
    <3> QED
      BY <1>2, <1>4, <1>5, <2>2, <3>1
  <2>3. CASE i > L + 1
    <3>1. i - L - 1 \in 1 .. c - 1 /\ i - L - 1 + 1 = i - L
      BY <1>1, <1>7, <2>3
    <3>2. (one \o left)[i] = left[i - (L + 1)] /\ (rows \o all)[i] = all[i - L]
      BY <1>1, <1>4, <1>6, <1>7, <1>9, <2>3, ConcatProperties DEF L
    <3>3. i - (L + 1) = i - L - 1
      BY <1>7
    <3> QED
      BY <1>6, <3>1, <3>2, <3>3
  <2>4. i \in Nat
    BY <1>1, <1>7
  <2>5. i <= L \/ i = L + 1 \/ i > L + 1
    BY <1>7, <2>4
  <2> QED
    BY <2>1, <2>2, <2>3, <2>5
<1>10. one \o left = rows \o all
  BY <1>8, <1>9, SeqEqual
<1> QED
  BY <1>3, <1>5, <1>10 DEF row

\* A reply with calls and all its results.
LEMMA CallingIs ==
  ASSUME NEW t \in Turns, NEW calls \in Seq(Calls)
  PROVE  /\ Calling(t, calls) \in Rows /\ Calling(t, calls).of = <<>>
         /\ Len(Calling(t, calls).calls) = Len(calls)
         /\ DOMAIN Calling(t, calls).calls = 1 .. Len(calls)
         /\ \A q \in 1 .. Len(calls) :
              Calling(t, calls).calls[q].id = calls[q].id /\ Calling(t, calls).calls[q].name = calls[q].name
<1> DEFINE list == [i \in DOMAIN calls |-> [id |-> calls[i].id, name |-> calls[i].name]]
<1>1. Len(calls) \in Nat /\ DOMAIN calls = 1 .. Len(calls)
  BY LenProperties
<1>2. ASSUME NEW i \in 1 .. Len(calls)
      PROVE  [id |-> calls[i].id, name |-> calls[i].name] \in Tickets
  <2>1. calls[i] \in Calls
    BY ElementOfSeq
  <2> QED
    BY <2>1 DEF Calls, Tickets
<1>3. list \in [1 .. Len(calls) -> Tickets]
  BY <1>1, <1>2
<1>4. /\ \A q \in 1 .. Len(calls) : list[q].id = calls[q].id /\ list[q].name = calls[q].name
      /\ DOMAIN list = 1 .. Len(calls)
  BY <1>1
<1>5. PICK r, m : r = Calling(t, calls) /\ m = Message("assistant", t)
  OBVIOUS
<1>6. m \in Messaged /\ m.role = "assistant" /\ m.of = <<>> /\ r = [m EXCEPT !.calls = list]
  BY <1>5 DEF Message, Calling, Messaged
<1> HIDE DEF list
<1>7. list \in Seq(Tickets) /\ Len(list) = Len(calls)
  BY <1>1, <1>3, <1>4
<1>8. r \in Messaged /\ r.role = "assistant" /\ r.calls = list /\ r.of = <<>>
  BY <1>6, <1>7 DEF Messaged
<1> QED
  BY <1>4, <1>5, <1>7, <1>8 DEF Rows

LEMMA RoundAt ==
  ASSUME NEW t \in Turns, NEW rows \in Seq(Rows), NEW calls \in Seq(Calls)
  PROVE  LET new == Append(rows, Calling(t, calls)) \o Due(t, calls)
         IN /\ Append(rows, Calling(t, calls)) \in Seq(Rows)
            /\ new \in Seq(Rows) /\ Len(new) = Len(rows) + 1 + Len(calls)
            /\ DOMAIN new = 1 .. Len(rows) + 1 + Len(calls)
            /\ \A i \in 1 .. Len(rows) : new[i] = rows[i]
            /\ new[Len(rows) + 1] = Calling(t, calls)
            /\ \A q \in 1 .. Len(calls) : new[Len(rows) + 1 + q] = ResultOf(t, calls[q])
<1>1. PICK one, due : one = Append(rows, Calling(t, calls)) /\ due = Due(t, calls)
  OBVIOUS
<1>2. /\ one \in Seq(Rows) /\ Len(one) = Len(rows) + 1 /\ one[Len(rows) + 1] = Calling(t, calls)
      /\ \A i \in 1 .. Len(rows) : one[i] = rows[i]
  BY <1>1, AddedAt, CallingIs
<1>3. /\ due \in Seq(Rows) /\ Len(due) = Len(calls) /\ Len(calls) \in Nat
      /\ \A q \in 1 .. Len(calls) : due[q] = ResultOf(t, calls[q])
  BY <1>1, DueAre
<1>4. Len(rows) \in Nat
  BY LenProperties
<1>5. PICK new : new = one \o due
  OBVIOUS
<1>6. new \in Seq(Rows) /\ Len(new) = Len(one) + Len(due)
      /\ \A i \in 1 .. Len(one) + Len(due) : new[i] = IF i <= Len(one) THEN one[i] ELSE due[i - Len(one)]
  <2>1. one \in Seq(Rows) /\ due \in Seq(Rows)
    BY <1>2, <1>3
  <2> QED
    BY <1>5, <2>1, ConcatProperties
<1>7. DOMAIN new = 1 .. Len(rows) + 1 + Len(calls) /\ Len(new) = Len(rows) + 1 + Len(calls)
  BY <1>2, <1>3, <1>6, LenProperties
<1>8. ASSUME NEW i \in 1 .. Len(rows) + 1
      PROVE  new[i] = one[i]
  BY <1>2, <1>3, <1>4, <1>6
<1>9. ASSUME NEW q \in 1 .. Len(calls)
      PROVE  new[Len(rows) + 1 + q] = due[q]
  <2>1. Len(rows) + 1 + q \in 1 .. Len(one) + Len(due) /\ ~(Len(rows) + 1 + q <= Len(one))
    BY <1>2, <1>3, <1>4
  <2>2. Len(rows) + 1 + q - Len(one) = q
    BY <1>2, <1>3, <1>4
  <2> QED
    BY <1>6, <2>1, <2>2
<1>10. Len(rows) + 1 \in 1 .. Len(rows) + 1 /\ \A i \in 1 .. Len(rows) : i \in 1 .. Len(rows) + 1
  BY <1>4
<1> QED
  BY <1>1, <1>2, <1>3, <1>5, <1>6, <1>7, <1>8, <1>9, <1>10

\* Calls with ids of their own that no row has.
AreFresh(calls, rows) ==
  /\ \A q, p \in DOMAIN calls : calls[q].id = calls[p].id => q = p
  /\ \A i \in DOMAIN rows : \A k \in DOMAIN rows[i].calls : \A q \in DOMAIN calls :
       rows[i].calls[k].id # calls[q].id

\* Whatever the list was, a whole round of calls and results keeps it in order; ids
\* that are new keep it tied.
IsRound(new, rows, t, calls) == new = Append(rows, Calling(t, calls)) \o Due(t, calls)

LEMMA RoundKeeps ==
  ASSUME NEW t \in Turns, NEW rows \in Seq(Rows), NEW calls \in Seq(Calls), NEW new, IsRound(new, rows, t, calls)
  PROVE  /\ AllMatched(rows) => AllMatched(new)
         /\ AllAnswered(rows) => AllAnswered(new)
         /\ Tied(rows) /\ AreFresh(calls, rows) => Tied(new)
<1> DEFINE L == Len(rows)
           c == Len(calls)
<1>1. L \in Nat /\ c \in Nat /\ DOMAIN rows = 1 .. L /\ DOMAIN calls = 1 .. c
  BY RowsHave, DueAre
<1>2. /\ Len(new) = L + 1 + c /\ DOMAIN new = 1 .. L + 1 + c
      /\ \A i \in 1 .. L : new[i] = rows[i]
      /\ \A q \in 1 .. c : new[L + 1 + q] = ResultOf(t, calls[q])
  BY RoundAt DEF IsRound
<1>3. /\ DOMAIN new[L + 1].calls = 1 .. c /\ new[L + 1].of = <<>>
      /\ \A q \in 1 .. c : new[L + 1].calls[q].id = calls[q].id /\ new[L + 1].calls[q].name = calls[q].name
  BY RoundAt, CallingIs DEF IsRound
<1>4. \A q \in 1 .. c : /\ new[L + 1 + q].of = calls[q].id /\ new[L + 1 + q].name = calls[q].name
                        /\ DOMAIN new[L + 1 + q].calls = {}
  <2> SUFFICES ASSUME NEW q \in 1 .. c
               PROVE  /\ new[L + 1 + q].of = calls[q].id /\ new[L + 1 + q].name = calls[q].name
                      /\ DOMAIN new[L + 1 + q].calls = {}
    OBVIOUS
  <2>1. /\ ResultOf(t, calls[q]).of = calls[q].id /\ ResultOf(t, calls[q]).name = calls[q].name
        /\ ResultOf(t, calls[q]).calls = <<>>
    BY DueAre
  <2>2. new[L + 1 + q] = ResultOf(t, calls[q])
    BY <1>2
  <2> HIDE DEF L
  <2> QED
    BY <2>1, <2>2
<1> HIDE DEF L, c
<1>5. \A i \in DOMAIN new : \/ i \in 1 .. L \/ i = L + 1
                            \/ \E q \in 1 .. c : i = L + 1 + q
  <2> SUFFICES ASSUME NEW i \in DOMAIN new, i \notin 1 .. L, i # L + 1
               PROVE  \E q \in 1 .. c : i = L + 1 + q
    OBVIOUS
  <2>1. i \in 1 .. L + 1 + c
    BY <1>2
  <2>2. i \in Nat /\ i > L + 1 /\ i <= L + 1 + c
    BY <1>1, <2>1
  <2>3. i - (L + 1) \in 1 .. c /\ i = L + 1 + (i - (L + 1))
    BY <1>1, <2>2
  <2> QED
    BY <2>3
<1>6. \A q \in 1 .. c : Matched(new, L + 1, q)
  BY <1>1, <1>2, <1>3, <1>4 DEF Matched
<1>7. \A i \in 1 .. L : \A k \in DOMAIN rows[i].calls : Matched(rows, i, k) => Matched(new, i, k)
  BY <1>1, <1>2 DEF Matched
<1>8. InPlace(rows) => InPlace(new)
  <2> SUFFICES ASSUME InPlace(rows), NEW j \in DOMAIN new, new[j].of # <<>>
               PROVE  \E i \in 1 .. j - 1 : \E k \in DOMAIN new[i].calls : j = i + k /\ Matched(new, i, k)
    BY DEF InPlace
  <2>1. CASE j \in 1 .. L
    <3>1. PICK i \in 1 .. j - 1 : \E k \in DOMAIN rows[i].calls : j = i + k /\ Matched(rows, i, k)
      BY <1>1, <1>2, <2>1 DEF InPlace
    <3>2. i \in 1 .. L
      BY <1>1, <2>1
    <3> QED
      BY <1>2, <1>7, <3>1, <3>2
  <2>2. ASSUME NEW q \in 1 .. c, j = L + 1 + q
        PROVE  \E i \in 1 .. j - 1 : \E k \in DOMAIN new[i].calls : j = i + k /\ Matched(new, i, k)
    <3>1. L + 1 \in 1 .. j - 1
      BY <1>1, <2>2
    <3> QED
      BY <1>3, <1>6, <2>2, <3>1
  <2> QED
    BY <1>3, <1>5, <2>1, <2>2
<1>9. AllMatched(rows) => AllMatched(new)
  <2> SUFFICES ASSUME AllMatched(rows), NEW i \in DOMAIN new, NEW k \in DOMAIN new[i].calls
               PROVE  Matched(new, i, k)
    BY <1>8 DEF AllMatched
  <2>1. CASE i \in 1 .. L
    BY <1>1, <1>2, <1>7, <2>1 DEF AllMatched
  <2>2. CASE i = L + 1
    BY <1>3, <1>6, <2>2
  <2> QED
    BY <1>4, <1>5, <2>1, <2>2
<1>10. AllAnswered(rows) => AllAnswered(new)
  <2> SUFFICES ASSUME AllAnswered(rows), NEW i \in DOMAIN new, NEW k \in DOMAIN new[i].calls
               PROVE  \E j \in i + 1 .. Len(new) : new[j].of = new[i].calls[k].id
    BY DEF AllAnswered
  <2>1. CASE i \in 1 .. L
    <3>1. PICK j \in i + 1 .. Len(rows) : rows[j].of = rows[i].calls[k].id
      BY <1>1, <1>2, <2>1 DEF AllAnswered
    <3>2. j \in 1 .. L /\ j \in i + 1 .. Len(new)
      BY <1>1, <1>2, <2>1, <3>1 DEF L
    <3> QED
      BY <1>2, <2>1, <3>1, <3>2
  <2>2. CASE i = L + 1
    <3>1. L + 1 + k \in i + 1 .. Len(new) /\ k \in 1 .. c
      BY <1>1, <1>2, <1>3, <2>2
    <3> QED
      BY <1>3, <1>4, <2>2, <3>1
  <2> QED
    BY <1>4, <1>5, <2>1, <2>2
<1>11. ASSUME Tied(rows), AreFresh(calls, rows)
       PROVE  Tied(new)
  <2>1. /\ \A q, p \in DOMAIN calls : calls[q].id = calls[p].id => q = p
        /\ \A i \in DOMAIN rows : \A k \in DOMAIN rows[i].calls : \A q \in DOMAIN calls :
             rows[i].calls[k].id # calls[q].id
    BY <1>11 DEF AreFresh
  <2>2. OwnIds(new)
    <3> SUFFICES ASSUME NEW i \in DOMAIN new, NEW l \in DOMAIN new,
                        NEW k \in DOMAIN new[i].calls, NEW m \in DOMAIN new[l].calls,
                        new[i].calls[k].id = new[l].calls[m].id
                 PROVE  i = l /\ k = m
      BY DEF OwnIds
    <3>1. (i \in 1 .. L \/ i = L + 1) /\ (l \in 1 .. L \/ l = L + 1)
      BY <1>4, <1>5
    <3>2. CASE i \in 1 .. L /\ l \in 1 .. L
      BY <1>1, <1>2, <1>11, <3>2 DEF Tied, OwnIds
    <3>3. CASE i = L + 1 /\ l = L + 1
      BY <1>1, <1>3, <2>1, <3>3
    <3>4. CASE i \in 1 .. L /\ l = L + 1
      <4>1. new[i] = rows[i] /\ i \in DOMAIN rows /\ m \in DOMAIN calls /\ new[l].calls[m].id = calls[m].id
        BY <1>1, <1>2, <1>3, <3>4
      <4> QED
        BY <2>1, <4>1
    <3>5. CASE i = L + 1 /\ l \in 1 .. L
      <4>1. new[l] = rows[l] /\ l \in DOMAIN rows /\ k \in DOMAIN calls /\ new[i].calls[k].id = calls[k].id
        BY <1>1, <1>2, <1>3, <3>5
      <4> QED
        BY <2>1, <4>1
    <3> QED
      BY <3>1, <3>2, <3>3, <3>4, <3>5
  <2>3. FirstOnes(new)
    <3> SUFFICES ASSUME NEW i \in DOMAIN new, NEW k \in DOMAIN new[i].calls, Matched(new, i, k), NEW m \in 1 .. k
                 PROVE  Matched(new, i, m)
      BY DEF FirstOnes
    <3>1. Matched(new, i, k)
      OBVIOUS
    <3>2. CASE i \in 1 .. L
      <4>1. Matched(rows, i, k)
        <5>1. new[i] = rows[i] /\ i \in DOMAIN rows /\ k \in DOMAIN rows[i].calls
          BY <1>1, <1>2, <3>2
        <5>2. /\ i + k \in 1 .. L + 1 + c /\ new[i + k].of = rows[i].calls[k].id
              /\ new[i + k].name = rows[i].calls[k].name
          BY <1>2, <3>1, <5>1 DEF Matched
        <5>3. rows[i].calls[k].id # <<>>
          BY <5>1, RowsHave, NoIdIsEmpty
        <5>4. ~ \E q \in 1 .. c : i + k = L + 1 + q
          <6> SUFFICES ASSUME NEW q \in 1 .. c, i + k = L + 1 + q
                       PROVE  FALSE
            OBVIOUS
          <6>1. new[i + k].of = calls[q].id /\ q \in DOMAIN calls
            BY <1>1, <1>4
          <6> QED
            BY <2>1, <5>1, <5>2, <6>1
        <5>5. i + k \in 1 .. L
          BY <1>2, <1>3, <1>5, <5>2, <5>3, <5>4
        <5> QED
          BY <1>1, <1>2, <5>2, <5>5 DEF Matched
      <4>2. Matched(rows, i, m) /\ m \in DOMAIN rows[i].calls
        BY <1>1, <1>2, <1>11, <3>2, <4>1, RowsHave DEF Tied, FirstOnes
      <4> QED
        BY <1>7, <3>2, <4>2
    <3>3. CASE i = L + 1
      <4>1. m \in 1 .. c
        BY <1>1, <1>3, <3>3
      <4> QED
        BY <1>6, <3>3, <4>1
    <3> QED
      BY <1>4, <1>5, <3>2, <3>3
  <2> QED
    BY <1>8, <1>11, <2>2, <2>3 DEF Tied
<1> QED
  BY <1>9, <1>10, <1>11

\* A new row whose calls nobody has answered yet.
LEMMA AddedFollows ==
  ASSUME NEW rows \in Seq(Rows), NEW e \in Rows, AnswersFollow(rows),
         \A j \in DOMAIN rows : \A k \in DOMAIN e.calls : rows[j].of # e.calls[k].id
  PROVE  AnswersFollow(Append(rows, e))
<1> DEFINE L == Len(rows)
<1>1. PICK new : new = Append(rows, e)
  OBVIOUS
<1>2. /\ new \in Seq(Rows) /\ DOMAIN new = 1 .. L + 1 /\ new[L + 1] = e
      /\ \A i \in 1 .. L : new[i] = rows[i]
  BY <1>1, AddedAt
<1>3. L \in Nat /\ DOMAIN rows = 1 .. L
  BY RowsHave
<1> HIDE DEF L
<1>4. SUFFICES ASSUME NEW i \in DOMAIN new, NEW j \in DOMAIN new, NEW k \in DOMAIN new[i].calls,
                      new[j].of = new[i].calls[k].id
               PROVE  i < j
  BY <1>1 DEF AnswersFollow
<1>5. new[i].calls[k].id # <<>> /\ new[i].calls # <<>>
  <2>1. new[i].calls[k].id \in CallIds
    BY <1>2, RowsHave
  <2>2. DOMAIN <<>> = {}
    OBVIOUS
  <2> QED
    BY <2>1, <2>2, NoIdIsEmpty
<1>6. CASE i \in 1 .. L /\ j \in 1 .. L
  BY <1>2, <1>3, <1>4, <1>6 DEF AnswersFollow
<1>7. CASE i \in 1 .. L /\ j = L + 1
  BY <1>3, <1>7
<1>8. CASE i = L + 1 /\ j \in 1 .. L
  BY <1>2, <1>3, <1>4, <1>8
<1>9. CASE i = L + 1 /\ j = L + 1
  BY <1>2, <1>4, <1>5, <1>9, RowsHave
<1> QED
  BY <1>2, <1>3, <1>6, <1>7, <1>8, <1>9

-----------------------------------------------------------------------------
(* Some elements of a sequence. *)

\* Induction over the natural numbers, for a set.
LEMMA Induction ==
  ASSUME NEW T, 0 \in T, \A k \in Nat : k \in T => k + 1 \in T
  PROVE  Nat \subseteq T
<1> SUFFICES ASSUME Nat \ T # {} PROVE FALSE
  OBVIOUS
<1> DEFINE R == OpToRel(<, Nat)
<1>1. IsWellFoundedOn(R, Nat)
  BY NatLessThanWellFounded
<1>2. \E x \in Nat \ T : \A y \in Nat \ T : ~(<<y, x>> \in R)
  <2> HIDE DEF R
  <2> QED
    BY <1>1, WFMin
<1>3. PICK x \in Nat \ T : \A y \in Nat \ T : ~(<<y, x>> \in R)
  BY <1>2
<1>4. x # 0
  OBVIOUS
<1>5. x - 1 \in Nat /\ x - 1 + 1 = x
  BY <1>4
<1>6. x - 1 \in Nat \ T
  BY <1>5
<1>7. <<x - 1, x>> \in R
  BY <1>5 DEF OpToRel
<1> QED
  BY <1>3, <1>6, <1>7

\* The recursion of Kept.
Keeping(f, s, keep, n) ==
  /\ f = [i \in 0 .. n |-> f[i]] /\ f[0] = <<>>
  /\ \A i \in 1 .. n : f[i] = IF i \in keep THEN Append(f[i - 1], s[i]) ELSE f[i - 1]

LEMMA KeepingExists ==
  ASSUME NEW s, NEW keep, NEW n \in Nat
  PROVE  \E f : Keeping(f, s, keep, n)
<1> DEFINE T == {m \in Nat : \E f : Keeping(f, s, keep, m)}
<1>1. 0 \in T
  <2>1. Keeping([i \in 0 .. 0 |-> <<>>], s, keep, 0)
    BY DEF Keeping
  <2> QED
    BY <2>1
<1>2. ASSUME NEW m \in Nat, m \in T
      PROVE  m + 1 \in T
  <2>1. PICK f : Keeping(f, s, keep, m)
    BY <1>2
  <2> DEFINE g == [i \in 0 .. m + 1 |->
                     IF i = m + 1 THEN IF i \in keep THEN Append(f[m], s[i]) ELSE f[m] ELSE f[i]]
  <2>2. ASSUME NEW i \in 1 .. m + 1
        PROVE  g[i] = IF i \in keep THEN Append(g[i - 1], s[i]) ELSE g[i - 1]
    <3>1. CASE i = m + 1
      <4>1. i - 1 = m /\ m \in 0 .. m + 1 /\ m # m + 1
        BY <3>1
      <4> QED
        BY <3>1, <4>1
    <3>2. CASE i # m + 1
      <4>1. i \in 1 .. m /\ i - 1 \in 0 .. m + 1 /\ i - 1 # m + 1
        BY <3>2
      <4> QED
        BY <2>1, <3>2, <4>1 DEF Keeping
    <3> QED
      BY <3>1, <3>2
  <2>3. g = [i \in 0 .. m + 1 |-> g[i]] /\ g[0] = <<>>
    BY <2>1 DEF Keeping
  <2> HIDE DEF g
  <2>4. Keeping(g, s, keep, m + 1)
    BY <2>2, <2>3 DEF Keeping
  <2> QED
    BY <2>4
<1> HIDE DEF T
<1>3. Nat \subseteq T
  BY <1>1, <1>2, Induction
<1> QED
  BY <1>3 DEF T

LEMMA KeptByStep ==
  ASSUME NEW s, NEW keep, Len(s) \in Nat
  PROVE  \E f : Keeping(f, s, keep, Len(s)) /\ Kept(s, keep) = f[Len(s)]
<1> DEFINE n == Len(s)
           Is(f) == f = [i \in 0 .. n |-> IF i = 0 THEN <<>>
                           ELSE IF i \in keep THEN Append(f[i - 1], s[i]) ELSE f[i - 1]]
           f == CHOOSE g : Is(g)
<1>1. PICK g : Keeping(g, s, keep, n)
  BY KeepingExists
<1>2. Is(g)
  <2>1. \A i \in 0 .. n : i = 0 \/ i \in 1 .. n
    OBVIOUS
  <2>2. \A i \in 0 .. n : g[i] = IF i = 0 THEN <<>>
                           ELSE IF i \in keep THEN Append(g[i - 1], s[i]) ELSE g[i - 1]
    BY <1>1, <2>1 DEF Keeping
  <2>3. g = [i \in 0 .. n |-> g[i]]
    BY <1>1 DEF Keeping
  <2> HIDE DEF n
  <2> QED
    BY <2>2, <2>3
<1>3. Is(f)
  BY <1>2
<1>4. Kept(s, keep) = f[n]
  BY DEF Kept
<1> HIDE DEF f
<1>5. \A i \in 0 .. n : f[i] = IF i = 0 THEN <<>>
                           ELSE IF i \in keep THEN Append(f[i - 1], s[i]) ELSE f[i - 1]
  <2> HIDE DEF n
  <2> QED
    BY <1>3
<1>6. f = [i \in 0 .. n |-> f[i]]
  <2> HIDE DEF n
  <2> QED
    BY <1>3
<1>7. 0 \in 0 .. n /\ \A i \in 1 .. n : i \in 0 .. n /\ i # 0
  OBVIOUS
<1>8. Keeping(f, s, keep, n)
  <2> HIDE DEF n
  <2> QED
    BY <1>5, <1>6, <1>7 DEF Keeping
<1> QED
  BY <1>4, <1>8

\* What is kept are elements of the sequence at different places, all in keep.
Picks(at, s, keep, n, part) ==
  /\ at \in [1 .. Len(part) -> 1 .. n]
  /\ \A j \in 1 .. Len(part) : at[j] \in keep /\ part[j] = s[at[j]]
  /\ \A i, j \in 1 .. Len(part) : at[i] = at[j] => i = j
IsPart(s, keep, n, part) == \E at : Picks(at, s, keep, n, part)

LEMMA KeptIsPart ==
  ASSUME NEW S, NEW s \in Seq(S), NEW keep
  PROVE  Kept(s, keep) \in Seq(S) /\ IsPart(s, keep, Len(s), Kept(s, keep))
<1> DEFINE n == Len(s)
<1>1. n \in Nat
  BY LenProperties
<1>2. PICK f : Keeping(f, s, keep, n) /\ Kept(s, keep) = f[n]
  BY <1>1, KeptByStep
<1>3. f[0] = <<>> /\ \A i \in 1 .. n : f[i] = IF i \in keep THEN Append(f[i - 1], s[i]) ELSE f[i - 1]
  BY <1>2 DEF Keeping
<1> DEFINE T == {m \in Nat : m <= n => f[m] \in Seq(S) /\ IsPart(s, keep, m, f[m])}
<1> HIDE DEF n
<1>4. 0 \in T
  <2>1. f[0] = <<>>
    BY <1>1, <1>2 DEF Keeping
  <2>2. <<>> \in Seq(S) /\ Len(<<>>) = 0
    OBVIOUS
  <2>3. Picks([j \in 1 .. 0 |-> 1], s, keep, 0, <<>>)
    BY <2>2 DEF Picks
  <2>4. IsPart(s, keep, 0, <<>>)
    BY <2>3 DEF IsPart
  <2> QED
    BY <2>1, <2>2, <2>4
<1>5. ASSUME NEW m \in Nat, m \in T
      PROVE  m + 1 \in T
  <2> SUFFICES ASSUME m + 1 <= n
               PROVE  f[m + 1] \in Seq(S) /\ IsPart(s, keep, m + 1, f[m + 1])
    OBVIOUS
  <2>1. f[m] \in Seq(S) /\ IsPart(s, keep, m, f[m])
    BY <1>1, <1>5
  <2>2. f[m + 1] = IF m + 1 \in keep THEN Append(f[m], s[m + 1]) ELSE f[m]
    <3>1. m + 1 \in 1 .. n /\ m + 1 - 1 = m
      BY <1>1
    <3> QED
      BY <1>3, <3>1
  <2>3. s[m + 1] \in S
    BY <1>1, ElementOfSeq DEF n
  <2>4. PICK part, c : part = f[m] /\ c = Len(part)
    OBVIOUS
  <2>5. PICK at : Picks(at, s, keep, m, part)
    BY <2>1, <2>4 DEF IsPart
  <2>6. /\ part = f[m] /\ at \in [1 .. c -> 1 .. m]
        /\ \A j \in 1 .. c : at[j] \in keep /\ part[j] = s[at[j]]
        /\ \A i, j \in 1 .. c : at[i] = at[j] => i = j
    BY <2>4, <2>5 DEF Picks
  <2>7. c \in Nat /\ part \in Seq(S) /\ c = Len(part)
    BY <2>1, <2>4, LenProperties
  <2>8. CASE m + 1 \in keep
    <3>1. PICK new : new = Append(part, s[m + 1])
      OBVIOUS
    <3>2. /\ new \in Seq(S) /\ Len(new) = c + 1 /\ DOMAIN new = 1 .. c + 1 /\ new[c + 1] = s[m + 1]
          /\ \A j \in 1 .. c : new[j] = part[j]
      BY <2>3, <2>6, <2>7, <3>1, AddedAt
    <3> DEFINE to == [j \in 1 .. c + 1 |-> IF j = c + 1 THEN m + 1 ELSE at[j]]
    <3>3. \A j \in 1 .. c + 1 : j # c + 1 => j \in 1 .. c
      BY <2>7
    <3>4. \A j \in 1 .. c + 1 : to[j] = IF j = c + 1 THEN m + 1 ELSE at[j]
      OBVIOUS
    <3>5. \A j \in 1 .. c : at[j] \in 1 .. m
      BY <2>6
    <3>6. \A j \in 1 .. c + 1 : j # c + 1 => j \in 1 .. c /\ to[j] = at[j] /\ at[j] \in 1 .. m
      BY <3>3, <3>4, <3>5
    <3>7. to[c + 1] = m + 1 /\ m + 1 \in 1 .. m + 1 /\ \A l \in 1 .. m : l \in 1 .. m + 1
      BY <2>7
    <3>8. to = [j \in 1 .. c + 1 |-> to[j]]
      OBVIOUS
    <3> HIDE DEF to
    <3>9. \A j \in 1 .. c + 1 : to[j] \in 1 .. m + 1
      BY <3>6, <3>7
    <3>10. to \in [1 .. c + 1 -> 1 .. m + 1]
      BY <3>8, <3>9
    <3>11. \A j \in 1 .. c + 1 : to[j] \in keep /\ new[j] = s[to[j]]
      BY <2>6, <2>8, <3>2, <3>6, <3>7
    <3>12. \A i, j \in 1 .. c + 1 : to[i] = to[j] => i = j
      <4> SUFFICES ASSUME NEW i \in 1 .. c + 1, NEW j \in 1 .. c + 1, to[i] = to[j]
                   PROVE  i = j
        OBVIOUS
      <4>1. CASE i # c + 1 /\ j # c + 1
        BY <2>6, <3>6, <4>1
      <4>2. CASE i = c + 1 \/ j = c + 1
        <5>1. \A l \in 1 .. m : l # m + 1
          OBVIOUS
        <5> QED
          BY <3>6, <3>7, <4>2, <5>1
      <4> QED
        BY <4>1, <4>2
    <3>13. IsPart(s, keep, m + 1, new)
      BY <3>2, <3>10, <3>11, <3>12 DEF IsPart, Picks
    <3> QED
      BY <2>2, <2>6, <2>8, <3>1, <3>2, <3>13
  <2>9. CASE m + 1 \notin keep
    <3>1. at \in [1 .. c -> 1 .. m + 1]
      BY <2>6
    <3>2. IsPart(s, keep, m + 1, part)
      BY <2>6, <2>7, <3>1 DEF IsPart, Picks
    <3> QED
      BY <2>1, <2>2, <2>6, <2>9, <3>2
  <2> QED
    BY <2>8, <2>9
<1> HIDE DEF T
<1>6. Nat \subseteq T
  BY <1>4, <1>5, Induction
<1>7. n \in T /\ n <= n
  BY <1>1, <1>6
<1> QED
  BY <1>2, <1>7 DEF T, n

\* The first m elements are kept as they are.
LEMMA FirstAreKept ==
  ASSUME NEW S, NEW s \in Seq(S), NEW keep, NEW m \in 0 .. Len(s), keep = 1 .. m
  PROVE  Len(Kept(s, keep)) = m /\ \A k \in 1 .. m : Kept(s, keep)[k] = s[k]
<1> DEFINE n == Len(s)
<1>1. n \in Nat
  BY LenProperties
<1>2. PICK f : Keeping(f, s, keep, n) /\ Kept(s, keep) = f[n]
  BY <1>1, KeptByStep
<1>3. f[0] = <<>> /\ \A i \in 1 .. n : f[i] = IF i \in keep THEN Append(f[i - 1], s[i]) ELSE f[i - 1]
  BY <1>2 DEF Keeping
<1> DEFINE Is(i, part) == /\ part \in Seq(S) /\ Len(part) = IF i <= m THEN i ELSE m
                          /\ \A k \in 1 .. Len(part) : part[k] = s[k]
           T == {i \in Nat : i <= n => Is(i, f[i])}
<1>4. \A k \in 1 .. n : s[k] \in S
  BY ElementOfSeq
<1>5. m \in 0 .. n
  OBVIOUS
<1> HIDE DEF n
<1>6. 0 \in T
  <2>1. f[0] = <<>>
    BY <1>1, <1>2 DEF Keeping
  <2>2. <<>> \in Seq(S) /\ Len(<<>>) = 0
    OBVIOUS
  <2>3. Is(0, <<>>)
    BY <1>5, <1>1, <2>2
  <2> HIDE DEF Is
  <2> QED
    BY <2>1, <2>3
<1>7. ASSUME NEW i \in Nat, i \in T
      PROVE  i + 1 \in T
  <2> SUFFICES ASSUME i + 1 <= n
               PROVE  Is(i + 1, f[i + 1])
    OBVIOUS
  <2>1. Is(i, f[i])
    BY <1>1, <1>7
  <2>2. f[i + 1] = IF i + 1 \in keep THEN Append(f[i], s[i + 1]) ELSE f[i]
    <3>1. i + 1 \in 1 .. n /\ i + 1 - 1 = i
      BY <1>1
    <3> QED
      BY <1>3, <3>1
  <2>3. PICK part : part = f[i]
    OBVIOUS
  <2>4. part \in Seq(S) /\ Len(part) = (IF i <= m THEN i ELSE m) /\ \A k \in 1 .. Len(part) : part[k] = s[k]
    BY <2>1, <2>3
  <2>5. CASE i + 1 \in keep
    <3>1. i + 1 <= m /\ i <= m
      BY <1>5, <1>1, <2>5
    <3>2. PICK new : new = Append(part, s[i + 1])
      OBVIOUS
    <3>3. /\ new \in Seq(S) /\ Len(new) = i + 1 /\ new[i + 1] = s[i + 1]
          /\ \A k \in 1 .. i : new[k] = part[k]
      <4>1. s[i + 1] \in S /\ Len(part) = i
        BY <1>1, <1>4, <2>4, <3>1
      <4> QED
        BY <2>4, <3>2, <4>1, AddedAt
    <3>4. \A k \in 1 .. i + 1 : k = i + 1 \/ k \in 1 .. i
      OBVIOUS
    <3>5. \A k \in 1 .. i + 1 : new[k] = s[k]
      BY <2>4, <3>1, <3>3, <3>4
    <3>6. Is(i + 1, new)
      BY <3>1, <3>3, <3>5
    <3> HIDE DEF Is
    <3> QED
      BY <2>2, <2>3, <2>5, <3>2, <3>6
  <2>6. CASE i + 1 \notin keep
    <3>1. ~(i + 1 <= m)
      BY <1>5, <1>1, <2>6
    <3>2. (IF i <= m THEN i ELSE m) = (IF i + 1 <= m THEN i + 1 ELSE m)
      BY <1>5, <1>1, <3>1
    <3>3. Is(i + 1, part)
      BY <2>4, <3>2
    <3> HIDE DEF Is
    <3> QED
      BY <2>2, <2>3, <2>6, <3>3
  <2> QED
    BY <2>5, <2>6
<1> HIDE DEF T
<1>8. Nat \subseteq T
  BY <1>6, <1>7, Induction
<1>9. Is(n, f[n])
  BY <1>1, <1>8 DEF T
<1> QED
  BY <1>5, <1>1, <1>2, <1>9

\* What holds of a number and of all below it holds of the first so many.
LEMMA FirstSoMany ==
  ASSUME NEW n \in Nat, NEW keep \in SUBSET (1 .. n), \A k \in keep : \A m \in 1 .. k : m \in keep
  PROVE  \E m \in 0 .. n : keep = 1 .. m
<1> DEFINE T == {i \in Nat : i <= n => \E m \in 0 .. i : keep \cap (1 .. i) = 1 .. m}
<1>1. 0 \in T
  <2>1. keep \cap (1 .. 0) = 1 .. 0 /\ 0 \in 0 .. 0
    OBVIOUS
  <2> QED
    BY <2>1
<1>2. ASSUME NEW i \in Nat, i \in T
      PROVE  i + 1 \in T
  <2> SUFFICES ASSUME i + 1 <= n
               PROVE  \E m \in 0 .. i + 1 : keep \cap (1 .. i + 1) = 1 .. m
    OBVIOUS
  <2>1. PICK m \in 0 .. i : keep \cap (1 .. i) = 1 .. m
    BY <1>2
  <2>2. \A l : l \in 1 .. i + 1 <=> l \in 1 .. i \/ l = i + 1
    OBVIOUS
  <2>3. CASE i + 1 \in keep
    <3>1. 1 .. i + 1 \subseteq keep
      BY <2>3
    <3> QED
      BY <3>1
  <2>4. CASE i + 1 \notin keep
    <3>1. keep \cap (1 .. i + 1) = 1 .. m
      BY <2>1, <2>2, <2>4
    <3> QED
      BY <3>1
  <2> QED
    BY <2>3, <2>4
<1> HIDE DEF T
<1>3. Nat \subseteq T
  BY <1>1, <1>2, Induction
<1>4. \E m \in 0 .. n : keep \cap (1 .. n) = 1 .. m
  BY <1>3 DEF T
<1> QED
  BY <1>4

-----------------------------------------------------------------------------
(* What is sent of a thread. *)
Given(rows) == {rows[i].of : i \in {j \in DOMAIN rows : rows[j].role = "tool"}}
GivenAt(rows, i) == {k \in DOMAIN rows[i].calls : rows[i].calls[k].id \in Given(rows)}

LEMMA SentIs ==
  ASSUME NEW rows \in Seq(Rows)
  PROVE  /\ ToChatMessages(rows) \in Seq(Rows) /\ Len(ToChatMessages(rows)) = Len(rows)
         /\ DOMAIN ToChatMessages(rows) = DOMAIN rows
         /\ \A i \in DOMAIN rows :
              /\ ToChatMessages(rows)[i].of = rows[i].of /\ ToChatMessages(rows)[i].name = rows[i].name
              /\ ToChatMessages(rows)[i].calls = Kept(rows[i].calls, GivenAt(rows, i))
<1> DEFINE row(i) == [rows[i] EXCEPT !.calls = AnsweredOf(rows[i].calls, Given(rows))]
<1>1. ToChatMessages(rows) = [i \in DOMAIN rows |-> row(i)]
  BY DEF ToChatMessages, Given
<1>2. ASSUME NEW i \in DOMAIN rows
      PROVE  /\ row(i) \in Rows /\ row(i).of = rows[i].of /\ row(i).name = rows[i].name
             /\ row(i).calls = Kept(rows[i].calls, GivenAt(rows, i))
  <2>1. rows[i] \in Messaged /\ rows[i] \in Rows /\ rows[i].calls \in Seq(Tickets)
    BY RowsHave DEF Rows
  <2>2. PICK kept : kept = Kept(rows[i].calls, GivenAt(rows, i))
    OBVIOUS
  <2>3. AnsweredOf(rows[i].calls, Given(rows)) = kept
    BY <2>2 DEF AnsweredOf, GivenAt
  <2>4. kept \in Seq(Tickets)
    BY <2>1, <2>2, KeptIsPart
  <2>5. rows[i].of # <<>> => kept = <<>>
    <3> SUFFICES ASSUME rows[i].of # <<>>
                 PROVE  kept = <<>>
      OBVIOUS
    <3>1. rows[i].calls = <<>>
      BY RowsHave
    <3>2. GivenAt(rows, i) = 1 .. 0 /\ 0 \in 0 .. Len(rows[i].calls)
      BY <3>1 DEF GivenAt
    <3>3. Len(kept) = 0
      BY <2>1, <2>2, <3>2, FirstAreKept
    <3> QED
      BY <2>4, <3>3, EmptySeq
  <2>6. PICK r, new : r = rows[i] /\ new = [r EXCEPT !.calls = kept]
    OBVIOUS
  <2>7. new \in Messaged /\ new.role = r.role /\ new.of = r.of /\ new.name = r.name /\ new.calls = kept
    BY <2>1, <2>4, <2>6 DEF Messaged
  <2>8. new \in Rows
    BY <2>1, <2>5, <2>6, <2>7 DEF Rows
  <2>9. row(i) = new
    BY <2>3, <2>6
  <2> HIDE DEF row
  <2> QED
    BY <2>2, <2>6, <2>7, <2>8, <2>9
<1>3. Len(rows) \in Nat /\ DOMAIN rows = 1 .. Len(rows)
  BY RowsHave
<1> HIDE DEF row
<1>4. /\ ToChatMessages(rows) \in Seq(Rows) /\ Len(ToChatMessages(rows)) = Len(rows)
      /\ DOMAIN ToChatMessages(rows) = DOMAIN rows
  BY <1>1, <1>2, <1>3
<1> QED
  BY <1>1, <1>2, <1>4

\* In a thread that is tied every call that is sent has its result in its place.
LEMMA TiedIsSent ==
  ASSUME NEW rows \in Seq(Rows), Tied(rows)
  PROVE  AllMatched(ToChatMessages(rows))
<1>1. PICK sent : sent = ToChatMessages(rows)
  OBVIOUS
<1>2. /\ DOMAIN sent = DOMAIN rows
      /\ \A i \in DOMAIN rows : /\ sent[i].of = rows[i].of /\ sent[i].name = rows[i].name
                               /\ sent[i].calls = Kept(rows[i].calls, GivenAt(rows, i))
  BY <1>1, SentIs
<1>3. ASSUME NEW i \in DOMAIN rows, NEW k \in DOMAIN rows[i].calls
      PROVE  k \in GivenAt(rows, i) <=> Matched(rows, i, k)
  <2>1. rows[i].calls[k].id \in CallIds /\ rows[i].calls[k].id # <<>>
    BY RowsHave, NoIdIsEmpty
  <2>2. ASSUME Matched(rows, i, k)
        PROVE  k \in GivenAt(rows, i)
    <3>1. i + k \in DOMAIN rows /\ rows[i + k].of = rows[i].calls[k].id
      BY <2>2 DEF Matched
    <3>2. rows[i + k].role = "tool"
      BY <2>1, <3>1, RowsHave DEF Rows
    <3> QED
      BY <3>1, <3>2 DEF GivenAt, Given
  <2>3. ASSUME k \in GivenAt(rows, i)
        PROVE  Matched(rows, i, k)
    <3>1. PICK j \in DOMAIN rows : rows[j].of = rows[i].calls[k].id
      BY <2>3 DEF GivenAt, Given
    <3>2. PICK l \in 1 .. j - 1 : \E m \in DOMAIN rows[l].calls : j = l + m /\ Matched(rows, l, m)
      BY <2>1, <3>1 DEF Tied, InPlace
    <3>3. PICK m \in DOMAIN rows[l].calls : j = l + m /\ Matched(rows, l, m)
      BY <3>2
    <3>4. l \in DOMAIN rows
      BY <3>1, RowsHave
    <3>5. rows[l].calls[m].id = rows[i].calls[k].id
      BY <3>1, <3>3 DEF Matched
    <3>6. l = i /\ m = k
      BY <3>4, <3>5 DEF Tied, OwnIds
    <3> QED
      BY <3>6, <3>3
  <2> QED
    BY <2>2, <2>3
<1>4. ASSUME NEW i \in DOMAIN rows
      PROVE  /\ DOMAIN sent[i].calls = GivenAt(rows, i)
             /\ \A k \in GivenAt(rows, i) : sent[i].calls[k] = rows[i].calls[k]
  <2>1. /\ rows[i].calls \in Seq(Tickets) /\ Len(rows[i].calls) \in Nat
        /\ DOMAIN rows[i].calls = 1 .. Len(rows[i].calls)
    BY RowsHave
  <2>2. ASSUME NEW k \in GivenAt(rows, i), NEW m \in 1 .. k
        PROVE  m \in GivenAt(rows, i)
    <3>1. k \in DOMAIN rows[i].calls /\ m \in DOMAIN rows[i].calls
      BY <2>1 DEF GivenAt
    <3>2. Matched(rows, i, m)
      BY <1>3, <3>1 DEF Tied, FirstOnes
    <3> QED
      BY <1>3, <3>1, <3>2
  <2>3. GivenAt(rows, i) \in SUBSET (1 .. Len(rows[i].calls))
    BY <2>1 DEF GivenAt
  <2>4. PICK m \in 0 .. Len(rows[i].calls) : GivenAt(rows, i) = 1 .. m
    BY <2>1, <2>2, <2>3, FirstSoMany
  <2>5. PICK kept : kept = Kept(rows[i].calls, GivenAt(rows, i))
    OBVIOUS
  <2>6. Len(kept) = m /\ \A k \in 1 .. m : kept[k] = rows[i].calls[k]
    BY <2>1, <2>4, <2>5, FirstAreKept
  <2>7. DOMAIN kept = 1 .. m
    BY <2>1, <2>5, <2>6, KeptIsPart, LenProperties
  <2> QED
    BY <1>2, <2>4, <2>5, <2>6, <2>7
<1>5. ASSUME NEW i \in DOMAIN sent, NEW k \in DOMAIN sent[i].calls
      PROVE  Matched(sent, i, k)
  <2>1. i \in DOMAIN rows /\ k \in GivenAt(rows, i) /\ sent[i].calls[k] = rows[i].calls[k]
    BY <1>2, <1>4
  <2>2. Matched(rows, i, k)
    BY <1>3, <2>1 DEF GivenAt
  <2> QED
    BY <1>2, <2>1, <2>2 DEF Matched
<1>6. InPlace(sent)
  <2> SUFFICES ASSUME NEW j \in DOMAIN sent, sent[j].of # <<>>
               PROVE  \E i \in 1 .. j - 1 : \E k \in DOMAIN sent[i].calls : j = i + k /\ Matched(sent, i, k)
    BY DEF InPlace
  <2>1. PICK i \in 1 .. j - 1 : \E k \in DOMAIN rows[i].calls : j = i + k /\ Matched(rows, i, k)
    BY <1>2 DEF Tied, InPlace
  <2>2. PICK k \in DOMAIN rows[i].calls : j = i + k /\ Matched(rows, i, k)
    BY <2>1
  <2>3. i \in DOMAIN rows
    BY <1>2, RowsHave
  <2>4. k \in DOMAIN sent[i].calls
    BY <1>3, <1>4, <2>2, <2>3
  <2> QED
    BY <1>2, <1>5, <2>2, <2>3, <2>4
<1> QED
  BY <1>1, <1>5, <1>6 DEF AllMatched

\* In any thread every call that is sent has its result further on.
LEMMA AnsweredIsSent ==
  ASSUME NEW rows \in Seq(Rows), AnswersFollow(rows)
  PROVE  AllAnswered(ToChatMessages(rows))
<1>1. PICK sent : sent = ToChatMessages(rows)
  OBVIOUS
<1>2. /\ DOMAIN sent = DOMAIN rows /\ Len(sent) = Len(rows)
      /\ \A i \in DOMAIN rows : /\ sent[i].of = rows[i].of
                               /\ sent[i].calls = Kept(rows[i].calls, GivenAt(rows, i))
  BY <1>1, SentIs
<1>3. SUFFICES ASSUME NEW i \in DOMAIN rows, NEW k \in DOMAIN sent[i].calls
               PROVE  \E j \in i + 1 .. Len(sent) : sent[j].of = sent[i].calls[k].id
  BY <1>1, <1>2 DEF AllAnswered
<1>4. PICK kept : kept = sent[i].calls
  OBVIOUS
<1>5. kept \in Seq(Tickets) /\ IsPart(rows[i].calls, GivenAt(rows, i), Len(rows[i].calls), kept)
  BY <1>2, <1>4, KeptIsPart, RowsHave
<1>6. k \in 1 .. Len(kept)
  BY <1>4, <1>5, LenProperties
<1>7. PICK m \in GivenAt(rows, i) : kept[k] = rows[i].calls[m]
  BY <1>5, <1>6 DEF IsPart, Picks
<1>8. PICK j \in DOMAIN rows : rows[j].of = rows[i].calls[m].id
  BY <1>7 DEF GivenAt, Given
<1>9. m \in DOMAIN rows[i].calls
  BY <1>7 DEF GivenAt
<1>10. i < j
  BY <1>8, <1>9 DEF AnswersFollow
<1>11. j \in i + 1 .. Len(rows)
  BY <1>10, RowsHave
<1> QED
  BY <1>2, <1>4, <1>7, <1>8, <1>11

\* What each kind of server can tell of a list that is in order.
LEMMA OrderBinds ==
  ASSUME NEW rows \in Seq(Rows), AllMatched(rows), NEW kind \in Kinds
  PROVE  Binds(Wire(kind, rows))
<1>1. Len(rows) \in Nat /\ DOMAIN rows = 1 .. Len(rows)
  BY RowsHave
<1>2. PICK sent : sent = Wire(kind, rows)
  OBVIOUS
<1> DEFINE tag(i) == IF kind = "ollama" THEN IF rows[i].role = "tool" THEN <<rows[i].name>> ELSE <<>> ELSE rows[i].of
           sign(call) == IF kind = "ollama" THEN <<call.name>> ELSE call.id
<1>3. /\ Len(sent) = Len(rows) /\ DOMAIN sent = 1 .. Len(rows)
      /\ \A i \in 1 .. Len(rows) :
           /\ sent[i].of = tag(i)
           /\ DOMAIN sent[i].calls = DOMAIN rows[i].calls
           /\ \A k \in DOMAIN rows[i].calls : sent[i].calls[k] = sign(rows[i].calls[k])
  <2>1. CASE kind = "anthropic"
    <3>1. sent = WireAnthropic(rows)
      BY <1>2, <2>1 DEF Wire
    <3> QED
      BY <1>1, <2>1, <3>1 DEF WireAnthropic
  <2>2. CASE kind = "openai-compat"
    <3>1. sent = WireOpenAi(rows)
      BY <1>2, <2>2 DEF Wire
    <3> QED
      BY <1>1, <2>2, <3>1 DEF WireOpenAi
  <2>3. CASE kind = "ollama"
    <3>1. sent = WireOllama(rows)
      BY <1>2, <2>3 DEF Wire
    <3> QED
      BY <1>1, <2>3, <3>1 DEF WireOllama
  <2> QED
    BY <2>1, <2>2, <2>3 DEF Kinds
<1>4. \A i \in 1 .. Len(rows) : tag(i) # <<>> <=> rows[i].of # <<>>
  <2>1. \A i \in 1 .. Len(rows) : rows[i].role = "tool" <=> rows[i].of # <<>>
    BY <1>1, RowsHave DEF Rows
  <2>2. \A x : <<x>> # <<>>
    OBVIOUS
  <2> QED
    BY <2>1, <2>2
<1>5. ASSUME NEW i \in 1 .. Len(rows), NEW k \in DOMAIN rows[i].calls, Matched(rows, i, k)
      PROVE  i + k \in 1 .. Len(rows) /\ tag(i + k) = sign(rows[i].calls[k])
  <2>1. i + k \in 1 .. Len(rows) /\ rows[i + k].of = rows[i].calls[k].id /\ rows[i + k].name = rows[i].calls[k].name
    BY <1>1, <1>5 DEF Matched
  <2>2. rows[i + k].of # <<>>
    BY <1>1, <2>1, RowsHave, NoIdIsEmpty
  <2>3. rows[i + k].role = "tool"
    BY <1>1, <2>1, <2>2, RowsHave DEF Rows
  <2> QED
    BY <2>1, <2>3
<1> HIDE DEF tag, sign
<1>6. ASSUME NEW i \in DOMAIN sent, NEW k \in DOMAIN sent[i].calls
      PROVE  i + k <= Len(sent) /\ sent[i + k].of = sent[i].calls[k]
  <2>1. Matched(rows, i, k)
    BY <1>1, <1>3 DEF AllMatched
  <2> QED
    BY <1>1, <1>3, <1>5, <2>1
<1>7. ASSUME NEW i \in DOMAIN sent, sent[i].of # <<>>
      PROVE  \E j \in 1 .. (i - 1) : sent[i].of \in ToSet(sent[j].calls) /\ i <= j + Len(sent[j].calls)
  <2>1. rows[i].of # <<>>
    BY <1>3, <1>4, <1>7
  <2>2. PICK j \in 1 .. i - 1 : \E k \in DOMAIN rows[j].calls : i = j + k /\ Matched(rows, j, k)
    BY <1>1, <1>3, <2>1 DEF AllMatched, InPlace
  <2>3. PICK k \in DOMAIN rows[j].calls : i = j + k /\ Matched(rows, j, k)
    BY <2>2
  <2>4. j \in 1 .. Len(rows)
    BY <1>1, <1>3
  <2>5. sent[i].of = sent[j].calls[k] /\ k \in DOMAIN sent[j].calls
    BY <1>3, <1>5, <2>3, <2>4
  <2>6. k \in 1 .. Len(sent[j].calls) /\ Len(sent[j].calls) \in Nat
    <3>1. DOMAIN sent[j].calls = 1 .. Len(rows[j].calls) /\ Len(rows[j].calls) \in Nat
      BY <1>1, <1>3, <2>4, RowsHave
    <3> QED
      BY <2>5, <3>1
  <2>7. i <= j + Len(sent[j].calls)
    BY <1>1, <2>3, <2>4, <2>6
  <2> QED
    BY <2>5, <2>7 DEF ToSet
<1> QED
  BY <1>2, <1>6, <1>7 DEF Binds

-----------------------------------------------------------------------------
(* The steps of a turn. *)

\* Rounds go on, and what a round has used stays used.
Ahead(t, next) ==
  \/ next.round > turn[t].round
  \/ next.round = turn[t].round /\ (turn[t].at \in {"calls", "ended"} => next.at \in {"calls", "ended"})

LEMMA StaysUsed ==
  ASSUME ChatInv, NEW t \in Turns, NEW next, TurnFits(t, next), Ahead(t, next),
         turn' = [turn EXCEPT ![t] = next], NEW id \in CallIds, IsUsed(id)
  PROVE  IsUsed(id)'
<1>1. id[1] \in Turns /\ id[2] \in Nat
  BY DEF CallIds
<1>2. turn'[t] = next /\ \A u \in Turns : u # t => turn'[u] = turn[u]
  BY DEF ChatInv, ChatFits
<1>3. turn[t].round \in Nat /\ next.round \in Nat
  BY DEF ChatInv, ChatFits, TurnFits
<1>4. CASE id[1] = t
  BY <1>1, <1>2, <1>3, <1>4 DEF Ahead, IsUsed
<1>5. CASE id[1] # t
  BY <1>1, <1>2, <1>5 DEF IsUsed
<1> QED
  BY <1>4, <1>5

LEMMA UsedStay ==
  ASSUME ChatInv, NEW t \in Turns, NEW next, TurnFits(t, next), Ahead(t, next),
         turn' = [turn EXCEPT ![t] = next], UNCHANGED thread
  PROVE  IdsAreUsed'
<1>1. ASSUME NEW i \in DOMAIN thread, thread[i].of # <<>>
      PROVE  IsUsed(thread[i].of)'
  <2>1. thread[i].of \in CallIds /\ IsUsed(thread[i].of)
    BY <1>1, RowsHave DEF ChatInv, ChatFits, IdsAreUsed, Rows, Messaged
  <2>2. PICK id \in CallIds : id = thread[i].of
    BY <2>1
  <2>3. IsUsed(id)'
    BY <2>1, <2>2, StaysUsed
  <2> QED
    BY <2>2, <2>3 DEF IsUsed
<1>2. ASSUME NEW i \in DOMAIN thread, NEW k \in DOMAIN thread[i].calls
      PROVE  IsUsed(thread[i].calls[k].id)'
  <2>1. thread[i].calls[k].id \in CallIds /\ IsUsed(thread[i].calls[k].id)
    BY RowsHave DEF ChatInv, ChatFits, IdsAreUsed
  <2>2. PICK id \in CallIds : id = thread[i].calls[k].id
    BY <2>1
  <2>3. IsUsed(id)'
    BY <2>1, <2>2, StaysUsed
  <2> QED
    BY <2>2, <2>3 DEF IsUsed
<1> QED
  BY <1>1, <1>2 DEF IdsAreUsed

LEMMA NothingSaid ==
  AllMatched(<<>>) /\ Tied(<<>>) /\ AnswersFollow(<<>>) /\ AllAnswered(<<>>)
<1>1. DOMAIN <<>> = {}
  OBVIOUS
<1> QED
  BY <1>1 DEF AllMatched, InPlace, Tied, OwnIds, FirstOnes, AnswersFollow, AllAnswered

\* The only turn that is taken: what it still owes completes the lists.
LEMMA OnlyTurn ==
  ASSUME ChatInv, NEW t \in Turns, ~torn, Active \subseteq {t}
  PROVE  /\ IsStored => Tied(thread \o Due(t, turn[t].calls))
         /\ ~IsStored => AllMatched(shared \o Due(t, turn[t].calls))
<1>1. CASE t \in Active
  BY <1>1 DEF ChatInv, ThreadFits, SharedFits, Whole
<1>2. CASE t \notin Active
  <2>1. Active = {}
    BY <1>2
  <2>2. turn[t].at # "calls"
    BY <1>2 DEF Active
  <2>3. turn[t].calls = <<>> /\ thread \in Seq(Rows) /\ shared \in Seq(Rows)
    BY <2>2 DEF ChatInv, ChatFits, TurnFits
  <2>4. thread \o Due(t, turn[t].calls) = thread /\ shared \o Due(t, turn[t].calls) = shared
    BY <2>3, NothingDue
  <2> QED
    BY <2>1, <2>4 DEF ChatInv, ThreadFits, SharedFits
<1> QED
  BY <1>1, <1>2

\* A turn acts.
LEMMA ActsFit ==
  ASSUME ChatInv, NEW t \in Turns, NEW next,
         turn' = [turn EXCEPT ![t] = next], surface' = surface, torn => torn',
         ~torn' => Active \subseteq {t},
         TurnFits(t, next), IdsAreUsed', thread' \in Seq(Rows), shared' \in Seq(Rows),
         IsStored => /\ AnswersFollow(thread') /\ AllAnswered(next.messages \o Due(t, next.calls))
                     /\ ~torn' => /\ Tied(thread' \o Due(t, next.calls))
                                     /\ AllMatched(next.messages \o Due(t, next.calls)),
         ~IsStored => (~torn' => AllMatched(shared' \o Due(t, next.calls)))
  PROVE  ChatInv'
<1>1. turn'[t] = next /\ DOMAIN turn' = Turns /\ \A u \in Turns : u # t => turn'[u] = turn[u]
  BY DEF ChatInv, ChatFits
<1>2. ChatFits'
  BY <1>1 DEF ChatInv, ChatFits
<1>3. ~torn' => Active' \subseteq {t}
  BY <1>1 DEF Active
<1>4. OneAtATime'
  BY <1>3 DEF OneAtATime
<1>5. IsStored' <=> IsStored
  BY DEF IsStored
<1>6. \A u \in Turns : u # t => Due(u, turn'[u].calls) = Due(u, turn[u].calls)
  BY <1>1
<1>7. Active' = {} => next.calls = <<>>
  BY <1>1 DEF Active, TurnFits
<1>8. Active' = {} => /\ thread' \o Due(t, next.calls) = thread'
                      /\ shared' \o Due(t, next.calls) = shared'
  BY <1>7, NothingDue
<1>9. IsStored => ThreadFits'
  BY <1>1, <1>3, <1>8 DEF ThreadFits, Whole
<1>10. ~IsStored => SharedFits'
  BY <1>1, <1>3, <1>8 DEF SharedFits, Whole
<1>11. IsStored => MessagesFit'
  BY <1>1 DEF ChatInv, MessagesFit, Whole
<1> QED
  BY <1>2, <1>4, <1>5, <1>9, <1>10, <1>11 DEF ChatInv

\* A turn goes on or ends, and no list that others see changes.
LEMMA QuietFits ==
  ASSUME ChatInv, NEW t \in Turns, NEW next,
         turn' = [turn EXCEPT ![t] = next], UNCHANGED <<surface, thread, shared, torn>>,
         TurnFits(t, next), Ahead(t, next), turn[t].calls = <<>>, next.calls = <<>>,
         t \in Active \/ next.at = "ended",
         IsStored => AllAnswered(next.messages) /\ (~torn => AllMatched(next.messages))
  PROVE  ChatInv'
<1>1. turn'[t] = next /\ DOMAIN turn' = Turns /\ \A u \in Turns : u # t => turn'[u] = turn[u]
  BY DEF ChatInv, ChatFits
<1>2. ChatFits' /\ \A u \in Turns : turn'[u].calls = turn[u].calls
  BY <1>1 DEF ChatInv, ChatFits
<1>3. Active' \subseteq Active
  BY <1>1 DEF Active
<1>4. OneAtATime'
  BY <1>3 DEF ChatInv, OneAtATime
<1>5. IsStored' <=> IsStored
  BY DEF IsStored
<1>6. IdsAreUsed'
  BY UsedStay
<1>7. thread \o Due(t, <<>>) = thread /\ shared \o Due(t, <<>>) = shared /\ next.messages \o Due(t, <<>>) = next.messages
  BY NothingDue DEF ChatInv, ChatFits, TurnFits
<1>8. Active' = {} => Active = {} \/ t \in Active
  BY <1>1 DEF Active
<1>9. IsStored => ThreadFits'
  <2> SUFFICES ASSUME IsStored
               PROVE  ThreadFits'
    OBVIOUS
  <2>1. ~torn => \A u \in Active : Tied(thread \o Due(u, turn[u].calls))
    BY DEF ChatInv, ThreadFits, Whole
  <2>2. Active \subseteq Turns
    BY DEF Active
  <2>3. ~torn => \A u \in Active' : Tied(thread \o Due(u, turn'[u].calls))
    BY <1>2, <1>3, <2>1, <2>2
  <2>4. ~torn /\ Active' = {} => Tied(thread)
    <3>1. Active = {} /\ ~torn => Tied(thread)
      BY DEF ChatInv, ThreadFits
    <3>2. t \in Active /\ ~torn => Tied(thread)
      BY <1>7, <2>1
    <3> QED
      BY <1>8, <3>1, <3>2
  <2> QED
    BY <2>3, <2>4 DEF ChatInv, ThreadFits, Whole
<1>10. ~IsStored => SharedFits'
  <2> SUFFICES ASSUME ~IsStored
               PROVE  SharedFits'
    OBVIOUS
  <2>1. ~torn => \A u \in Active : AllMatched(shared \o Due(u, turn[u].calls))
    BY DEF ChatInv, SharedFits, Whole
  <2>2. Active \subseteq Turns
    BY DEF Active
  <2>3. ~torn => \A u \in Active' : AllMatched(shared \o Due(u, turn'[u].calls))
    BY <1>2, <1>3, <2>1, <2>2
  <2>4. ~torn /\ Active' = {} => AllMatched(shared)
    <3>1. Active = {} /\ ~torn => AllMatched(shared)
      BY DEF ChatInv, SharedFits
    <3>2. t \in Active /\ ~torn => AllMatched(shared)
      BY <1>7, <2>1
    <3> QED
      BY <1>8, <3>1, <3>2
  <2> QED
    BY <2>3, <2>4 DEF ChatInv, SharedFits, Whole
<1>11. IsStored => MessagesFit'
  BY <1>1, <1>7 DEF ChatInv, MessagesFit, Whole
<1> QED
  BY <1>2, <1>4, <1>5, <1>6, <1>9, <1>10, <1>11 DEF ChatInv

\* The locals of a turn with the message in its list.
Noted(next, message) ==
  [next EXCEPT !.messages = IF next.at = "ended" THEN <<>> ELSE Append(@, message)]

LEMMA NotedIs ==
  ASSUME NEW t \in Turns, NEW next, NEW message \in Rows, TurnFits(t, next)
  PROVE  /\ TurnFits(t, Noted(next, message)) /\ Noted(next, message).calls = next.calls
         /\ Noted(next, message).at = next.at /\ Noted(next, message).round = next.round
         /\ Noted(next, message).messages = IF next.at = "ended" THEN <<>> ELSE Append(next.messages, message)
<1>1. PICK new : new = Noted(next, message)
  OBVIOUS
<1>2. DOMAIN next = {"at", "round", "messages", "calls", "said", "whole", "seen", "ran"}
  BY DEF TurnFits, NoTurn
<1>3. /\ DOMAIN new = DOMAIN next /\ new.at = next.at /\ new.round = next.round /\ new.calls = next.calls
      /\ new.said = next.said /\ new.whole = next.whole
      /\ new.messages = IF next.at = "ended" THEN <<>> ELSE Append(next.messages, message)
  BY <1>1, <1>2 DEF Noted
<1>4. new.messages \in Seq(Rows)
  BY <1>3, AddedAt DEF TurnFits
<1>5. TurnFits(t, new)
  BY <1>3, <1>4 DEF TurnFits, IsSaid
<1> QED
  BY <1>1, <1>3, <1>5

\* The ids that a message holds.
IdsOf(row) == {row.calls[k].id : k \in DOMAIN row.calls} \cup ({row.of} \ {<<>>})

LEMMA UsedWith ==
  ASSUME ChatInv, NEW t \in Turns, NEW next, NEW message \in Rows, TurnFits(t, next), Ahead(t, next),
         turn' = [turn EXCEPT ![t] = next], thread' = thread \/ thread' = Append(thread, message),
         \A id \in IdsOf(message) : id[1] = t /\ id[2] = next.round /\ next.at = "calls"
  PROVE  IdsAreUsed'
<1>1. thread \in Seq(Rows) /\ turn'[t] = next
  BY DEF ChatInv, ChatFits
<1>2. ASSUME NEW row, NEW i \in DOMAIN thread, row = thread[i], NEW id \in IdsOf(row)
      PROVE  IsUsed(id)'
  <2>1. \/ id = thread[i].of /\ thread[i].of # <<>>
        \/ \E k \in DOMAIN thread[i].calls : id = thread[i].calls[k].id
    BY <1>2 DEF IdsOf
  <2>2. id \in CallIds
    BY <1>1, <2>1, RowsHave DEF Rows, Messaged
  <2>3. IsUsed(id)
    BY <2>1 DEF ChatInv, IdsAreUsed
  <2> QED
    BY <2>2, <2>3, StaysUsed
<1>3. ASSUME NEW id \in IdsOf(message)
      PROVE  IsUsed(id)'
  BY <1>1 DEF IsUsed
<1>4. ASSUME NEW i \in DOMAIN thread'
      PROVE  (i \in DOMAIN thread /\ thread'[i] = thread[i]) \/ thread'[i] = message
  <2>1. CASE thread' = thread
    BY <2>1
  <2>2. CASE thread' = Append(thread, message)
    <3>1. /\ DOMAIN thread' = 1 .. Len(thread) + 1 /\ thread'[Len(thread) + 1] = message
          /\ \A k \in 1 .. Len(thread) : thread'[k] = thread[k]
      BY <1>1, <2>2, AddedAt
    <3>2. Len(thread) \in Nat /\ DOMAIN thread = 1 .. Len(thread)
      BY <1>1, RowsHave
    <3> QED
      BY <3>1, <3>2
  <2> QED
    BY <2>1, <2>2
<1>5. ASSUME NEW i \in DOMAIN thread', NEW id \in IdsOf(thread'[i])
      PROVE  IsUsed(id)'
  BY <1>2, <1>3, <1>4
<1>6. ASSUME NEW i \in DOMAIN thread', thread'[i].of # <<>>
      PROVE  IsUsed(thread[i].of)'
  <2>1. PICK id : id = thread'[i].of
    OBVIOUS
  <2>2. id \in IdsOf(thread'[i])
    BY <1>6, <2>1 DEF IdsOf
  <2>3. IsUsed(id)'
    BY <1>5, <2>2
  <2> QED
    BY <2>1, <2>3 DEF IsUsed
<1>7. ASSUME NEW i \in DOMAIN thread', NEW k \in DOMAIN thread'[i].calls
      PROVE  IsUsed(thread[i].calls[k].id)'
  <2>1. PICK id : id = thread'[i].calls[k].id
    OBVIOUS
  <2>2. id \in IdsOf(thread'[i])
    BY <2>1 DEF IdsOf
  <2>3. IsUsed(id)'
    BY <1>5, <2>2
  <2> QED
    BY <2>1, <2>3 DEF IsUsed
<1> QED
  BY <1>6, <1>7 DEF IdsAreUsed

\* A message is recorded: it has to keep the lists in order, with what the turn
\* owed before and after.
KeepsOrder(t, message, next) ==
  \A rows \in Seq(Rows) :
    /\ AllMatched(rows \o Due(t, turn[t].calls)) => AllMatched(Append(rows, message) \o Due(t, next.calls))
    /\ AllAnswered(rows \o Due(t, turn[t].calls)) => AllAnswered(Append(rows, message) \o Due(t, next.calls))

LEMMA RecordFits ==
  ASSUME ChatInv, NEW t \in Turns, NEW next, NEW message \in Rows, Record(t, message, next),
         surface' = surface, torn => torn', ~torn' => Active \subseteq {t},
         TurnFits(t, next), Ahead(t, next),
         \A id \in IdsOf(message) : id[1] = t /\ id[2] = next.round /\ next.at = "calls",
         KeepsOrder(t, message, next),
         IsStored /\ AnswersFollow(thread) => AnswersFollow(Append(thread, message)),
         IsStored /\ Tied(thread \o Due(t, turn[t].calls)) => Tied(Append(thread, message) \o Due(t, next.calls)),
         \/ next.at = "ended" \/ next.messages = turn[t].messages
         \/ next.messages = <<>> /\ turn[t].calls = <<>>
  PROVE  ChatInv'
<1>1. thread \in Seq(Rows) /\ shared \in Seq(Rows) /\ turn[t].messages \in Seq(Rows) /\ next.messages \in Seq(Rows)
  BY DEF ChatInv, ChatFits, TurnFits
<1>2. Append(thread, message) \in Seq(Rows) /\ Append(shared, message) \in Seq(Rows)
  BY <1>1, AddedAt
<1>3. (~torn' => ~torn) /\ <<>> \in Seq(Rows)
  OBVIOUS
<1>4. CASE IsStored
  <2>1. PICK new : new = Noted(next, message)
    OBVIOUS
  <2>2. thread' = Append(thread, message) /\ shared' = shared /\ turn' = [turn EXCEPT ![t] = new]
    BY <1>4, <2>1 DEF Record, Noted
  <2>3. /\ TurnFits(t, new) /\ new.calls = next.calls /\ new.at = next.at /\ new.round = next.round
        /\ new.messages = IF next.at = "ended" THEN <<>> ELSE Append(next.messages, message)
    BY <2>1, NotedIs
  <2>4. Ahead(t, new)
    BY <2>3 DEF Ahead
  <2>5. IdsAreUsed'
    BY <2>2, <2>3, <2>4, UsedWith
  <2>6. AnswersFollow(thread')
    BY <1>4, <2>2 DEF ChatInv, ThreadFits
  <2>7. ~torn' => Tied(thread' \o Due(t, new.calls))
    BY <1>3, <1>4, <2>2, <2>3, OnlyTurn
  <2>8. /\ AllAnswered(new.messages \o Due(t, new.calls))
        /\ ~torn' => AllMatched(new.messages \o Due(t, new.calls))
    <3>1. CASE next.at = "ended"
      <4>1. next.calls = <<>> /\ new.messages = <<>>
        BY <2>3, <3>1 DEF TurnFits
      <4>2. <<>> \o Due(t, <<>>) = <<>>
        BY <1>3, NothingDue
      <4> QED
        BY <2>3, <4>1, <4>2, NothingSaid
    <3>2. CASE next.at # "ended" /\ next.messages = turn[t].messages
      <4>1. /\ AllAnswered(turn[t].messages \o Due(t, turn[t].calls))
            /\ ~torn' => AllMatched(turn[t].messages \o Due(t, turn[t].calls))
        BY <1>3, <1>4 DEF ChatInv, MessagesFit, Whole
      <4> QED
        BY <1>1, <2>3, <3>2, <4>1 DEF KeepsOrder
    <3>3. CASE next.at # "ended" /\ next.messages = <<>> /\ turn[t].calls = <<>>
      <4>1. <<>> \o Due(t, <<>>) = <<>>
        BY <1>3, NothingDue
      <4>2. AllAnswered(<<>> \o Due(t, turn[t].calls)) /\ AllMatched(<<>> \o Due(t, turn[t].calls))
        BY <3>3, <4>1, NothingSaid
      <4> QED
        BY <1>1, <2>3, <3>3, <4>2 DEF KeepsOrder
    <3> QED
      BY <3>1, <3>2, <3>3
  <2> QED
    BY <1>1, <1>2, <1>4, <2>2, <2>3, <2>5, <2>6, <2>7, <2>8, ActsFit
<1>5. CASE ~IsStored
  <2>1. thread' = thread /\ shared' = Append(shared, message) /\ turn' = [turn EXCEPT ![t] = next]
    BY <1>5 DEF Record
  <2>2. IdsAreUsed'
    BY <2>1, UsedWith
  <2>3. ~torn' => AllMatched(shared' \o Due(t, next.calls))
    BY <1>1, <1>3, <1>5, <2>1, OnlyTurn DEF KeepsOrder
  <2> QED
    BY <1>1, <1>2, <1>5, <2>1, <2>2, <2>3, ActsFit
<1> QED
  BY <1>4, <1>5

LEMMA MessageIsPlain ==
  ASSUME NEW t \in Turns, NEW role \in {"user", "assistant"}
  PROVE  IsPlain(Message(role, t)) /\ Message(role, t) \in Rows /\ IdsOf(Message(role, t)) = {}
<1>1. PICK r : r = Message(role, t)
  OBVIOUS
<1>2. r = [role |-> role, by |-> t, calls |-> <<>>, of |-> <<>>, name |-> <<>>]
  BY <1>1 DEF Message
<1>3. <<>> \in Seq(Tickets) /\ DOMAIN <<>> = {}
  OBVIOUS
<1>4. r \in Rows /\ r.calls = <<>> /\ r.of = <<>>
  BY <1>2, <1>3 DEF Rows, Messaged
<1> QED
  BY <1>1, <1>3, <1>4 DEF IsPlain, IdsOf

\* Something is said, or answered for good.
LEMMA PlainFits ==
  ASSUME ChatInv, NEW t \in Turns, NEW next, NEW role \in {"user", "assistant"}, Record(t, Message(role, t), next),
         surface' = surface, torn => torn', ~torn' => Active \subseteq {t},
         TurnFits(t, next), Ahead(t, next), turn[t].calls = <<>>, next.calls = <<>>,
         next.at = "ended" \/ next.messages = turn[t].messages \/ next.messages = <<>>
  PROVE  ChatInv'
<1>1. PICK message : message = Message(role, t)
  OBVIOUS
<1>2. IsPlain(message) /\ message \in Rows /\ IdsOf(message) = {}
  BY <1>1, MessageIsPlain
<1>3. ASSUME NEW rows \in Seq(Rows)
      PROVE  /\ rows \o Due(t, turn[t].calls) = rows
             /\ Append(rows, message) \o Due(t, next.calls) = Append(rows, message)
  <2>1. Append(rows, message) \in Seq(Rows)
    BY <1>2, AddedAt
  <2> QED
    BY <2>1, NothingDue
<1>4. KeepsOrder(t, message, next)
  BY <1>2, <1>3, PlainKeeps DEF KeepsOrder
<1>5. thread \in Seq(Rows)
  BY DEF ChatInv, ChatFits
<1>6. AnswersFollow(thread) => AnswersFollow(Append(thread, message))
  BY <1>2, <1>5, PlainKeeps
<1>7. Tied(thread \o Due(t, turn[t].calls)) => Tied(Append(thread, message) \o Due(t, next.calls))
  BY <1>2, <1>3, <1>5, PlainKeeps
<1> QED
  BY <1>1, <1>2, <1>4, <1>6, <1>7, RecordFits

\* A reply with calls is recorded: its results will follow.
LEMMA CallingFits ==
  ASSUME ChatInv, NEW t \in Turns, NEW next, NEW calls \in Seq(Calls), Record(t, Calling(t, calls), next),
         surface' = surface, torn' = torn, t \in Active, turn[t].at = "asking",
         TurnFits(t, next), next.at = "calls", next.round = turn[t].round, next.messages = turn[t].messages,
         next.calls = calls, \A q, p \in DOMAIN calls : calls[q].id = calls[p].id => q = p
  PROVE  ChatInv'
<1>1. PICK message : message = Calling(t, calls)
  OBVIOUS
<1>2. /\ message \in Rows /\ message.of = <<>> /\ DOMAIN message.calls = 1 .. Len(calls)
      /\ \A q \in 1 .. Len(calls) : message.calls[q].id = calls[q].id
  BY <1>1, CallingIs
<1>3. DOMAIN calls = 1 .. Len(calls) /\ turn[t].calls = <<>>
  BY LenProperties DEF ChatInv, ChatFits, TurnFits
<1>4. \A id \in IdsOf(message) : id[1] = t /\ id[2] = next.round /\ next.at = "calls"
  <2>1. \A id \in IdsOf(message) : \E q \in DOMAIN calls : id = calls[q].id
    BY <1>2, <1>3 DEF IdsOf
  <2> QED
    BY <2>1 DEF TurnFits
<1>5. Active \subseteq {t} \/ torn
  BY DEF ChatInv, OneAtATime
<1>6. Ahead(t, next)
  BY DEF Ahead
<1>7. thread \in Seq(Rows)
  BY DEF ChatInv, ChatFits
<1>8. \A rows \in Seq(Rows) : rows \o Due(t, turn[t].calls) = rows
  BY <1>3, NothingDue
<1>9. KeepsOrder(t, message, next)
  <2> SUFFICES ASSUME NEW rows \in Seq(Rows)
               PROVE  /\ AllMatched(rows) => AllMatched(Append(rows, message) \o Due(t, calls))
                      /\ AllAnswered(rows) => AllAnswered(Append(rows, message) \o Due(t, calls))
    BY <1>8 DEF KeepsOrder
  <2>1. PICK new : IsRound(new, rows, t, calls)
    BY DEF IsRound
  <2>2. (AllMatched(rows) => AllMatched(new)) /\ (AllAnswered(rows) => AllAnswered(new))
    BY <2>1, RoundKeeps
  <2> QED
    BY <1>1, <2>1, <2>2 DEF IsRound
<1>10. ASSUME NEW q \in DOMAIN calls
       PROVE  ~ IsUsed(calls[q].id)
  <2>1. calls[q].id[1] = t /\ calls[q].id[2] = turn[t].round /\ turn[t].round \in Nat
    BY DEF TurnFits
  <2> QED
    BY <2>1 DEF IsUsed
<1>11. AnswersFollow(thread) => AnswersFollow(Append(thread, message))
  <2>1. ASSUME NEW j \in DOMAIN thread, NEW k \in DOMAIN message.calls
        PROVE  thread[j].of # message.calls[k].id
    <3>1. k \in DOMAIN calls /\ message.calls[k].id = calls[k].id
      BY <1>2, <1>3
    <3>2. calls[k].id \in CallIds /\ calls[k].id # <<>>
      BY <1>3, <3>1, DueAre, NoIdIsEmpty
    <3> QED
      BY <1>10, <3>1, <3>2 DEF ChatInv, IdsAreUsed
  <2> QED
    BY <1>2, <1>7, <2>1, AddedFollows
<1>12. Tied(thread \o Due(t, turn[t].calls)) => Tied(Append(thread, message) \o Due(t, next.calls))
  <2>1. AreFresh(calls, thread)
    BY <1>10 DEF ChatInv, IdsAreUsed, AreFresh
  <2>2. thread \o Due(t, turn[t].calls) = thread
    BY <1>7, <1>8
  <2>3. PICK new : IsRound(new, thread, t, calls)
    BY DEF IsRound
  <2>4. Tied(thread) => Tied(new)
    BY <1>7, <2>1, <2>3, RoundKeeps
  <2> QED
    BY <1>1, <2>2, <2>3, <2>4 DEF IsRound
<1> QED
  BY <1>1, <1>2, <1>4, <1>5, <1>6, <1>9, <1>11, <1>12, RecordFits

\* The next result is recorded.
LEMMA AnswerFits ==
  ASSUME ChatInv, NEW t \in Turns, Answer(t)
  PROVE  ChatInv'
<1> DEFINE call == Head(turn[t].calls)
           runs == IsRun(t, call)
<1>1. PICK next : next = [turn[t] EXCEPT !.calls = Tail(@),
             !.seen = IF runs THEN @ \cup {Signature(call)} ELSE @,
             !.ran = IF runs THEN Append(@, Signature(call)) ELSE @]
  OBVIOUS
<1>2. PICK message : message = ResultOf(t, call)
  OBVIOUS
<1>3. /\ turn[t].at = "calls" /\ turn[t].calls # <<>> /\ Record(t, message, next)
      /\ surface' = surface /\ torn' = torn
  BY <1>1, <1>2 DEF Answer, OwesResult
<1> HIDE DEF runs
<1>4. TurnFits(t, turn[t]) /\ turn[t].calls \in Seq(Calls) /\ turn[t].round \in Nat /\ thread \in Seq(Rows)
  BY DEF ChatInv, ChatFits, TurnFits
<1>5. DOMAIN turn[t] = {"at", "round", "messages", "calls", "said", "whole", "seen", "ran"}
  BY <1>4 DEF TurnFits, NoTurn
<1>6. /\ DOMAIN next = DOMAIN turn[t] /\ next.at = "calls" /\ next.round = turn[t].round
      /\ next.messages = turn[t].messages /\ next.calls = Tail(turn[t].calls)
      /\ next.said = turn[t].said /\ next.whole = turn[t].whole
  BY <1>1, <1>3, <1>5
<1>7. /\ call = turn[t].calls[1] /\ 1 \in DOMAIN turn[t].calls /\ next.calls \in Seq(Calls)
      /\ \A q \in DOMAIN next.calls : q + 1 \in DOMAIN turn[t].calls /\ next.calls[q] = turn[t].calls[q + 1]
  <2>1. Len(turn[t].calls) \in Nat \ {0} /\ DOMAIN turn[t].calls = 1 .. Len(turn[t].calls)
    BY <1>3, <1>4, EmptySeq, LenProperties
  <2>2. PICK left : left = Tail(turn[t].calls)
    OBVIOUS
  <2>3. /\ left \in Seq(Calls) /\ Len(left) = Len(turn[t].calls) - 1 /\ call = turn[t].calls[1]
        /\ \A q \in 1 .. Len(left) : left[q] = turn[t].calls[q + 1]
    BY <1>3, <1>4, <2>2, HeadTailProperties
  <2>4. DOMAIN left = 1 .. Len(left)
    BY <2>3, LenProperties
  <2> QED
    BY <1>6, <2>1, <2>2, <2>3, <2>4
<1>8. TurnFits(t, next)
  <2>1. \A q \in DOMAIN next.calls : next.calls[q].id[1] = t /\ next.calls[q].id[2] = next.round
    BY <1>4, <1>6, <1>7 DEF TurnFits
  <2>2. ToSet(next.calls) \subseteq ToSet(turn[t].calls)
    BY <1>7 DEF ToSet
  <2>3. IsSaid(next)
    BY <1>4, <1>6, <2>2 DEF TurnFits, IsSaid
  <2> QED
    BY <1>4, <1>6, <1>7, <2>1, <2>3 DEF TurnFits, Places
<1>9. /\ message \in Rows /\ message.calls = <<>> /\ message.of = turn[t].calls[1].id
  BY <1>2, <1>4, <1>7, DueAre
<1> HIDE DEF call
<1>10. \A id \in IdsOf(message) : id[1] = t /\ id[2] = next.round /\ next.at = "calls"
  <2>1. DOMAIN message.calls = {}
    BY <1>9
  <2>2. turn[t].calls[1].id[1] = t /\ turn[t].calls[1].id[2] = turn[t].round
    BY <1>4, <1>7 DEF TurnFits
  <2>3. IdsOf(message) \subseteq {turn[t].calls[1].id}
    BY <1>9, <2>1 DEF IdsOf
  <2> QED
    BY <1>6, <2>2, <2>3
<1>11. ASSUME NEW rows \in Seq(Rows)
       PROVE  Append(rows, message) \o Due(t, next.calls) = rows \o Due(t, turn[t].calls)
  BY <1>2, <1>3, <1>4, <1>6, DueComes DEF call
<1>12. KeepsOrder(t, message, next)
  BY <1>11 DEF KeepsOrder
<1>13. AnswersFollow(thread) => AnswersFollow(Append(thread, message))
  <2>1. DOMAIN message.calls = {}
    BY <1>9
  <2> QED
    BY <1>4, <1>9, <2>1, AddedFollows
<1>14. Active \subseteq {t} \/ torn
  <2>1. t \in Active
    BY <1>3 DEF Active
  <2> QED
    BY <2>1 DEF ChatInv, OneAtATime
<1>15. Ahead(t, next)
  BY <1>6 DEF Ahead
<1>16. Tied(thread \o Due(t, turn[t].calls)) => Tied(Append(thread, message) \o Due(t, next.calls))
  BY <1>4, <1>11
<1> QED
  BY <1>3, <1>6, <1>8, <1>9, <1>10, <1>12, <1>13, <1>14, <1>15, <1>16, RecordFits

-----------------------------------------------------------------------------
(* What is read of a stream. *)

\* The calls of a reply, and a call's place in the list of slots.
Slots(calls) ==
  [index : DOMAIN calls, id : {calls[i].id : i \in DOMAIN calls}, name : {calls[i].name : i \in DOMAIN calls},
   json : Seq({calls[i].args : i \in DOMAIN calls} \X Nat)]

\* A slot holds the first m fragments of the call it is of.
Holds(slot, calls, m) ==
  /\ slot.id = calls[slot.index].id /\ slot.name = calls[slot.index].name
  /\ Len(slot.json) = m /\ \A k \in 1 .. m : slot.json[k] = <<calls[slot.index].args, k>>

\* The reader when of every call i so many frames have come: the one that opens
\* it, then its fragments.
HasRead(r, calls, got) ==
  /\ DOMAIN r = {"text", "slots", "paid"} /\ r.slots \in Seq(Slots(calls))
  /\ \A j, l \in DOMAIN r.slots : r.slots[j].index = r.slots[l].index => j = l
  /\ \A j \in DOMAIN r.slots :
       got[r.slots[j].index] # 0 /\ Holds(r.slots[j], calls, got[r.slots[j].index] - 1)
  /\ \A i \in DOMAIN calls : got[i] # 0 => \E j \in DOMAIN r.slots : r.slots[j].index = i

IsCount(got, calls) == got \in [DOMAIN calls -> 0 .. Pieces + 1]

\* A call's first frame makes a slot for it.
LEMMA SlotIsMade ==
  ASSUME NEW calls, IsCallList(calls), NEW got, IsCount(got, calls), NEW r, HasRead(r, calls, got),
         NEW i \in DOMAIN calls, got[i] = 0, NEW m \in 0 .. Pieces, NEW slot \in Slots(calls),
         slot.index = i, Holds(slot, calls, m)
  PROVE  HasRead([r EXCEPT !.slots = Append(@, slot)], calls, [got EXCEPT ![i] = m + 1])
<1>1. PICK new, now, L : /\ new = [r EXCEPT !.slots = Append(@, slot)] /\ now = [got EXCEPT ![i] = m + 1]
                         /\ L = Len(r.slots)
  OBVIOUS
<1>2. DOMAIN r = {"text", "slots", "paid"} /\ r.slots \in Seq(Slots(calls))
  BY DEF HasRead
<1>3. DOMAIN new = {"text", "slots", "paid"} /\ new.slots = Append(r.slots, slot)
  BY <1>1, <1>2
<1>4. PICK old, added : old = r.slots /\ added = new.slots
  OBVIOUS
<1>5. L \in Nat /\ DOMAIN old = 1 .. L /\ \A j \in 1 .. L : old[j] \in Slots(calls)
  BY <1>1, <1>2, <1>4, LenProperties, ElementOfSeq
<1>6. /\ added \in Seq(Slots(calls)) /\ DOMAIN added = 1 .. L + 1 /\ added[L + 1] = slot
      /\ \A j \in 1 .. L : added[j] = old[j]
  BY <1>1, <1>2, <1>3, <1>4, AddedAt
<1>7. \A j \in DOMAIN added : j = L + 1 \/ (j \in DOMAIN old /\ added[j] = old[j])
  BY <1>5, <1>6
<1>8. /\ \A j, l \in DOMAIN old : old[j].index = old[l].index => j = l
      /\ \A j \in DOMAIN old : got[old[j].index] # 0 /\ Holds(old[j], calls, got[old[j].index] - 1)
      /\ \A k \in DOMAIN calls : got[k] # 0 => \E j \in DOMAIN old : old[j].index = k
  BY <1>4 DEF HasRead
<1>9. \A j \in DOMAIN old : old[j].index \in DOMAIN calls /\ old[j].index # i
  BY <1>5, <1>8 DEF Slots
<1>10. /\ now[i] = m + 1 /\ \A k \in DOMAIN calls : k # i => now[k] = got[k]
       /\ m + 1 # 0 /\ m + 1 - 1 = m
  BY <1>1 DEF IsCount
<1>11. \A j, l \in DOMAIN added : added[j].index = added[l].index => j = l
  BY <1>6, <1>7, <1>8, <1>9
<1>12. ASSUME NEW j \in DOMAIN added
       PROVE  now[added[j].index] # 0 /\ Holds(added[j], calls, now[added[j].index] - 1)
  <2>1. CASE j = L + 1
    BY <1>6, <1>10, <2>1
  <2>2. CASE j \in DOMAIN old /\ added[j] = old[j]
    BY <1>8, <1>9, <1>10, <2>2
  <2> QED
    BY <1>7, <2>1, <2>2
<1>13. ASSUME NEW k \in DOMAIN calls, now[k] # 0
       PROVE  \E j \in DOMAIN added : added[j].index = k
  <2>1. CASE k = i
    <3>1. L + 1 \in DOMAIN added
      BY <1>5, <1>6
    <3> QED
      BY <1>6, <2>1, <3>1
  <2>2. CASE k # i
    <3>1. PICK j \in DOMAIN old : old[j].index = k
      BY <1>8, <1>10, <1>13, <2>2
    <3>2. j \in DOMAIN added /\ added[j] = old[j]
      BY <1>5, <1>6
    <3> QED
      BY <3>1, <3>2
  <2> QED
    BY <2>1, <2>2
<1>14. HasRead(new, calls, now)
  BY <1>3, <1>4, <1>6, <1>11, <1>12, <1>13 DEF HasRead
<1> QED
  BY <1>1, <1>14

\* The next fragment of a call goes to its slot.
IsPiece(frame, calls, i, k) == frame.index = i /\ frame.json = <<Json(calls[i])[k]>>

LEMMA SlotIsExtended ==
  ASSUME NEW calls, IsCallList(calls), NEW got, IsCount(got, calls), NEW r, HasRead(r, calls, got),
         NEW i \in DOMAIN calls, got[i] \in 1 .. Pieces, NEW frame,
         IsPiece(frame, calls, i, got[i])
  PROVE  /\ SlotFor(r, frame) # {}
         /\ HasRead(Extended(r, frame), calls, [got EXCEPT ![i] = got[i] + 1])
         /\ Extended(r, frame).paid = r.paid
<1>1. PICK new, now, L : /\ new = Extended(r, frame) /\ now = [got EXCEPT ![i] = got[i] + 1]
                         /\ L = Len(r.slots)
  OBVIOUS
<1>2. DOMAIN r = {"text", "slots", "paid"} /\ r.slots \in Seq(Slots(calls))
  BY DEF HasRead
<1>3. PICK old, at : old = r.slots /\ at = CHOOSE j \in SlotFor(r, frame) : TRUE
  OBVIOUS
<1>4. /\ \A j, l \in DOMAIN old : old[j].index = old[l].index => j = l
      /\ \A j \in DOMAIN old : got[old[j].index] # 0 /\ Holds(old[j], calls, got[old[j].index] - 1)
      /\ \A k \in DOMAIN calls : got[k] # 0 => \E j \in DOMAIN old : old[j].index = k
  BY <1>3 DEF HasRead
<1>5. SlotFor(r, frame) = {j \in DOMAIN old : old[j].index = i}
  BY <1>3 DEF IsPiece, SlotFor, SlotsOf
<1>6. got[i] # 0 /\ got[i] \in Nat /\ Pieces \in Nat
  BY StreamsAssumption
<1>7. SlotFor(r, frame) # {} /\ at \in DOMAIN old /\ old[at].index = i
  BY <1>3, <1>4, <1>5, <1>6
<1>8. PICK s, json, part : s = old[at] /\ json = s.json /\ part = <<calls[i].args, got[i]>>
  OBVIOUS
<1>9. L \in Nat /\ DOMAIN old = 1 .. L /\ \A j \in 1 .. L : old[j] \in Slots(calls)
  BY <1>1, <1>2, <1>3, LenProperties, ElementOfSeq
<1>10. s \in Slots(calls) /\ Holds(s, calls, got[i] - 1) /\ s.index = i
  BY <1>4, <1>7, <1>8, <1>9
<1>11. frame.json = <<part>>
  <2>1. Json(calls[i])[got[i]] = part
    BY <1>8 DEF Json
  <2> QED
    BY <2>1 DEF IsPiece
<1>12. PICK P : P = {calls[k].args : k \in DOMAIN calls} \X Nat
  OBVIOUS
<1>13. part \in P /\ json \in Seq(P)
  BY <1>6, <1>8, <1>10, <1>12 DEF Slots
<1>14. PICK longer : longer = json \o <<part>>
  OBVIOUS
<1>15. /\ longer \in Seq(P) /\ Len(longer) = got[i]
       /\ \A k \in 1 .. got[i] : longer[k] = <<calls[i].args, k>>
  <2>1. Len(json) = got[i] - 1 /\ \A k \in 1 .. got[i] - 1 : json[k] = <<calls[i].args, k>>
    BY <1>8, <1>10 DEF Holds
  <2>2. longer = Append(json, part)
    BY <1>13, <1>14, AppendIsConcat
  <2>3. /\ longer \in Seq(P) /\ Len(longer) = Len(json) + 1 /\ longer[Len(json) + 1] = part
        /\ \A k \in 1 .. Len(json) : longer[k] = json[k]
    BY <1>13, <2>2, AddedAt
  <2>4. \A k \in 1 .. got[i] : k = got[i] \/ k \in 1 .. got[i] - 1
    BY <1>6
  <2>5. Len(longer) = got[i] /\ longer[got[i]] = part
    BY <1>6, <2>1, <2>3
  <2>6. \A k \in 1 .. got[i] - 1 : longer[k] = <<calls[i].args, k>>
    BY <2>1, <2>3
  <2> QED
    BY <1>8, <2>3, <2>4, <2>5, <2>6
<1>16. PICK one : one = [s EXCEPT !.json = longer]
  OBVIOUS
<1>17. one \in Slots(calls) /\ one.index = i /\ one.id = s.id /\ one.name = s.name /\ one.json = longer
  BY <1>10, <1>12, <1>15, <1>16 DEF Slots
<1>18. Holds(one, calls, got[i])
  BY <1>10, <1>15, <1>17 DEF Holds
<1>19. PICK added : added = [old EXCEPT ![at] = one]
  OBVIOUS
<1>20. DOMAIN new = {"text", "slots", "paid"} /\ new.slots = added /\ new.paid = r.paid
  <2>1. new = [r EXCEPT !.slots = [old EXCEPT ![at] = [s EXCEPT !.json = json \o frame.json]]]
    BY <1>1, <1>3, <1>8 DEF Extended
  <2>2. new = [r EXCEPT !.slots = added]
    BY <1>11, <1>14, <1>16, <1>19, <2>1
  <2> QED
    BY <1>2, <2>2
<1>21. /\ DOMAIN added = DOMAIN old /\ added[at] = one
       /\ \A j \in DOMAIN old : j # at => added[j] = old[j]
  BY <1>7, <1>19
<1>22. added \in Seq(Slots(calls))
  BY <1>2, <1>3, <1>7, <1>17, <1>19, ExceptSeq
<1>23. \A j \in DOMAIN old : old[j].index \in DOMAIN calls /\ (j # at => old[j].index # i)
  BY <1>4, <1>7, <1>9 DEF Slots
<1>24. /\ now[i] = got[i] + 1 /\ \A k \in DOMAIN calls : k # i => now[k] = got[k]
       /\ got[i] + 1 # 0 /\ got[i] + 1 - 1 = got[i]
  BY <1>1, <1>6 DEF IsCount
<1>25. \A j \in DOMAIN old : added[j].index = old[j].index
  BY <1>7, <1>17, <1>21
<1>26. \A j, l \in DOMAIN added : added[j].index = added[l].index => j = l
  BY <1>4, <1>21, <1>25
<1>27. ASSUME NEW j \in DOMAIN added
       PROVE  now[added[j].index] # 0 /\ Holds(added[j], calls, now[added[j].index] - 1)
  <2>1. CASE j = at
    BY <1>17, <1>18, <1>21, <1>24, <2>1
  <2>2. CASE j # at
    BY <1>4, <1>21, <1>23, <1>24, <2>2
  <2> QED
    BY <2>1, <2>2
<1>28. ASSUME NEW k \in DOMAIN calls, now[k] # 0
       PROVE  \E j \in DOMAIN added : added[j].index = k
  <2>1. got[k] # 0
    BY <1>6, <1>24, <1>28
  <2> QED
    BY <1>4, <1>21, <1>25, <2>1
<1>29. HasRead(new, calls, now)
  BY <1>20, <1>22, <1>26, <1>27, <1>28 DEF HasRead
<1> QED
  BY <1>1, <1>7, <1>20, <1>29

\* A frame of the stream of calls, which have come as g says before it.
StepsTo(kind, frame, calls, g, h) ==
  \E i \in DOMAIN calls :
    \/ kind # "ollama" /\ g[i] = 0 /\ frame = Opening(calls, i) /\ h = [g EXCEPT ![i] = 1]
    \/ kind # "ollama" /\ g[i] \in 1 .. Pieces /\ frame = Fragment(calls, i, g[i]) /\ h = [g EXCEPT ![i] = g[i] + 1]
    \/ kind = "ollama" /\ g[i] = 0 /\ frame = CallFrame(calls, i) /\ h = [g EXCEPT ![i] = Pieces + 1]

LEMMA OpeningIs ==
  ASSUME NEW calls, IsCallList(calls), NEW i \in DOMAIN calls
  PROVE  /\ Opening(calls, i).type = "open" /\ SlotOf(Opening(calls, i)) \in Slots(calls)
         /\ SlotOf(Opening(calls, i)).index = i /\ Holds(SlotOf(Opening(calls, i)), calls, 0)
         /\ CallFrame(calls, i).type = "call" /\ SlotOf(CallFrame(calls, i)) \in Slots(calls)
         /\ SlotOf(CallFrame(calls, i)).index = i /\ Holds(SlotOf(CallFrame(calls, i)), calls, Pieces)
<1>1. PICK frame, whole, json, P :
        /\ frame = Opening(calls, i) /\ whole = CallFrame(calls, i) /\ json = Json(calls[i])
        /\ P = {calls[k].args : k \in DOMAIN calls} \X Nat
  OBVIOUS
<1>2. frame = [type |-> "open", index |-> i, id |-> calls[i].id, name |-> calls[i].name, json |-> <<>>]
  BY <1>1 DEF Opening
<1>3. whole = [frame EXCEPT !.type = "call", !.json = json]
  BY <1>1 DEF CallFrame
<1>4. SlotOf(frame) = [index |-> i, id |-> calls[i].id, name |-> calls[i].name, json |-> <<>>] /\ frame.type = "open"
  BY <1>2 DEF SlotOf
<1>5. SlotOf(whole) = [index |-> i, id |-> calls[i].id, name |-> calls[i].name, json |-> json] /\ whole.type = "call"
  BY <1>2, <1>3 DEF SlotOf
<1>6. Pieces \in Nat /\ json = [k \in 1 .. Pieces |-> <<calls[i].args, k>>]
  BY <1>1, StreamsAssumption DEF Json
<1>7. \A k \in 1 .. Pieces : <<calls[i].args, k>> \in P
  <2>1. calls[i].args \in {calls[k].args : k \in DOMAIN calls} /\ \A k \in 1 .. Pieces : k \in Nat
    OBVIOUS
  <2> QED
    BY <1>1, <2>1
<1>8. json \in Seq(P) /\ Len(json) = Pieces /\ \A k \in 1 .. Pieces : json[k] = <<calls[i].args, k>>
  BY <1>6, <1>7
<1>9. <<>> \in Seq(P) /\ Len(<<>>) = 0
  OBVIOUS
<1>10. calls[i].id \in {calls[k].id : k \in DOMAIN calls} /\ calls[i].name \in {calls[k].name : k \in DOMAIN calls}
  OBVIOUS
<1>11. SlotOf(frame) \in Slots(calls) /\ SlotOf(whole) \in Slots(calls)
  BY <1>1, <1>4, <1>5, <1>8, <1>9, <1>10 DEF Slots
<1>12. Holds(SlotOf(frame), calls, 0)
  BY <1>4, <1>9 DEF Holds
<1>13. Holds(SlotOf(whole), calls, Pieces)
  BY <1>5, <1>8 DEF Holds
<1> QED
  BY <1>1, <1>4, <1>5, <1>11, <1>12, <1>13

LEMMA FrameIsRead ==
  ASSUME NEW kind \in Kinds, NEW calls, IsCallList(calls), NEW g, IsCount(g, calls), NEW h, NEW r, HasRead(r, calls, g),
         NEW frame, StepsTo(kind, frame, calls, g, h)
  PROVE  HasRead(Read(kind, r, frame), calls, h) /\ Read(kind, r, frame).paid = r.paid
<1>1. PICK i \in DOMAIN calls :
        \/ kind # "ollama" /\ g[i] = 0 /\ frame = Opening(calls, i) /\ h = [g EXCEPT ![i] = 1]
        \/ kind # "ollama" /\ g[i] \in 1 .. Pieces /\ frame = Fragment(calls, i, g[i]) /\ h = [g EXCEPT ![i] = g[i] + 1]
        \/ kind = "ollama" /\ g[i] = 0 /\ frame = CallFrame(calls, i) /\ h = [g EXCEPT ![i] = Pieces + 1]
  BY DEF StepsTo
<1>2. Pieces \in Nat /\ 0 \in 0 .. Pieces /\ Pieces \in 0 .. Pieces /\ 0 + 1 = 1
  BY StreamsAssumption
<1>3. NewSlot(r, frame).paid = r.paid
  BY DEF NewSlot, HasRead
<1>4. CASE kind # "ollama" /\ g[i] = 0 /\ frame = Opening(calls, i) /\ h = [g EXCEPT ![i] = 1]
  <2>1. /\ frame.type = "open" /\ SlotOf(frame) \in Slots(calls) /\ SlotOf(frame).index = i
        /\ Holds(SlotOf(frame), calls, 0) /\ frame.index = i
    BY <1>4, OpeningIs DEF Opening
  <2>2. h = [g EXCEPT ![i] = 0 + 1]
    BY <1>2, <1>4
  <2>3. HasRead(NewSlot(r, frame), calls, h)
    <3>1. PICK slot : slot = SlotOf(frame)
      OBVIOUS
    <3>2. HasRead([r EXCEPT !.slots = Append(@, slot)], calls, [g EXCEPT ![i] = 0 + 1])
      BY <1>2, <1>4, <2>1, <3>1, SlotIsMade
    <3> QED
      BY <2>2, <3>1, <3>2 DEF NewSlot
  <2>4. SlotFor(r, frame) = {}
    <3>1. \A j \in DOMAIN r.slots : r.slots[j].index # i
      BY <1>4 DEF HasRead
    <3> QED
      BY <2>1, <3>1 DEF SlotFor, SlotsOf
  <2>5. CASE kind = "anthropic"
    <3>1. Read(kind, r, frame) = NewSlot(r, frame)
      BY <2>1, <2>5 DEF Read, ReadAnthropic
    <3> QED
      BY <1>3, <2>3, <3>1
  <2>6. CASE kind = "openai-compat"
    <3>1. Read(kind, r, frame) = NewSlot(r, frame)
      BY <2>1, <2>4, <2>6 DEF Read, ReadOpenAi
    <3> QED
      BY <1>3, <2>3, <3>1
  <2> QED
    BY <1>4, <2>5, <2>6 DEF Kinds
<1>5. CASE kind # "ollama" /\ g[i] \in 1 .. Pieces /\ frame = Fragment(calls, i, g[i]) /\ h = [g EXCEPT ![i] = g[i] + 1]
  <2>1. frame.type = "piece" /\ IsPiece(frame, calls, i, g[i])
    BY <1>5 DEF Fragment, IsPiece
  <2>2. SlotFor(r, frame) # {} /\ HasRead(Extended(r, frame), calls, h) /\ Extended(r, frame).paid = r.paid
    <3>1. i \in DOMAIN calls /\ g[i] \in 1 .. Pieces
      BY <1>5
    <3>2. SlotFor(r, frame) # {}
      BY <2>1, <3>1, SlotIsExtended
    <3>3. HasRead(Extended(r, frame), calls, [g EXCEPT ![i] = g[i] + 1])
      BY <2>1, <3>1, SlotIsExtended
    <3>4. Extended(r, frame).paid = r.paid
      BY DEF Extended, HasRead
    <3> QED
      BY <1>5, <3>2, <3>3, <3>4
  <2>3. CASE kind = "anthropic"
    <3>1. Read(kind, r, frame) = Extended(r, frame)
      BY <2>1, <2>2, <2>3 DEF Read, ReadAnthropic
    <3> QED
      BY <2>2, <3>1
  <2>4. CASE kind = "openai-compat"
    <3>1. Read(kind, r, frame) = Extended(r, frame)
      BY <2>1, <2>2, <2>4 DEF Read, ReadOpenAi
    <3> QED
      BY <2>2, <3>1
  <2> QED
    BY <1>5, <2>3, <2>4 DEF Kinds
<1>6. CASE kind = "ollama" /\ g[i] = 0 /\ frame = CallFrame(calls, i) /\ h = [g EXCEPT ![i] = Pieces + 1]
  <2>1. /\ frame.type = "call" /\ SlotOf(frame) \in Slots(calls) /\ SlotOf(frame).index = i
        /\ Holds(SlotOf(frame), calls, Pieces)
    BY <1>6, OpeningIs
  <2>2. PICK slot : slot = SlotOf(frame)
    OBVIOUS
  <2>3. HasRead([r EXCEPT !.slots = Append(@, slot)], calls, [g EXCEPT ![i] = Pieces + 1])
    BY <1>2, <1>6, <2>1, <2>2, SlotIsMade
  <2>4. Read(kind, r, frame) = NewSlot(r, frame)
    BY <1>6, <2>1 DEF Read, ReadOllama
  <2> QED
    BY <1>3, <1>6, <2>2, <2>3, <2>4 DEF NewSlot
<1> QED
  BY <1>1, <1>4, <1>5, <1>6

\* The words before the calls, and the usage after them.
LEMMA OtherIsRead ==
  ASSUME NEW kind \in Kinds, NEW calls, NEW g, NEW r, HasRead(r, calls, g)
  PROVE  /\ HasRead(Read(kind, r, Text), calls, g) /\ Read(kind, r, Text).paid = r.paid
         /\ HasRead(Read(kind, r, Usage), calls, g)
<1>1. PICK said, told : said = [r EXCEPT !.text = TRUE] /\ told = [r EXCEPT !.paid = TRUE]
  OBVIOUS
<1>2. DOMAIN r = {"text", "slots", "paid"}
  BY DEF HasRead
<1>3. /\ DOMAIN said = DOMAIN r /\ said.slots = r.slots /\ said.paid = r.paid
      /\ DOMAIN told = DOMAIN r /\ told.slots = r.slots
  BY <1>1, <1>2
<1>4. HasRead(said, calls, g) /\ HasRead(told, calls, g)
  BY <1>3 DEF HasRead
<1>5. Text.type = "text" /\ Usage.type = "usage"
  BY DEF Text, Usage
<1>6. Read(kind, r, Text) = said
  BY <1>1, <1>5 DEF Kinds, Read, ReadAnthropic, ReadOpenAi, ReadOllama
<1>7. Read(kind, r, Usage) = told
  BY <1>1, <1>5 DEF Kinds, Read, ReadAnthropic, ReadOpenAi, ReadOllama
<1> QED
  BY <1>3, <1>4, <1>6, <1>7

-----------------------------------------------------------------------------
(* The recursion of ReadAll. *)
Reading(f, kind, frames, n) ==
  /\ f = [p \in 0 .. n |-> f[p]] /\ f[0] = NewReader
  /\ \A p \in 1 .. n : f[p] = Read(kind, f[p - 1], frames[p])

LEMMA ReadingExists ==
  ASSUME NEW kind, NEW frames, NEW n \in Nat
  PROVE  \E f : Reading(f, kind, frames, n)
<1> DEFINE T == {m \in Nat : \E f : Reading(f, kind, frames, m)}
<1>1. 0 \in T
  <2>1. Reading([p \in 0 .. 0 |-> NewReader], kind, frames, 0)
    BY DEF Reading
  <2> QED
    BY <2>1
<1>2. ASSUME NEW m \in Nat, m \in T
      PROVE  m + 1 \in T
  <2>1. PICK f : Reading(f, kind, frames, m)
    BY <1>2
  <2> DEFINE g == [p \in 0 .. m + 1 |-> IF p = m + 1 THEN Read(kind, f[m], frames[p]) ELSE f[p]]
  <2>2. ASSUME NEW p \in 1 .. m + 1
        PROVE  g[p] = Read(kind, g[p - 1], frames[p])
    <3>1. CASE p = m + 1
      <4>1. p - 1 = m /\ m \in 0 .. m + 1 /\ m # m + 1
        BY <3>1
      <4> QED
        BY <3>1, <4>1
    <3>2. CASE p # m + 1
      <4>1. p \in 1 .. m /\ p - 1 \in 0 .. m + 1 /\ p - 1 # m + 1
        BY <3>2
      <4>2. f[p] = Read(kind, f[p - 1], frames[p])
        BY <2>1, <4>1 DEF Reading
      <4>3. g[p] = f[p] /\ g[p - 1] = f[p - 1]
        BY <3>2, <4>1
      <4> HIDE DEF g
      <4> QED
        BY <4>2, <4>3
    <3> QED
      BY <3>1, <3>2
  <2>3. g = [p \in 0 .. m + 1 |-> g[p]] /\ g[0] = NewReader
    BY <2>1 DEF Reading
  <2> HIDE DEF g
  <2>4. Reading(g, kind, frames, m + 1)
    BY <2>2, <2>3 DEF Reading
  <2> QED
    BY <2>4
<1> HIDE DEF T
<1>3. Nat \subseteq T
  BY <1>1, <1>2, Induction
<1> QED
  BY <1>3 DEF T

LEMMA ReadByStep ==
  ASSUME NEW kind, NEW frames, Len(frames) \in Nat
  PROVE  \E f : Reading(f, kind, frames, Len(frames)) /\ ReadAll(kind, frames) = f[Len(frames)]
<1> DEFINE n == Len(frames)
           Is(f) == f = [p \in 0 .. n |-> IF p = 0 THEN NewReader ELSE Read(kind, f[p - 1], frames[p])]
           f == CHOOSE g : Is(g)
<1>1. PICK g : Reading(g, kind, frames, n)
  BY ReadingExists
<1>2. Is(g)
  <2>1. \A p \in 0 .. n : p = 0 \/ p \in 1 .. n
    OBVIOUS
  <2>2. \A p \in 0 .. n : g[p] = IF p = 0 THEN NewReader ELSE Read(kind, g[p - 1], frames[p])
    BY <1>1, <2>1 DEF Reading
  <2>3. g = [p \in 0 .. n |-> g[p]]
    BY <1>1 DEF Reading
  <2> HIDE DEF n
  <2> QED
    BY <2>2, <2>3
<1>3. Is(f)
  BY <1>2
<1>4. ReadAll(kind, frames) = f[n]
  BY DEF ReadAll
<1> HIDE DEF f
<1>5. \A p \in 0 .. n : f[p] = IF p = 0 THEN NewReader ELSE Read(kind, f[p - 1], frames[p])
  <2> HIDE DEF n
  <2> QED
    BY <1>3
<1>6. f = [p \in 0 .. n |-> f[p]]
  <2> HIDE DEF n
  <2> QED
    BY <1>3
<1>7. 0 \in 0 .. n /\ \A p \in 1 .. n : p \in 0 .. n /\ p # 0
  OBVIOUS
<1>8. Reading(f, kind, frames, n)
  <2> HIDE DEF n
  <2> QED
    BY <1>5, <1>6, <1>7 DEF Reading
<1> QED
  BY <1>4, <1>8

\* The calls of a stream, frame by frame.
Comes(got, M, kind, mid, calls) ==
  /\ \A q \in 0 .. M : IsCount(got[q], calls)
  /\ \A i \in DOMAIN calls : got[0][i] = 0 /\ got[M][i] = Pieces + 1
  /\ \A q \in 1 .. M : StepsTo(kind, mid[q], calls, got[q - 1], got[q])

\* A stream: some words, the calls, the usage.
IsStream(whole, W, mid, M) ==
  /\ W \in Nat /\ M \in Nat /\ Len(whole) = W + M + 1
  /\ \A p \in 1 .. W : whole[p] = Text
  /\ \A q \in 1 .. M : whole[W + q] = mid[q]
  /\ whole[W + M + 1] = Usage

LEMMA NothingRead ==
  ASSUME NEW calls, NEW g, \A i \in DOMAIN calls : g[i] = 0
  PROVE  HasRead(NewReader, calls, g) /\ NewReader.paid = FALSE
<1>1. DOMAIN NewReader = {"text", "slots", "paid"} /\ NewReader.slots = <<>> /\ NewReader.paid = FALSE
  BY DEF NewReader
<1>2. <<>> \in Seq(Slots(calls)) /\ DOMAIN <<>> = {}
  OBVIOUS
<1> QED
  BY <1>1, <1>2 DEF HasRead

\* Whatever came of a stream: its calls in slots of their own, with the fragments
\* that came; all of them, if the usage was told.
LEMMA StreamIsRead ==
  ASSUME NEW kind \in Kinds, NEW calls, IsCallList(calls), NEW whole, NEW W, NEW mid, NEW M, IsStream(whole, W, mid, M),
         NEW got, Comes(got, M, kind, mid, calls),
         NEW frames, Len(frames) \in Nat, Len(frames) <= Len(whole), \A p \in 1 .. Len(frames) : frames[p] = whole[p]
  PROVE  \E g : /\ IsCount(g, calls) /\ HasRead(ReadAll(kind, frames), calls, g)
                /\ ReadAll(kind, frames).paid => \A i \in DOMAIN calls : g[i] = Pieces + 1
<1> DEFINE n == Len(frames)
           at(p) == IF p <= W THEN 0 ELSE IF p <= W + M THEN p - W ELSE M
<1>1. PICK f : Reading(f, kind, frames, n) /\ ReadAll(kind, frames) = f[n]
  BY ReadByStep
<1> DEFINE Good(p) == HasRead(f[p], calls, got[at(p)]) /\ (f[p].paid => p = W + M + 1)
           T == {p \in Nat : p <= n => Good(p)}
<1>2. W \in Nat /\ M \in Nat /\ n \in Nat /\ n <= W + M + 1
  BY DEF IsStream
<1>3. \A p \in Nat : p <= W + M + 1 => at(p) \in 0 .. M
  BY <1>2
<1> HIDE DEF n, at, Good, T
<1>4. f[0] = NewReader /\ \A p \in 1 .. n : f[p] = Read(kind, f[p - 1], frames[p])
  BY <1>1 DEF Reading
<1>5. 0 \in T
  <2>1. f[0] = NewReader
    BY <1>4
  <2>2. at(0) = 0
    BY <1>2 DEF at
  <2>3. \A i \in DOMAIN calls : got[0][i] = 0
    BY DEF Comes
  <2>4. HasRead(f[0], calls, got[at(0)]) /\ f[0].paid = FALSE
    BY <2>1, <2>2, <2>3, NothingRead
  <2> QED
    BY <2>4 DEF T, Good
<1>6. ASSUME NEW p \in Nat, p \in T
      PROVE  p + 1 \in T
  <2> SUFFICES ASSUME p + 1 <= n
               PROVE  Good(p + 1)
    BY DEF T
  <2>1. p + 1 \in 1 .. n /\ p + 1 - 1 = p /\ p <= n
    BY <1>2
  <2>2. f[p + 1] = Read(kind, f[p], whole[p + 1])
    <3>1. f[p + 1] = Read(kind, f[p + 1 - 1], frames[p + 1])
      BY <1>4, <2>1
    <3>2. frames[p + 1] = whole[p + 1]
      BY <2>1 DEF n
    <3> QED
      BY <2>1, <3>1, <3>2
  <2>3. ~ f[p].paid /\ HasRead(f[p], calls, got[at(p)])
    <3>1. Good(p)
      BY <1>6, <2>1 DEF T
    <3>2. p # W + M + 1
      BY <1>2, <2>1
    <3> QED
      BY <3>1, <3>2 DEF Good
  <2>4. CASE p + 1 <= W
    <3>1. whole[p + 1] = Text /\ at(p) = 0 /\ at(p + 1) = 0
      BY <1>2, <2>1, <2>4 DEF IsStream, at
    <3>2. f[p + 1] = Read(kind, f[p], Text) /\ HasRead(f[p], calls, got[0])
      BY <2>2, <2>3, <3>1
    <3>3. PICK g, r : g = got[0] /\ r = f[p]
      OBVIOUS
    <3>4. HasRead(r, calls, g)
      BY <3>2, <3>3
    <3>5. HasRead(Read(kind, r, Text), calls, g) /\ Read(kind, r, Text).paid = r.paid
      BY <3>4, OtherIsRead
    <3> QED
      BY <2>3, <3>1, <3>2, <3>3, <3>5 DEF Good
  <2>5. CASE p + 1 > W /\ p + 1 <= W + M
    <3>1. PICK q \in 1 .. M : p + 1 = W + q /\ q - 1 \in 0 .. M
      <4>1. p + 1 - W \in 1 .. M /\ p + 1 = W + (p + 1 - W) /\ p + 1 - W - 1 \in 0 .. M
        BY <1>2, <2>5
      <4>2. PICK q : q = p + 1 - W
        OBVIOUS
      <4>3. q \in 1 .. M /\ p + 1 = W + q /\ q - 1 \in 0 .. M
        BY <1>2, <4>1, <4>2
      <4> QED
        BY <4>3
    <3>2. at(p) = q - 1 /\ at(p + 1) = q /\ whole[p + 1] = mid[q]
      BY <1>2, <3>1 DEF IsStream, at
    <3>3. StepsTo(kind, mid[q], calls, got[q - 1], got[q]) /\ IsCount(got[q - 1], calls)
      BY <3>1 DEF Comes
    <3>4. f[p + 1] = Read(kind, f[p], mid[q]) /\ HasRead(f[p], calls, got[q - 1])
      BY <2>2, <2>3, <3>2
    <3>5. PICK g, h, r, frame : g = got[q - 1] /\ h = got[q] /\ r = f[p] /\ frame = mid[q]
      OBVIOUS
    <3>6. StepsTo(kind, frame, calls, g, h) /\ IsCount(g, calls) /\ HasRead(r, calls, g)
      BY <3>3, <3>4, <3>5
    <3>7. HasRead(Read(kind, r, frame), calls, h) /\ Read(kind, r, frame).paid = r.paid
      BY <3>6, FrameIsRead
    <3> QED
      BY <2>3, <3>2, <3>4, <3>5, <3>7 DEF Good
  <2>6. CASE p + 1 > W + M
    <3>1. p + 1 = W + M + 1 /\ p = W + M
      BY <1>2, <2>1, <2>6
    <3>2. whole[p + 1] = Usage /\ at(p) = M /\ at(p + 1) = M
      BY <1>2, <3>1 DEF IsStream, at
    <3>3. f[p + 1] = Read(kind, f[p], Usage) /\ HasRead(f[p], calls, got[M])
      BY <2>2, <2>3, <3>2
    <3>4. HasRead(f[p + 1], calls, got[M])
      BY <3>3, OtherIsRead
    <3> QED
      BY <3>1, <3>2, <3>4 DEF Good
  <2> QED
    BY <1>2, <2>4, <2>5, <2>6
<1>7. Nat \subseteq T
  BY <1>5, <1>6, Induction
<1>8. Good(n)
  BY <1>2, <1>7 DEF T
<1>9. f[n].paid => at(n) = M
  BY <1>2, <1>8 DEF Good, at
<1>10. IsCount(got[at(n)], calls)
  BY <1>2, <1>3 DEF Comes
<1>11. f[n].paid => \A i \in DOMAIN calls : got[at(n)][i] = Pieces + 1
  BY <1>9 DEF Comes
<1> QED
  BY <1>1, <1>8, <1>10, <1>11 DEF Good, n

-----------------------------------------------------------------------------
(* The streams of each kind of server. *)

\* The frames of call i among the first q of the order w.
Count(w, q, i) == Cardinality({x \in 1 .. q : w[x] = i})

LEMMA CountGoes ==
  ASSUME NEW w, NEW q \in Nat, NEW i
  PROVE  Count(w, q, i) \in Nat /\ Count(w, 0, i) = 0
<1>1. PICK S : S = {x \in 1 .. q : w[x] = i}
  OBVIOUS
<1>2. IsFiniteSet(S)
  <2>1. IsFiniteSet(1 .. q)
    BY FS_Interval
  <2> QED
    BY <1>1, <2>1, FS_Subset
<1>3. Cardinality(S) \in Nat
  BY <1>2, FS_CardinalityType
<1>4. Count(w, 0, i) = 0
  <2>1. {x \in 1 .. 0 : w[x] = i} = {}
    OBVIOUS
  <2> QED
    BY <2>1, FS_EmptySet DEF Count
<1> QED
  BY <1>1, <1>3, <1>4 DEF Count

LEMMA CountSteps ==
  ASSUME NEW w, NEW q \in Nat, NEW i
  PROVE  Count(w, q + 1, i) = IF w[q + 1] = i THEN Count(w, q, i) + 1 ELSE Count(w, q, i)
<1>1. PICK S, B, p : S = {x \in 1 .. q : w[x] = i} /\ B = {x \in 1 .. p : w[x] = i} /\ p = q + 1
  OBVIOUS
<1>2. IsFiniteSet(S)
  <2>1. IsFiniteSet(1 .. q)
    BY FS_Interval
  <2> QED
    BY <1>1, <2>1, FS_Subset
<1>3. Count(w, q, i) = Cardinality(S) /\ Count(w, p, i) = Cardinality(B)
  BY <1>1 DEF Count
<1>4. \A x : x \in 1 .. p <=> x \in 1 .. q \/ x = p
  BY <1>1
<1>5. p \notin S
  BY <1>1
<1>6. CASE w[p] = i
  <2>1. B = S \cup {p}
    BY <1>1, <1>4, <1>6
  <2>2. Cardinality(S \cup {p}) = Cardinality(S) + 1
    BY <1>2, <1>5, FS_AddElement
  <2> QED
    BY <1>1, <1>3, <1>6, <2>1, <2>2
<1>7. CASE w[p] # i
  <2>1. B = S
    BY <1>1, <1>4, <1>7
  <2> QED
    BY <1>1, <1>3, <1>7, <2>1
<1> QED
  BY <1>6, <1>7

\* The counts of an order that is complete.
LEMMA OrderIs ==
  ASSUME NEW n \in Nat, NEW w \in Orders(n)
  PROVE  /\ n * (Pieces + 1) \in Nat /\ DOMAIN w = 1 .. n * (Pieces + 1)
         /\ \A q \in 1 .. n * (Pieces + 1) : w[q] \in 1 .. n
         /\ \A i \in 1 .. n : Count(w, n * (Pieces + 1), i) = Pieces + 1
         /\ \A i \in 1 .. n, q \in 0 .. n * (Pieces + 1) : Count(w, q, i) \in 0 .. Pieces + 1
<1>1. PICK M : M = n * (Pieces + 1)
  OBVIOUS
<1>2. M \in Nat /\ Pieces + 1 \in Nat
  BY <1>1, StreamsAssumption
<1>3. w \in [1 .. M -> 1 .. n] /\ \A i \in 1 .. n : Cardinality({p \in DOMAIN w : w[p] = i}) = Pieces + 1
  BY <1>1 DEF Orders
<1>4. DOMAIN w = 1 .. M /\ \A q \in 1 .. M : w[q] \in 1 .. n
  BY <1>3
<1>5. \A i \in 1 .. n : Count(w, M, i) = Pieces + 1
  BY <1>3, <1>4 DEF Count
<1>6. ASSUME NEW i \in 1 .. n, NEW q \in 0 .. M
      PROVE  Count(w, q, i) \in 0 .. Pieces + 1
  <2>1. PICK S, A : S = {x \in 1 .. q : w[x] = i} /\ A = {x \in 1 .. M : w[x] = i}
    OBVIOUS
  <2>2. S \subseteq A
    BY <1>2, <2>1
  <2>3. IsFiniteSet(A)
    <3>1. IsFiniteSet(1 .. M)
      BY <1>2, FS_Interval
    <3> QED
      BY <2>1, <3>1, FS_Subset
  <2>4. Cardinality(S) <= Cardinality(A) /\ Cardinality(S) \in Nat
    BY <2>2, <2>3, FS_Subset, FS_CardinalityType
  <2>5. Cardinality(S) = Count(w, q, i) /\ Cardinality(A) = Pieces + 1
    BY <1>5, <2>1 DEF Count
  <2> QED
    BY <1>2, <2>4, <2>5
<1> QED
  BY <1>1, <1>2, <1>4, <1>5, <1>6

LEMMA OrderedComes ==
  ASSUME NEW kind \in Kinds, kind # "ollama", NEW calls, IsCallList(calls), NEW w \in Orders(Len(calls))
  PROVE  \E got : Comes(got, Len(calls) * (Pieces + 1), kind, Ordered(calls, w), calls)
<1>1. PICK n, M : n = Len(calls) /\ M = n * (Pieces + 1)
  OBVIOUS
<1>2. n \in Nat /\ DOMAIN calls = 1 .. n
  BY <1>1 DEF IsCallList
<1>3. /\ M \in Nat /\ DOMAIN w = 1 .. M /\ \A q \in 1 .. M : w[q] \in 1 .. n
      /\ \A i \in 1 .. n : Count(w, M, i) = Pieces + 1
      /\ \A i \in 1 .. n, q \in 0 .. M : Count(w, q, i) \in 0 .. Pieces + 1
  BY <1>1, <1>2, OrderIs
<1> DEFINE got == [q \in 0 .. M |-> [i \in 1 .. n |-> Count(w, q, i)]]
<1>4. \A q \in 0 .. M : IsCount(got[q], calls)
  BY <1>2, <1>3 DEF IsCount
<1>5. \A i \in DOMAIN calls : got[0][i] = 0 /\ got[M][i] = Pieces + 1
  <2>1. got[0] = [i \in 1 .. n |-> Count(w, 0, i)] /\ got[M] = [i \in 1 .. n |-> Count(w, M, i)]
    BY <1>3
  <2>2. \A i : Count(w, 0, i) = 0
    BY CountGoes, 0 \in Nat
  <2> HIDE DEF got
  <2> QED
    BY <1>2, <1>3, <2>1, <2>2
<1>6. PICK mid : mid = Ordered(calls, w)
  OBVIOUS
<1>7. ASSUME NEW q \in 1 .. M
      PROVE  StepsTo(kind, mid[q], calls, got[q - 1], got[q])
  <2>1. q - 1 \in 0 .. M /\ q - 1 \in Nat /\ q \in 0 .. M /\ q - 1 + 1 = q
    BY <1>3
  <2>2. PICK i \in 1 .. n : i = w[q]
    BY <1>3
  <2>3. PICK g, h, c : g = got[q - 1] /\ h = got[q] /\ c = Count(w, q - 1, i)
    OBVIOUS
  <2>4. /\ g = [k \in 1 .. n |-> Count(w, q - 1, k)] /\ h = [k \in 1 .. n |-> Count(w, q, k)]
    BY <2>1, <2>3
  <2>5. \A k \in 1 .. n : Count(w, q, k) = IF w[q] = k THEN Count(w, q - 1, k) + 1 ELSE Count(w, q - 1, k)
    <3>1. PICK p : p = q - 1
      OBVIOUS
    <3>2. p \in Nat /\ p + 1 = q
      BY <2>1, <3>1
    <3>3. ASSUME NEW k \in 1 .. n
          PROVE  Count(w, q, k) = IF w[q] = k THEN Count(w, q - 1, k) + 1 ELSE Count(w, q - 1, k)
      <4>1. Count(w, p + 1, k) = IF w[p + 1] = k THEN Count(w, p, k) + 1 ELSE Count(w, p, k)
        BY <3>2, CountSteps
      <4> QED
        BY <3>1, <3>2, <4>1
    <3> QED
      BY <3>3
  <2>6. c \in Nat /\ Count(w, q, i) \in 0 .. Pieces + 1
    BY <1>3, <2>1, <2>2, <2>3, CountGoes
  <2>7. g[i] = c
    BY <2>3, <2>4
  <2>8. Count(w, q, i) = c + 1
    BY <2>2, <2>3, <2>5
  <2>9. \A k \in 1 .. n : h[k] = IF k = i THEN c + 1 ELSE g[k]
    <3>1. \A k \in 1 .. n : k # i => Count(w, q, k) = Count(w, q - 1, k)
      BY <2>2, <2>5
    <3>2. \A k \in 1 .. n : h[k] = Count(w, q, k) /\ g[k] = Count(w, q - 1, k)
      BY <2>4
    <3> QED
      BY <2>8, <3>1, <3>2
  <2>10. h = [g EXCEPT ![i] = c + 1]
    <3>1. h = [k \in 1 .. n |-> h[k]] /\ DOMAIN g = 1 .. n
      BY <2>4
    <3> QED
      BY <2>9, <3>1
  <2>11. (c = 0 => mid[q] = Opening(calls, i)) /\ (c # 0 => mid[q] = Fragment(calls, i, c))
    <3>1. Count(w, q, i) = Cardinality({x \in 1 .. q : w[x] = w[q]})
      BY <2>2 DEF Count
    <3>2. PICK e : e = Count(w, q, i)
      OBVIOUS
    <3>3. mid[q] = IF e = 1 THEN Opening(calls, w[q]) ELSE Fragment(calls, w[q], e - 1)
      BY <1>3, <1>6, <3>1, <3>2 DEF Ordered
    <3>4. e = c + 1 /\ e - 1 = c /\ (e = 1 <=> c = 0)
      BY <2>8, <2>6, <3>2
    <3>5. CASE c = 0
      BY <2>2, <3>3, <3>4, <3>5
    <3>6. CASE c # 0
      <4>1. mid[q] = Fragment(calls, w[q], e - 1)
        BY <3>3, <3>4, <3>6
      <4> QED
        BY <2>2, <3>4, <3>6, <4>1
    <3> QED
      BY <3>5, <3>6
  <2>12. Pieces \in Nat
    BY StreamsAssumption
  <2>13. CASE c = 0
    <3>1. mid[q] = Opening(calls, i) /\ g[i] = 0 /\ h = [g EXCEPT ![i] = 1]
      BY <2>10, <2>11, <2>13, <2>7
    <3> QED
      BY <1>2, <2>3, <3>1 DEF StepsTo
  <2>14. CASE c # 0
    <3>1. c \in 1 .. Pieces
      BY <2>8, <2>12, <2>14, <2>6
    <3>2. mid[q] = Fragment(calls, i, g[i]) /\ g[i] \in 1 .. Pieces /\ h = [g EXCEPT ![i] = g[i] + 1]
      BY <2>10, <2>11, <2>14, <2>7, <3>1
    <3> QED
      BY <1>2, <2>3, <3>2 DEF StepsTo
  <2> QED
    BY <2>13, <2>14
<1> HIDE DEF got
<1>8. Comes(got, M, kind, mid, calls)
  BY <1>4, <1>5, <1>7 DEF Comes
<1> QED
  BY <1>1, <1>6, <1>8

LEMMA CallFramesCome ==
  ASSUME NEW calls, IsCallList(calls), NEW mid, \A i \in 1 .. Len(calls) : mid[i] = CallFrame(calls, i)
  PROVE  \E got : Comes(got, Len(calls), "ollama", mid, calls)
<1>1. PICK n : n = Len(calls)
  OBVIOUS
<1>2. n \in Nat /\ DOMAIN calls = 1 .. n /\ Pieces \in Nat
  BY <1>1, StreamsAssumption DEF IsCallList
<1> DEFINE got == [q \in 0 .. n |-> [i \in 1 .. n |-> IF i <= q THEN Pieces + 1 ELSE 0]]
<1>3. \A q \in 0 .. n : IsCount(got[q], calls)
  BY <1>2 DEF IsCount
<1>4. \A i \in DOMAIN calls : got[0][i] = 0 /\ got[n][i] = Pieces + 1
  BY <1>2
<1>5. ASSUME NEW q \in 1 .. n
      PROVE  StepsTo("ollama", mid[q], calls, got[q - 1], got[q])
  <2>1. q - 1 \in 0 .. n /\ q \in 0 .. n
    BY <1>2
  <2>2. PICK g, h : g = got[q - 1] /\ h = got[q]
    OBVIOUS
  <2>3. /\ g = [i \in 1 .. n |-> IF i <= q - 1 THEN Pieces + 1 ELSE 0]
        /\ h = [i \in 1 .. n |-> IF i <= q THEN Pieces + 1 ELSE 0]
    BY <2>1, <2>2
  <2>4. g[q] = 0 /\ ~(q <= q - 1)
    BY <2>3
  <2>5. \A i \in 1 .. n : i # q => (i <= q - 1 <=> i <= q)
    OBVIOUS
  <2>6. \A i \in 1 .. n : h[i] = IF i = q THEN Pieces + 1 ELSE g[i]
    BY <2>3, <2>5
  <2>7. h = [g EXCEPT ![q] = Pieces + 1]
    <3>1. h = [i \in 1 .. n |-> h[i]] /\ DOMAIN g = 1 .. n
      BY <2>3
    <3> QED
      BY <2>6, <3>1
  <2>8. mid[q] = CallFrame(calls, q)
    BY <1>1
  <2> QED
    BY <1>2, <2>2, <2>4, <2>7, <2>8 DEF StepsTo
<1> HIDE DEF got
<1>6. Comes(got, n, "ollama", mid, calls)
  BY <1>3, <1>4, <1>5 DEF Comes
<1> QED
  BY <1>1, <1>6

LEMMA StreamIs ==
  ASSUME NEW words, NEW W, (words = <<Text>> /\ W = 1) \/ (words = <<>> /\ W = 0),
         NEW M \in Nat, NEW mid, mid = [q \in 1 .. M |-> mid[q]]
  PROVE  /\ IsStream(words \o mid \o <<Usage>>, W, mid, M)
         /\ \E S : words \o mid \o <<Usage>> \in Seq(S)
<1>1. PICK S, text, usage : text = Text /\ usage = Usage /\ S = {mid[q] : q \in 1 .. M} \cup {text, usage}
  OBVIOUS
<1>2. mid \in Seq(S) /\ Len(mid) = M /\ DOMAIN mid = 1 .. M
  <2>1. \A q \in 1 .. M : mid[q] \in S
    BY <1>1
  <2>2. mid \in [1 .. M -> S]
    BY <2>1
  <2> QED
    BY <2>2, SeqDef, LenProperties
<1>3. /\ words \in Seq(S) /\ W \in Nat /\ Len(words) = W
      /\ \A p \in 1 .. W : words[p] = text
  <2>1. CASE words = <<Text>> /\ W = 1
    BY <1>1, <2>1
  <2>2. CASE words = <<>> /\ W = 0
    BY <2>2
  <2> QED
    BY <2>1, <2>2
<1>4. PICK last : last = <<usage>>
  OBVIOUS
<1>5. last \in Seq(S) /\ Len(last) = 1 /\ last[1] = usage
  BY <1>1, <1>4
<1>6. PICK two : two = words \o mid
  OBVIOUS
<1>7. /\ two \in Seq(S) /\ Len(two) = W + M
      /\ \A p \in 1 .. Len(two) : two[p] = IF p <= Len(words) THEN words[p] ELSE mid[p - Len(words)]
  BY <1>2, <1>3, <1>6, ConcatProperties
<1>8. PICK whole : whole = two \o last
  OBVIOUS
<1>9. /\ whole \in Seq(S) /\ Len(whole) = W + M + 1
      /\ \A p \in 1 .. Len(whole) : whole[p] = IF p <= Len(two) THEN two[p] ELSE last[p - Len(two)]
  <2>1. two \in Seq(S) /\ last \in Seq(S)
    BY <1>5, <1>7
  <2>2. /\ whole \in Seq(S) /\ Len(whole) = Len(two) + Len(last)
        /\ \A p \in 1 .. Len(two) + Len(last) : whole[p] = IF p <= Len(two) THEN two[p] ELSE last[p - Len(two)]
    BY <1>8, <2>1, ConcatProperties
  <2>3. Len(whole) = W + M + 1
    BY <1>5, <1>7, <2>2
  <2>4. \A p \in 1 .. Len(whole) : whole[p] = IF p <= Len(two) THEN two[p] ELSE last[p - Len(two)]
    BY <2>2
  <2> QED
    BY <2>2, <2>3, <2>4
<1>10. \A p \in 1 .. W + M : two[p] = IF p <= W THEN words[p] ELSE mid[p - W]
  BY <1>3, <1>7
<1>11. \A p \in 1 .. W + M + 1 : whole[p] = IF p <= W + M THEN two[p] ELSE last[p - (W + M)]
  BY <1>7, <1>9
<1>12. \A p \in 1 .. W : whole[p] = text
  <2> TAKE p \in 1 .. W
  <2>1. p \in 1 .. W + M /\ p \in 1 .. W + M + 1 /\ p <= W + M /\ p <= W
    BY <1>3
  <2>2. whole[p] = two[p]
    BY <1>11, <2>1
  <2>3. two[p] = words[p]
    BY <1>10, <2>1
  <2> QED
    BY <1>3, <2>2, <2>3
<1>13. \A q \in 1 .. M : whole[W + q] = mid[q]
  <2> TAKE q \in 1 .. M
  <2>1. PICK p : p = W + q
    OBVIOUS
  <2>2. p \in 1 .. W + M /\ p \in 1 .. W + M + 1 /\ p <= W + M /\ ~(p <= W) /\ p - W = q
    BY <1>3, <2>1
  <2>3. whole[p] = two[p]
    BY <1>11, <2>2
  <2>4. two[p] = mid[p - W]
    BY <1>10, <2>2
  <2> QED
    BY <2>1, <2>2, <2>3, <2>4
<1>14. whole[W + M + 1] = usage
  <2>1. PICK p : p = W + M + 1
    OBVIOUS
  <2>2. p \in 1 .. W + M + 1 /\ ~(p <= W + M) /\ p - (W + M) = 1
    BY <1>3, <2>1
  <2>3. whole[p] = last[p - (W + M)]
    BY <1>11, <2>2
  <2> QED
    BY <1>5, <2>1, <2>2, <2>3
<1>15. IsStream(whole, W, mid, M)
  BY <1>1, <1>3, <1>9, <1>12, <1>13, <1>14 DEF IsStream
<1>16. whole = words \o mid \o <<Usage>>
  BY <1>1, <1>4, <1>6, <1>8
<1> QED
  BY <1>9, <1>15, <1>16

\* The stream of a reply, whatever its server and the order of its frames.
LEMMA CompleteComes ==
  ASSUME NEW kind \in Kinds, NEW reply, IsCallList(reply.calls), NEW whole \in Complete(kind, reply)
  PROVE  /\ \E W, mid, M : IsStream(whole, W, mid, M) /\ \E got : Comes(got, M, kind, mid, reply.calls)
         /\ \E S : whole \in Seq(S)
<1>1. PICK calls, n, words, W :
        /\ calls = reply.calls /\ n = Len(calls)
        /\ words = (IF reply.text THEN <<Text>> ELSE <<>>) /\ W = IF reply.text THEN 1 ELSE 0
  OBVIOUS
<1>2. (words = <<Text>> /\ W = 1) \/ (words = <<>> /\ W = 0)
  BY <1>1
<1>3. IsCallList(calls) /\ n \in Nat
  BY <1>1 DEF IsCallList
<1>4. CASE kind = "ollama"
  <2>1. PICK mid : mid = [i \in 1 .. n |-> CallFrame(calls, i)]
    OBVIOUS
  <2>2. whole = words \o mid \o <<Usage>>
    BY <1>1, <1>4, <2>1 DEF Complete
  <2>3. mid = [i \in 1 .. n |-> mid[i]] /\ \A i \in 1 .. n : mid[i] = CallFrame(calls, i)
    BY <2>1
  <2>4. IsStream(whole, W, mid, n) /\ \E S : whole \in Seq(S)
    BY <1>2, <1>3, <2>2, <2>3, StreamIs
  <2>5. \E got : Comes(got, n, kind, mid, calls)
    BY <1>1, <1>3, <1>4, <2>3, CallFramesCome
  <2> QED
    BY <1>1, <2>4, <2>5
<1>5. CASE kind # "ollama"
  <2>1. PICK w \in Orders(n) : whole = words \o Ordered(calls, w) \o <<Usage>>
    BY <1>1, <1>5 DEF Complete
  <2>2. PICK mid, M : mid = Ordered(calls, w) /\ M = n * (Pieces + 1)
    OBVIOUS
  <2>3. M \in Nat /\ DOMAIN w = 1 .. M
    BY <1>3, <2>2, OrderIs
  <2>4. mid = [q \in 1 .. M |-> mid[q]]
    BY <2>2, <2>3 DEF Ordered
  <2>5. IsStream(whole, W, mid, M) /\ \E S : whole \in Seq(S)
    BY <1>2, <2>1, <2>2, <2>3, <2>4, StreamIs
  <2>6. \E got : Comes(got, M, kind, mid, calls)
    BY <1>1, <1>3, <1>5, <2>2, OrderedComes
  <2> QED
    BY <1>1, <2>5, <2>6
<1> QED
  BY <1>4, <1>5

LEMMA ArrivalIsRead ==
  ASSUME NEW kind \in Kinds, NEW reply, IsCallList(reply.calls), NEW frames \in Arrivals(kind, reply)
  PROVE  \E g : /\ IsCount(g, reply.calls) /\ HasRead(ReadAll(kind, frames), reply.calls, g)
                /\ ReadAll(kind, frames).paid => \A i \in DOMAIN reply.calls : g[i] = Pieces + 1
<1>1. PICK calls : calls = reply.calls
  OBVIOUS
<1>2. PICK whole \in Complete(kind, reply) : frames \in {SubSeq(whole, 1, n) : n \in 0 .. Len(whole)}
  BY DEF Arrivals
<1>3. PICK n \in 0 .. Len(whole) : frames = SubSeq(whole, 1, n)
  BY <1>2
<1>4. PICK S : whole \in Seq(S)
  BY CompleteComes
<1>5. PICK W, mid, M, got : IsStream(whole, W, mid, M) /\ Comes(got, M, kind, mid, calls)
  BY <1>1, CompleteComes
<1>6. /\ Len(frames) = n /\ n \in Nat /\ n <= Len(whole)
      /\ \A p \in 1 .. n : frames[p] = whole[p]
  <2>1. Len(whole) \in Nat
    BY <1>4, LenProperties
  <2>2. \A p \in 1 .. n : whole[p] \in S
    BY <1>4, <2>1, ElementOfSeq
  <2>3. 1 \in Int /\ n \in Int
    BY <2>1
  <2>4. Len(frames) = IF 1 <= n THEN n - 1 + 1 ELSE 0
    BY <1>3, <2>2, <2>3, SubSeqProperties
  <2>5. \A p \in 1 .. n - 1 + 1 : frames[p] = whole[1 + p - 1]
    BY <1>3, <2>2, <2>3, SubSeqProperties
  <2> QED
    BY <2>1, <2>4, <2>5
<1>7. Len(frames) \in Nat /\ Len(frames) <= Len(whole) /\ \A p \in 1 .. Len(frames) : frames[p] = whole[p]
  BY <1>6
<1>8. IsCallList(calls)
  BY <1>1
<1> QED
  BY <1>1, <1>5, <1>7, <1>8, StreamIsRead

\* A call's arguments are read from the whole of its JSON, and from nothing less.
LEMMA JsonIsParsed ==
  ASSUME NEW calls, IsCallList(calls), NEW slot \in Slots(calls), NEW m \in 0 .. Pieces, Holds(slot, calls, m)
  PROVE  \/ Parsed(slot.json, calls) = calls[slot.index].args
         \/ Parsed(slot.json, calls) = NoArgs /\ m # Pieces
<1>1. PICK i, json : i = slot.index /\ json = slot.json
  OBVIOUS
<1>2. i \in DOMAIN calls /\ json \in Seq({calls[k].args : k \in DOMAIN calls} \X Nat)
  BY <1>1 DEF Slots
<1>3. Pieces \in Nat /\ 1 \in 1 .. Pieces
  BY StreamsAssumption
<1>4. Len(json) = m /\ DOMAIN json = 1 .. m /\ \A k \in 1 .. m : json[k] = <<calls[i].args, k>>
  BY <1>1, <1>2, LenProperties DEF Holds
<1>5. json = [k \in 1 .. m |-> json[k]]
  <2>1. json \in [1 .. m -> {calls[k].args : k \in DOMAIN calls} \X Nat]
    BY <1>2, <1>4, LenProperties
  <2> QED
    BY <2>1
<1>6. ToSet(calls) = {calls[k] : k \in DOMAIN calls}
  BY DEF ToSet
<1>7. \A c : DOMAIN Json(c) = 1 .. Pieces /\ Json(c)[1] = <<c.args, 1>>
  BY <1>3 DEF Json
<1>8. CASE m = Pieces
  <2>1. PICK call \in ToSet(calls) : call = calls[i]
    BY <1>2, <1>6
  <2>2. json = Json(call)
    <3>1. Json(call) = [k \in 1 .. m |-> <<call.args, k>>]
      BY <1>8 DEF Json
    <3> QED
      BY <1>4, <1>5, <2>1, <3>1
  <2>3. PICK c \in ToSet(calls) : json = Json(c) /\ Parsed(json, calls) = c.args
    <3>1. Parsed(json, calls) = (CHOOSE c \in ToSet(calls) : json = Json(c)).args
      BY <2>1, <2>2 DEF Parsed
    <3>2. PICK c : c = CHOOSE d \in ToSet(calls) : json = Json(d)
      OBVIOUS
    <3>3. c \in ToSet(calls) /\ json = Json(c)
      BY <2>1, <2>2, <3>2
    <3> QED
      BY <3>1, <3>2, <3>3
  <2>4. <<c.args, 1>> = <<call.args, 1>>
    BY <1>7, <2>2, <2>3
  <2>5. c.args = call.args
    BY <2>4
  <2> QED
    BY <1>1, <2>1, <2>3, <2>5
<1>9. CASE m # Pieces
  <2>1. 1 .. m # 1 .. Pieces
    <3>1. Pieces \in 1 .. Pieces /\ Pieces \notin 1 .. m
      BY <1>3, <1>9
    <3> QED
      BY <3>1
  <2>2. \A c : json # Json(c)
    BY <1>4, <1>7, <2>1
  <2>3. Parsed(json, calls) = NoArgs
    BY <2>2 DEF Parsed
  <2> QED
    BY <1>1, <1>9, <2>3
<1> QED
  BY <1>8, <1>9

-----------------------------------------------------------------------------
\* What a reply may say, and what a turn may make of it.
MaySay(said) == IsCallList(said) /\ ToSet(said) \subseteq Uttered
IsSpoken(calls, said, whole) ==
  /\ IsCallList(calls)
  /\ \A call \in ToSet(calls) :
       \E c \in ToSet(said) :
         /\ call.id = c.id /\ call.name = c.name
         /\ call.args = c.args \/ (call.args = NoArgs /\ ~whole)

LEMMA HeardIs ==
  ASSUME NEW reply \in Replies, NEW chunks \in Heard[reply]
  PROVE  IsSpoken(chunks.calls, reply.calls, chunks.paid)
<1>1. PICK said : said = reply.calls
  OBVIOUS
<1>2. IsCallList(said)
  BY <1>1, ConversationAssumption
<1>3. PICK kind \in Kinds : chunks \in Received(kind, reply)
  BY DEF Heard
<1>4. PICK frames \in Arrivals(kind, reply) : chunks = Chunks(kind, reply, frames)
  BY <1>3 DEF Received
<1>5. PICK read, slots, keep, named :
        /\ read = ReadAll(kind, frames) /\ slots = read.slots
        /\ keep = {j \in DOMAIN slots : slots[j].name # Nameless} /\ named = Kept(slots, keep)
  OBVIOUS
<1>6. chunks = [text |-> read.text, paid |-> read.paid,
        calls |-> [j \in DOMAIN named |->
          [id |-> named[j].id, name |-> named[j].name, args |-> Parsed(named[j].json, said)]]]
  BY <1>1, <1>4, <1>5 DEF Chunks
<1>7. PICK calls : calls = chunks.calls
  OBVIOUS
<1>8. /\ chunks.paid = read.paid
      /\ calls = [j \in DOMAIN named |->
           [id |-> named[j].id, name |-> named[j].name, args |-> Parsed(named[j].json, said)]]
  BY <1>6, <1>7
<1>9. PICK g : /\ IsCount(g, said) /\ HasRead(read, said, g)
               /\ read.paid => \A i \in DOMAIN said : g[i] = Pieces + 1
  BY <1>1, <1>2, <1>5, ArrivalIsRead
<1>10. /\ slots \in Seq(Slots(said))
       /\ \A j, l \in DOMAIN slots : slots[j].index = slots[l].index => j = l
       /\ \A j \in DOMAIN slots : g[slots[j].index] # 0 /\ Holds(slots[j], said, g[slots[j].index] - 1)
  BY <1>5, <1>9 DEF HasRead
<1>11. named \in Seq(Slots(said)) /\ IsPart(slots, keep, Len(slots), named)
  BY <1>5, <1>10, KeptIsPart
<1>12. Len(slots) \in Nat /\ DOMAIN slots = 1 .. Len(slots) /\ Len(named) \in Nat /\ DOMAIN named = 1 .. Len(named)
  BY <1>10, <1>11, LenProperties
<1>13. PICK at : Picks(at, slots, keep, Len(slots), named)
  BY <1>11 DEF IsPart
<1>14. /\ \A j \in DOMAIN named : at[j] \in DOMAIN slots /\ named[j] = slots[at[j]]
       /\ \A j, l \in DOMAIN named : at[j] = at[l] => j = l
  BY <1>12, <1>13 DEF Picks
<1>15. \A j \in DOMAIN slots : slots[j] \in Slots(said) /\ slots[j].index \in DOMAIN said
  <2>1. \A j \in DOMAIN slots : slots[j] \in Slots(said)
    BY <1>10, <1>12, ElementOfSeq
  <2> QED
    BY <2>1 DEF Slots
<1>16. \A j \in DOMAIN calls : calls[j].id = said[slots[at[j]].index].id
  BY <1>8, <1>10, <1>14 DEF Holds
<1>17. IsCallList(calls)
  <2>1. DOMAIN calls = 1 .. Len(named)
    BY <1>8, <1>12
  <2>2. Len(calls) \in Nat /\ DOMAIN calls = 1 .. Len(calls)
    <3>1. PICK S : S = {calls[j] : j \in 1 .. Len(named)}
      OBVIOUS
    <3>2. calls = [j \in 1 .. Len(named) |-> calls[j]]
      BY <1>8, <1>12
    <3>3. \A j \in 1 .. Len(named) : calls[j] \in S
      BY <3>1
    <3>4. calls \in [1 .. Len(named) -> S]
      BY <3>2, <3>3
    <3>5. calls \in Seq(S)
      BY <1>12, <3>4, SeqDef
    <3> QED
      BY <3>5, LenProperties
  <2>3. \A j \in DOMAIN calls : DOMAIN calls[j] = CallFields
    BY <1>8 DEF CallFields
  <2>4. ASSUME NEW j \in DOMAIN calls, NEW l \in DOMAIN calls, calls[j].id = calls[l].id
        PROVE  j = l
    <3>1. j \in DOMAIN named /\ l \in DOMAIN named
      BY <1>8
    <3>2. PICK a, b : a = at[j] /\ b = at[l]
      OBVIOUS
    <3>3. a \in DOMAIN slots /\ b \in DOMAIN slots
      BY <1>14, <3>1, <3>2
    <3>4. said[slots[a].index].id = said[slots[b].index].id
      BY <1>16, <2>4, <3>2
    <3>5. slots[a].index = slots[b].index
      BY <1>2, <1>15, <3>3, <3>4 DEF IsCallList
    <3>6. a = b
      BY <1>10, <3>3, <3>5
    <3> QED
      BY <1>14, <3>1, <3>2, <3>6
  <2> QED
    BY <2>2, <2>3, <2>4 DEF IsCallList
<1>18. ASSUME NEW call \in ToSet(calls)
       PROVE  \E c \in ToSet(said) :
                /\ call.id = c.id /\ call.name = c.name
                /\ call.args = c.args \/ (call.args = NoArgs /\ ~read.paid)
  <2>1. PICK j \in DOMAIN calls : call = calls[j]
    BY DEF ToSet
  <2>2. j \in DOMAIN named
    BY <1>8
  <2>3. PICK slot, i, m : slot = slots[at[j]] /\ i = slot.index /\ m = g[i] - 1
    OBVIOUS
  <2>4. /\ at[j] \in DOMAIN slots /\ slot \in Slots(said) /\ i \in DOMAIN said /\ g[i] # 0
        /\ Holds(slot, said, m) /\ named[j] = slot
    BY <1>10, <1>14, <1>15, <2>2, <2>3
  <2>5. m \in 0 .. Pieces
    BY <1>9, <2>3, <2>4, StreamsAssumption DEF IsCount
  <2>6. call = [id |-> slot.id, name |-> slot.name, args |-> Parsed(slot.json, said)]
    BY <1>8, <2>1, <2>2, <2>4
  <2>7. call.id = said[i].id /\ call.name = said[i].name
    BY <2>3, <2>4, <2>6 DEF Holds
  <2>8. Parsed(slot.json, said) = said[i].args \/ (Parsed(slot.json, said) = NoArgs /\ m # Pieces)
    BY <1>2, <2>3, <2>4, <2>5, JsonIsParsed
  <2>9. m # Pieces => ~read.paid
    BY <1>9, <2>3, <2>4, StreamsAssumption
  <2>10. said[i] \in ToSet(said)
    BY <2>4 DEF ToSet
  <2> QED
    BY <2>6, <2>7, <2>8, <2>9, <2>10
<1> QED
  BY <1>1, <1>7, <1>8, <1>17, <1>18 DEF IsSpoken

LEMMA RenamedIs ==
  ASSUME NEW c, DOMAIN c = {"id", "name", "args"}, NEW x
  PROVE  /\ [c EXCEPT !.id = x] = [id |-> x, name |-> c.name, args |-> c.args]
         /\ [c EXCEPT !.id = x].id = x /\ [c EXCEPT !.id = x].name = c.name /\ [c EXCEPT !.id = x].args = c.args
OBVIOUS

\* The ids of a round are the turn's own.
AreOwn(own, heard, t, whole) ==
  /\ own \in Seq(Calls)
  /\ \A q \in DOMAIN own : own[q].id[1] = t /\ own[q].id[2] = turn[t].round
  /\ \A q, p \in DOMAIN own : own[q].id = own[p].id => q = p
  /\ \A call \in ToSet(own) :
       \E c \in ToSet(heard) :
         /\ call.id = c.id /\ call.name = c.name
         /\ call.args = c.args \/ (call.args = NoArgs /\ ~whole)

LEMMA NamedAre ==
  ASSUME NEW t \in Turns, turn[t].round \in Nat, NEW calls, NEW said, NEW whole,
         IsSpoken(calls, said, whole), MaySay(said)
  PROVE  AreOwn(Named(calls, t), Named(said, t), t, whole)
<1>1. /\ Len(calls) \in Nat /\ DOMAIN calls = 1 .. Len(calls)
      /\ \A i \in DOMAIN calls : DOMAIN calls[i] = {"id", "name", "args"}
      /\ \A i, k \in DOMAIN calls : calls[i].id = calls[k].id => i = k
  BY DEF IsSpoken, IsCallList, CallFields
<1>2. \A i \in DOMAIN said : DOMAIN said[i] = {"id", "name", "args"} /\ said[i] \in Uttered
  BY DEF MaySay, IsCallList, CallFields, ToSet
<1>3. PICK own, heard : own = Named(calls, t) /\ heard = Named(said, t)
  OBVIOUS
<1>4. /\ DOMAIN own = DOMAIN calls /\ DOMAIN heard = DOMAIN said
      /\ \A i \in DOMAIN calls : own[i] = [calls[i] EXCEPT !.id = <<t, turn[t].round, calls[i].id>>]
      /\ \A i \in DOMAIN said : heard[i] = [said[i] EXCEPT !.id = <<t, turn[t].round, said[i].id>>]
  BY <1>3 DEF Named
<1>5. ASSUME NEW i \in DOMAIN calls
      PROVE  /\ own[i].id = <<t, turn[t].round, calls[i].id>>
             /\ own[i].name = calls[i].name /\ own[i].args = calls[i].args
             /\ own[i] = [id |-> own[i].id, name |-> own[i].name, args |-> own[i].args]
  <2>1. PICK c, x : c = calls[i] /\ x = <<t, turn[t].round, c.id>>
    OBVIOUS
  <2>2. own[i] = [c EXCEPT !.id = x] /\ DOMAIN c = {"id", "name", "args"}
    BY <1>1, <1>4, <2>1
  <2> QED
    BY <2>1, <2>2, RenamedIs
<1>6. ASSUME NEW i \in DOMAIN said
      PROVE  /\ heard[i].id = <<t, turn[t].round, said[i].id>>
             /\ heard[i].name = said[i].name /\ heard[i].args = said[i].args
  BY <1>2, <1>4
<1>7. ASSUME NEW i \in DOMAIN calls
      PROVE  \E k \in DOMAIN said : /\ calls[i].id = said[k].id /\ calls[i].name = said[k].name
                                    /\ calls[i].args = said[k].args \/ (calls[i].args = NoArgs /\ ~whole)
  BY DEF IsSpoken, ToSet
<1>8. ASSUME NEW i \in DOMAIN calls
      PROVE  own[i] \in Calls
  <2>1. PICK k \in DOMAIN said : /\ calls[i].id = said[k].id /\ calls[i].name = said[k].name
                                 /\ calls[i].args = said[k].args \/ calls[i].args = NoArgs
    BY <1>7
  <2>2. said[k] \in Uttered
    BY <1>2
  <2>3. calls[i].id \in {call.id : call \in Uttered}
    BY <2>1, <2>2
  <2>4. own[i].name \in CallNames
    BY <1>5, <2>1, <2>2 DEF CallNames
  <2>5. own[i].args \in CallArgs
    BY <1>5, <2>1, <2>2 DEF CallArgs
  <2>6. own[i].id \in CallIds
    <3>1. PICK ids, r, a : ids = {call.id : call \in Uttered} /\ r = turn[t].round /\ a = calls[i].id
      OBVIOUS
    <3>2. <<t, r, a>> \in Turns \X Nat \X ids
      BY <2>3, <3>1
    <3> QED
      BY <1>5, <3>1, <3>2 DEF CallIds
  <2>7. PICK a, b, c : a = own[i].id /\ b = own[i].name /\ c = own[i].args
    OBVIOUS
  <2>8. own[i] = [id |-> a, name |-> b, args |-> c]
    BY <1>5, <2>7
  <2> QED
    BY <2>6, <2>4, <2>5, <2>7, <2>8 DEF Calls
<1>9. own = [i \in 1 .. Len(calls) |-> own[i]]
  BY <1>1, <1>3 DEF Named
<1>10. own \in Seq(Calls) /\ Len(own) = Len(calls)
  <2>1. own \in [1 .. Len(calls) -> Calls]
    BY <1>1, <1>8, <1>9
  <2> QED
    BY <1>1, <1>4, <2>1
<1>11. \A q \in DOMAIN own : own[q].id[1] = t /\ own[q].id[2] = turn[t].round
  BY <1>4, <1>5
<1>12. \A q, p \in DOMAIN own : own[q].id = own[p].id => q = p
  BY <1>1, <1>4, <1>5
<1>13. ASSUME NEW call \in ToSet(own)
       PROVE  \E c \in ToSet(heard) : /\ call.id = c.id /\ call.name = c.name
                                      /\ call.args = c.args \/ (call.args = NoArgs /\ ~whole)
  <2>1. PICK i \in DOMAIN calls : call = own[i]
    BY <1>4 DEF ToSet
  <2>2. PICK k \in DOMAIN said : /\ calls[i].id = said[k].id /\ calls[i].name = said[k].name
                                 /\ calls[i].args = said[k].args \/ (calls[i].args = NoArgs /\ ~whole)
    BY <1>7
  <2>3. heard[k] \in ToSet(heard)
    BY <1>4 DEF ToSet
  <2> QED
    BY <1>5, <1>6, <2>1, <2>2, <2>3
<1> QED
  BY <1>3, <1>10, <1>11, <1>12, <1>13 DEF AreOwn

-----------------------------------------------------------------------------
(* The steps of the specification. *)
TurnFields == {"at", "round", "messages", "calls", "said", "whole", "seen", "ran"}

LEMMA NothingCalled ==
  ASSUME NEW m, m.calls = <<>>
  PROVE  IsSaid(m) /\ DOMAIN m.calls = {}
<1>1. DOMAIN m.calls = {}
  OBVIOUS
<1> QED
  BY <1>1 DEF IsSaid, ToSet

LEMMA EndedIs ==
  ASSUME ChatInv, NEW t \in Turns
  PROVE  /\ TurnFits(t, Ended(t)) /\ Ahead(t, Ended(t))
         /\ Ended(t).at = "ended" /\ Ended(t).calls = <<>> /\ Ended(t).messages = <<>>
<1>1. PICK m : m = Ended(t)
  OBVIOUS
<1>2. TurnFits(t, turn[t])
  BY DEF ChatInv, ChatFits
<1>3. DOMAIN turn[t] = TurnFields
  BY <1>2 DEF TurnFits, NoTurn, TurnFields
<1>4. /\ DOMAIN m = DOMAIN turn[t] /\ m.at = "ended" /\ m.round = turn[t].round
      /\ m.calls = <<>> /\ m.messages = <<>>
  BY <1>1, <1>3 DEF Ended, TurnFields
<1>5. <<>> \in Seq(Rows) /\ <<>> \in Seq(Calls)
  OBVIOUS
<1>6. IsSaid(m) /\ DOMAIN m.calls = {}
  BY <1>4, NothingCalled
<1>7. TurnFits(t, m)
  BY <1>2, <1>4, <1>5, <1>6 DEF TurnFits, Places
<1>8. Ahead(t, m)
  BY <1>4 DEF Ahead
<1> QED
  BY <1>1, <1>4, <1>7, <1>8

LEMMA BegunIs ==
  ASSUME ChatInv, NEW t \in Turns, turn[t].at = "idle"
  PROVE  /\ TurnFits(t, Begun(t)) /\ Ahead(t, Begun(t))
         /\ Begun(t).at = "routing" /\ Begun(t).calls = <<>> /\ Begun(t).messages = <<>>
<1>1. PICK m : m = Begun(t)
  OBVIOUS
<1>2. m = [NoTurn EXCEPT !.at = "routing", !.round = 1]
  BY <1>1 DEF Begun
<1>3. DOMAIN m = DOMAIN NoTurn /\ m.at = "routing" /\ m.round = 1 /\ m.calls = <<>> /\ m.messages = <<>>
  BY <1>2 DEF NoTurn
<1>4. <<>> \in Seq(Rows) /\ <<>> \in Seq(Calls)
  OBVIOUS
<1>5. IsSaid(m) /\ DOMAIN m.calls = {}
  BY <1>3, NothingCalled
<1>6. TurnFits(t, m)
  BY <1>3, <1>4, <1>5 DEF TurnFits, Places
<1>7. Ahead(t, m)
  BY <1>3 DEF ChatInv, ChatFits, TurnFits, Ahead
<1> QED
  BY <1>1, <1>3, <1>6, <1>7

\* A turn goes on with the same messages, or with these.
LEMMA GoesOn ==
  ASSUME ChatInv, NEW t \in Turns, turn[t].calls = <<>>, turn[t].at # "ended", NEW next, DOMAIN next = DOMAIN turn[t],
         next.at \in {"routing", "asking", "forced"}, next.calls = <<>>, next.messages \in Seq(Rows),
         \/ next.round = turn[t].round /\ turn[t].at # "calls"
         \/ next.round = turn[t].round + 1
  PROVE  TurnFits(t, next) /\ Ahead(t, next)
<1>1. TurnFits(t, turn[t])
  BY DEF ChatInv, ChatFits
<1>2. turn[t].round \in Nat /\ next.round \in Nat
  BY <1>1 DEF TurnFits
<1>3. IsSaid(next) /\ DOMAIN next.calls = {}
  BY NothingCalled
<1>4. TurnFits(t, next)
  BY <1>1, <1>2, <1>3 DEF TurnFits, Places
<1>5. Ahead(t, next)
  BY <1>2 DEF Ahead
<1> QED
  BY <1>4, <1>5

LEMMA CallsAreTaken ==
  ASSUME ChatInv, NEW t \in Turns
  PROVE  turn[t].at # "calls" => turn[t].calls = <<>>
BY DEF ChatInv, ChatFits, TurnFits

\* The stream has ended.
LEMMA TakeFits ==
  ASSUME ChatInv, NEW t \in Turns, NEW calls, NEW said, NEW whole, Take(t, calls, said, whole),
         IsSpoken(calls, said, whole), MaySay(said), turn[t].at = "asking",
         surface' = surface, torn' = torn
  PROVE  ChatInv'
<1>1. t \in Active /\ turn[t].calls = <<>>
  BY CallsAreTaken DEF Active
<1>2. torn \/ Active \subseteq {t}
  BY <1>1 DEF ChatInv, OneAtATime
<1>3. CASE calls = <<>>
  <2>1. Record(t, Message("assistant", t), Ended(t))
    BY <1>3 DEF Take
  <2> QED
    BY <1>1, <1>2, <2>1, EndedIs, PlainFits
<1>4. CASE calls # <<>>
  <2>1. PICK own : own = Named(calls, t)
    OBVIOUS
  <2>2. PICK next : next = [turn[t] EXCEPT !.at = "calls", !.calls = own, !.said = Named(said, t), !.whole = whole]
    OBVIOUS
  <2>3. Record(t, Calling(t, own), next)
    BY <1>4, <2>1, <2>2 DEF Take
  <2>4. TurnFits(t, turn[t]) /\ turn[t].round \in Nat
    BY DEF ChatInv, ChatFits, TurnFits
  <2>5. AreOwn(own, Named(said, t), t, whole)
    BY <2>1, <2>4, NamedAre
  <2>6. DOMAIN turn[t] = TurnFields
    BY <2>4 DEF TurnFits, NoTurn, TurnFields
  <2>7. /\ DOMAIN next = DOMAIN turn[t] /\ next.at = "calls" /\ next.round = turn[t].round
        /\ next.messages = turn[t].messages /\ next.calls = own /\ next.said = Named(said, t) /\ next.whole = whole
    BY <2>2, <2>6 DEF TurnFields
  <2>8. IsSaid(next)
    BY <2>5, <2>7 DEF AreOwn, IsSaid
  <2>9. TurnFits(t, next)
    BY <2>4, <2>5, <2>7, <2>8 DEF AreOwn, TurnFits, Places
  <2> QED
    BY <1>1, <2>3, <2>5, <2>7, <2>9, CallingFits DEF AreOwn
<1> QED
  BY <1>3, <1>4

\* The thread without what the only turn owes.
LEMMA OnlyThread ==
  ASSUME ChatInv, NEW t \in Turns, turn[t].calls = <<>>, t \in Active, ~torn
  PROVE  (IsStored => Tied(thread)) /\ (~IsStored => AllMatched(shared))
<1>1. Active \subseteq {t}
  BY DEF ChatInv, OneAtATime
<1>2. thread \o Due(t, <<>>) = thread /\ shared \o Due(t, <<>>) = shared
  BY NothingDue DEF ChatInv, ChatFits
<1> QED
  BY <1>1, <1>2, OnlyTurn

LEMMA OwnMessages ==
  ASSUME ChatInv, NEW t \in Turns, turn[t].calls = <<>>, IsStored
  PROVE  AllAnswered(turn[t].messages) /\ (~torn => AllMatched(turn[t].messages))
<1>1. turn[t].messages \o Due(t, <<>>) = turn[t].messages
  BY NothingDue DEF ChatInv, ChatFits, TurnFits
<1> QED
  BY <1>1 DEF ChatInv, MessagesFit, Whole

\* Something is said.
LEMMA StartFits ==
  ASSUME ChatInv, NEW t \in Turns, Ask(t) \/ Chat(t) \/ Submit(t)
  PROVE  ChatInv'
<1>1. surface' = surface /\ (torn => torn') /\ (~torn' => Active = {})
  <2>1. CASE Ask(t)
    BY <2>1 DEF Ask
  <2>2. CASE Chat(t)
    BY <2>2 DEF Chat
  <2>3. CASE Submit(t)
    BY <2>3 DEF Submit
  <2> QED
    BY <2>1, <2>2, <2>3
<1>2. turn[t].at = "idle" /\ (~torn' => Active \subseteq {t})
  BY <1>1 DEF Ask, Chat, Submit
<1>3. turn[t].calls = <<>>
  BY <1>2, CallsAreTaken
<1>4. Record(t, Message("user", t), Ended(t)) \/ Record(t, Message("user", t), Begun(t))
  BY DEF Ask, Chat, Submit
<1>5. CASE Record(t, Message("user", t), Ended(t))
  BY <1>1, <1>2, <1>3, <1>5, EndedIs, PlainFits
<1>6. CASE Record(t, Message("user", t), Begun(t))
  BY <1>1, <1>2, <1>3, <1>6, BegunIs, PlainFits
<1> QED
  BY <1>4, <1>5, <1>6

LEMMA EndFits ==
  ASSUME ChatInv, NEW t \in Turns, turn' = [turn EXCEPT ![t] = Ended(t)], turn[t].at # "calls" \/ turn[t].calls = <<>>,
         UNCHANGED <<surface, thread, shared, torn>>
  PROVE  ChatInv'
<1>1. turn[t].calls = <<>>
  BY CallsAreTaken
<1>2. PICK next : next = Ended(t)
  OBVIOUS
<1>3. /\ TurnFits(t, next) /\ Ahead(t, next) /\ next.at = "ended" /\ next.calls = <<>>
      /\ AllAnswered(next.messages) /\ AllMatched(next.messages)
  BY <1>2, EndedIs, NothingSaid
<1> QED
  BY <1>1, <1>2, <1>3, QuietFits

\* The guard fails: the results that the turn still owed do not come.  Another turn
\* can be under way only once turns have overlapped.
LEMMA GuardFits ==
  ASSUME ChatInv, NEW t \in Turns, GuardFailsStored(t) \/ GuardFailsShared(t)
  PROVE  ChatInv'
<1>1. /\ turn[t].at = "calls" /\ turn' = [turn EXCEPT ![t] = Ended(t)]
      /\ UNCHANGED <<surface, thread, shared>>
      /\ torn' = torn \/ (torn' = TRUE /\ surface = "tui")
      /\ IsStored => torn' = torn
  BY DEF GuardFailsStored, GuardFailsShared, IsGuarded, OwesResult, End, IsStored
<1>2. PICK next : next = Ended(t)
  OBVIOUS
<1>3. /\ TurnFits(t, next) /\ Ahead(t, next) /\ next.calls = <<>> /\ next.messages = <<>>
      /\ AllAnswered(next.messages) /\ AllMatched(next.messages)
  BY <1>2, EndedIs, NothingSaid
<1>4. t \in Active /\ thread \in Seq(Rows) /\ shared \in Seq(Rows) /\ turn' = [turn EXCEPT ![t] = next]
  BY <1>1, <1>2 DEF Active, ChatInv, ChatFits
<1>5. (torn => torn') /\ (~torn' => ~torn)
  BY <1>1
<1>6. ~torn' => Active \subseteq {t}
  BY <1>4, <1>5 DEF ChatInv, OneAtATime
<1>7. IdsAreUsed'
  BY <1>1, <1>3, <1>4, UsedStay
<1>8. <<>> \in Seq(Rows) /\ next.messages \o Due(t, next.calls) = <<>> /\ thread' \o Due(t, next.calls) = thread
  BY <1>1, <1>3, <1>4, NothingDue
<1>9. CASE IsStored
  <2>1. AnswersFollow(thread)
    BY <1>9 DEF ChatInv, ThreadFits
  <2>2. ~torn' => Tied(thread)
    <3>1. torn \/ Tied(thread \o Due(t, turn[t].calls))
      BY <1>4, <1>9 DEF ChatInv, ThreadFits, Whole
    <3>2. Due(t, turn[t].calls) \in Seq(Rows)
      BY DueAre DEF ChatInv, ChatFits, TurnFits
    <3> QED
      BY <1>4, <1>5, <3>1, <3>2, FirstPart
  <2> QED
    BY <1>1, <1>3, <1>4, <1>5, <1>6, <1>7, <1>8, <1>9, <2>1, <2>2, NothingSaid, ActsFit
<1>10. CASE ~IsStored
  <2>1. torn'
    BY <1>10 DEF GuardFailsStored, GuardFailsShared
  <2> QED
    BY <1>1, <1>3, <1>4, <1>5, <1>6, <1>7, <1>10, <2>1, ActsFit
<1> QED
  BY <1>9, <1>10

\* The list of a request is made.
LEMMA RequestFits ==
  ASSUME ChatInv, NEW t \in Turns, RequestStored(t) \/ RequestShared(t)
  PROVE  ChatInv'
<1>1. turn[t].at = "routing" /\ UNCHANGED <<surface, thread, shared, torn>>
  BY DEF RequestStored, RequestShared
<1>2. turn[t].calls = <<>> /\ t \in Active
  BY <1>1, CallsAreTaken DEF Active
<1>3. TurnFits(t, turn[t]) /\ turn[t].messages \in Seq(Rows) /\ thread \in Seq(Rows)
  BY DEF ChatInv, ChatFits, TurnFits
<1>4. DOMAIN turn[t] = TurnFields
  BY <1>3 DEF TurnFits, NoTurn, TurnFields
<1>5. CASE RequestStored(t)
  <2>1. PICK sent : sent = IF turn[t].round = 1 THEN ToChatMessages(Stored) ELSE turn[t].messages
    OBVIOUS
  <2>2. PICK next : next = [turn[t] EXCEPT !.at = "asking", !.messages = sent]
    OBVIOUS
  <2>3. IsStored /\ turn' = [turn EXCEPT ![t].at = "asking", ![t].messages = sent]
    BY <1>5, <2>1 DEF RequestStored
  <2>4. turn' = [turn EXCEPT ![t] = next]
    BY <2>2, <2>3 DEF ChatInv, ChatFits
  <2>5. /\ DOMAIN next = DOMAIN turn[t] /\ next.at = "asking" /\ next.round = turn[t].round
        /\ next.calls = <<>> /\ next.messages = sent
    BY <1>2, <1>4, <2>2 DEF TurnFields
  <2>6. PICK n \in 0 .. Len(thread) : Stored = SubSeq(thread, 1, n)
    BY <1>3, LenProperties, ConversationAssumption DEF Stored
  <2>7. PICK rows : rows = Stored
    OBVIOUS
  <2>8. rows \in Seq(Rows) /\ AnswersFollow(rows) /\ (~torn => Tied(rows))
    <3>1. AnswersFollow(thread) /\ (~torn => Tied(thread))
      BY <1>2, <2>3, OnlyThread DEF ChatInv, ThreadFits
    <3> QED
      BY <1>3, <2>6, <2>7, <3>1, PartKeeps
  <2>9. sent \in Seq(Rows) /\ AllAnswered(sent) /\ (~torn => AllMatched(sent))
    <3>1. CASE turn[t].round = 1
      <4>1. sent = ToChatMessages(rows)
        BY <2>1, <2>7, <3>1
      <4> QED
        BY <2>8, <4>1, SentIs, TiedIsSent, AnsweredIsSent
    <3>2. CASE turn[t].round # 1
      BY <1>2, <1>3, <2>1, <2>3, <3>2, OwnMessages
    <3> QED
      BY <3>1, <3>2
  <2>10. TurnFits(t, next) /\ Ahead(t, next)
    BY <1>1, <1>2, <2>5, <2>9, GoesOn
  <2> QED
    BY <1>1, <1>2, <2>4, <2>5, <2>9, <2>10, QuietFits
<1>6. CASE RequestShared(t)
  <2>1. PICK next : next = [turn[t] EXCEPT !.at = "asking"]
    OBVIOUS
  <2>2. turn' = [turn EXCEPT ![t] = next]
    BY <1>6, <2>1 DEF RequestShared, ChatInv, ChatFits
  <2>3. /\ DOMAIN next = DOMAIN turn[t] /\ next.at = "asking" /\ next.round = turn[t].round
        /\ next.calls = <<>> /\ next.messages = turn[t].messages
    BY <1>2, <1>4, <2>1 DEF TurnFields
  <2>4. TurnFits(t, next) /\ Ahead(t, next)
    BY <1>1, <1>2, <1>3, <2>3, GoesOn
  <2>5. ~IsStored
    BY <1>6 DEF RequestShared, IsStored
  <2> QED
    BY <1>1, <1>2, <2>2, <2>3, <2>4, <2>5, QuietFits
<1> QED
  BY <1>5, <1>6

\* A reply is heard.
LEMMA ReplyMaySay ==
  ASSUME NEW reply \in Replies
  PROVE  MaySay(reply.calls)
<1>1. ToSet(reply.calls) \subseteq Uttered
  BY DEF Uttered
<1> QED
  BY <1>1, ConversationAssumption DEF MaySay

LEMMA ProseMaySay ==
  ASSUME NEW call \in Salvageable, NEW whole
  PROVE  MaySay(<<call>>) /\ IsSpoken(<<call>>, <<call>>, whole)
<1>1. PICK one : one = <<call>>
  OBVIOUS
<1>2. Len(one) = 1 /\ DOMAIN one = 1 .. 1 /\ one[1] = call /\ ToSet(one) = {call}
  BY <1>1 DEF ToSet
<1>3. IsCallList(one)
  BY <1>2, ConversationAssumption DEF IsCallList
<1>4. call \in Uttered
  BY DEF Uttered
<1>5. MaySay(one)
  BY <1>2, <1>3, <1>4 DEF MaySay
<1>6. IsSpoken(one, one, whole)
  BY <1>2, <1>3 DEF IsSpoken
<1> QED
  BY <1>1, <1>5, <1>6

LEMMA ReplyFits ==
  ASSUME ChatInv, NEW t \in Turns, ReplyToRepl(t) \/ ReplyToDaemon(t) \/ ReplyToTui(t)
  PROVE  ChatInv'
<1>1. turn[t].at = "asking" /\ surface' = surface /\ torn' = torn
  BY DEF ReplyToRepl, ReplyToDaemon, ReplyToTui
<1>2. PICK reply \in Replies : \E chunks \in Heard[reply] :
        \/ Take(t, chunks.calls, reply.calls, chunks.paid)
        \/ Take(t, Salvaged(reply, chunks), IF IsProse(reply, chunks) THEN <<reply.prose>> ELSE reply.calls, chunks.paid)
  BY DEF ReplyToRepl, ReplyToDaemon, ReplyToTui
<1>3. PICK chunks \in Heard[reply] :
        \/ Take(t, chunks.calls, reply.calls, chunks.paid)
        \/ Take(t, Salvaged(reply, chunks), IF IsProse(reply, chunks) THEN <<reply.prose>> ELSE reply.calls, chunks.paid)
  BY <1>2
<1>4. IsSpoken(chunks.calls, reply.calls, chunks.paid) /\ MaySay(reply.calls)
  BY HeardIs, ReplyMaySay
<1>5. CASE Take(t, chunks.calls, reply.calls, chunks.paid)
  BY <1>1, <1>4, <1>5, TakeFits
<1>6. CASE Take(t, Salvaged(reply, chunks), IF IsProse(reply, chunks) THEN <<reply.prose>> ELSE reply.calls, chunks.paid)
  <2>1. CASE IsProse(reply, chunks)
    <3>1. Take(t, <<reply.prose>>, <<reply.prose>>, chunks.paid) /\ reply.prose \in Salvageable
      BY <1>6, <2>1 DEF Salvaged, IsProse
    <3>2. MaySay(<<reply.prose>>) /\ IsSpoken(<<reply.prose>>, <<reply.prose>>, chunks.paid)
      BY <3>1, ProseMaySay
    <3> QED
      BY <1>1, <3>1, <3>2, TakeFits
  <2>2. CASE ~IsProse(reply, chunks)
    <3>1. Take(t, chunks.calls, reply.calls, chunks.paid)
      BY <1>6, <2>2 DEF Salvaged
    <3> QED
      BY <1>1, <1>4, <3>1, TakeFits
  <2> QED
    BY <2>1, <2>2
<1> QED
  BY <1>3, <1>5, <1>6

\* All calls have their results.
LEMMA RoundFits ==
  ASSUME ChatInv, NEW t \in Turns, NextRoundInRepl(t) \/ NextRoundInDaemon(t) \/ NextRoundInTui(t)
  PROVE  ChatInv'
<1>1. /\ turn[t].at = "calls" /\ turn[t].calls = <<>> /\ UNCHANGED <<surface, thread, torn>>
  BY DEF NextRoundInRepl, NextRoundInDaemon, NextRoundInTui, HasAnswered
<1>2. t \in Active
  BY <1>1 DEF Active
<1>3. TurnFits(t, turn[t]) /\ turn[t].messages \in Seq(Rows)
  BY DEF ChatInv, ChatFits, TurnFits
<1>4. DOMAIN turn[t] = TurnFields
  BY <1>3 DEF TurnFits, NoTurn, TurnFields
<1>5. PICK on : on = Onward(t)
  OBVIOUS
<1>6. /\ DOMAIN on = DOMAIN turn[t] /\ on.at = "routing" /\ on.round = turn[t].round + 1
      /\ on.calls = <<>> /\ on.messages = turn[t].messages
  BY <1>1, <1>4, <1>5 DEF Onward, TurnFields
<1>7. PICK pressed, message : pressed = Pressed(t) /\ message = Message("user", t)
  OBVIOUS
<1>8. IsPlain(message) /\ message \in Rows
  BY <1>7, MessageIsPlain
<1>9. /\ DOMAIN pressed = DOMAIN turn[t] /\ pressed.at = "forced" /\ pressed.round = turn[t].round + 1
      /\ pressed.calls = <<>>
      /\ pressed.messages = IF IsStored THEN Append(turn[t].messages, message) ELSE turn[t].messages
  BY <1>4, <1>5, <1>6, <1>7 DEF Pressed, TurnFields
<1>10. Append(turn[t].messages, message) \in Seq(Rows)
  BY <1>3, <1>8, AddedAt
<1>11. TurnFits(t, on) /\ Ahead(t, on) /\ TurnFits(t, pressed) /\ Ahead(t, pressed)
  BY <1>1, <1>3, <1>6, <1>9, <1>10, GoesOn
<1>12. IsStored => /\ AllAnswered(turn[t].messages)
                   /\ AllAnswered(Append(turn[t].messages, message))
                   /\ ~torn => /\ AllMatched(turn[t].messages)
                                  /\ AllMatched(Append(turn[t].messages, message))
  BY <1>1, <1>3, <1>8, OwnMessages, PlainKeeps
<1>13. \/ turn' = [turn EXCEPT ![t] = Ended(t)] \/ turn' = [turn EXCEPT ![t] = on]
       \/ turn' = [turn EXCEPT ![t] = pressed]
  BY <1>5, <1>7 DEF NextRoundInRepl, NextRoundInDaemon, NextRoundInTui
<1>14. CASE shared' = shared /\ turn' = [turn EXCEPT ![t] = Ended(t)]
  BY <1>1, <1>14, EndFits
<1>15. CASE shared' = shared /\ turn' = [turn EXCEPT ![t] = on]
  BY <1>1, <1>2, <1>6, <1>11, <1>12, <1>15, QuietFits
<1>16. CASE IsStored /\ shared' = shared /\ turn' = [turn EXCEPT ![t] = pressed]
  BY <1>1, <1>2, <1>9, <1>11, <1>12, <1>16, QuietFits
<1>17. CASE ~IsStored /\ shared' = Append(shared, message) /\ turn' = [turn EXCEPT ![t] = pressed]
  <2>1. Record(t, Message("user", t), pressed)
    BY <1>1, <1>7, <1>17 DEF Record
  <2>2. torn \/ Active \subseteq {t}
    BY <1>2 DEF ChatInv, OneAtATime
  <2> QED
    BY <1>1, <1>9, <1>11, <1>17, <2>1, <2>2, PlainFits
<1>18. CASE NextRoundInRepl(t)
  <2>1. IsStored /\ shared' = shared
    BY <1>18 DEF NextRoundInRepl, IsStored
  <2> QED
    BY <1>13, <1>14, <1>15, <1>16, <2>1
<1>19. CASE NextRoundInDaemon(t)
  <2>1. IsStored /\ shared' = shared
    BY <1>19 DEF NextRoundInDaemon, IsStored
  <2> QED
    BY <1>13, <1>14, <1>15, <1>16, <2>1
<1>20. CASE NextRoundInTui(t)
  <2>1. CASE IsLastRound(t)
    <3>1. ~IsStored /\ shared' = Append(shared, message) /\ turn' = [turn EXCEPT ![t] = pressed]
      BY <1>7, <1>20, <2>1 DEF NextRoundInTui, IsStored
    <3> QED
      BY <1>17, <3>1
  <2>2. CASE ~IsLastRound(t)
    <3>1. shared' = shared /\ (turn' = [turn EXCEPT ![t] = on] \/ turn' = [turn EXCEPT ![t] = Ended(t)])
      BY <1>5, <1>20, <2>2 DEF NextRoundInTui
    <3> QED
      BY <1>14, <1>15, <3>1
  <2> QED
    BY <2>1, <2>2
<1> QED
  BY <1>18, <1>19, <1>20

\* The answer that was demanded.
LEMMA ForcedFits ==
  ASSUME ChatInv, NEW t \in Turns, ForcedInRepl(t) \/ ForcedInDaemon(t)
  PROVE  ChatInv'
<1>1. /\ turn[t].at = "forced" /\ Record(t, Message("assistant", t), Ended(t))
      /\ surface' = surface /\ torn' = torn
  BY DEF ForcedInRepl, ForcedInDaemon
<1>2. t \in Active /\ turn[t].calls = <<>>
  BY <1>1, CallsAreTaken DEF Active
<1>3. torn \/ Active \subseteq {t}
  BY <1>2 DEF ChatInv, OneAtATime
<1> QED
  BY <1>1, <1>2, <1>3, EndedIs, PlainFits

\* The process dies: all turns have ended, and the thread stays or is a new one.
LEMMA CrashFits ==
  ASSUME ChatInv, Crash
  PROVE  ChatInv'
<1>1. /\ IsStored /\ surface' = surface /\ shared' = shared /\ torn' = torn
      /\ thread' = thread \/ thread' = <<>>
      /\ turn' = [t \in Turns |-> IF turn[t].at = "idle" THEN turn[t] ELSE Ended(t)]
  BY DEF Crash
<1>2. ASSUME NEW t \in Turns
      PROVE  /\ TurnFits(t, turn'[t]) /\ Ahead(t, turn'[t]) /\ turn'[t].calls = <<>>
             /\ turn'[t].at \in {"idle", "ended"}
             /\ turn'[t].messages = <<>> \/ turn'[t] = turn[t]
  <2>1. CASE turn[t].at = "idle"
    <3>1. turn'[t] = turn[t] /\ turn[t].calls = <<>>
      BY <1>1, <2>1, CallsAreTaken
    <3> QED
      BY <2>1, <3>1 DEF ChatInv, ChatFits, TurnFits, Ahead
  <2>2. CASE turn[t].at # "idle"
    BY <1>1, <2>2, EndedIs
  <2> QED
    BY <2>1, <2>2
<1>3. thread \in Seq(Rows) /\ shared \in Seq(Rows)
  BY DEF ChatInv, ChatFits
<1>4. ChatFits'
  <2>1. DOMAIN turn' = Turns /\ <<>> \in Seq(Rows)
    BY <1>1
  <2> QED
    BY <1>1, <1>2, <1>3, <2>1 DEF ChatFits
<1>5. Active' = {}
  BY <1>2 DEF Active
<1>6. ASSUME NEW id \in CallIds, IsUsed(id)
      PROVE  IsUsed(id)'
  <2>1. id[1] \in Turns /\ id[2] \in Nat
    BY DEF CallIds
  <2>2. turn[id[1]].round \in Nat /\ turn'[id[1]].round \in Nat /\ Ahead(id[1], turn'[id[1]])
    BY <1>2, <2>1 DEF ChatInv, ChatFits, TurnFits
  <2> QED
    BY <1>6, <2>1, <2>2 DEF Ahead, IsUsed
<1>7. IdsAreUsed'
  <2>1. CASE thread' = <<>>
    <3>1. DOMAIN thread' = {}
      BY <2>1
    <3> QED
      BY <3>1 DEF IdsAreUsed
  <2>2. CASE thread' = thread
    <3>1. ASSUME NEW i \in DOMAIN thread', thread'[i].of # <<>>
          PROVE  IsUsed(thread[i].of)'
      <4>1. PICK id : id = thread[i].of
        OBVIOUS
      <4>2. id \in CallIds /\ IsUsed(id)
        BY <1>3, <2>2, <3>1, <4>1, RowsHave DEF Rows, Messaged, ChatInv, IdsAreUsed
      <4>3. IsUsed(id)'
        BY <1>6, <4>2
      <4> QED
        BY <2>2, <4>1, <4>3 DEF IsUsed
    <3>2. ASSUME NEW i \in DOMAIN thread', NEW k \in DOMAIN thread'[i].calls
          PROVE  IsUsed(thread[i].calls[k].id)'
      <4>1. PICK id : id = thread[i].calls[k].id
        OBVIOUS
      <4>2. id \in CallIds /\ IsUsed(id)
        BY <1>3, <2>2, <3>2, <4>1, RowsHave DEF ChatInv, IdsAreUsed
      <4>3. IsUsed(id)'
        BY <1>6, <4>2
      <4> QED
        BY <2>2, <4>1, <4>3 DEF IsUsed
    <3> QED
      BY <3>1, <3>2 DEF IdsAreUsed
  <2> QED
    BY <1>1, <2>1, <2>2
<1>8. ThreadFits'
  <2>1. CASE thread' = <<>>
    BY <1>5, <2>1, NothingSaid DEF ThreadFits
  <2>2. CASE thread' = thread
    <3>1. AnswersFollow(thread)
      BY <1>1 DEF ChatInv, ThreadFits
    <3>2. ASSUME ~torn
          PROVE  Tied(thread)
      <4>1. CASE Active = {}
        BY <1>1, <3>2, <4>1 DEF ChatInv, ThreadFits
      <4>2. CASE Active # {}
        <5>1. PICK t \in Active : Tied(thread \o Due(t, turn[t].calls))
          BY <1>1, <3>2, <4>2 DEF ChatInv, ThreadFits, Whole
        <5>2. Due(t, turn[t].calls) \in Seq(Rows)
          BY <5>1, DueAre DEF Active, ChatInv, ChatFits, TurnFits
        <5> QED
          BY <1>3, <5>1, <5>2, FirstPart
      <4> QED
        BY <4>1, <4>2
    <3> QED
      BY <1>1, <1>5, <2>2, <3>1, <3>2 DEF ThreadFits
  <2> QED
    BY <1>1, <2>1, <2>2
<1>9. MessagesFit'
  <2>1. ASSUME NEW t \in Turns
        PROVE  /\ AllAnswered(turn'[t].messages)
               /\ ~torn => AllMatched(turn'[t].messages)
    <3>1. CASE turn'[t].messages = <<>>
      BY <3>1, NothingSaid
    <3>2. CASE turn'[t] = turn[t]
      BY <1>1, <1>2, <3>2, OwnMessages
    <3> QED
      BY <1>2, <3>1, <3>2
  <2>2. ASSUME NEW t \in Turns
        PROVE  turn'[t].messages \o Due(t, turn'[t].calls) = turn'[t].messages
    <3>1. turn'[t].messages \in Seq(Rows) /\ turn'[t].calls = <<>>
      BY <1>2 DEF TurnFits
    <3> QED
      BY <3>1, NothingDue
  <2> QED
    BY <1>1, <2>1, <2>2 DEF MessagesFit, Whole
<1>10. OneAtATime'
  BY <1>5 DEF OneAtATime
<1>11. IsStored' <=> IsStored
  BY <1>1 DEF IsStored
<1> QED
  BY <1>1, <1>4, <1>7, <1>8, <1>9, <1>10, <1>11 DEF ChatInv

LEMMA InitFits == Init => ChatInv
<1> SUFFICES ASSUME Init PROVE ChatInv
  OBVIOUS
<1>1. /\ thread = <<>> /\ shared = <<>> /\ DOMAIN turn = Turns /\ \A t \in Turns : turn[t] = NoTurn
  BY DEF Init
<1>2. <<>> \in Seq(Rows) /\ <<>> \in Seq(Calls) /\ DOMAIN <<>> = {}
  OBVIOUS
<1>3. /\ NoTurn.at = "idle" /\ NoTurn.round = 0 /\ NoTurn.messages = <<>> /\ NoTurn.calls = <<>>
  BY DEF NoTurn
<1>4. IsSaid(NoTurn)
  BY <1>3, NothingCalled
<1>5. \A t \in Turns : TurnFits(t, NoTurn)
  BY <1>2, <1>3, <1>4 DEF TurnFits, Places
<1>6. ChatFits
  BY <1>1, <1>2, <1>5 DEF ChatFits
<1>7. Active = {}
  BY <1>1, <1>3 DEF Active
<1>8. OneAtATime /\ IdsAreUsed
  BY <1>1, <1>2, <1>7 DEF OneAtATime, IdsAreUsed
<1>9. ThreadFits /\ SharedFits
  BY <1>1, <1>7, NothingSaid DEF ThreadFits, SharedFits
<1>10. \A t \in Turns : turn[t].messages \o Due(t, turn[t].calls) = <<>>
  BY <1>1, <1>2, <1>3, NothingDue
<1>11. MessagesFit
  BY <1>10, NothingSaid DEF MessagesFit, Whole
<1> QED
  BY <1>6, <1>8, <1>9, <1>11 DEF ChatInv

LEMMA QuietStep ==
  ASSUME ChatInv, UNCHANGED <<surface, thread, shared, turn, torn>>
  PROVE  ChatInv'
<1>1. ChatFits' /\ OneAtATime' /\ IdsAreUsed'
  BY DEF ChatInv, ChatFits, OneAtATime, Active, IdsAreUsed, IsUsed
<1>2. (ThreadFits' <=> ThreadFits) /\ (SharedFits' <=> SharedFits)
  BY DEF ThreadFits, SharedFits, Active, Whole
<1>3. (MessagesFit' <=> MessagesFit) /\ (IsStored' <=> IsStored)
  BY DEF MessagesFit, Whole, IsStored
<1> QED
  BY <1>1, <1>2, <1>3 DEF ChatInv

LEMMA StepFits == ChatInv /\ [Next]_vars => ChatInv'
<1> SUFFICES ASSUME ChatInv, [Next]_vars PROVE ChatInv'
  OBVIOUS
<1>1. CASE UNCHANGED vars
  BY <1>1, QuietStep DEF vars
<1>2. CASE Esc
  BY <1>2, QuietStep DEF Esc
<1>3. CASE Crash
  BY <1>3, CrashFits
<1>4. ASSUME NEW t \in Turns, Repl(t) \/ Daemon(t) \/ Tui(t) \/ RequestStored(t) \/ FailStored(t)
             \/ GuardFailsStored(t) \/ Blocked(t)
      PROVE  ChatInv'
  <2>1. CASE Ask(t) \/ Chat(t) \/ Submit(t)
    BY <2>1, StartFits
  <2>2. CASE RequestStored(t) \/ RequestShared(t)
    BY <2>2, RequestFits
  <2>3. CASE ReplyToRepl(t) \/ ReplyToDaemon(t) \/ ReplyToTui(t)
    BY <2>3, ReplyFits
  <2>4. CASE AnswerInRepl(t) \/ AnswerInDaemon(t) \/ AnswerInTui(t)
    BY <2>4, AnswerFits DEF AnswerInRepl, AnswerInDaemon, AnswerInTui
  <2>5. CASE NextRoundInRepl(t) \/ NextRoundInDaemon(t) \/ NextRoundInTui(t)
    BY <2>5, RoundFits
  <2>6. CASE ForcedInRepl(t) \/ ForcedInDaemon(t)
    BY <2>6, ForcedFits
  <2>7. CASE ForcedInTui(t) \/ FailShared(t) \/ FailStored(t) \/ Interrupted(t) \/ Blocked(t)
    <3>1. turn' = [turn EXCEPT ![t] = Ended(t)] /\ turn[t].at # "calls"
      BY <2>7 DEF ForcedInTui, FailShared, FailStored, MayFail, Interrupted, Blocked, End
    <3>2. UNCHANGED <<surface, thread, shared, torn>>
      BY <2>7 DEF ForcedInTui, FailShared, FailStored, Interrupted, Blocked
    <3> QED
      BY <3>1, <3>2, EndFits
  <2>8. CASE GuardFailsStored(t) \/ GuardFailsShared(t)
    BY <2>8, GuardFits
  <2> QED
    BY <1>4, <2>1, <2>2, <2>3, <2>4, <2>5, <2>6, <2>7, <2>8 DEF Repl, Daemon, Tui
<1> QED
  BY <1>1, <1>2, <1>3, <1>4 DEF Next

\* The inductive invariant.
THEOREM ChatInvariant == Spec => []ChatInv
<1>1. Init => ChatInv
  BY InitFits
<1>2. ChatInv /\ [Next]_vars => ChatInv'
  BY StepFits
<1> QED
  BY <1>1, <1>2, PTL DEF Spec

\* As long as turns are taken one after the other, and no guard failed in the
\* terminal, each request shows every reply with calls followed by just their results, whatever the models say, wherever
\* their streams are cut, whatever fails and however often the process dies
\* (thread.ts, toChatMessages; chat.ts, sessions.ts, run-tui.tsx).
THEOREM RequestsAreAlwaysWellFormed == Spec => []RequestsAreWellFormed
<1>1. ChatInv => RequestsAreWellFormed
  <2> SUFFICES ASSUME ChatInv, NEW t \in Turns, turn[t].at \in {"asking", "forced"}, ~torn, NEW kind \in Kinds
               PROVE  Binds(Wire(kind, Messages(t)))
    BY DEF RequestsAreWellFormed
  <2>1. t \in Active /\ turn[t].calls = <<>>
    BY CallsAreTaken DEF Active
  <2>2. PICK rows : rows = Messages(t)
    OBVIOUS
  <2>3. rows \in Seq(Rows) /\ AllMatched(rows)
    <3>1. CASE IsStored
      BY <2>1, <2>2, <3>1, OwnMessages DEF Messages, IsStored, ChatInv, ChatFits, TurnFits
    <3>2. CASE ~IsStored
      BY <2>1, <2>2, <3>2, OnlyThread DEF Messages, IsStored, ChatInv, ChatFits
    <3> QED
      BY <3>1, <3>2
  <2> QED
    BY <2>2, <2>3, OrderBinds
<1> QED
  BY <1>1, ChatInvariant, PTL

\* However turns overlap in a stored thread, every call that a request shows has a
\* result further on in it (thread.ts, toChatMessages; sessions.ts, chat).
THEOREM CallsAreAlwaysAnswered == Spec => []CallsSentAreAnswered
<1>1. ChatInv => CallsSentAreAnswered
  <2> SUFFICES ASSUME ChatInv, NEW t \in Turns, IsStored, turn[t].at \in {"asking", "forced"}
               PROVE  AllAnswered(Messages(t))
    BY DEF CallsSentAreAnswered, AllAnswered
  <2>1. turn[t].calls = <<>>
    BY CallsAreTaken
  <2> QED
    BY <2>1, OwnMessages DEF Messages, IsStored
<1> QED
  BY <1>1, ChatInvariant, PTL

\* What a turn acts on is what the model said, each call with its own arguments
\* or, if the stream was cut off, with none, in whatever order the frames of
\* several calls came (anthropic.ts, openai-compat.ts, ollama.ts).
THEOREM CallsAreAlwaysAsSaid == Spec => []CallsAreAsSaid
<1>1. ChatInv => CallsAreAsSaid
  BY DEF ChatInv, ChatFits, TurnFits, IsSaid, CallsAreAsSaid
<1> QED
  BY <1>1, ChatInvariant, PTL
=============================================================================
