---------------------------- MODULE Conversation ----------------------------
(***************************************************************************)
(* One thread of chat and the turns people take in it, on each of the      *)
(* three surfaces that hold one: cli/src/chat.ts (ask, one turn after      *)
(* another), daemon/src/sessions.ts (SessionManager.chat, called by any    *)
(* window at any time) and cli/src/tui/run-tui.tsx (converse).  The first  *)
(* two keep the thread in the database (core/src/chat/thread.ts), the      *)
(* third in memory.  A step is the code between two awaits, one call of a  *)
(* tool each.                                                              *)
(***************************************************************************)
EXTENDS Streams

CONSTANTS
  Turns,       \* calls of ask, chat or converse
  Replies,     \* what a model may say: [text, calls, prose]
  Allowed,     \* tools of chat
  Salvageable, \* calls that prose may hold, of tools that exist
  MaxRounds,   \* requests with tools in a turn; 6 in the source
  Keep,        \* rows of a thread that are read; 200 in the source
  MaxTokens,   \* budget of the session
  MaxCalling,  \* bound: rounds that replies with calls lead to, all turns together,
               \* and one less once torn
  MaxCrashes   \* bound: deaths of the process

ASSUME ConversationAssumption ==
  /\ MaxRounds \in Nat \ {0} /\ Keep \in Nat /\ MaxTokens \in Nat
  /\ \A reply \in Replies : IsCallList(reply.calls)
  /\ \A call \in Salvageable : DOMAIN call = CallFields

VARIABLES
  surface,    \* "repl", "daemon" or "tui"
  thread,     \* thread_messages, oldest first
  shared,     \* messages of the terminal session
  turn,       \* [Turns -> the locals of the turn]
  tokens,     \* what the meter of the session counts
  busy, cancelled,  \* flags of the terminal session
  crashes,
  torn        \* history: two turns were taken at a time, or the list of the terminal
              \* was left with a call that has no result

vars == <<surface, thread, shared, turn, tokens, busy, cancelled, crashes, torn>>

Message(role, by) == [role |-> role, by |-> by, calls |-> <<>>, of |-> <<>>, name |-> <<>>]
Calling(by, calls) ==
  [Message("assistant", by) EXCEPT !.calls = [i \in DOMAIN calls |-> [id |-> calls[i].id, name |-> calls[i].name]]]
ResultOf(by, call) == [Message("tool", by) EXCEPT !.of = call.id, !.name = call.name]
NoTurn == [at |-> "idle", round |-> 0, messages |-> <<>>, calls |-> <<>>, said |-> <<>>, whole |-> FALSE, seen |-> {}, ran |-> <<>>]

Init ==
  /\ surface \in {"repl", "daemon", "tui"}
  /\ thread = <<>> /\ shared = <<>>
  /\ turn = [t \in Turns |-> NoTurn]
  /\ tokens = 0 /\ busy = FALSE /\ cancelled = FALSE /\ crashes = 0 /\ torn = FALSE

Active == {t \in Turns : turn[t].at \notin {"idle", "ended"}}
IsStored == surface # "tui"
IsMetered == surface # "daemon"

\* What a request is made of: the list of the session, or of the turn.
Messages(t) == IF surface = "tui" THEN shared ELSE turn[t].messages

\* Of the calls of a reply, those whose ids are answered.
AnsweredOf(calls, answered) == Kept(calls, {k \in DOMAIN calls : calls[k].id \in answered})

\* Mutant of ToChatMessages: calls go out whether they were answered or not.
ToChatMessagesUnchecked(rows) == rows

\* Mutant of ToChatMessages: a result counts though it is beyond the limit.
ToChatMessagesOfThread(rows) ==
  LET answered == {thread[i].of : i \in {j \in DOMAIN thread : thread[j].role = "tool"}}
  IN [i \in DOMAIN rows |-> [rows[i] EXCEPT !.calls = AnsweredOf(@, answered)]]

\* A call whose result is not among the rows is dropped.
ToChatMessages(rows) ==
  LET answered == {rows[i].of : i \in {j \in DOMAIN rows : rows[j].role = "tool"}}
  IN [i \in DOMAIN rows |-> [rows[i] EXCEPT !.calls = AnsweredOf(@, answered)]]

\* Mutant of Stored: the limit leaves the last row out.
StoredButTheLast == SubSeq(thread, 1, Len(thread) - 1)

\* The first rows, by time.
Stored == SubSeq(thread, 1, IF Len(thread) < Keep THEN Len(thread) ELSE Keep)

Ended(t) ==
  [turn[t] EXCEPT !.at = "ended", !.messages = <<>>, !.calls = <<>>, !.said = <<>>, !.whole = FALSE, !.seen = {}, !.ran = <<>>]
End(t) == turn' = [turn EXCEPT ![t] = Ended(t)]
IsSpent == tokens >= MaxTokens

\* A message goes to the thread and to the list of the turn, or to the list of
\* the session.
Record(t, message, next) ==
  IF IsStored
  THEN /\ thread' = Append(thread, message) /\ UNCHANGED shared
       /\ turn' = [turn EXCEPT ![t] = [next EXCEPT !.messages = IF next.at = "ended" THEN <<>> ELSE Append(@, message)]]
  ELSE shared' = Append(shared, message) /\ turn' = [turn EXCEPT ![t] = next] /\ UNCHANGED thread

Begun(t) == [NoTurn EXCEPT !.at = "routing", !.round = 1]

-----------------------------------------------------------------------------
\* Something is said.

\* The command line reads the next line when the turn has ended.
Ask(t) ==
  /\ surface = "repl" /\ turn[t].at = "idle" /\ Active = {}
  /\ Record(t, Message("user", t), IF IsSpent THEN Ended(t) ELSE Begun(t))
  /\ UNCHANGED <<surface, tokens, busy, cancelled, crashes, torn>>

\* Windows call at any time.
Chat(t) ==
  /\ surface = "daemon" /\ turn[t].at = "idle"
  /\ Record(t, Message("user", t), Begun(t))
  /\ torn' = (torn \/ Active # {})
  /\ UNCHANGED <<surface, tokens, busy, cancelled, crashes>>

\* The terminal takes a line also while it is busy, and forgets a cancellation.
Submit(t) ==
  /\ surface = "tui" /\ turn[t].at = "idle"
  /\ Record(t, Message("user", t), IF IsSpent THEN Ended(t) ELSE Begun(t))
  /\ busy' = ~IsSpent /\ cancelled' = FALSE
  /\ torn' = (torn \/ Active # {})
  /\ UNCHANGED <<surface, tokens, crashes>>

\* The guard of the daemon and of the terminal sends it back unheard.
Blocked(t) ==
  /\ surface # "repl" /\ turn[t].at = "idle" /\ End(t)
  /\ UNCHANGED <<surface, thread, shared, tokens, busy, cancelled, crashes, torn>>

\* The model and its provider are known: in a thread that is stored, the list is
\* made of the rows it has by now.
RequestStored(t) ==
  /\ IsStored /\ turn[t].at = "routing"
  /\ turn' = [turn EXCEPT ![t].at = "asking",
       ![t].messages = IF turn[t].round = 1 THEN ToChatMessages(Stored) ELSE @]
  /\ UNCHANGED <<surface, thread, shared, tokens, busy, cancelled, crashes, torn>>
RequestShared(t) ==
  /\ surface = "tui" /\ turn[t].at = "routing"
  /\ turn' = [turn EXCEPT ![t].at = "asking"]
  /\ UNCHANGED <<surface, thread, shared, tokens, busy, cancelled, crashes, torn>>

\* No model is eligible, its provider is gone, or the request fails: the error is
\* shown, and nothing is added to the thread.
MayFail(t) == turn[t].at \in {"routing", "asking", "forced"}
FailStored(t) ==
  /\ IsStored /\ MayFail(t) /\ End(t)
  /\ UNCHANGED <<surface, thread, shared, tokens, busy, cancelled, crashes, torn>>
FailShared(t) ==
  /\ surface = "tui" /\ MayFail(t) /\ End(t) /\ busy' = FALSE
  /\ UNCHANGED <<surface, thread, shared, tokens, cancelled, crashes, torn>>

-----------------------------------------------------------------------------
\* What can be heard of a reply: each turn may be of another model.  The ids of
\* calls are new ones in every round.
Heard == [reply \in Replies |-> UNION {Received(kind, reply) : kind \in Kinds}]
Named(calls, t) ==
  [i \in DOMAIN calls |-> [calls[i] EXCEPT !.id = <<t, turn[t].round, calls[i].id>>]]

\* Not of the code: how often models may ask for tools.
MayCall ==
  FoldSet(LAMBDA t, n : n + turn[t].round - 1, IF torn THEN 1 ELSE 0,
          {t \in Turns : turn[t].round > 0}) < MaxCalling

\* The stream has ended: without a call that was the answer.
Take(t, calls, said, whole) ==
  IF calls = <<>>
  THEN Record(t, Message("assistant", t), Ended(t))
  ELSE /\ MayCall
       /\ Record(t, Calling(t, Named(calls, t)),
            [turn[t] EXCEPT !.at = "calls", !.calls = Named(calls, t), !.said = Named(said, t), !.whole = whole])
Pay(chunks) == tokens' = IF chunks.paid THEN tokens + 1 ELSE tokens

ReplyToRepl(t) ==
  /\ surface = "repl" /\ turn[t].at = "asking"
  /\ \E reply \in Replies : \E chunks \in Heard[reply] :
       Take(t, chunks.calls, reply.calls, chunks.paid) /\ Pay(chunks)
  /\ UNCHANGED <<surface, busy, cancelled, crashes, torn>>

\* The daemon finds a call that the model wrote out as prose.
IsProse(reply, chunks) == chunks.calls = <<>> /\ chunks.text /\ reply.prose \in Salvageable
Salvaged(reply, chunks) == IF IsProse(reply, chunks) THEN <<reply.prose>> ELSE chunks.calls

ReplyToDaemon(t) ==
  /\ surface = "daemon" /\ turn[t].at = "asking"
  /\ \E reply \in Replies : \E chunks \in Heard[reply] :
       Take(t, Salvaged(reply, chunks),
            IF IsProse(reply, chunks) THEN <<reply.prose>> ELSE reply.calls, chunks.paid)
  /\ UNCHANGED <<surface, tokens, busy, cancelled, crashes, torn>>

\* The terminal adds the answer to its list too.
ReplyToTui(t) ==
  /\ surface = "tui" /\ turn[t].at = "asking" /\ ~cancelled
  /\ \E reply \in Replies : \E chunks \in Heard[reply] :
       /\ Take(t, chunks.calls, reply.calls, chunks.paid) /\ Pay(chunks)
       /\ busy' = (busy /\ chunks.calls # <<>>)
  /\ UNCHANGED <<surface, cancelled, crashes, torn>>

\* A chunk comes in after Esc: the terminal returns.
Interrupted(t) ==
  /\ surface = "tui" /\ turn[t].at = "asking" /\ cancelled
  /\ End(t) /\ busy' = FALSE
  /\ UNCHANGED <<surface, thread, shared, tokens, cancelled, crashes, torn>>

-----------------------------------------------------------------------------
Signature(call) == <<call.name, call.args>>

\* Mutant of IsRepeated: a call counts as made once its tool gave something.
IsRepeatedIfGiven(t, call) == Signature(call) \in turn[t].seen /\ call.args # NoArgs

IsRepeated(t, call) == Signature(call) \in turn[t].seen

OwesResult(t) == turn[t].at = "calls" /\ turn[t].calls # <<>>
IsRun(t, call) == call.name \in Allowed /\ ~IsRepeated(t, call)

\* The next call of the reply: refused, told that it was made before, or run
\* and fenced.  Whichever it is, its result is recorded.
Answer(t) ==
  /\ OwesResult(t)
  /\ LET call == Head(turn[t].calls)
         runs == IsRun(t, call)
     IN Record(t, ResultOf(t, call),
          [turn[t] EXCEPT !.calls = Tail(@),
             !.seen = IF runs THEN @ \cup {Signature(call)} ELSE @,
             !.ran = IF runs THEN Append(@, Signature(call)) ELSE @])
  /\ UNCHANGED <<surface, tokens, busy, cancelled, crashes, torn>>
AnswerInRepl(t) == surface = "repl" /\ Answer(t)
AnswerInDaemon(t) == surface = "daemon" /\ Answer(t)
AnswerInTui(t) == surface = "tui" /\ Answer(t)

\* The result of a call that ran is too long to be shown whole, and the file it
\* is put aside in cannot be written: the guard throws, and the turn ends with
\* calls that have no result.  A thread that is stored is read without them; the
\* terminal keeps its list as it is.
IsGuarded(t) == OwesResult(t) /\ IsRun(t, Head(turn[t].calls))
GuardFailsStored(t) ==
  /\ IsStored /\ IsGuarded(t) /\ End(t)
  /\ UNCHANGED <<surface, thread, shared, tokens, busy, cancelled, crashes, torn>>
GuardFailsShared(t) ==
  /\ surface = "tui" /\ IsGuarded(t) /\ End(t) /\ busy' = FALSE /\ torn' = TRUE
  /\ UNCHANGED <<surface, thread, shared, tokens, cancelled, crashes>>

\* All calls of the reply have their results: another round, or, when these are
\* used up, one request without tools that tells the model to answer.  Only the
\* list that is sent holds that demand.
IsLastRound(t) == turn[t].round = MaxRounds
HasAnswered(t) == turn[t].at = "calls" /\ turn[t].calls = <<>>
Onward(t) == [turn[t] EXCEPT !.at = "routing", !.round = @ + 1, !.said = <<>>, !.whole = FALSE]
Pressed(t) == [Onward(t) EXCEPT !.at = "forced", !.messages = IF IsStored THEN Append(@, Message("user", t)) ELSE @]

NextRoundInRepl(t) ==
  /\ surface = "repl" /\ HasAnswered(t)
  /\ turn' = [turn EXCEPT ![t] =
       IF IsLastRound(t) THEN Pressed(t) ELSE IF IsSpent THEN Ended(t) ELSE Onward(t)]
  /\ UNCHANGED <<surface, thread, shared, tokens, busy, cancelled, crashes, torn>>
NextRoundInDaemon(t) ==
  /\ surface = "daemon" /\ HasAnswered(t)
  /\ turn' = [turn EXCEPT ![t] = IF IsLastRound(t) THEN Pressed(t) ELSE Onward(t)]
  /\ UNCHANGED <<surface, thread, shared, tokens, busy, cancelled, crashes, torn>>
NextRoundInTui(t) ==
  /\ surface = "tui" /\ HasAnswered(t)
  /\ LET stops == ~IsLastRound(t) /\ (cancelled \/ IsSpent)
     IN /\ turn' = [turn EXCEPT ![t] =
             IF IsLastRound(t) THEN Pressed(t) ELSE IF stops THEN Ended(t) ELSE Onward(t)]
        /\ shared' = IF IsLastRound(t) THEN Append(shared, Message("user", t)) ELSE shared
        /\ busy' = (busy /\ ~stops)
  /\ UNCHANGED <<surface, thread, tokens, cancelled, crashes, torn>>

\* The answer that was demanded is kept where a thread is stored; the terminal
\* shows it, no more.
ForcedInRepl(t) ==
  /\ surface = "repl" /\ turn[t].at = "forced"
  /\ Record(t, Message("assistant", t), Ended(t))
  /\ \E paid \in BOOLEAN : Pay([paid |-> paid])
  /\ UNCHANGED <<surface, busy, cancelled, crashes, torn>>
ForcedInDaemon(t) ==
  /\ surface = "daemon" /\ turn[t].at = "forced"
  /\ Record(t, Message("assistant", t), Ended(t))
  /\ UNCHANGED <<surface, tokens, busy, cancelled, crashes, torn>>
ForcedInTui(t) ==
  /\ surface = "tui" /\ turn[t].at = "forced" /\ End(t) /\ busy' = FALSE
  /\ \E paid \in BOOLEAN : Pay([paid |-> paid])
  /\ UNCHANGED <<surface, thread, shared, cancelled, crashes, torn>>

\* Esc, which the terminal takes for a cancellation while it is busy.
Esc ==
  /\ surface = "tui" /\ busy /\ ~cancelled
  /\ cancelled' = TRUE
  /\ UNCHANGED <<surface, thread, shared, turn, tokens, busy, crashes, torn>>

\* The process dies and is started again: what it had written stays, and the
\* command line goes on in a new thread.
Crash ==
  /\ IsStored /\ crashes < MaxCrashes
  /\ crashes' = crashes + 1
  /\ turn' = [t \in Turns |-> IF turn[t].at = "idle" THEN turn[t] ELSE Ended(t)]
  /\ tokens' = 0
  /\ thread' = IF surface = "repl" THEN <<>> ELSE thread
  /\ UNCHANGED <<surface, shared, busy, cancelled, torn>>

-----------------------------------------------------------------------------
Repl(t) == Ask(t) \/ ReplyToRepl(t) \/ AnswerInRepl(t) \/ NextRoundInRepl(t) \/ ForcedInRepl(t)
Daemon(t) == Chat(t) \/ ReplyToDaemon(t) \/ AnswerInDaemon(t) \/ NextRoundInDaemon(t) \/ ForcedInDaemon(t)
Tui(t) ==
  \/ Submit(t) \/ RequestShared(t) \/ ReplyToTui(t) \/ Interrupted(t) \/ AnswerInTui(t)
  \/ NextRoundInTui(t) \/ ForcedInTui(t) \/ FailShared(t) \/ GuardFailsShared(t)
Next ==
  \/ \E t \in Turns :
       Repl(t) \/ Daemon(t) \/ Tui(t) \/ RequestStored(t) \/ FailStored(t) \/ GuardFailsStored(t) \/ Blocked(t)
  \/ Esc \/ Crash

Spec == Init /\ [][Next]_vars

-----------------------------------------------------------------------------
(* Properties. *)

\* As long as turns are taken one after the other, and no guard failed on a
\* result in the terminal, every request shows each reply with calls directly
\* followed by the results of exactly those calls, in what each kind of server
\* can tell of them: a server rejects anything else, and with it every later turn
\* of the thread (thread.ts, toChatMessages).
RequestsAreWellFormed ==
  \A t \in Turns : turn[t].at \in {"asking", "forced"} /\ ~torn =>
    \A kind \in Kinds : Binds(Wire(kind, Messages(t)))

\* Between turns the list of the terminal owes no result, or every request of the
\* session is refused from then on (run-tui.tsx, converse).
NothingIsOwed ==
  ~IsStored /\ Active = {} =>
    \A i \in DOMAIN shared : \A k \in DOMAIN shared[i].calls :
      \E j \in (i + 1)..Len(shared) : shared[j].of = shared[i].calls[k].id

\* However turns overlap in a stored thread, no request shows a call that has no
\* result in it (thread.ts, toChatMessages; sessions.ts, chat).
CallsSentAreAnswered ==
  \A t \in Turns : IsStored /\ turn[t].at \in {"asking", "forced"} =>
    LET sent == Messages(t)
    IN \A i \in DOMAIN sent : \A k \in DOMAIN sent[i].calls :
         \E j \in (i + 1)..Len(sent) : sent[j].of = sent[i].calls[k].id

\* What a turn acts on is what the model said: no call but its own, each with
\* its own arguments or, if the stream was cut off, with none.
CallsAreAsSaid ==
  \A t \in Turns : \A call \in ToSet(turn[t].calls) :
    \E said \in ToSet(turn[t].said) :
      /\ call.id = said.id /\ call.name = said.name
      /\ call.args = said.args \/ (call.args = NoArgs /\ ~turn[t].whole)

\* In one turn no tool is run twice with the same arguments, and none that chat
\* may not use (sessions.ts, seenCalls).
NothingRunsTwice ==
  \A t \in Turns :
    /\ \A i, j \in DOMAIN turn[t].ran : turn[t].ran[i] = turn[t].ran[j] => i = j
    /\ \A i \in DOMAIN turn[t].ran : turn[t].ran[i][1] \in Allowed

\* The first request of a turn ends with what was said, as long as the thread is
\* not longer than what is read of it.
QuestionIsAsked ==
  \A t \in Turns : turn[t].at = "asking" /\ turn[t].round = 1 /\ ~torn /\ Len(thread) <= Keep =>
    Messages(t) # <<>> /\ Last(Messages(t)) = Message("user", t)

\* A conversation goes on in its thread: also in one that is longer.
ThreadIsContinued ==
  \A t \in Turns : turn[t].at = "asking" /\ turn[t].round = 1 /\ ~torn =>
    Last(Messages(t)) = Message("user", t)
=============================================================================
