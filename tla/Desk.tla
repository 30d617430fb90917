-------------------------------- MODULE Desk --------------------------------
(***************************************************************************)
(* The windows of desktop/src/renderer/App.tsx on the sessions of the      *)
(* daemon.  What a user types becomes a call of chat.send or run.plan; the *)
(* daemon tells every attached window what it does, and answers the        *)
(* caller.  Frames arrive in the order they were sent; a socket that       *)
(* closes loses them, and a window that comes back asks for nothing it     *)
(* missed.  A window writes a row of its own for a call that failed.       *)
(* Which view is in front and the opening of workspaces are left out.      *)
(***************************************************************************)
EXTENDS SessionManager, Sequences, SequencesExt

CONSTANTS
  Windows,
  Chats,        \* the messages that read as questions; Objects are the requests
  MaxRounds,    \* bound: rounds of tool calls of a chat turn (6 in the code), a
                \* further call in a round counting like a round
  MaxClicks,    \* bound: what users type and click in all, a question counting
                \* as three, and sockets that close; at most MaxStarts
  MaxLost,      \* bound: windows that lose their socket, each once
  MaxQueued,    \* bound: calls a user queues on one socket
  MaxUnderWay   \* bound: frames under way to a window when the daemon speaks

VARIABLES
  attached,     \* windows whose socket is open
  lost,         \* windows whose socket closed once
  uplink,       \* calls under way to the daemon, per window
  waiting,      \* RendererClient.waiting, per window: the calls without a reply;
                \* equal ones, which no message is, count once
  downlink,     \* frames under way to each window
  sent,         \* messages typed so far
  clicks,       \* what counts for MaxClicks so far
  chat,         \* where the turn of each chat is
  rounds,       \* its rounds of tool calls so far
  screen,       \* what each window shows; of its thread the rows it was told and, wherever
                \* they stand between them, its own "error: ..." rows, by their messages
  said          \* history: the rows broadcast so far

deskVars == <<attached, lost, uplink, waiting, downlink, sent, clicks, chat, rounds,
              screen, said>>
allVars == <<vars, deskVars>>

Messages == Chats \cup Objects
Call(method, arg) == [method |-> method, arg |-> arg]

\* Notifications, and the reply to a call.
Turn(who, m, hasText) == [kind |-> "turn", who |-> who, of |-> m, hasText |-> hasText]
Frame(kind, x) == [kind |-> kind, of |-> x]
Reply(call, ok) == [kind |-> "reply", call |-> call, ok |-> ok]

Blank == [thread |-> <<>>, errors |-> {}, bubble |-> {}, busy |-> FALSE,
          plan |-> Unset, runId |-> Unset, nodes |-> Unset]

DeskInit ==
  /\ Init
  /\ attached = Windows /\ lost = {}
  /\ uplink = [w \in Windows |-> <<>>]
  /\ waiting = [w \in Windows |-> {}]
  /\ downlink = [w \in Windows |-> <<>>]
  /\ sent = {} /\ clicks = 0
  /\ chat = [c \in Chats |-> "unsent"]
  /\ rounds = [c \in Chats |-> 0]
  /\ screen = [w \in Windows |-> Blank]
  /\ said = <<>>

\* The rows a frame adds to the thread.
RowsOf(f) ==
  CASE f.kind = "turn" -> IF f.hasText THEN <<[who |-> f.who, of |-> f.of]>> ELSE <<>>
    [] f.kind \in {"tool", "toolResult"} -> <<[who |-> f.kind, of |-> f.of]>>
    [] OTHER -> <<>>

RowsUnderWay(w) == FlattenSeq([i \in DOMAIN downlink[w] |-> RowsOf(downlink[w][i])])

-----------------------------------------------------------------------------
(* The daemon. *)

\* daemon.approvals.broadcast, then the reply to the windows that wait for it.
Tell(frames, callers, reply) ==
  /\ \A w \in Windows : Len(downlink[w]) < MaxUnderWay
  /\ downlink' = [w \in Windows |->
       IF w \in attached
       THEN downlink[w] \o frames \o (IF w \in callers THEN reply ELSE <<>>)
       ELSE downlink[w]]
  /\ said' = said \o FlattenSeq([i \in DOMAIN frames |-> RowsOf(frames[i])])

Broadcast(frames) == Tell(frames, {}, <<>>)

Callers(call) == {w \in Windows : call \in waiting[w]}

DaemonOnly == UNCHANGED <<attached, lost, waiting, sent, clicks, screen>>
SessionsOnly == DaemonOnly /\ UNCHANGED <<uplink, chat, rounds>>

\* run.plan and chat.send up to their first wait: the guard throws, or the
\* message is echoed to everybody.
Refused(w, call) ==
  /\ call.method \in {"run.plan", "chat.send"}
  /\ Tell(<<>>, {w}, <<Reply(call, FALSE)>>)
  /\ UNCHANGED <<vars, chat, rounds>>

PlanAsked(call) ==
  \E o \in Objects :
    /\ call = Call("run.plan", o)
    /\ Plan(o)
    /\ Broadcast(<<Turn("user", o, TRUE)>>)
    /\ UNCHANGED <<chat, rounds>>

ChatAsked(call) ==
  \E c \in Chats :
    /\ call = Call("chat.send", c)
    /\ chat' = [chat EXCEPT ![c] = "streaming"]
    /\ Broadcast(<<Turn("user", c, TRUE)>>)
    /\ UNCHANGED <<vars, rounds>>

StartAsked(w, call) ==
  \E i \in Ids :
    /\ call = Call("run.start", i)
    /\ \/ /\ plans[i] = Nothing
          /\ Tell(<<>>, {w}, <<Reply(call, FALSE)>>)
          /\ UNCHANGED vars
       \/ /\ plans[i] # Nothing /\ stage[plans[i]] = "running"
          /\ Tell(<<>>, {w}, <<Reply(call, TRUE)>>)
          /\ UNCHANGED vars
       \/ /\ Start(i)
          /\ Tell(<<Frame("run.started", i)>>, {w}, <<Reply(call, TRUE)>>)
    /\ UNCHANGED <<chat, rounds>>

\* No window but the caller learns that a plan was turned down.
RejectAsked(w, call) ==
  \E i \in Ids :
    /\ call = Call("run.reject", i)
    /\ Reject(i) \/ (plans[i] = Nothing /\ UNCHANGED vars)
    /\ Tell(<<>>, {w}, <<Reply(call, TRUE)>>)
    /\ UNCHANGED <<chat, rounds>>

CancelAsked(w, call) ==
  \E i \in Ids :
    /\ call = Call("run.cancel", i)
    /\ Cancel(i) \/ (runs[i] = Nothing /\ UNCHANGED vars)
    /\ Tell(<<>>, {w}, <<Reply(call, TRUE)>>)
    /\ UNCHANGED <<chat, rounds>>

\* run.nodes answers with no rows for a run that is gone.
NodesAsked(w, call) ==
  \E i \in Ids :
    /\ call = Call("run.nodes", i)
    /\ Tell(<<>>, {w}, <<Reply(call, runs[i] # Nothing)>>)
    /\ UNCHANGED <<vars, chat, rounds>>

Dispatch(w) ==
  /\ uplink[w] # <<>>
  /\ uplink' = [uplink EXCEPT ![w] = Tail(@)]
  /\ LET call == Head(uplink[w]) IN
       \/ Refused(w, call) \/ PlanAsked(call) \/ ChatAsked(call) \/ StartAsked(w, call)
       \/ RejectAsked(w, call) \/ CancelAsked(w, call) \/ NodesAsked(w, call)
  /\ DaemonOnly

PlanFails(o) ==
  /\ PlanningFails(o)
  /\ LET call == Call("run.plan", o) IN Tell(<<>>, Callers(call), <<Reply(call, FALSE)>>)
  /\ SessionsOnly

PlanProposed(o) ==
  /\ Propose(o)
  /\ LET call == Call("run.plan", o) IN
       Tell(<<Frame("run.proposed", runId[o])>>, Callers(call), <<Reply(call, TRUE)>>)
  /\ SessionsOnly

RunFinishes(o) ==
  /\ RunSettles(o)
  /\ Broadcast(<<Frame("run.finished", runId[o])>>)
  /\ SessionsOnly

-----------------------------------------------------------------------------
(* A chat turn at the daemon. *)

ChatMoves(c, from, to) ==
  /\ chat[c] = from
  /\ chat' = [chat EXCEPT ![c] = to]
  /\ DaemonOnly /\ UNCHANGED <<uplink, vars>>

\* The stream of a round begins to arrive; further deltas change nothing.
Delta(c) ==
  /\ ChatMoves(c, "streaming", "spoken")
  /\ Broadcast(<<Frame("delta", c)>>)
  /\ UNCHANGED rounds

\* Routing, the provider in the middle of its stream, or the guard of a result throws.
ChatThrows(c) ==
  /\ \E from \in {"streaming", "spoken", "calling"} : ChatMoves(c, from, "failed")
  /\ LET call == Call("chat.send", c) IN Tell(<<>>, Callers(call), <<Reply(call, FALSE)>>)
  /\ UNCHANGED rounds

\* A round with tool calls commits its text, which may be none.  A call that is
\* repeated or not allowed is answered without a word; of the others the windows
\* see the call when it begins.
Round(c) ==
  /\ rounds[c] < MaxRounds
  /\ rounds' = [rounds EXCEPT ![c] = @ + 1]
  /\ \E from \in {"streaming", "spoken"}, hasText \in {FALSE, chat[c] = "spoken"} :
       \/ /\ ChatMoves(c, from, "streaming")
          /\ Broadcast(<<Turn("assistant", c, hasText)>>)
       \/ /\ ChatMoves(c, from, "calling")
          /\ Broadcast(<<Turn("assistant", c, hasText), Frame("tool", c)>>)

\* The tool returned and its result passed the guard: the windows see it, and the
\* next call, if the reply has one.
ToolReturns(c) ==
  \/ /\ ChatMoves(c, "calling", "streaming")
     /\ Broadcast(<<Frame("toolResult", c)>>)
     /\ UNCHANGED rounds
  \/ /\ rounds[c] < MaxRounds
     /\ ChatMoves(c, "calling", "calling")
     /\ Broadcast(<<Frame("toolResult", c), Frame("tool", c)>>)
     /\ rounds' = [rounds EXCEPT ![c] = @ + 1]

\* Mutant of Settle: an answer that is empty is not announced.
SettleUnlessEmpty(c) ==
  /\ \/ ChatMoves(c, "streaming", "done") /\ UNCHANGED said
        /\ downlink' = [w \in Windows |->
             IF w \in Callers(Call("chat.send", c))
             THEN Append(downlink[w], Reply(Call("chat.send", c), TRUE)) ELSE downlink[w]]
     \/ /\ ChatMoves(c, "spoken", "done")
        /\ \E hasText \in BOOLEAN :
             Tell(IF hasText THEN <<Turn("assistant", c, TRUE)>> ELSE <<>>,
                  Callers(Call("chat.send", c)), <<Reply(Call("chat.send", c), TRUE)>>)
  /\ UNCHANGED rounds

\* settle, then the reply: the answer of a round without calls, or the forced
\* one.  The model may have said nothing, or only to salvage a call from it.
Settle(c) ==
  /\ ChatMoves(c, "streaming", "done") \/ ChatMoves(c, "spoken", "done")
  /\ LET call == Call("chat.send", c) IN
       \E hasText \in BOOLEAN :
         Tell(<<Turn("assistant", c, hasText)>>, Callers(call), <<Reply(call, TRUE)>>)
  /\ UNCHANGED rounds

ChatStep(c) ==
  Delta(c) \/ ChatThrows(c) \/ Round(c) \/ ToolReturns(c) \/ Settle(c)

-----------------------------------------------------------------------------
(* A window. *)

WindowOnly == UNCHANGED <<vars, attached, lost, chat, rounds, said>>

\* client.call on an open socket.
Put(w, call) ==
  /\ uplink' = [uplink EXCEPT ![w] = Append(@, call)]
  /\ waiting' = [waiting EXCEPT ![w] = @ \cup {call}]

Clicks(w, weight) ==
  /\ clicks + weight <= MaxClicks /\ Len(uplink[w]) < MaxQueued
  /\ clicks' = clicks + weight

Weight(m) == IF m \in Chats THEN 3 ELSE 1
Method(m) == IF m \in Chats THEN "chat.send" ELSE "run.plan"

\* Mutant of Send: the window shows the message before the daemon echoes it.
SendShowing(w, m) ==
  /\ w \in attached /\ m \notin sent /\ Clicks(w, Weight(m))
  /\ sent' = sent \cup {m}
  /\ Put(w, Call(Method(m), m))
  /\ screen' = [screen EXCEPT ![w].busy = TRUE,
                              ![w].thread = Append(@, [who |-> "user", of |-> m])]
  /\ UNCHANGED downlink /\ WindowOnly

\* send, from the composer, a file or a rejected hunk; nothing is shown until
\* the daemon echoes it.  Without a socket the call throws, and nothing changes.
Send(w, m) ==
  /\ w \in attached /\ m \notin sent /\ Clicks(w, Weight(m))
  /\ sent' = sent \cup {m}
  /\ Put(w, Call(Method(m), m))
  /\ screen' = [screen EXCEPT ![w].busy = TRUE]
  /\ UNCHANGED downlink /\ WindowOnly

\* The card stays until run.started arrives, so it can be approved again.
Approve(w) ==
  /\ w \in attached /\ screen[w].plan # Unset
  /\ Clicks(w, 1)
  /\ Put(w, Call("run.start", screen[w].plan))
  /\ screen' = [screen EXCEPT ![w].busy = TRUE]
  /\ UNCHANGED <<sent, downlink>> /\ WindowOnly

TurnDown(w) ==
  /\ w \in attached /\ screen[w].plan # Unset /\ Clicks(w, 1)
  /\ Put(w, Call("run.reject", screen[w].plan))
  /\ screen' = [screen EXCEPT ![w].plan = Unset]
  /\ UNCHANGED <<sent, downlink>> /\ WindowOnly

ShowsCancel(w) == screen[w].busy /\ screen[w].runId # Unset

PressCancel(w) ==
  /\ w \in attached /\ ShowsCancel(w) /\ Clicks(w, 1)
  /\ Put(w, Call("run.cancel", screen[w].runId))
  /\ UNCHANGED <<sent, downlink, screen>> /\ WindowOnly

\* Mutant of Settled: a call that failed leaves the window at work.
SettledIfOk(busy, call, ok) == busy /\ ~(call.method = "chat.send" /\ ok)

\* Whether the window is at work once its call settled; a plan that was made is
\* announced, one that failed is not.
Settled(busy, call, ok) ==
  busy /\ ~(call.method = "chat.send" \/ (call.method = "run.plan" /\ ~ok))

\* The catch of send: a row for each message whose call failed.
ErrorRows(calls) == {k.arg : k \in {k \in calls : k.method \in {"chat.send", "run.plan"}}}

\* refreshRun: the nodes of a finished run, unless it is gone.
Refreshed(nodes, call, ok) == IF call.method = "run.nodes" /\ ok THEN call.arg ELSE nodes

\* The handler of a notification.
Shown(s, f) ==
  CASE f.kind = "turn" -> [s EXCEPT !.bubble = {}, !.thread = @ \o RowsOf(f)]
    [] f.kind \in {"tool", "toolResult"} -> [s EXCEPT !.thread = @ \o RowsOf(f)]
    [] f.kind = "delta" -> [s EXCEPT !.bubble = @ \cup {f.of}]
    [] f.kind = "run.proposed" ->
         [s EXCEPT !.plan = f.of, !.nodes = f.of, !.runId = f.of, !.busy = FALSE]
    [] f.kind = "run.started" -> [s EXCEPT !.plan = Unset]
    [] f.kind = "run.finished" -> [s EXCEPT !.busy = FALSE]

\* onMessage: a reply settles its call; run.finished asks for the nodes again.
Receive(w) ==
  /\ downlink[w] # <<>>
  /\ downlink' = [downlink EXCEPT ![w] = Tail(@)]
  /\ LET f == Head(downlink[w]) IN
     \/ /\ f.kind = "reply"
        /\ waiting' = [waiting EXCEPT ![w] = @ \ {f.call}]
        /\ screen' = [screen EXCEPT
             ![w].busy = Settled(@, f.call, f.ok),
             ![w].nodes = Refreshed(@, f.call, f.ok),
             ![w].errors = @ \cup ErrorRows(IF f.ok THEN {} ELSE {f.call})]
        /\ UNCHANGED uplink
     \/ /\ f.kind = "run.finished"
        /\ screen' = [screen EXCEPT ![w] = Shown(@, f)]
        /\ Put(w, Call("run.nodes", f.of))
     \/ /\ f.kind \notin {"reply", "run.finished"}
        /\ screen' = [screen EXCEPT ![w] = Shown(@, f)]
        /\ UNCHANGED <<uplink, waiting>>
  /\ UNCHANGED <<sent, clicks>> /\ WindowOnly

\* Mutant of Close: the calls that wait are left to wait.
CloseSilently(w) ==
  /\ w \in attached \ lost /\ Cardinality(lost) < MaxLost
  /\ clicks < MaxClicks /\ clicks' = clicks + 1
  /\ attached' = attached \ {w} /\ lost' = lost \cup {w}
  /\ uplink' = [uplink EXCEPT ![w] = <<>>]
  /\ downlink' = [downlink EXCEPT ![w] = <<>>]
  /\ UNCHANGED <<vars, waiting, sent, chat, rounds, screen, said>>

\* The socket closes: what is under way is lost and every call that waits is
\* rejected, while the handlers go on at the daemon.
Close(w) ==
  /\ w \in attached \ lost /\ Cardinality(lost) < MaxLost
  /\ clicks < MaxClicks /\ clicks' = clicks + 1
  /\ attached' = attached \ {w} /\ lost' = lost \cup {w}
  /\ uplink' = [uplink EXCEPT ![w] = <<>>]
  /\ downlink' = [downlink EXCEPT ![w] = <<>>]
  /\ waiting' = [waiting EXCEPT ![w] = {}]
  /\ screen' = [screen EXCEPT
       ![w].busy = @ /\ \A k \in waiting[w] : k.method \notin {"chat.send", "run.plan"},
       ![w].errors = @ \cup ErrorRows(waiting[w])]
  /\ UNCHANGED <<vars, sent, chat, rounds, said>>

\* scheduleReconnect: a new socket, and nothing else.
Reconnect(w) ==
  /\ w \notin attached
  /\ attached' = attached \cup {w}
  /\ UNCHANGED <<vars, lost, uplink, waiting, downlink, sent, clicks, chat, rounds,
                 screen, said>>

DeskNext ==
  \/ Tick /\ UNCHANGED deskVars
  \/ \E o \in Objects : PlanFails(o) \/ PlanProposed(o) \/ RunFinishes(o)
  \/ \E c \in Chats : ChatStep(c)
  \/ \E w \in Windows :
       \/ Dispatch(w) \/ Receive(w) \/ Close(w) \/ Reconnect(w)
       \/ Approve(w) \/ TurnDown(w) \/ PressCancel(w)
       \/ \E m \in Messages : Send(w, m)

DeskSpec == DeskInit /\ [][DeskNext]_allVars

-----------------------------------------------------------------------------
\* Every window whose socket never closed shows, or is about to show, the same
\* conversation in the same order, each row once, whichever window it was typed
\* in, but for the rows each writes itself for its own calls that failed
\* (sessions.ts, "every attached front-end sees the same stream"; App.tsx, send).
WindowsShowTheStream ==
  \A w \in Windows \ lost : screen[w].thread \o RowsUnderWay(w) = said

\* A live bubble belongs to a turn that goes on: once everything sent has
\* arrived, a window streams only while a turn does, or after one that threw.
BubblesBelongToTurns ==
  \A w \in Windows \ lost :
    (downlink[w] = <<>> /\ screen[w].bubble # {}) =>
      \E c \in screen[w].bubble : chat[c] \in {"spoken", "failed"}

\* A window is at work for a reason: a message it waits to hear about, a run
\* that goes on, a frame that will say so, or an approval of a plan that
\* another window had turned down.
BusyForAReason ==
  \A w \in Windows \ lost :
    screen[w].busy =>
      \/ waiting[w] # {} \/ downlink[w] # <<>>
      \/ \E o \in Objects : stage[o] \in {"planning", "running"}
      \/ rejected # {}

\* Nobody waits for a call that nothing will settle: it is on its way to the
\* daemon, worked on there, or its reply is on its way back.
InHand(w, call) ==
  \/ call \in ToSet(uplink[w])
  \/ \E ok \in BOOLEAN : Reply(call, ok) \in ToSet(downlink[w])
  \/ call.method = "run.plan" /\ stage[call.arg] = "planning"
  \/ call.method = "chat.send" /\ chat[call.arg] \notin {"unsent", "done", "failed"}

CallsAreInHand == \A w \in Windows : \A call \in waiting[w] : InHand(w, call)

\* While a run goes on, some window shows the button that cancels it
\* (06-ui-design.md, "Cancel is always one keystroke or click away").
CancelIsOneClickAway ==
  \A o \in Objects :
    (stage[o] = "running" /\ \A w \in Windows : w \in attached \ lost /\ downlink[w] = <<>>)
      => \E w \in Windows : ShowsCancel(w) /\ screen[w].runId = runId[o]
=============================================================================
