--------------------------- MODULE ApprovalBroker ---------------------------
(***************************************************************************)
(* daemon/src/approvals.ts and the clients it serves: requests fan out to  *)
(* every attached window, the first answer wins, a timer denies what       *)
(* nobody answers.  A window (desktop/src/renderer/App.tsx) keeps one      *)
(* approval on screen.                                                     *)
(***************************************************************************)
EXTENDS Naturals, Sequences, SequencesExt

CONSTANTS
  Clients,      \* windows
  Requests,     \* approvals the engine will ask for, each once
  NoRequest,    \* nothing on screen
  MaxAttaches   \* bound: connections opened in all

ASSUME BrokerAssumption == NoRequest \notin Requests /\ MaxAttaches \in Nat

VARIABLES
  attached,   \* ApprovalBroker.clients
  pending,    \* ApprovalBroker.pending in insertion order; each entry runs a timer
  verdict,    \* what the promise of each request resolved to
  uplink,     \* approval.respond calls under way to the daemon
  downlink,   \* frames under way to each window, in order
  screen,     \* the approval state of each window
  answering,  \* the calls of approval.respond whose reply a window awaits
  yes,        \* history: requests some human said yes to
  attaches    \* connections opened so far

brokerVars == <<attached, pending, verdict>>
clientVars == <<screen, answering, yes>>
vars == <<brokerVars, clientVars, uplink, downlink, attaches>>

Requested(r) == [kind |-> "requested", request |-> r]
Resolved(r) == [kind |-> "resolved", request |-> r]
Reply(r) == [kind |-> "reply", request |-> r]

Outstanding(r) == r \in ToSet(pending)

Init ==
  /\ attached = {} /\ pending = <<>>
  /\ verdict = [r \in Requests |-> "unasked"]
  /\ uplink = {}
  /\ downlink = [c \in Clients |-> <<>>]
  /\ screen = [c \in Clients |-> NoRequest]
  /\ answering = {}
  /\ yes = {}
  /\ attaches = 0

\* Map.delete: the entry goes and the others keep their order.
Forgotten(r) == RemoveAt(pending, CHOOSE i \in DOMAIN pending : pending[i] = r)

\* The frames of a broadcast reach the attached windows only.
Broadcast(frame) ==
  [c \in Clients |-> IF c \in attached THEN Append(downlink[c], frame) ELSE downlink[c]]

-----------------------------------------------------------------------------
(* The daemon. *)

\* A joining window is told what is outstanding, oldest first.
Attach(c) ==
  /\ c \notin attached
  /\ attaches < MaxAttaches
  /\ attaches' = attaches + 1
  /\ attached' = attached \cup {c}
  /\ downlink' = [downlink EXCEPT ![c] = [i \in DOMAIN pending |-> Requested(pending[i])]]
  /\ UNCHANGED <<pending, verdict, uplink, clientVars>>

\* Mutant of Detach: the last window to leave takes the requests with it.
DetachForgetting(c) ==
  /\ c \in attached
  /\ attached' = attached \ {c}
  /\ pending' = IF attached = {c} THEN <<>> ELSE pending
  /\ downlink' = [downlink EXCEPT ![c] = <<>>]
  /\ uplink' = {m \in uplink : m.client # c}
  /\ answering' = {a \in answering : a[1] # c}
  /\ UNCHANGED <<verdict, screen, yes, attaches>>

\* The socket closes: frames and the call under way are lost with it, and the
\* rejected call leaves the window as it was.
Detach(c) ==
  /\ c \in attached
  /\ attached' = attached \ {c}
  /\ downlink' = [downlink EXCEPT ![c] = <<>>]
  /\ uplink' = {m \in uplink : m.client # c}
  /\ answering' = {a \in answering : a[1] # c}
  /\ UNCHANGED <<pending, verdict, screen, yes, attaches>>

Request(r) ==
  /\ verdict[r] = "unasked"
  /\ \/ /\ attached = {}
        /\ verdict' = [verdict EXCEPT ![r] = "denied"]
        /\ UNCHANGED <<pending, downlink>>
     \/ /\ attached # {}
        /\ verdict' = [verdict EXCEPT ![r] = "waiting"]
        /\ pending' = Append(pending, r)
        /\ downlink' = Broadcast(Requested(r))
  /\ UNCHANGED <<attached, clientVars, uplink, attaches>>

\* Mutant of Respond: nobody looks whether the request is still pending.
RespondAlways(m) ==
  /\ m \in uplink
  /\ uplink' = uplink \ {m}
  /\ pending' = IF Outstanding(m.request) THEN Forgotten(m.request) ELSE pending
  /\ verdict' = [verdict EXCEPT ![m.request] = IF m.granted THEN "granted" ELSE "denied"]
  /\ downlink' = [Broadcast(Resolved(m.request)) EXCEPT ![m.client] =
                    Append(@, Reply(m.request))]
  /\ UNCHANGED <<attached, clientVars, attaches>>

\* The first answer settles the request; a later one finds nothing pending and
\* changes nothing.  Either way the caller gets its reply.
Respond(m) ==
  /\ m \in uplink
  /\ uplink' = uplink \ {m}
  /\ \/ /\ Outstanding(m.request)
        /\ pending' = Forgotten(m.request)
        /\ verdict' = [verdict EXCEPT ![m.request] = IF m.granted THEN "granted" ELSE "denied"]
        /\ downlink' = [Broadcast(Resolved(m.request)) EXCEPT ![m.client] =
                          Append(@, Reply(m.request))]
     \/ /\ ~Outstanding(m.request)
        /\ downlink' = [downlink EXCEPT ![m.client] = Append(@, Reply(m.request))]
        /\ UNCHANGED <<pending, verdict>>
  /\ UNCHANGED <<attached, clientVars, attaches>>

\* Mutants of Timeout: the entry stays; the promise gets a verdict of its own.
TimeoutKeepingEntry(r) ==
  /\ Outstanding(r)
  /\ verdict' = [verdict EXCEPT ![r] = "denied"]
  /\ UNCHANGED <<attached, pending, clientVars, uplink, downlink, attaches>>

TimeoutExpired(r) ==
  /\ Outstanding(r)
  /\ pending' = Forgotten(r)
  /\ verdict' = [verdict EXCEPT ![r] = "expired"]
  /\ UNCHANGED <<attached, clientVars, uplink, downlink, attaches>>

\* Thirty minutes without an answer: denied, and no window is told.
Timeout(r) ==
  /\ Outstanding(r)
  /\ pending' = Forgotten(r)
  /\ verdict' = [verdict EXCEPT ![r] = "denied"]
  /\ UNCHANGED <<attached, clientVars, uplink, downlink, attaches>>

-----------------------------------------------------------------------------
(* A window. *)

Receive(c) ==
  /\ downlink[c] # <<>>
  /\ downlink' = [downlink EXCEPT ![c] = Tail(@)]
  /\ LET frame == Head(downlink[c]) IN
     /\ screen' = [screen EXCEPT ![c] =
                     IF frame.kind = "requested" THEN frame.request ELSE NoRequest]
     /\ answering' = IF frame.kind = "reply" THEN answering \ {<<c, frame.request>>}
                     ELSE answering
  /\ UNCHANGED <<brokerVars, uplink, yes, attaches>>

\* The user answers what is on screen; the card stays until the reply.  Bound: a
\* window has one call for each request under way (a second click would only
\* find nothing pending).
Answer(c, granted) ==
  /\ c \in attached
  /\ screen[c] # NoRequest /\ <<c, screen[c]>> \notin answering
  /\ uplink' = uplink \cup {[client |-> c, request |-> screen[c], granted |-> granted]}
  /\ answering' = answering \cup {<<c, screen[c]>>}
  /\ yes' = IF granted THEN yes \cup {screen[c]} ELSE yes
  /\ UNCHANGED <<brokerVars, screen, downlink, attaches>>

Next ==
  \/ \E c \in Clients :
       Attach(c) \/ Detach(c) \/ Receive(c) \/ \E granted \in BOOLEAN : Answer(c, granted)
  \/ \E r \in Requests : Request(r) \/ Timeout(r)
  \/ \E m \in uplink : Respond(m)

Spec == Init /\ [][Next]_vars

\* setTimeout fires.
FairSpec == Spec /\ \A r \in Requests : WF_vars(Timeout(r))

-----------------------------------------------------------------------------
TypeOK ==
  /\ attached \in SUBSET Clients
  /\ pending \in Seq(Requests)
  /\ verdict \in [Requests -> {"unasked", "waiting", "granted", "denied"}]
  /\ uplink \in SUBSET [client : Clients, request : Requests, granted : BOOLEAN]
  /\ downlink \in
       [Clients -> Seq([kind : {"requested", "resolved", "reply"}, request : Requests])]
  /\ screen \in [Clients -> Requests \cup {NoRequest}]
  /\ answering \in SUBSET (Clients \X Requests)
  /\ yes \in SUBSET Requests
  /\ attaches \in 0 .. MaxAttaches

\* A timer runs for exactly the requests the engine still waits for, so no
\* verdict can reach a promise twice or never.
PendingIsWaiting == ToSet(pending) = {r \in Requests : verdict[r] = "waiting"}

\* Each request is decided once, and granted only after a human said yes to that
\* request, however answers race, repeat, arrive late or are lost.
Decision == INSTANCE OneShotDecision
ImplementsDecision == Decision!Spec

\* No request waits for ever, even if every window leaves (daemon.test.ts, "times
\* out rather than parking a node forever").
EveryRequestIsDecided ==
  \A r \in Requests : verdict[r] = "waiting" ~> verdict[r] \in {"granted", "denied"}

\* A window with nothing under way shows a pending approval if there is one
\* (approvals.ts, "must see outstanding approvals, or a run looks hung").
ScreenShowsPending ==
  \A c \in attached :
    (downlink[c] = <<>> /\ (\A r \in Requests : <<c, r>> \notin answering) /\ pending # <<>>)
      => Outstanding(screen[c])
=============================================================================
