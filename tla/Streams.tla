------------------------------ MODULE Streams ------------------------------
(***************************************************************************)
(* providers/src/anthropic.ts, openai-compat.ts, ollama.ts and types.ts:   *)
(* what the adapters make of the stream a model's reply arrives in.  A     *)
(* model says something and makes calls; its server sends that as frames,  *)
(* those of several calls in any order; the connection may close early,    *)
(* between two frames or within one, which is then skipped like any line   *)
(* that does not parse.                                                    *)
(***************************************************************************)
EXTENDS Naturals, Sequences, FiniteSets, SequencesExt

CONSTANTS
  Pieces,  \* fragments in which the arguments of a call are sent
  NoArgs   \* the empty arguments, {}

ASSUME StreamsAssumption == Pieces \in Nat \ {0}

Kinds == {"anthropic", "openai-compat", "ollama"}

\* A reply makes a list of calls, each [id, name, args] with an id of its own.
CallFields == {"id", "name", "args"}
IsCallList(calls) ==
  /\ Len(calls) \in Nat /\ DOMAIN calls = 1..Len(calls)
  /\ \A i \in DOMAIN calls : DOMAIN calls[i] = CallFields
  /\ \A i, k \in DOMAIN calls : calls[i].id = calls[k].id => i = k

\* A call's JSON is whole with all its fragments.
Json(call) == [k \in 1..Pieces |-> <<call.args, k>>]

\* A fragment names nothing.
Nameless == ""

Opening(calls, i) == [type |-> "open", index |-> i, id |-> calls[i].id, name |-> calls[i].name, json |-> <<>>]
Fragment(calls, i, k) == [type |-> "piece", index |-> i, id |-> 0, name |-> Nameless, json |-> <<Json(calls[i])[k]>>]
Text == [type |-> "text", index |-> 0, id |-> 0, name |-> Nameless, json |-> <<>>]
Usage == [type |-> "usage", index |-> 0, id |-> 0, name |-> Nameless, json |-> <<>>]

\* The server of Ollama sends a call in one frame.
CallFrame(calls, i) == [Opening(calls, i) EXCEPT !.type = "call", !.json = Json(calls[i])]

\* Position p of the order w belongs to call w[p]: its opening, then its fragments.
Ordered(calls, w) ==
  [p \in DOMAIN w |->
     LET nth == Cardinality({q \in 1..p : w[q] = w[p]})
     IN IF nth = 1 THEN Opening(calls, w[p]) ELSE Fragment(calls, w[p], nth - 1)]
Orders(n) ==
  {w \in [1..(n * (Pieces + 1)) -> 1..n] :
     \A i \in 1..n : Cardinality({p \in DOMAIN w : w[p] = i}) = Pieces + 1}

Complete(kind, reply) ==
  LET words == IF reply.text THEN <<Text>> ELSE <<>>
      n == Len(reply.calls)
  IN IF kind = "ollama"
     THEN {words \o [i \in 1..n |-> CallFrame(reply.calls, i)] \o <<Usage>>}
     ELSE {words \o Ordered(reply.calls, w) \o <<Usage>> : w \in Orders(n)}

\* All that may arrive of a reply.
Arrivals(kind, reply) ==
  UNION {{SubSeq(frames, 1, n) : n \in 0..Len(frames)} : frames \in Complete(kind, reply)}

-----------------------------------------------------------------------------
\* The reader: the text so far, the slots of calls by index in the order they
\* were opened, and whether the usage was told.
NewReader == [text |-> FALSE, slots |-> <<>>, paid |-> FALSE]
SlotsOf(reader, index) == {j \in DOMAIN reader.slots : reader.slots[j].index = index}

\* Mutant of SlotFor: a fragment goes to the call opened last.
SlotOpenedLast(reader, frame) ==
  IF frame.type = "open" THEN SlotsOf(reader, frame.index) ELSE {Len(reader.slots)} \ {0}

SlotFor(reader, frame) == SlotsOf(reader, frame.index)

SlotOf(frame) == [index |-> frame.index, id |-> frame.id, name |-> frame.name, json |-> frame.json]
NewSlot(reader, frame) == [reader EXCEPT !.slots = Append(@, SlotOf(frame))]
Extended(reader, frame) ==
  [reader EXCEPT !.slots[CHOOSE j \in SlotFor(reader, frame) : TRUE].json = @ \o frame.json]

\* Anthropic opens a block for a call; a fragment of no open block is dropped.
ReadAnthropic(reader, frame) ==
  CASE frame.type = "text" -> [reader EXCEPT !.text = TRUE]
    [] frame.type = "usage" -> [reader EXCEPT !.paid = TRUE]
    [] frame.type = "open" -> NewSlot(reader, frame)
    [] frame.type = "piece" -> IF SlotFor(reader, frame) = {} THEN reader ELSE Extended(reader, frame)

\* OpenAI's deltas make their slot or add to it; the first one names the call.
ReadOpenAi(reader, frame) ==
  CASE frame.type = "text" -> [reader EXCEPT !.text = TRUE]
    [] frame.type = "usage" -> [reader EXCEPT !.paid = TRUE]
    [] frame.type \in {"open", "piece"} ->
         IF SlotFor(reader, frame) = {} THEN NewSlot(reader, frame) ELSE Extended(reader, frame)

ReadOllama(reader, frame) ==
  CASE frame.type = "text" -> [reader EXCEPT !.text = TRUE]
    [] frame.type = "usage" -> [reader EXCEPT !.paid = TRUE]
    [] frame.type = "call" -> NewSlot(reader, frame)

Read(kind, reader, frame) ==
  CASE kind = "anthropic" -> ReadAnthropic(reader, frame)
    [] kind = "openai-compat" -> ReadOpenAi(reader, frame)
    [] kind = "ollama" -> ReadOllama(reader, frame)

ReadAll(kind, frames) ==
  LET reader[p \in 0..Len(frames)] ==
        IF p = 0 THEN NewReader ELSE Read(kind, reader[p - 1], frames[p])
  IN reader[Len(frames)]

\* Some elements of a sequence, in their order.
Kept(s, keep) ==
  LET f[i \in 0..Len(s)] ==
        IF i = 0 THEN <<>> ELSE IF i \in keep THEN Append(f[i - 1], s[i]) ELSE f[i - 1]
  IN f[Len(s)]

\* What does not parse as JSON is called with no arguments.
Parsed(json, calls) ==
  IF \E c \in ToSet(calls) : json = Json(c)
  THEN (CHOOSE c \in ToSet(calls) : json = Json(c)).args
  ELSE NoArgs

\* The chunks of one request: whether there was text, the calls in the order of
\* their slots, and whether the usage is known.
Chunks(kind, reply, frames) ==
  LET read == ReadAll(kind, frames)
      named == Kept(read.slots, {j \in DOMAIN read.slots : read.slots[j].name # Nameless})
  IN [text |-> read.text, paid |-> read.paid,
      calls |-> [j \in DOMAIN named |->
        [id |-> named[j].id, name |-> named[j].name, args |-> Parsed(named[j].json, reply.calls)]]]

-----------------------------------------------------------------------------
\* The other direction.  A message is [role, calls, of, name]: the calls of a
\* reply, or the call that it is the result of and its tool.  What a server can
\* tell of which result is whose:

\* Anthropic: a result is a block of a user message and names its call.
WireAnthropic(messages) ==
  [i \in DOMAIN messages |->
     [role |-> IF messages[i].role = "tool" THEN "user" ELSE messages[i].role,
      calls |-> [k \in DOMAIN messages[i].calls |-> messages[i].calls[k].id],
      of |-> messages[i].of]]

WireOpenAi(messages) ==
  [i \in DOMAIN messages |->
     [role |-> messages[i].role,
      calls |-> [k \in DOMAIN messages[i].calls |-> messages[i].calls[k].id],
      of |-> messages[i].of]]

\* Ollama knows the tool only.
WireOllama(messages) ==
  [i \in DOMAIN messages |->
     [role |-> messages[i].role,
      calls |-> [k \in DOMAIN messages[i].calls |-> <<messages[i].calls[k].name>>],
      of |-> IF messages[i].role = "tool" THEN <<messages[i].name>> ELSE <<>>]]

Wire(kind, messages) ==
  CASE kind = "anthropic" -> WireAnthropic(messages)
    [] kind = "openai-compat" -> WireOpenAi(messages)
    [] kind = "ollama" -> WireOllama(messages)

\* What servers ask of a request: the results of a reply with calls directly
\* follow it in the order of the calls, and there are no others.
Binds(sent) ==
  \A i \in DOMAIN sent :
    /\ \A k \in DOMAIN sent[i].calls : i + k <= Len(sent) /\ sent[i + k].of = sent[i].calls[k]
    /\ sent[i].of # <<>> => \E j \in 1..(i - 1) : sent[i].of \in ToSet(sent[j].calls) /\ i <= j + Len(sent[j].calls)

Received(kind, reply) == {Chunks(kind, reply, frames) : frames \in Arrivals(kind, reply)}
=============================================================================
