------------------------------ MODULE Streams -------------------------------
(***************************************************************************)
(* The three front ends of the proxy and their translation.  Every request *)
(* is turned into chat messages (parse_*_request); the chunks of the answer*)
(* go out as chat chunks (capture.py), as content blocks of /v1/messages   *)
(* (anthropic.py) or as items of /v1/responses (responses.py), while the   *)
(* same generator collects what is stored with the turn.  The agent        *)
(* assembles what it gets and sends it back with its next request.         *)
(*                                                                         *)
(* A chunk may hold a piece of thought, a piece of text and a piece of one *)
(* tool call; a piece is the number of its chunk.  Upstream names a call by*)
(* its index; id and name (`named`) need not come with its first piece.    *)
(* The client is a well-behaved agent of its protocol.                     *)
(***************************************************************************)
EXTENDS Naturals, Sequences, FiniteSets, SequencesExt

CONSTANTS
    Paths,        \* "chat", "messages", "responses"
    Calls,        \* indices of tool calls upstream
    MaxChunks     \* bound: chunks of the answer

ASSUME StreamsAssumption ==
    /\ Paths \subseteq {"chat", "messages", "responses"}
    /\ Calls \subseteq Nat \ {0} /\ MaxChunks \in Nat

VARIABLES
    path,    \* the endpoint
    phase,   \* "asked", "stream", "ended", "broken", "left", "stored", "refused"
    count,   \* chunks so far
    s,       \* the generator's locals and what the client has got
    kept     \* CaptureResult, as it is stored

streamVars == <<path, phase, count, s, kept>>

\* Chunks: nothing (usage only, or one whose fields are missing), a thought, or text
\* and a call, of which one is there.
Chunk == [think : BOOLEAN, text : BOOLEAN, call : Calls \cup {0}, named : BOOLEAN,
          args : BOOLEAN]
Sendable == {c \in Chunk : /\ c.think => ~c.text /\ c.call = 0
                           /\ c.call = 0 => ~c.named /\ ~c.args}

NoCall == [seen |-> FALSE, named |-> FALSE, parts |-> <<>>, at |-> 0]

\* text, reason and acc are collected for the turn; think, txt, item: what is open;
\* cur, next: current_block_idx, next_output_idx; first: tool_stream_idx (0: none).
\* The client has got blocks (items that were added), out (items that were done, as
\* their last event shows them) or, on the chat path, the chunks.  late, disordered
\* and unnamed are histories: text after a call, a call after one of a higher index,
\* a call whose first piece has no name.
NewStream == [text |-> <<>>, reason |-> <<>>, acc |-> [t \in Calls |-> NoCall],
          think |-> FALSE, txt |-> FALSE, item |-> FALSE, cur |-> 0, next |-> 0, first |-> 0,
          blocks |-> <<>>, out |-> <<>>, chunks |-> <<>>,
          late |-> FALSE, disordered |-> FALSE, unnamed |-> {}]

Nothing == [filled |-> FALSE, text |-> <<>>, calls |-> <<>>, status |-> "none"]

StreamsInit ==
    /\ path \in Paths /\ phase = "asked"
    /\ count = 0 /\ s = NewStream /\ kept = Nothing

Seen(x) == {t \in Calls : x.acc[t].seen}
InOrder(S) == SetToSortSeq(S, <)

----------------------------------------------------------------------------
(* What all three collect *)

\* The accumulator of a call: the name when it comes, the pieces as they come.
Note(x, c) ==
    [x EXCEPT !.acc[c.call].seen = TRUE,
              !.acc[c.call].named = @ \/ c.named,
              !.acc[c.call].parts = IF c.args THEN Append(@, count + 1) ELSE @,
              !.disordered = @ \/ (c.call \notin Seen(x) /\ \E t \in Seen(x) : t > c.call),
              !.unnamed = IF c.call \notin Seen(x) /\ ~c.named THEN @ \cup {c.call} ELSE @]

Call(t, named, parts) == [call |-> t, named |-> named, parts |-> parts]
Collected(x) ==
    [filled |-> TRUE, text |-> x.text,
     calls |-> [i \in 1 .. Cardinality(Seen(x)) |->
                  LET t == InOrder(Seen(x))[i] IN Call(t, x.acc[t].named, x.acc[t].parts)],
     status |-> "none"]

----------------------------------------------------------------------------
(* /v1/chat/completions: capture_stream passes chunks on and buffers them. *)

ChatChunk(x, c) ==
    LET a == [x EXCEPT !.chunks = Append(@, c @@ [piece |-> count + 1])]
        b == IF c.think THEN [a EXCEPT !.reason = Append(@, count + 1)] ELSE a
        d == IF c.text THEN [b EXCEPT !.text = Append(@, count + 1)] ELSE b
    IN IF c.call = 0 THEN d ELSE Note(d, c)

----------------------------------------------------------------------------
(* /v1/messages: content blocks, of which one is open at a time. *)

Block(kind, t, named) ==
    [kind |-> kind, call |-> t, named |-> named, parts |-> <<>>, open |-> TRUE]

\* content_block_start, _delta and _stop
StartBlock(x, kind, t) ==
    [x EXCEPT !.blocks = Append(@, Block(kind, t, t # 0 /\ x.acc[t].named)),
              !.cur = Len(x.blocks) + 1]
Delta(x, i, pieces) == [x EXCEPT !.blocks[i].parts = @ \o pieces]
Stop(x, i) == [x EXCEPT !.blocks[i].open = FALSE]

StopThinking(x) == IF x.think THEN [Stop(x, x.cur) EXCEPT !.think = FALSE] ELSE x
StopText(x) == IF x.txt THEN [Stop(x, x.cur) EXCEPT !.txt = FALSE] ELSE x

\* Thought goes first: once text or a call has begun it is only kept.
Thinking(x, c) ==
    LET a == [x EXCEPT !.reason = Append(@, count + 1)]
        b == IF a.think THEN a ELSE [StartBlock(a, "thinking", 0) EXCEPT !.think = TRUE]
    IN CASE ~c.think -> x
         [] c.think /\ (x.txt \/ Seen(x) # {}) -> a
         [] OTHER -> Delta(b, b.cur, <<count + 1>>)

BlockText(x, c) ==
    LET a == StopThinking(x)
        b == IF a.txt THEN a
             ELSE [StartBlock(a, "text", 0) EXCEPT !.txt = TRUE, !.late = @ \/ x.first # 0]
    IN IF ~c.text THEN x
       ELSE [Delta(b, b.cur, <<count + 1>>) EXCEPT !.text = Append(@, count + 1)]

\* The first call is streamed, the others are held back until the end: their pieces may
\* come interleaved, and blocks may not be nested.
BugBlockCall(x, c) ==
    LET a == Note(StopText(StopThinking(x)), c)
        b == IF c.call \in Seen(x) THEN a
             ELSE [StartBlock(a, "call", c.call) EXCEPT
                     !.first = IF @ = 0 THEN c.call ELSE @,
                     !.acc[c.call].at = Len(a.blocks) + 1]
    IN IF c.call = 0 THEN x
       ELSE IF c.args THEN Delta(b, b.acc[c.call].at, <<count + 1>>) ELSE b

BlockCall(x, c) ==
    LET a == Note(StopText(StopThinking(x)), c)
        b == IF a.first # 0 THEN a
             ELSE [StartBlock(a, "call", c.call) EXCEPT
                     !.first = c.call, !.acc[c.call].at = Len(a.blocks) + 1]
    IN IF c.call = 0 THEN x
       ELSE IF c.call = b.first /\ c.args
            THEN Delta(b, b.acc[c.call].at, <<count + 1>>)
            ELSE b

\* What was held back: start, all its pieces, stop.
HeldBack(x, t) ==
    LET a == StartBlock(x, "call", t) IN Stop(Delta(a, a.cur, a.acc[t].parts), a.cur)

BlocksEnd(x) ==
    LET a == StopText(StopThinking(x))
        b == IF a.first = 0 THEN a ELSE Stop(a, a.acc[a.first].at)
    IN FoldLeft(HeldBack, b, InOrder(Seen(b) \ {b.first}))

BlocksChunk(x, c) == BlockCall(BlockText(Thinking(x, c), c), c)

----------------------------------------------------------------------------
(* /v1/responses: items with an output index. *)

Item(kind, t, named, index) ==
    [kind |-> kind, call |-> t, named |-> named, parts |-> <<>>, index |-> index]
Done(kind, t, named, parts) == [kind |-> kind, call |-> t, named |-> named, parts |-> parts]

Reasoned(x, c) == IF c.think THEN [x EXCEPT !.reason = Append(@, count + 1)] ELSE x

\* The message takes index 0, whether or not calls came before it.
ItemText(x, c) ==
    LET a == IF x.item THEN x
             ELSE [x EXCEPT !.blocks = Append(@, Item("message", 0, TRUE, 0)), !.item = TRUE,
                            !.next = IF @ = 0 THEN 1 ELSE @, !.late = @ \/ Seen(x) # {}]
    IN IF ~c.text THEN x
       ELSE [a EXCEPT !.text = Append(@, count + 1)]

\* output_item.done of the message carries the whole text so far.
CloseMessage(x) ==
    IF x.item
    THEN [x EXCEPT !.out = Append(@, Done("message", 0, TRUE, x.text)),
                   !.item = FALSE]
    ELSE x

ItemCall(x, c) ==
    LET a == Note(CloseMessage(x), c) IN
    CASE c.call = 0 -> x
      [] c.call \in Seen(x) -> a
      [] OTHER -> [a EXCEPT !.blocks = Append(@, Item("call", c.call, c.named, x.next)),
                            !.acc[c.call].at = x.next, !.next = @ + 1]

DoneCall(x, t) ==
    [x EXCEPT !.out = Append(@, Done("call", t, x.acc[t].named, x.acc[t].parts))]

ItemsEnd(x) == FoldLeft(DoneCall, CloseMessage(x), InOrder(Seen(x)))

ItemsChunk(x, c) == ItemCall(ItemText(Reasoned(x, c), c), c)

\* response.completed shows the whole output once more.
Snapshot(x) ==
    (IF x.text = <<>> THEN <<>> ELSE <<Done("message", 0, TRUE, x.text)>>)
    \o [i \in 1 .. Cardinality(Seen(x)) |->
          LET t == InOrder(Seen(x))[i] IN Done("call", t, x.acc[t].named, x.acc[t].parts)]

----------------------------------------------------------------------------
(* The endpoints *)

\* A request of /v1/responses that leans on a state of the server, or whose input holds
\* nothing that becomes a message, is refused.
Refuse ==
    /\ phase = "asked" /\ path = "responses"
    /\ phase' = "refused"
    /\ UNCHANGED <<path, count, s, kept>>

\* call_model fails: a FAILED turn, and an error for the client.
CallFails ==
    /\ phase = "asked"
    /\ phase' = "stored" /\ kept' = [Nothing EXCEPT !.status = "failed"]
    /\ UNCHANGED <<path, count, s>>

Accept ==
    /\ phase = "asked" /\ phase' = "stream"
    /\ UNCHANGED <<path, count, s, kept>>

Takes(x, c) ==
    CASE path = "chat" -> ChatChunk(x, c)
      [] path = "messages" -> BlocksChunk(x, c)
      [] path = "responses" -> ItemsChunk(x, c)

Arrives ==
    /\ phase = "stream" /\ count < MaxChunks
    /\ \E c \in Sendable : s' = Takes(s, c)
    /\ count' = count + 1
    /\ UNCHANGED <<path, phase, kept>>

\* The end of the upstream's stream, by its end or by an error: the same for the client.
Ends ==
    /\ phase = "stream"
    /\ s' = CASE path = "chat" -> s
              [] path = "messages" -> BlocksEnd(s)
              [] path = "responses" -> ItemsEnd(s)
    /\ phase' \in {"ended", "broken"}
    /\ kept' = Collected(s)
    /\ UNCHANGED <<path, count>>

\* The client leaves: the generator is closed where it stands, nothing is filled in.
Leaves ==
    /\ phase = "stream"
    /\ phase' = "left"
    /\ UNCHANGED <<path, count, s, kept>>

\* The `finally` of the endpoint, shielded.
Stores ==
    /\ phase \in {"ended", "broken", "left"}
    /\ phase' = "stored"
    /\ kept' = [kept EXCEPT !.status = IF phase = "ended" THEN "ok" ELSE "failed"]
    /\ UNCHANGED <<path, count, s>>

\* An answer in one piece.  Its arguments are a text that parses, or does not (torn),
\* or none: /v1/messages sends an object, {} for the last two, and stores what it sent.
Whole(text, args) ==
    [NewStream EXCEPT
       !.text = IF text THEN <<1>> ELSE <<>>,
       !.acc = [t \in Calls |-> [seen |-> args[t] # "absent", named |-> TRUE, at |-> 0,
                                parts |-> IF args[t] = "none"
                                             \/ (path = "messages" /\ args[t] = "torn")
                                          THEN <<>> ELSE <<t + 1>>]]]

\* format_anthropic_response, format_responses_response; a chat answer goes out as it is.
WholeBlocks(x) ==
    LET text == IF x.text = <<>> /\ Seen(x) # {} THEN x
                ELSE Delta(StartBlock(x, "text", 0), 1, x.text)
    IN FoldLeft(HeldBack, IF text.blocks = <<>> THEN text ELSE Stop(text, 1),
                InOrder(Seen(x)))
WholeItems(x) == [x EXCEPT !.out = Snapshot(x)]
WholeChat(x) ==
    LET Part(k) == [text |-> k = 1, call |-> IF k = 1 THEN 0 ELSE k - 1,
                    named |-> k # 1, args |-> k # 1 /\ x.acc[k - 1].parts # <<>>,
                    piece |-> k]
    IN [x EXCEPT !.chunks =
          [i \in 1 .. Cardinality(Seen(x)) + Len(x.text) |->
             Part(InOrder({1 : p \in ToSet(x.text)} \cup {t + 1 : t \in Seen(x)})[i])]]

AnswersWhole ==
    /\ phase = "asked"
    /\ \E text \in BOOLEAN, args \in [Calls -> {"given", "torn", "none", "absent"}] :
         LET x == Whole(text, args) IN
         /\ s' = CASE path = "chat" -> WholeChat(x)
                   [] path = "messages" -> WholeBlocks(x)
                   [] path = "responses" -> WholeItems(x)
         /\ kept' = [Collected(x) EXCEPT !.status = "ok"]
    /\ phase' = "stored"
    /\ UNCHANGED <<path, count>>

StreamsNext ==
    \/ Refuse \/ CallFails \/ Accept \/ Arrives \/ Ends \/ Leaves \/ Stores \/ AnswersWhole
StreamsSpec == StreamsInit /\ [][StreamsNext]_streamVars

----------------------------------------------------------------------------
(* The agent, and its next request *)

\* What the agent holds after the answer: its text and its calls.
Pieces(q, Good(_)) == LET g == SelectSeq(q, Good) IN [i \in DOMAIN g |-> g[i].piece]
FromChunks(x) ==
    LET named == {t \in Calls : \E i \in DOMAIN x.chunks : x.chunks[i].call = t} IN
    [text |-> Pieces(x.chunks, LAMBDA c : c.text),
     calls |-> [i \in 1 .. Cardinality(named) |->
                  LET t == InOrder(named)[i] IN
                  Call(t, \E k \in DOMAIN x.chunks : x.chunks[k].call = t /\ x.chunks[k].named,
                       Pieces(x.chunks, LAMBDA c : c.call = t /\ c.args))]]

\* Blocks as they stand, or items as their last events show them.
FromParts(q, kind) ==
    LET texts == SelectSeq(q, LAMBDA b : b.kind = kind)
        calls == SelectSeq(q, LAMBDA b : b.kind = "call")
    IN [text |-> FlattenSeq([i \in DOMAIN texts |-> texts[i].parts]),
        calls |-> [i \in DOMAIN calls |-> Call(calls[i].call, calls[i].named, calls[i].parts)]]

HeldAnswer ==
    CASE path = "chat" -> FromChunks(s)
      [] path = "messages" -> FromParts(s.blocks, "text")
      [] path = "responses" -> FromParts(s.out, "message")

ChatMessage(role, text, calls) == [role |-> role, text |-> text, calls |-> calls]
Results(h) == [i \in DOMAIN h.calls |-> ChatMessage("tool", <<>>, <<h.calls[i]>>)]
Says == <<ChatMessage("user", <<0>>, <<>>)>>

\* _normalize_user_content: results become messages of their own, before the text.
BugUserContent(blocks) == blocks
UserContent(blocks) ==
    SelectSeq(blocks, LAMBDA b : b.role = "tool") \o SelectSeq(blocks, LAMBDA b : b.role = "user")

\* _normalize_user_message_content, for results in a user's message of /v1/responses
UserMessageContent(blocks) == UserContent(blocks)

\* _normalize_assistant_content: one message with text and calls.
AssistantContent(h) == <<ChatMessage("assistant", h.text, h.calls)>>

\* _normalize_input_item: each item is a message; a call is one with a single call.
InputItems(h) ==
    (IF h.text = <<>> THEN <<>> ELSE <<ChatMessage("assistant", h.text, <<>>)>>)
    \o [i \in DOMAIN h.calls |-> ChatMessage("assistant", <<>>, <<h.calls[i]>>)]

\* What the next request brings upstream: the answer, the results of its calls, and what
\* the user says, whose block may stand before the results.
ParsedBlocks(h) ==
    {AssistantContent(h) \o UserContent(b) : b \in {Results(h) \o Says, Says \o Results(h)}}
ParsedItems(h) ==
    {InputItems(h) \o Results(h) \o Says, InputItems(h) \o UserMessageContent(Says \o Results(h))}
Parsed(h) ==
    CASE path = "chat" -> {AssistantContent(h) \o Results(h) \o Says}
      [] path = "messages" -> ParsedBlocks(h)
      [] path = "responses" -> ParsedItems(h)

----------------------------------------------------------------------------
(* Properties *)

StreamsTypeOK ==
    /\ path \in Paths /\ count \in 0 .. MaxChunks
    /\ phase \in {"asked", "stream", "ended", "broken", "left", "stored", "refused"}
    /\ kept.status \in {"none", "ok", "failed"}

OpenBlocks == {i \in DOMAIN s.blocks : s.blocks[i].open}
HasAnswer == phase = "stored" /\ kept.filled

\* Blocks of /v1/messages follow one another: a block is open when its pieces come, no
\* other is, and none stays open.  Text after a call breaks that (the code only warns).
BlocksAreSerial ==
    path = "messages" =>
      /\ ~s.late => /\ Cardinality(OpenBlocks) <= 1
                    /\ OpenBlocks \subseteq {Len(s.blocks)}
      /\ HasAnswer => OpenBlocks = {}

\* The items of /v1/responses: each one that was added is done once, in the order and at
\* the index which response.completed shows, unless upstream begins a call before one of
\* a lower index or goes on with its text after a call.
IndexOf(it) == {b.index : b \in {s.blocks[i] : i \in {j \in DOMAIN s.blocks :
                   s.blocks[j].kind = it.kind /\ s.blocks[j].call = it.call}}}
ItemsAreSound ==
    path = "responses" /\ HasAnswer /\ ~s.late =>
      /\ s.out = Snapshot(s)
      /\ s.blocks # <<>> =>
           /\ Len(s.blocks) = Len(s.out)
           /\ {s.blocks[i].index : i \in DOMAIN s.blocks} = 0 .. Len(s.blocks) - 1
           /\ ~s.disordered => \A i \in DOMAIN s.out : IndexOf(s.out[i]) = {i - 1}

\* Both event protocols are kept (anthropic.py on serial blocks, responses.py on the
\* indices of the snapshot).
ProtocolHolds == BlocksAreSerial /\ ItemsAreSound

\* The turn that is stored is the answer the agent holds: the text, and for each call
\* its arguments and its name.  Missing is only a name that came after the first piece of
\* the call that was streamed, and repeated only text before and after a call.
StoredIsSent ==
    HasAnswer =>
      /\ (path = "responses" /\ s.late) \/ kept.text = HeldAnswer.text
      /\ {[call |-> c.call, parts |-> c.parts] : c \in ToSet(kept.calls)}
           = {[call |-> c.call, parts |-> c.parts] : c \in ToSet(HeldAnswer.calls)}
      /\ Len(kept.calls) = Len(HeldAnswer.calls)
      /\ \A c \in ToSet(kept.calls) \ ToSet(HeldAnswer.calls) :
           path = "messages" /\ c.call = s.first /\ c.call \in s.unnamed
      /\ s.disordered \/ [i \in DOMAIN kept.calls |-> kept.calls[i].call]
                           = [i \in DOMAIN HeldAnswer.calls |-> HeldAnswer.calls[i].call]

\* A tool message follows the assistant's message with its call, with nothing but tool
\* messages between: upstreams refuse anything else.
WellFormed(q) ==
    \A i \in DOMAIN q :
      q[i].role = "tool" =>
        \E j \in 1 .. i - 1 :
          /\ q[j].role = "assistant" /\ q[i].calls[1] \in ToSet(q[j].calls)
          /\ \A k \in j + 1 .. i - 1 : q[k].role = "tool"

\* The answer comes back from the agent as it was: its next request, parsed, holds the
\* same text and calls, each call with its result, and upstream accepts it.  Several
\* calls of one answer come apart on /v1/responses, where each is an item.
EchoIsFaithful ==
    HasAnswer =>
      \A q \in Parsed(HeldAnswer) :
        /\ FlattenSeq([i \in DOMAIN q |-> IF q[i].role = "assistant" THEN q[i].calls
                                                                   ELSE <<>>]) = HeldAnswer.calls
        /\ (path = "responses" /\ Len(HeldAnswer.calls) > 1) \/ WellFormed(q)

\* What was answered, what is stored and what comes back are the same
\* (parse_anthropic_request, parse_responses_request and the three generators).
AnswerComesBack == StoredIsSent /\ EchoIsFaithful
=============================================================================
