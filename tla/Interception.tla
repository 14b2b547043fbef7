---------------------------- MODULE Interception ----------------------------
(***************************************************************************)
(* The interception of BladeX's own tools in one session.  A model that is  *)
(* given the bladex_* tools answers a request with calls of the agent, of   *)
(* BladeX, or of both.  The proxy runs its own calls and cuts them out of   *)
(* what the agent gets (agency/runtime.py, agency/streams.py,               *)
(* interception.py); an answer that held nothing else goes through an inner *)
(* loop with the model first (innerloop.py).  What was cut is kept in a     *)
(* splice table, put back when the agent sends its history again            *)
(* (splice.py), stored with the turn and read back from the Hub after a     *)
(* restart; every round of a loop is stored as a turn of its own            *)
(* (loopledger.py, server/orchestration.py).                                *)
(*                                                                          *)
(* Everything runs on one event loop: an action is what runs between two    *)
(* awaits.  A message is the request it answers and whether its text has    *)
(* the preamble the agent was sent before a loop; that pair is its anchor.  *)
(***************************************************************************)
EXTENDS Naturals, Sequences, FiniteSets

CONSTANTS
    Ways,          \* how agents are answered: "whole", "events", "chunks"
    MaxRequests,   \* bound: requests of the session
    MaxOpen,       \* bound: those that are handled at once
    MaxLoops,      \* bound: those whose answer starts an inner loop
    RoundsCap,     \* BLADEX_INNER_LOOP_MAX_ROUNDS
    ScanTurns,     \* _SPLICE_RESTORE_SCAN_TURNS
    FaultBudget    \* bound: how often each fault happens, and all together;
                   \* a reply is "odd" with a call that is named late

ASSUME SplicingAssumption ==
    /\ Ways \subseteq {"whole", "events", "chunks"}
    /\ {MaxRequests, MaxOpen, MaxLoops, RoundsCap, ScanTurns} \subseteq Nat \ {0}
    /\ FaultBudget \in [{"crash", "fail", "leave", "any", "odd"} -> Nat]

VARIABLES
    way,        \* how the agent of this session is answered
    hist,       \* the answers the agent holds, oldest first
    waits,      \* the request the agent waits for, 0 when there is none
    reqs,       \* the requests, in the order they were sent
    splice,     \* SpliceLedger: [anchor, fresh], fresh while age_turns = 0
    loops,      \* InnerLoopLedger: rounds that wait to be stored
    recent,     \* RecentRequests: what was looped for already
    restored,   \* _splice_restored: the Hub was read for this session
    given,      \* history: the anchors the Hub held when it was read
    stored,     \* the turns handed to the pipeline or the disk, in order
    paid,       \* history: rounds whose call of the model came back
    left        \* the faults that may still happen

vars == <<way, hist, waits, reqs, splice, loops, recent, restored, given,
          stored, paid, left>>
memory == <<splice, loops, recent, restored, given>>
agent == <<way, hist, waits>>

Requests == 1..Len(reqs)

\* Where a request is: what its handler waits for.
Open == {"sent", "upstream", "tools", "loop", "final", "answer"}

Anchor(m) == <<m.of, m.pre>>
Anchors(recs) == {x.anchor : x \in recs}

Init ==
    /\ way \in Ways
    /\ hist = <<>> /\ waits = 0 /\ reqs = <<>>
    /\ splice = {} /\ loops = <<>> /\ recent = {}
    /\ restored = FALSE /\ given = {}
    /\ stored = <<>> /\ paid = {}
    /\ left = FaultBudget

Fault(f) == /\ left[f] > 0 /\ left["any"] > 0
            /\ left' = [left EXCEPT ![f] = @ - 1, !["any"] = @ - 1]
Odd(is) == IF is THEN Fault("odd") ELSE UNCHANGED left

-----------------------------------------------------------------------------
(* The agent.                                                               *)

\* A request as it is sent.  A side request (a title, a summary) has no
\* history and no tools.  `end` is how it ended, `todo` what is to be stored;
\* `met`, a history, says that another one came in before its turn was built.
\* `ours` is which calls of ours are in the reply it was last given, `cut` says
\* that some were cut out of what it is answered; `split`, that the agent sends
\* that answer back in more than one piece.
Fresh(main) ==
    [at |-> "sent", main |-> main, hist |-> IF main THEN hist ELSE <<>>,
     sees |-> {}, kind |-> "none", pre |-> FALSE, cut |-> FALSE,
     ours |-> {}, split |-> FALSE, round |-> 0, end |-> "open", met |-> FALSE, todo |-> <<>>]

\* What is left of a request that is over.
Over(q, at) ==
    [q EXCEPT !.at = at, !.hist = <<>>, !.sees = {}, !.todo = <<>>,
              !.ours = {}, !.split = FALSE]

Room == /\ Len(reqs) < MaxRequests
        /\ Cardinality({r \in Requests : reqs[r].at \notin {"done", "dead"}})
              < MaxOpen

\* The agent goes on with its conversation.
Ask ==
    /\ Room /\ waits = 0
    /\ reqs' = Append(reqs, Fresh(TRUE))
    /\ waits' = Len(reqs) + 1
    /\ UNCHANGED <<way, hist, memory, stored, paid, left>>

\* Another request of the same session, beside the conversation.  One is
\* enough to come between any two steps of another.
AskAside ==
    /\ Room /\ \A r \in Requests : reqs[r].main
    /\ reqs' = Append(reqs, Fresh(FALSE))
    /\ UNCHANGED <<agent, memory, stored, paid, left>>

\* What becomes of the handler of a client that is gone.  A stream is
\* cancelled and its `finally` stores what there is, in a task of its own that
\* is not cancelled with it; an answer in one piece is made to the end.
BugLeft(q) ==
    IF way = "whole" \/ q.at \notin Open \ {"sent"} THEN q
    ELSE [q EXCEPT !.at = "done", !.end = "left"]

Left(q) ==
    IF way = "whole" \/ q.at \notin Open \ {"sent"} THEN q
    ELSE [q EXCEPT !.at = "collect", !.end = "left"]

\* The agent's timeout: it closes the connection and sends the same again.
AskAgain ==
    /\ Room /\ waits # 0
    /\ Fault("leave")
    /\ reqs' = Append([reqs EXCEPT ![waits] = Left(@)],
                      [Fresh(TRUE) EXCEPT !.hist = reqs[waits].hist])
    /\ waits' = Len(reqs) + 1
    /\ UNCHANGED <<way, hist, memory, stored, paid>>

\* What the agent gets and keeps of an answered request.
Message(r) == [of |-> r, pre |-> reqs[r].pre, cut |-> reqs[r].cut,
               ours |-> reqs[r].ours, split |-> reqs[r].split]

Gets(r, good) ==
    IF waits = r
    THEN /\ waits' = 0
         /\ hist' = IF good THEN Append(reqs[r].hist, Message(r)) ELSE hist
    ELSE UNCHANGED <<waits, hist>>

-----------------------------------------------------------------------------
(* The request comes in.                                                    *)

\* What the last ScanTurns of the first n turns hold.
Held(n) == UNION {stored[i].recs : i \in {j \in 1..n : j + ScanTurns > n}}

\* _restore_splice: once per session and process, and only for an empty table.
Restores == splice = {} /\ ~restored
Table(held) ==
    IF Restores THEN {[anchor |-> a, fresh |-> FALSE] : a \in held} ELSE splice

\* splice_into_messages: which answers of the history get their calls back.  On
\* /v1/responses every item is a message of its own, and the anchor is that of
\* the whole answer.
InOnePiece(h) == {i \in DOMAIN h : ~h[i].split}
Spliced(h, recs) == {Anchor(h[i]) : i \in InOnePiece(h)} \cap Anchors(recs)

\* tick_and_prune: every request makes the records a turn older (max_age is off).
Aged(recs) == {[x EXCEPT !.fresh = FALSE] : x \in recs}

\* The Hub has the first n of the turns: its worker may be behind.
Prepare(r) ==
    /\ reqs[r].at = "sent"
    /\ \E n \in IF Restores THEN 0..Len(stored) ELSE {0} :
         LET table == Table(Held(n)) IN
         /\ reqs' = [s \in Requests |->
                IF s = r THEN [reqs[r] EXCEPT !.at = "upstream",
                                  !.sees = Spliced(reqs[r].hist, table)]
                ELSE IF reqs[s].at \in {"answer", "collect"}
                THEN [reqs[s] EXCEPT !.met = TRUE] ELSE reqs[s]]
         /\ splice' = Aged(table)
         /\ given' = IF Restores THEN Held(n) ELSE given
    /\ restored' = (restored \/ splice = {})
    /\ UNCHANGED <<agent, loops, recent, stored, paid, left>>

-----------------------------------------------------------------------------
(* The turn is built and stored.                                            *)

\* new_in_turn: what the table holds that no later request has aged.
BugNewInTurn(recs) == {x.anchor : x \in {y \in recs : ~y.fresh}}
NewInTurn(recs) == {x.anchor : x \in {y \in recs : y.fresh}}

\* drain: the rounds that wait are taken out of the buffer.
BugDrained == loops' = loops
Drained == loops' = <<>>

\* _enqueue_turn up to its first await: the turn and, after it, the rounds.
Turns(r, recs, bufs) ==
    <<[of |-> r, round |-> 0, recs |-> NewInTurn(recs)]>>
    \o [i \in 1..Len(bufs) |->
           [of |-> bufs[i][1], round |-> bufs[i][2], recs |-> {}]]

Built(r, q, recs, bufs) ==
    /\ reqs' = [reqs EXCEPT ![r] = [q EXCEPT !.at = "store",
                                             !.todo = Turns(r, recs, bufs)]]
    /\ Drained

\* The handler has what the agent is to get: an answer in one piece is stored
\* before it is sent, in the same step; a stream is sent first.
Answered(r, q, recs, bufs) ==
    IF way = "whole" THEN Built(r, q, recs, bufs)
    ELSE /\ reqs' = [reqs EXCEPT ![r] = [q EXCEPT !.at = "answer"]]
         /\ loops' = bufs

\* The last chunks go out.  In the chat protocol the calls that were cut run
\* after them; nobody waits for those.
Deliver(r) ==
    /\ reqs[r].at = "answer"
    /\ Gets(r, TRUE)
    /\ reqs' = [reqs EXCEPT ![r].at =
                   IF way = "chunks" /\ @ = "answer" /\ reqs[r].kind = "mixed"
                   THEN "tools" ELSE "collect"]
    /\ UNCHANGED <<way, memory, stored, paid, left>>

\* The `finally` of the stream: its task builds the turn when it first runs.
Collect(r) ==
    /\ reqs[r].at = "collect"
    /\ Built(r, reqs[r], splice, loops)
    /\ UNCHANGED <<agent, splice, recent, restored, given, stored, paid, left>>

\* pipeline.enqueue, or the disk when it raises: one turn after the other.
StoreNext(r) ==
    /\ reqs[r].at = "store" /\ Len(reqs[r].todo) > 1
    /\ stored' = Append(stored, Head(reqs[r].todo))
    /\ reqs' = [reqs EXCEPT ![r].todo = Tail(@)]
    /\ UNCHANGED <<agent, memory, paid, left>>

\* The last one.  An answer in one piece leaves after it; of a request that is
\* over nothing is kept but how it went.
StoreLast(r) ==
    /\ reqs[r].at = "store" /\ Len(reqs[r].todo) = 1
    /\ stored' = Append(stored, Head(reqs[r].todo))
    /\ reqs' = [reqs EXCEPT ![r] = Over(@, "done")]
    /\ Gets(r, reqs[r].end = "open")
    /\ UNCHANGED <<way, memory, paid, left>>

-----------------------------------------------------------------------------
(* The model answers, and BladeX's calls run.                               *)

\* SpliceRecord under the anchor of the message without our calls.
Record(a) == [anchor |-> a, fresh |-> TRUE]
BugAdded(r) == splice \cup {Record(<<r, TRUE>>)}
Added(r) == splice \cup {Record(<<r, FALSE>>)}

\* The call fails before there is a stream: the turn is stored as FAILED.
UpstreamFails(r) ==
    /\ reqs[r].at = "upstream"
    /\ Fault("fail")
    /\ Built(r, [reqs[r] EXCEPT !.end = "failed"], splice, loops)
    /\ UNCHANGED <<agent, splice, recent, restored, given, stored, paid>>

\* A call of ours is named in the first piece of it, or ("late") after that.  A
\* stream is cut while it comes, so by what that first piece says; a reply in
\* one piece, which every reply of a loop is, has no late ones.
Named == {"named"}
OurCalls == IF way = "whole" THEN Named ELSE Named \cup {"late"}

\* strip_bladex_calls and the strippers of the streams: the reply is handed on
\* without the calls that are known.
BugStripped(q) ==
    [q EXCEPT !.cut = TRUE, !.ours = IF q.round > 0 THEN @ ELSE @ \ Named]
Stripped(q) == [q EXCEPT !.cut = TRUE, !.ours = @ \ Named]

\* Another reply, or the text of the results, takes the place of one that held only ours.
Worded(q) == [q EXCEPT !.ours = {}]

\* No call that is known for ours: the answer goes through as it is.
SaysNothingOfOurs(r) ==
    /\ reqs[r].at = "upstream"
    /\ \E ours \in SUBSET (OurCalls \ Named) :
         /\ reqs[r].main \/ ours = {}
         /\ Odd(ours # {})
         /\ Answered(r, [reqs[r] EXCEPT !.ours = ours], splice, loops)
    /\ UNCHANGED <<agent, splice, recent, restored, given, stored, paid>>

\* Calls of both; one that is named late counts for the agent.  In the chat
\* protocol the end of the stream is not held back until ours have run.  In the
\* others a text with the word "tool_use" in it is taken for a call, too.
SaysMixed(r) ==
    /\ reqs[r].at = "upstream" /\ reqs[r].main
    /\ \E ours \in SUBSET OurCalls, split \in BOOLEAN :
         /\ Named \subseteq ours
         /\ split => way # "chunks"
         /\ Odd(ours # Named)
         /\ reqs' = [reqs EXCEPT ![r] =
                Stripped([reqs[r] EXCEPT
                    !.kind = "mixed", !.ours = ours, !.split = split,
                    !.at = IF way = "chunks" THEN "answer" ELSE "tools"])]
    /\ UNCHANGED <<agent, memory, stored, paid>>

\* request_fingerprint, of what was sent to the model.
Fingerprint(r) == <<reqs[r].hist, reqs[r].sees>>

\* Only calls of ours.  An answer in one piece to a request that was looped for
\* is a fixed text; a stream does not ask.  The preamble of a stream is out.
SaysPure(r) ==
    /\ reqs[r].at = "upstream" /\ reqs[r].main
    /\ IF way = "whole" /\ Fingerprint(r) \in recent
       THEN /\ Answered(r, reqs[r], splice, loops)
            /\ UNCHANGED recent
       ELSE /\ Cardinality({s \in Requests : reqs[s].round > 0}) < MaxLoops
            /\ recent' = IF way = "whole" THEN recent \cup {Fingerprint(r)}
                         ELSE recent
            /\ \E pre \in IF way = "whole" THEN {FALSE} ELSE BOOLEAN :
                 reqs' = [reqs EXCEPT ![r].kind = "pure", ![r].at = "loop",
                                      ![r].round = 1, ![r].pre = pre, ![r].ours = Named]
            /\ UNCHANGED loops
    /\ UNCHANGED <<agent, splice, restored, given, stored, paid, left>>

\* The calls of a mixed answer have run.
RunTools(r) ==
    /\ reqs[r].at = "tools"
    /\ splice' = Added(r)
    /\ IF way = "chunks"
       THEN /\ reqs' = [reqs EXCEPT ![r].at = "collect"]
            /\ UNCHANGED loops
       ELSE Answered(r, reqs[r], splice', loops)
    /\ UNCHANGED <<agent, recent, restored, given, stored, paid, left>>

\* A chat client has the end of its stream and closes it: what still ran is
\* cancelled, and with it the record that would have been made of it.
HangUp(r) ==
    /\ way = "chunks" /\ reqs[r].at = "tools"
    /\ reqs' = [reqs EXCEPT ![r].at = "collect", ![r].end = "left"]
    /\ UNCHANGED <<agent, memory, stored, paid, left>>

\* loop_ledger.record: every round of a loop that came to its end.
Rounds(r) == [n \in 1..reqs[r].round |-> <<r, n>>]

\* run_inner_loop: the calls of the round have run, and the model is asked.
LoopPays(r) ==
    /\ reqs[r].at = "loop"
    /\ paid' = paid \cup {<<r, reqs[r].round>>}
    /\ UNCHANGED <<agent, recent, restored, given, stored, left>>

\* It wants more of ours and there are rounds left.
LoopGoesOn(r) ==
    /\ LoopPays(r)
    /\ reqs[r].round < RoundsCap
    /\ reqs' = [reqs EXCEPT ![r].round = @ + 1]
    /\ UNCHANGED <<splice, loops>>

\* It answers, or wants more of ours and there are none left.
LoopAnswers(r) ==
    /\ LoopPays(r)
    /\ Answered(r, Worded(reqs[r]), splice, loops \o Rounds(r))
    /\ UNCHANGED splice

\* It wants calls of both: ours are cut out and run once more.
LoopMixes(r) ==
    /\ LoopPays(r)
    /\ \E split \in IF way = "chunks" THEN {FALSE} ELSE BOOLEAN :
         reqs' = [reqs EXCEPT ![r] =
                     Stripped([reqs[r] EXCEPT !.at = "final", !.split = split])]
    /\ loops' = loops \o Rounds(r)
    /\ UNCHANGED splice

\* The time is up before the model is asked: the results are the answer.
LoopRunsOut(r) ==
    /\ reqs[r].at = "loop"
    /\ Answered(r, Worded(reqs[r]), splice, loops \o Rounds(r))
    /\ UNCHANGED <<agent, splice, recent, restored, given, stored, paid, left>>

\* The model cannot be reached.  A stream ends with an error and is stored; an
\* answer in one piece is a 500, with nothing stored.
LoopFails(r) ==
    /\ reqs[r].at = "loop"
    /\ Fault("fail")
    /\ LET q == [reqs[r] EXCEPT !.end = "failed"] IN
       reqs' = [reqs EXCEPT ![r] = IF way = "whole" THEN Over(q, "done")
                                   ELSE [q EXCEPT !.at = "collect"]]
    /\ Gets(r, FALSE)
    /\ UNCHANGED <<way, memory, stored, paid>>

\* The calls of the last answer have run: the table has it under the text of
\* that answer alone.
Final(r) ==
    /\ reqs[r].at = "final"
    /\ splice' = Added(r)
    /\ Answered(r, reqs[r], splice', loops)
    /\ UNCHANGED <<agent, recent, restored, given, stored, paid, left>>

-----------------------------------------------------------------------------
\* The proxy dies and is started again: what is stored is all that is left.
Crash ==
    /\ Fault("crash")
    /\ reqs' = [r \in Requests |->
                   IF reqs[r].at = "done" THEN reqs[r]
                   ELSE Over(reqs[r], "dead")]
    /\ waits' = 0
    /\ splice' = {} /\ loops' = <<>> /\ recent' = {}
    /\ restored' = FALSE /\ given' = {}
    /\ UNCHANGED <<way, hist, stored, paid>>

Handler(r) ==
    \/ Prepare(r) \/ SaysNothingOfOurs(r) \/ SaysMixed(r) \/ SaysPure(r)
    \/ RunTools(r) \/ HangUp(r) \/ LoopGoesOn(r) \/ LoopAnswers(r) \/ LoopMixes(r)
    \/ LoopRunsOut(r) \/ Final(r) \/ Deliver(r) \/ Collect(r)
    \/ StoreNext(r) \/ StoreLast(r)

Next ==
    \/ Ask \/ AskAside \/ AskAgain \/ Crash
    \/ \E r \in Requests :
          Handler(r) \/ UpstreamFails(r) \/ LoopFails(r)

Spec == Init /\ [][Next]_vars

-----------------------------------------------------------------------------
(* What has to hold.                                                        *)

Main(r) == {i \in DOMAIN stored : stored[i].of = r /\ stored[i].round = 0}
RoundsIn(seq) == {<<seq[i].of, seq[i].round>> :
                     i \in {j \in DOMAIN seq : seq[j].round > 0}}
Todo == UNION {RoundsIn(reqs[r].todo) : r \in Requests}

\* The account of the model's calls adds up: a round the model was called for
\* is with its loop, in the buffer, on its way or stored, unless the process
\* died or its loop was cut short by the client or by a later failure; no round
\* is stored twice, whichever turn of the session took it along; and none stays
\* in the buffer when no request is left (loopledger.py, orchestration.py).
RoundsAreAccounted ==
    /\ \A p \in paid :
          \/ reqs[p[1]].at \in {"loop", "dead"}
          \/ reqs[p[1]].end \in {"failed", "left"}
          \/ left["crash"] < FaultBudget["crash"]
          \/ p \in RoundsIn(stored) \cup Todo
          \/ \E i \in DOMAIN loops : loops[i] = p
    /\ \A i, j \in DOMAIN stored :
          /\ stored[i].round > 0
          /\ <<stored[i].of, stored[i].round>> = <<stored[j].of, stored[j].round>>
          => i = j
    /\ (\A r \in Requests : reqs[r].at \in {"done", "dead"}) => loops = <<>>

\* The agent never gets a call it cannot run: what it was answered holds none
\* of ours, whichever way the answer came about; only the first reply of a
\* stream, which is cut while it comes, lets one through that is named late
\* (agency/runtime.py, _strip_execute_splice; agency/streams.py).
AgentNeverSeesOurs ==
    \A i \in DOMAIN hist :
       LET m == hist[i] IN
       m.ours # {} => /\ m.ours = {"late"} /\ way # "whole"
                      /\ reqs[m.of].round = 0

\* An earlier process ran the calls, and the Hub did not show them in time.
Lost(m, table) == left["crash"] < FaultBudget["crash"] /\ Anchor(m) \notin table

\* The model sees what it called.  When a history comes in, every answer of it
\* that lost calls of ours gets them back, except: the agent was answered
\* before they had run, and asks again first or closed the stream (chat); it
\* sends the answer in several pieces (responses); its text begins with the
\* preamble of a loop, which the anchor does not have; or an earlier process
\* ran them, and the Hub did not show them in time (splice.py, prepare_inbound).
ComesBack(m, sees, table) ==
    \/ Anchor(m) \in sees
    \/ m.pre \/ m.split
    \/ reqs[m.of].at = "tools"
    \/ way = "chunks" /\ reqs[m.of].kind = "mixed" /\ reqs[m.of].end = "left"
    \/ Lost(m, table)

CallsComeBack ==
    [][\A r \in Requests :
          (reqs[r].at = "sent" /\ reqs'[r].at = "upstream") =>
             \A i \in DOMAIN reqs[r].hist :
                reqs[r].hist[i].cut =>
                   ComesBack(reqs[r].hist[i], reqs'[r].sees, given')]_vars

\* What was cut survives the process: once its request is over, the record of
\* it is stored, unless a later request of the session came in between the
\* calls and the building of the turn and aged it (splice.py, new_in_turn and
\* tick_and_prune; _enqueue_turn).
InSomeTurn(a) == \/ \E i \in DOMAIN stored : a \in stored[i].recs
                 \/ \E r \in Requests : \E i \in DOMAIN reqs[r].todo :
                        a \in reqs[r].todo[i].recs
RecordsAreStored ==
    \A x \in splice :
       LET r == x.anchor[1]
       IN reqs[r].at = "done" => InSomeTurn(x.anchor) \/ reqs[r].met

\* A request that was answered, or given up by its client while its answer was
\* streamed, is stored once; one that failed too, unless it failed in the loop
\* of an answer in one piece (server/endpoints_*.py).
AnsweredIsStored ==
    \A r \in Requests :
       /\ Cardinality(Main(r)) <= 1
       /\ (reqs[r].at = "done" /\ ~(reqs[r].end = "failed" /\ reqs[r].kind = "pure"
                                    /\ way = "whole"))
          => Main(r) # {}

\* What the agent was answered and what the model did are both in the record that is stored
\* (interception and the streams of the agency).
RecordsAreComplete == RecordsAreStored /\ AnsweredIsStored

\* Each round of the model is accounted for once, and what a request leaves in the store
\* for its turn is complete: the two meet in the splice records and the loop ledger of a
\* session, which overlapping requests take from each other (orchestration.py,
\* _enqueue_turn).
TurnsAreComplete == RoundsAreAccounted /\ RecordsAreComplete

=============================================================================
