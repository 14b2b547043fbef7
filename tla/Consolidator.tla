---------------------------- MODULE Consolidator ----------------------------
(***************************************************************************)
(* The consolidator: a daemon that turns what the proxy wrote to the       *)
(* Memory Hub into facts of the Memory Index.                              *)
(*                                                                         *)
(*   proxy --append--> Hub (its log) --catch up--> view of the daemon      *)
(*     |                                     scan, distil, store, consume  *)
(*     +--only while the daemon is down-->  Index                          *)
(*                                                                         *)
(* The Hub is append only, so it is the sequence of the proxy's writes: a  *)
(* finished turn, the deletion of a turn, and what a user does to a fact.  *)
(* The daemon reads it as a RocksDB secondary: a prefix that grows only    *)
(* when it catches up.  A turn yields one fact, which bears its name.  The *)
(* language model is a choice of which turns fail; failures are bounded by *)
(* Budget.  A round's steps are the effects between which it may end: a    *)
(* crash of the process or an exception out of rebuild_from_hub.           *)
(*                                                                         *)
(* A definition named Bug... is a broken variant of the one after it: the  *)
(* mutation runs put it in its place and expect a property to fail.        *)
(***************************************************************************)
EXTENDS Integers, Sequences, FiniteSets

CONSTANTS
    Turns,       \* the turns the pipeline puts in the Hub
    Auxiliary,   \* those classified as dropped: consumed without distilling
    Poison,      \* those whose distillation is never valid JSON
    Notes,       \* the facts a user may enter with POST /admin/facts
    MaxTurns,    \* --max-turns, the turns distilled in one background round
    RetryMax,    \* BLADEX_DISTILL_RETRY_MAX
    Base,        \* --interval, in polls of the sleep
    MaxInterval, \* BLADEX_CONSOLIDATOR_IDLE_MAX_S, in polls
    IdleAfter,   \* BLADEX_CONSOLIDATOR_IDLE_AFTER
    Budget       \* how often each fault and each operator action may happen

Kinds == {"crash", "redis", "raise", "llm", "add", "stale", "event",
          "admin", "job", "any"}

ASSUME ConsolidatorAssumption ==
    /\ Auxiliary \subseteq Turns /\ Poison \subseteq Turns
    /\ Turns \cap Notes = {}
    /\ {MaxTurns, Base} \subseteq Nat \ {0}
    /\ {RetryMax, IdleAfter, MaxInterval} \subseteq Nat
    /\ MaxInterval >= Base
    /\ Budget \in [Kinds -> Nat]

VARIABLES
    \* The Hub, written by the proxy.
    hub,
    \* The Index (RocksDB meta): survives the daemon.
    facts,      \* None, Original, or the Hub position of the edit it shows
    consumed,   \* __meta__/p2_consumed/
    retry,      \* __meta__/p2_distill_retry/
    corrected,  \* __meta__/fact_corrected_ids
    journal,    \* the turns whose distillation is cached
    watermark,  \* __meta__/admin_events_replay_watermark, as a Hub position
    \* The Redis list of submitted jobs: TRUE asks for a full rebuild.
    jobs,
    \* The daemon process.
    pc,         \* where main and rebuild_from_hub are
    view,       \* how much of the Hub the secondary shows
    cachedAt,   \* the view _tombstone_cache was built from, 0 when it is None
    seen,       \* _HubWatermark._seen
    idle,       \* IdleBackoff: idle rounds and interval
    left,       \* polls left of the sleep
    erred,      \* the last background round raised
    round,      \* the round in progress
    \* History.
    gone,       \* the facts whose DELETE was answered "deleted"
    wiped,      \* the facts whose user events an interrupted rebuild took away
    swallowed,  \* the user events whose replay raised, as Hub positions
    unadded,    \* the turns whose fact could not be added
    givenUp,    \* the turns consumed because their distillation kept failing
    blame,      \* failures of a turn that were not the model's absence
    spent

index == <<facts, consumed, retry, corrected, journal, watermark>>
daemon == <<pc, view, cachedAt, seen, idle, left, erred, round>>
history == <<gone, wiped, swallowed, unadded, givenUp, blame>>
vars == <<hub, index, jobs, daemon, history, spent>>

Facts == Turns \cup Notes
None == 0
Original == -1

NoRound == [manual |-> FALSE, full |-> FALSE, found |-> FALSE, backlog |-> FALSE,
            batch |-> {}, keys |-> {}, new |-> {}]
Awake == [rounds |-> 0, interval |-> Base]

Init ==
    /\ hub = <<>>
    /\ facts = [f \in Facts |-> None]
    /\ consumed = {} /\ corrected = {} /\ journal = {}
    /\ retry = [t \in Turns |-> 0]
    /\ watermark = 0
    /\ jobs = <<>>
    /\ pc = "down" /\ view = 0 /\ cachedAt = 0 /\ seen = 0
    /\ idle = Awake /\ left = 0 /\ erred = FALSE /\ round = NoRound
    /\ gone = {} /\ wiped = {} /\ swallowed = {} /\ unadded = {} /\ givenUp = {}
    /\ blame = [t \in Turns |-> 0]
    /\ spent = [k \in Kinds |-> 0]

-----------------------------------------------------------------------------
(* What the Hub says. *)

\* The positions in lo+1..hi of the writes of these kinds about fact or turn f.
Writes(f, ops, lo, hi) == {i \in lo + 1 .. hi : hub[i].about = f /\ hub[i].op \in ops}

Latest(S) == IF S = {} THEN 0 ELSE CHOOSE i \in S : \A j \in S : j <= i

Written(ops, n) == {f \in Facts : Writes(f, ops, 0, n) # {}}
Stored(n) == Written({"put"}, n)       \* the turns in the first n writes
Deleted(n) == Written({"delete"}, n)   \* the turns under a TURN tombstone
Forgotten(n) == Written({"forget"}, n) \* the facts under a FACT tombstone

Spend(k) ==
    /\ spent[k] < Budget[k] /\ spent["any"] < Budget["any"]
    /\ spent' = [spent EXCEPT ![k] = @ + 1, !["any"] = @ + 1]

Up == pc # "down"

\* try_catch_up_with_primary: its error is swallowed and the view stays.
CatchUp ==
    \/ view' = Len(hub) /\ UNCHANGED spent
    \/ view # Len(hub) /\ view' = view /\ Spend("stale")

-----------------------------------------------------------------------------
(* The proxy. *)

HubAppend(op, f) == hub' = Append(hub, [op |-> op, about |-> f])

\* The pipeline worker stores a finished turn.
PutTurn(t) ==
    /\ t \notin Stored(Len(hub))
    /\ HubAppend("put", t)
    /\ UNCHANGED <<index, jobs, daemon, history, spent>>

\* DELETE /admin/turns: 404 without the turn.  cascade_delete_turn runs on the
\* proxy's read-only Index and fails as soon as it has a fact to delete.
DeleteTurn(t) ==
    /\ t \in Stored(Len(hub)) \ Deleted(Len(hub))
    /\ Spend("admin")
    /\ HubAppend("delete", t)
    /\ UNCHANGED <<index, jobs, daemon, history>>

\* DELETE /admin/facts: 404 without the fact; the tombstone, then the Index
\* unless the daemon holds its lock (202 deferred).
ForgetFact(f) ==
    /\ facts[f] # None
    /\ Spend("admin")
    /\ HubAppend("forget", f)
    /\ IF Up
         THEN UNCHANGED <<index, gone>>
         ELSE /\ facts' = [facts EXCEPT ![f] = None]
              /\ gone' = gone \cup {f}
              /\ UNCHANGED <<consumed, retry, corrected, journal, watermark>>
    /\ UNCHANGED <<jobs, daemon, wiped, swallowed, unadded, givenUp, blame>>

\* POST /admin/facts: the event unless the Index has the fact, then the Index.
RememberFact(f) ==
    /\ f \in Notes
    /\ Spend("admin")
    /\ IF facts[f] = None THEN HubAppend("remember", f) ELSE UNCHANGED hub
    /\ facts' = IF Up THEN facts ELSE [facts EXCEPT ![f] = Original]
    /\ gone' = gone \ {f}
    /\ UNCHANGED <<consumed, retry, corrected, journal, watermark>>
    /\ UNCHANGED <<jobs, daemon, wiped, swallowed, unadded, givenUp, blame>>

\* POST /admin/facts/{id}/correct: 404 without the fact; the event, then
\* correct_fact on the Index.
CorrectFact(f) ==
    /\ facts[f] # None
    /\ Spend("admin")
    /\ HubAppend("correct", f)
    /\ IF Up
         THEN UNCHANGED <<facts, corrected>>
         ELSE /\ facts' = [facts EXCEPT ![f] = Len(hub')]
              /\ corrected' = corrected \cup {f}
    /\ UNCHANGED <<consumed, retry, journal, watermark, jobs, daemon, history>>

\* `bladex storage rebuild` and the dashboard: SyncControl.submit.
SubmitJob(full) ==
    /\ Spend("job")
    /\ jobs' = Append(jobs, full)
    /\ UNCHANGED <<hub, index, daemon, history>>

-----------------------------------------------------------------------------
(* The loop of main. *)

Go(step) == pc' = step /\ UNCHANGED <<cachedAt, idle, left, erred>>

\* The secondary is opened, no tombstones are cached, the back-off is fresh.
Start ==
    /\ ~Up
    /\ pc' = "top" /\ view' = Len(hub) /\ seen' = Len(hub) /\ cachedAt' = 0
    /\ idle' = Awake /\ left' = 0 /\ erred' = FALSE /\ round' = NoRound
    /\ UNCHANGED <<hub, index, jobs, history, spent>>

\* No job waits: a background round, after traffic.mark().
Begin ==
    /\ pc = "top" /\ jobs = <<>>
    /\ CatchUp /\ seen' = view'
    /\ round' = NoRound
    /\ Go("fetch")
    /\ UNCHANGED <<hub, index, jobs, history>>

\* poll_cmd pops a job, at the top of the loop or out of the sleep.
TakeJob ==
    /\ jobs # <<>>
    /\ pc = "top" \/ (pc = "sleep" /\ left > 0)
    /\ jobs' = Tail(jobs)
    /\ round' = [NoRound EXCEPT !.manual = TRUE, !.full = Head(jobs)]
    /\ Go("fetch")
    /\ UNCHANGED <<hub, index, view, seen, history, spent>>

\* ledger.catch_up() of the round.
Fetch ==
    /\ pc = "fetch"
    /\ CatchUp
    /\ Go(IF round.full THEN "scan" ELSE "replay")
    /\ UNCHANGED <<hub, index, jobs, seen, round, history>>

\* IdleBackoff.observe of a round that did or did not find candidates.
Settle(found) ==
    IF found THEN Awake
    ELSE LET n == idle.rounds + 1
         IN  [rounds |-> IF n > IdleAfter THEN IdleAfter + 1 ELSE n,
              interval |-> IF n <= IdleAfter THEN idle.interval
                           ELSE IF 2 * idle.interval > MaxInterval THEN MaxInterval
                           ELSE 2 * idle.interval]

BugEnd ==
    /\ pc = "end"
    /\ CatchUp /\ seen' = view'
    /\ idle' = IF round.manual THEN Awake ELSE Settle(round.found)
    /\ IF round.manual \/ round.backlog
         THEN pc' = "top" /\ left' = 0
         ELSE pc' = "sleep" /\ left' = idle'.interval
    /\ erred' = IF round.manual THEN erred ELSE FALSE
    /\ round' = NoRound
    /\ UNCHANGED <<hub, index, jobs, cachedAt, history>>

\* The round returned: a job resets the back-off, a backlog goes on at once.
End ==
    /\ pc = "end"
    /\ idle' = IF round.manual THEN Awake ELSE Settle(round.found)
    /\ IF round.manual \/ round.backlog
         THEN pc' = "top" /\ left' = 0
         ELSE pc' = "sleep" /\ left' = idle'.interval
    /\ erred' = IF round.manual THEN erred ELSE FALSE
    /\ round' = NoRound
    /\ UNCHANGED <<hub, index, jobs, view, cachedAt, seen, history, spent>>

\* sleep_until_work: the Hub has something new ...
Wake ==
    /\ pc = "sleep" /\ left > 0 /\ jobs = <<>>
    /\ CatchUp /\ view' > seen
    /\ pc' = "top" /\ idle' = Awake /\ left' = 0
    /\ UNCHANGED <<hub, index, jobs, seen, cachedAt, erred, round, history>>

\* ... or it has not, and a second passes.
Doze ==
    /\ pc = "sleep" /\ left > 0 /\ jobs = <<>>
    /\ CatchUp /\ view' <= seen
    /\ left' = left - 1
    /\ UNCHANGED <<hub, index, jobs, pc, seen, cachedAt, idle, erred, round, history>>

WakeInTime ==
    /\ pc = "sleep" /\ left = 0
    /\ Go("top")
    /\ UNCHANGED <<hub, index, jobs, view, seen, round, history, spent>>

-----------------------------------------------------------------------------
(* Replaying what users did. *)

BugApplicable(f, lo) == Writes(f, {"remember", "correct"}, lo, view)

\* _apply_admin_event skips the correction of a fact under a tombstone.
Applicable(f, lo) ==
    Writes(f, {"remember"}, lo, view) \cup
    (IF f \in Forgotten(view) THEN {} ELSE Writes(f, {"correct"}, lo, view))

\* The events after position lo, in their order: each overwrites its fact and
\* a correction then leaves its mark.  _apply_admin_event swallows what one of
\* them raises: out raised before they wrote, half before they marked.
Replayed(lo, out, half) ==
    /\ facts' = [f \in Facts |->
         LET i == Latest(Applicable(f, lo) \ out)
         IN  IF i = 0 THEN facts[f]
             ELSE IF hub[i].op = "remember" THEN Original ELSE i]
    /\ corrected' = corrected \cup
         {f \in Facts : \E i \in Applicable(f, lo) \ (out \cup half) : hub[i].op = "correct"}
    /\ swallowed' = {i \in swallowed : i <= lo} \cup out \cup half
    /\ IF out \cup half = {} THEN UNCHANGED spent ELSE Spend("event")

Replays(lo) ==
    LET events == UNION {Applicable(f, lo) : f \in Facts}
    IN  \E out \in SUBSET events : \E half \in SUBSET (events \ out) : Replayed(lo, out, half)

\* The watermark moves to the last event of the view, swallowed or not.
Replayable == UNION {Writes(f, {"remember", "correct"}, 0, view) : f \in Facts}
MoveWatermark == watermark' = IF Latest(Replayable) > watermark THEN Latest(Replayable) ELSE watermark

\* _replay_new_admin_events, before the scan of the turns ...
Replay ==
    /\ pc = "replay"
    /\ Replays(watermark)
    /\ Go("replayed")
    /\ UNCHANGED <<hub, consumed, retry, journal, watermark, jobs, view, seen, round,
                   gone, wiped, unadded, givenUp, blame>>

\* ... and its watermark, once at the end.
ReplayEnd ==
    /\ pc = "replayed"
    /\ MoveWatermark
    /\ Go("scan")
    /\ UNCHANGED <<hub, facts, consumed, retry, corrected, journal, jobs, view, seen,
                   round, history, spent>>

-----------------------------------------------------------------------------
(* rebuild_from_hub: choosing and distilling the turns. *)

PutAt(t) == Latest(Writes(t, {"put"}, 0, view))
Before(t, S) == {u \in S : PutAt(u) < PutAt(t)}

\* scan_meta skips the turns in the tombstone cache, built at the first scan.
Candidates(cache) ==
    (Stored(view) \ Deleted(cache)) \ (IF round.full THEN {} ELSE consumed)

\* The loop stops at MaxTurns turns that are not auxiliary; jobs have no limit.
Scan ==
    /\ pc = "scan"
    /\ cachedAt' = IF cachedAt = 0 THEN view ELSE cachedAt
    /\ LET all == Candidates(cachedAt')
           real == all \ Auxiliary
           limited == ~round.manual /\ Cardinality(real) >= MaxTurns
           batch == IF limited THEN {t \in real : Cardinality(Before(t, real)) < MaxTurns}
                    ELSE real
           keys == IF limited
                     THEN {t \in all : \E u \in batch : u = t \/ t \in Before(u, all)}
                     ELSE all
       IN  /\ round' = [round EXCEPT !.found = all # {}, !.backlog = limited,
                                     !.batch = batch, !.keys = keys]
           /\ pc' = IF batch # {} THEN "distil" ELSE IF round.full THEN "wipe" ELSE "consume"
    /\ UNCHANGED <<hub, index, jobs, view, seen, idle, left, erred, history, spent>>

Call == round.batch \ journal
GaveUp(S) == {t \in S : retry[t] + 1 > RetryMax}
Ticked(S) == [t \in Turns |->
    IF t \notin S THEN retry[t] ELSE IF t \in GaveUp(S) THEN 0 ELSE retry[t] + 1]
Blamed(S) == [t \in Turns |->
    IF t \in S /\ blame[t] <= RetryMax THEN blame[t] + 1 ELSE blame[t]]

\* What the language model did with the calls of this round: fails raised,
\* bad answered without valid JSON.
Answer(fails, bad) ==
    /\ Poison \cap Call \subseteq fails \cup bad
    /\ IF fails = {} /\ bad \subseteq Poison THEN UNCHANGED spent ELSE Spend("llm")
    /\ journal' = journal \cup (Call \ (fails \cup bad))
    /\ blame' = Blamed(IF fails \cup bad = Call THEN bad ELSE fails \cup bad)

\* At least half of the calls failed (BLADEX_DISTILL_OUTAGE_ABORT_RATIO).
Outage(failed) == failed # {} /\ 2 * Cardinality(failed) >= Cardinality(Call)

BugDistilCalls(fails, bad) ==
    /\ pc = "distil" /\ Outage(fails \cup bad)
    /\ Answer(fails, bad)
    /\ retry' = Ticked(fails \cup bad)
    /\ consumed' = consumed \cup GaveUp(fails \cup bad)
    /\ givenUp' = givenUp \cup GaveUp(fails \cup bad)
    /\ round' = [round EXCEPT !.backlog = FALSE]
    /\ Go("end")
    /\ UNCHANGED <<hub, facts, corrected, watermark, jobs, view, seen, gone, wiped, swallowed, unadded>>

BugDistilUncounted(fails, bad) ==
    /\ pc = "distil" /\ Outage(fails \cup bad)
    /\ Answer(fails, bad)
    /\ round' = [round EXCEPT !.backlog = FALSE]
    /\ Go("end")
    /\ UNCHANGED <<hub, facts, consumed, retry, corrected, watermark, jobs, view, seen,
                   gone, wiped, swallowed, unadded, givenUp>>

\* The round is aborted; only unusable answers are counted, and the turns
\* that gave them too often are consumed.
DistilOutage(fails, bad) ==
    /\ pc = "distil" /\ Outage(fails \cup bad)
    /\ Answer(fails, bad)
    /\ retry' = Ticked(bad)
    /\ consumed' = consumed \cup GaveUp(bad)
    /\ givenUp' = givenUp \cup GaveUp(bad)
    /\ round' = [round EXCEPT !.backlog = FALSE]
    /\ Go("end")
    /\ UNCHANGED <<hub, facts, corrected, watermark, jobs, view, seen, gone, wiped, swallowed, unadded>>

\* A few failures: those turns are put off, or given up after RetryMax.
Distil(fails, bad) ==
    /\ pc = "distil" /\ ~Outage(fails \cup bad)
    /\ Answer(fails, bad)
    /\ LET failed == fails \cup bad
       IN  /\ retry' = Ticked(failed)
           /\ givenUp' = givenUp \cup GaveUp(failed)
           /\ round' = [round EXCEPT !.keys = @ \ (failed \ GaveUp(failed)),
                                     !.new = round.batch \ failed]
    /\ Go("judge")
    /\ UNCHANGED <<hub, facts, consumed, corrected, watermark, jobs, view, seen, gone, wiped, swallowed, unadded>>

\* The verdicts came: facts under a tombstone of the view are dropped.
Judge ==
    /\ pc = "judge"
    /\ round' = [round EXCEPT !.new = @ \ Forgotten(view)]
    /\ Go(IF round.full THEN "wipe" ELSE "store")
    /\ UNCHANGED <<hub, index, jobs, view, seen, history, spent>>

\* consolidate_turns raised, or most verdicts were degraded: nothing is
\* stored and nothing is consumed.
AbortRound ==
    /\ pc \in {"distil", "judge"}
    /\ Spend("llm")
    /\ round' = [round EXCEPT !.backlog = FALSE]
    /\ Go("end")
    /\ UNCHANGED <<hub, index, jobs, view, seen, history>>

-----------------------------------------------------------------------------
(* rebuild_from_hub: writing the Index. *)

\* clear() deletes in key order: first the marks of consumed turns ...
WipeMark(t) ==
    /\ pc = "wipe" /\ t \in consumed
    /\ consumed' = consumed \ {t}
    /\ UNCHANGED <<hub, facts, retry, corrected, journal, watermark, jobs, daemon,
                   history, spent>>

BugWipeFact(f) ==
    /\ pc = "wipe" /\ facts[f] # None
    /\ facts' = [facts EXCEPT ![f] = None]
    /\ UNCHANGED <<hub, consumed, retry, corrected, journal, watermark, jobs, daemon,
                   history, spent>>

\* ... and the retry counts, then the facts.
WipeFact(f) ==
    /\ pc = "wipe" /\ consumed = {} /\ facts[f] # None
    /\ facts' = [facts EXCEPT ![f] = None]
    /\ retry' = [t \in Turns |-> 0]
    /\ UNCHANGED <<hub, consumed, corrected, journal, watermark, jobs, daemon,
                   history, spent>>

WipeEnd ==
    /\ pc = "wipe" /\ consumed = {} /\ \A f \in Facts : facts[f] = None
    /\ retry' = [t \in Turns |-> 0]
    /\ Go("restore")
    /\ UNCHANGED <<hub, facts, consumed, corrected, journal, watermark, jobs, view, seen,
                   round, history, spent>>

\* _replay_admin_events: every event of the view ...
Restore ==
    /\ pc = "restore"
    /\ Replays(0)
    /\ wiped' = {}
    /\ Go("restored")
    /\ UNCHANGED <<hub, consumed, retry, journal, watermark, jobs, view, seen, round,
                   gone, unadded, givenUp, blame>>

\* ... and the watermark.
RestoreEnd ==
    /\ pc = "restored"
    /\ MoveWatermark
    /\ Go("store")
    /\ UNCHANGED <<hub, facts, consumed, retry, corrected, journal, jobs, view, seen,
                   round, history, spent>>

BugStoreFact(t) ==
    /\ pc = "store" /\ t \in round.new
    /\ round' = [round EXCEPT !.new = @ \ {t}]
    /\ facts' = [facts EXCEPT ![t] = Original]
    /\ UNCHANGED <<hub, consumed, retry, corrected, journal, watermark, jobs, pc, view,
                   cachedAt, seen, idle, left, erred, history, spent>>

\* add_fact of one new fact; a fact the user corrected gives way.
StoreFact(t) ==
    /\ pc = "store" /\ t \in round.new
    /\ round' = [round EXCEPT !.new = @ \ {t}]
    /\ facts' = IF t \in corrected THEN facts ELSE [facts EXCEPT ![t] = Original]
    /\ UNCHANGED <<hub, consumed, retry, corrected, journal, watermark, jobs, pc, view,
                   cachedAt, seen, idle, left, erred, history, spent>>

\* add_fact raised: the fact is skipped, its turn is consumed all the same.
StoreFails(t) ==
    /\ pc = "store" /\ t \in round.new \ corrected
    /\ Spend("add")
    /\ round' = [round EXCEPT !.new = @ \ {t}]
    /\ unadded' = unadded \cup {t}
    /\ UNCHANGED <<hub, index, jobs, pc, view, cachedAt, seen, idle, left, erred,
                   gone, wiped, swallowed, givenUp, blame>>

StoreEnd ==
    /\ pc = "store" /\ round.new = {}
    /\ Go("consume")
    /\ UNCHANGED <<hub, index, jobs, view, seen, round, history, spent>>

\* _mark_consumed and _clear_distill_retry.
Consume(t) ==
    /\ pc = "consume" /\ t \in round.keys
    /\ consumed' = consumed \cup {t}
    /\ retry' = [retry EXCEPT ![t] = 0]
    /\ round' = [round EXCEPT !.keys = @ \ {t}]
    /\ UNCHANGED <<hub, facts, corrected, journal, watermark, jobs, pc, view, cachedAt,
                   seen, idle, left, erred, history, spent>>

ConsumeEnd ==
    /\ pc = "consume" /\ round.keys = {}
    /\ Go("end")
    /\ UNCHANGED <<hub, index, jobs, view, seen, round, history, spent>>

-----------------------------------------------------------------------------
(* Failures. *)

\* The position of the last thing a user did to f, up to the watermark, of
\* those whose replay did not raise.
Labour(f) == Latest(Writes(f, {"remember", "correct"}, 0, watermark) \ swallowed)

\* An event about f raised, and the watermark moved past it: no incremental
\* round replays it again.
Skipped(f) == \E i \in swallowed : i <= watermark /\ hub[i].about = f

\* The facts that do not show it while clear() and the replay are under way.
Unrestored ==
    IF pc \notin {"wipe", "restore"} THEN {}
    ELSE {f \in Facts : Labour(f) > 0 /\ (facts[f] = None \/ facts[f] < Labour(f))}

\* The process ends: what it held in memory is lost, its job too.
Die ==
    /\ pc' = "down" /\ view' = 0 /\ cachedAt' = 0 /\ seen' = 0
    /\ idle' = Awake /\ left' = 0 /\ erred' = FALSE /\ round' = NoRound
    /\ wiped' = wiped \cup Unrestored
    /\ UNCHANGED <<hub, index, jobs, gone, swallowed, unadded, givenUp, blame>>

Crash == Up /\ Spend("crash") /\ Die

\* rpop raises when Redis is away, outside every try: main ends.
PollRaises == (pc = "top" \/ (pc = "sleep" /\ left > 0)) /\ Spend("redis") /\ Die

\* rebuild_from_hub raises: caught by the loop, which goes to sleep without
\* observe(), or by _run_manual.
Raise ==
    /\ pc \in {"scan", "wipe", "restore", "restored", "store", "consume"}
    /\ Spend("raise")
    /\ wiped' = wiped \cup Unrestored
    /\ IF round.manual
         THEN pc' = "top" /\ idle' = Awake /\ left' = 0 /\ erred' = erred
         ELSE pc' = "sleep" /\ idle' = idle /\ left' = idle.interval /\ erred' = TRUE
    /\ round' = NoRound
    /\ UNCHANGED <<hub, index, jobs, view, cachedAt, seen, gone, swallowed, unadded, givenUp, blame>>

-----------------------------------------------------------------------------
Proxy ==
    \/ \E t \in Turns : PutTurn(t) \/ DeleteTurn(t)
    \/ \E f \in Facts : ForgetFact(f) \/ RememberFact(f) \/ CorrectFact(f)
    \/ \E full \in BOOLEAN : SubmitJob(full)

DaemonSteps ==
    \/ Begin \/ TakeJob \/ Fetch \/ End \/ Wake \/ Doze \/ WakeInTime
    \/ Replay \/ ReplayEnd \/ Scan
    \/ \E fails \in SUBSET Call : \E bad \in SUBSET (Call \ fails) :
           DistilOutage(fails, bad) \/ Distil(fails, bad)
    \/ Judge \/ AbortRound
    \/ \E t \in Turns : WipeMark(t) \/ StoreFact(t) \/ StoreFails(t) \/ Consume(t)
    \/ \E f \in Facts : WipeFact(f)
    \/ WipeEnd \/ Restore \/ RestoreEnd \/ StoreEnd \/ ConsumeEnd

Next == Proxy \/ Start \/ DaemonSteps \/ Crash \/ PollRaises \/ Raise

Spec == Init /\ [][Next]_vars

\* The daemon is one process that runs its loop; nothing restarts it.
FairSpec == Spec /\ WF_vars(DaemonSteps)

-----------------------------------------------------------------------------
(* Properties. *)

\* A turn is marked consumed only when the Index has its fact or a reason not
\* to: it was auxiliary, forgotten, given up, or failed to be added, or an
\* interrupted full rebuild took away what the user had made of it, or the
\* replay skipped an event about it.  The order of clear() (marks, then
\* facts) and of a round (facts, then marks) is what keeps this through
\* crashes and exceptions.
ConsumedIsSettled ==
    \A t \in consumed :
        \/ facts[t] # None
        \/ t \in Auxiliary \cup unadded \cup givenUp \cup wiped \/ Skipped(t)
        \/ t \in Forgotten(Len(hub))

\* A turn is given up only after RetryMax + 1 failures of its own: unusable
\* answers, or failed calls in a round in which the model answered another.
\* An outage of the model, however long, burns no turn.
OutageBurnsNothing == \A t \in givenUp : blame[t] > RetryMax

\* What a user entered or corrected, up to the watermark of replayed events,
\* is in the Index, in its last form: no round replaces it by what the model
\* made of the turn.  Facts forgotten since, those an interrupted full
\* rebuild took away, and the events whose replay raised, are excepted: such
\* an event takes away nothing of what came before it.
LabourKept ==
    pc \notin {"wipe", "restore"} =>
        \A f \in Facts \ (Forgotten(Len(hub)) \cup wiped) :
            Labour(f) > 0 => /\ facts[f] # None
                             /\ f \in Turns => facts[f] >= Labour(f)

\* The fact of a turn whose DELETE was answered "deleted" never comes back:
\* neither its turn nor a correction that was still to be replayed revives it.
DeletedFactStaysGone == \A t \in gone \cap Turns : facts[t] = None

\* The daemon sleeps longer than its base interval only when nothing it could
\* have seen is left to do: a turn that arrived during a round, or was put
\* off by it, is never waited on with a backed-off interval.
BacksOffOnlyWhenIdle ==
    pc = "sleep" /\ ~erred /\ idle.interval > Base =>
        Stored(seen) \subseteq consumed \cup Deleted(cachedAt)

\* While the daemon runs, every stored turn is eventually consumed: failing
\* turns, poisoned ones, backlogs, back-off and jobs do not starve it.
TurnsAreConsumed ==
    \A t \in Turns :
        t \in Stored(Len(hub)) ~> t \in consumed \cup Deleted(Len(hub)) \/ ~Up

=============================================================================
