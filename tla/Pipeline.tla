------------------------------ MODULE Pipeline ------------------------------
(***************************************************************************)
(* The storage pipeline of the proxy: every finished turn is put on a      *)
(* Redis stream (or, when that cannot be done, in an overflow file), and   *)
(* one background worker moves it from the stream to the Memory Hub.       *)
(*                                                                         *)
(*   request task  --XADD-->  stream  --XREADGROUP-->  worker --put--> Hub *)
(*        |                      ^                       XACK, XDEL        *)
(*        +--spill--> files --replay                                       *)
(*                                                                         *)
(* One action is what runs between two awaits, or between two effects on   *)
(* different stores where a crash of the process can fall.  Redis, the     *)
(* disk and RocksDB are modelled by what the code's calls do to them; the  *)
(* number of their failures is bounded by Budget.                          *)
(*                                                                         *)
(* A definition named Bug... is a broken variant of the one after it: the  *)
(* mutation runs put it in its place and expect a property to fail.        *)
(***************************************************************************)
EXTENDS Integers, Sequences, FiniteSets

CONSTANTS
    Turns,           \* the finished turns that reach _enqueue_turn
    Heavy,           \* those whose packed value exceeds heavy_payload_bytes
    QueueMaxLen,     \* queue_max_len, the back-pressure threshold on XLEN
    Batch,           \* count=10 of read() and read_pending() in the main loop
    FlushBatch,      \* _FLUSH_BATCH
    ReclaimInterval, \* _RECLAIM_INTERVAL
    MaxRetries,      \* _LEDGER_MAX_RETRIES
    Budget           \* how often each fault may happen in a behaviour

\* "any" bounds the sum of the others.
Faults == {"outage", "reply", "hub", "disk", "unlink", "crash", "stop", "flush", "any"}

ASSUME PipelineAssumption ==
    /\ Heavy \subseteq Turns
    /\ "startup" \notin Turns /\ "nobody" \notin Turns
    /\ QueueMaxLen \in Nat
    /\ {Batch, FlushBatch, ReclaimInterval, MaxRetries} \subseteq Nat \ {0}
    /\ Budget \in [Faults -> Nat]

VARIABLES
    \* Redis: survives crashes of the proxy.
    log,      \* everything ever XADDed; the index is the entry id
    present,  \* the entries not XDELed yet (XLEN is their number)
    cursor,   \* last-delivered-id of the consumer group
    pel,      \* the group's pending entries list
    stale,    \* the pending entries idle for _RECLAIM_MIN_IDLE_MS or more
    redisUp,
    \* Disks: survive crashes of the proxy.
    files,    \* overflow_*.msgpack in name order
    hub,      \* the entry ids that are keys of the Memory Hub
    \* The proxy process.
    phase,    \* "down" | "starting" | "serving" | "stopping"
    pipeline, \* app.state.pipeline is not None
    cooled,   \* _REDIS_RECOVER_COOLDOWN_S have passed since the last attempt
    task,     \* where the _enqueue_turn task of each turn is
    replay,   \* the running DiskSpill.replay: who awaits it, files left, step
    wpc,      \* where PipelineWorker._run is
    loops,    \* _loop_count, modulo ReclaimInterval
    job,      \* the batch each caller of _process_one works through
    flush,    \* the running force_drain(apply=True)
    spent     \* the faults that happened

redis == <<log, present, cursor, pel, stale>>
stored == <<files, hub>>
process == <<phase, pipeline, cooled>>
worker == <<wpc, loops>>
vars == <<redis, redisUp, stored, process, task, replay, worker, job, flush, spent>>

Forms == {"full", "truncated", "torn", "empty"}
Copies == [turn : Turns, form : Forms]
TaskStates == {"new", "recovering", "replaying", "check", "recheck", "add",
               "addTruncated", "spill", "fallback", "done", "lost"}
Actors == {"worker", "flush"}
FlushSteps == {"idle", "deliver", "pending", "info", "ids", "scan", "ack", "del"}

Ids == 1..Len(log)
Decodable(copy) == copy.form \in {"full", "truncated"}

Idle == [batch |-> {}, step |-> "put", tries |-> 0]
NoReplay == [by |-> "nobody", left |-> 0, step |-> "xadd"]
NoFlush == [pc |-> "idle", seen |-> {}, last |-> 0, pend |-> {}, from |-> 0, todo |-> {}]

Init ==
    /\ log = <<>> /\ present = {} /\ cursor = 0 /\ pel = {} /\ stale = {}
    /\ redisUp = TRUE
    /\ files = <<>> /\ hub = {}
    /\ phase = "down" /\ pipeline = FALSE /\ cooled = TRUE
    /\ task = [t \in Turns |-> "new"]
    /\ replay = NoReplay
    /\ wpc = "off" /\ loops = 0
    /\ job = [a \in Actors |-> Idle]
    /\ flush = NoFlush
    /\ spent = [f \in Faults |-> 0]

-----------------------------------------------------------------------------
(* Helpers. *)

Spend(f) ==
    /\ spent[f] < Budget[f] /\ spent["any"] < Budget["any"]
    /\ spent' = [spent EXCEPT ![f] = @ + 1, !["any"] = @ + 1]

\* A Redis command that was executed: its reply arrives, or the client times out.
Answered(ok) == IF ok THEN UNCHANGED spent ELSE Spend("reply")

\* The least and the greatest id of S, as sets of at most one.
Firsts(S) == {e \in S : \A d \in S : e <= d}
Lasts(S) == {e \in S : \A d \in S : d <= e}

\* The n smallest ids of S: what a COUNT n command returns.
FirstOf(S, n) == {e \in S : Cardinality({d \in S : d < e}) < n}

Undelivered == {e \in present : e > cursor}

\* _parse_raw_entries: one undecodable entry makes the whole call raise, an
\* entry without data is skipped.
Raises(B) == \E e \in B : log[e].form = "torn"
Parsed(B) == IF Raises(B) THEN {} ELSE {e \in B : Decodable(log[e])}

XAdd(copy) ==
    /\ log' = Append(log, copy)
    /\ present' = present \cup {Len(log) + 1}
    /\ UNCHANGED <<cursor, pel, stale>>

XReadGroup(B) ==
    /\ pel' = pel \cup B
    /\ cursor' \in IF B = {} THEN {cursor} ELSE Lasts(B)
    /\ UNCHANGED <<log, present, stale>>

XAutoClaim(B) ==
    /\ stale' = stale \ B
    /\ UNCHANGED <<log, present, cursor, pel>>

XAck(e) ==
    /\ pel' = pel \ {e}
    /\ stale' = stale \ {e}
    /\ UNCHANGED <<log, present, cursor>>

XDel(e) ==
    /\ present' = present \ {e}
    /\ UNCHANGED <<log, cursor, pel, stale>>

-----------------------------------------------------------------------------
(* The request side: _enqueue_turn and PipelineRedis.enqueue. *)

Goto(t, s) == task' = [task EXCEPT ![t] = s]

\* The reply to the agent is finished: the shielded task starts.
Begin(t) ==
    /\ phase = "serving" /\ task[t] = "new"
    /\ \/ pipeline /\ Goto(t, "check") /\ UNCHANGED cooled
       \/ ~pipeline /\ cooled /\ cooled' = FALSE /\ Goto(t, "recovering")
       \/ ~pipeline /\ ~cooled /\ Goto(t, "fallback") /\ UNCHANGED cooled
    /\ UNCHANGED <<redis, redisUp, stored, phase, pipeline, replay, worker, job, flush, spent>>

\* _try_recover_redis reaches Redis (it was up, or redis-server was started):
\* a new pipeline and a new worker, and the overflow files are replayed.
RecoverOk(t) ==
    /\ task[t] = "recovering" /\ redisUp
    /\ pipeline' = TRUE
    /\ wpc' = "top" /\ loops' = 0
    /\ replay' = [by |-> t, left |-> Len(files), step |-> "xadd"]
    /\ Goto(t, "replaying")
    /\ UNCHANGED <<redis, redisUp, stored, phase, cooled, job, flush, spent>>

\* Redis is not reached, or another home holds the claim on the stream (InstanceClaim).
RecoverFail(t) ==
    /\ task[t] = "recovering"
    /\ Goto(t, "fallback")
    /\ UNCHANGED <<redis, redisUp, stored, process, replay, worker, job, flush, spent>>

\* backlog_len() before anything else: XLEN against queue_max_len.
CheckBacklog(t) ==
    /\ task[t] = "check"
    /\ Goto(t, IF ~redisUp THEN "spill"
               ELSE IF Cardinality(present) >= QueueMaxLen THEN "recheck" ELSE "add")
    /\ UNCHANGED <<redis, redisUp, stored, process, replay, worker, job, flush, spent>>

\* Waits for room for ever.
BugRecheckBacklog(t) ==
    /\ task[t] = "recheck"
    /\ Cardinality(present) < QueueMaxLen \/ ~redisUp
    /\ Goto(t, IF redisUp THEN "add" ELSE "spill")
    /\ UNCHANGED <<redis, redisUp, stored, process, replay, worker, job, flush, spent>>

\* After _wait_for_drain: still full means truncation for a heavy turn, the
\* disk for the others.
RecheckBacklog(t) ==
    /\ task[t] = "recheck"
    /\ Goto(t, IF ~redisUp THEN "spill"
               ELSE IF Cardinality(present) < QueueMaxLen THEN "add"
               ELSE IF t \in Heavy THEN "addTruncated" ELSE "spill")
    /\ UNCHANGED <<redis, redisUp, stored, process, replay, worker, job, flush, spent>>

\* XADD.  On a timeout the client cannot tell whether Redis executed it.
Add(t) ==
    /\ task[t] \in {"add", "addTruncated"}
    /\ \/ /\ redisUp
          /\ XAdd([turn |-> t, form |-> IF task[t] = "add" THEN "full" ELSE "truncated"])
          /\ \E ok \in BOOLEAN : Answered(ok) /\ Goto(t, IF ok THEN "done" ELSE "spill")
       \/ ~redisUp /\ Goto(t, "spill") /\ UNCHANGED <<redis, spent>>
    /\ UNCHANGED <<redisUp, stored, process, replay, worker, job, flush>>

\* What a failed write_bytes leaves behind.
Remains(t) == {<<>>} \cup {<<[turn |-> t, form |-> f]>> : f \in {"empty", "torn"}}

\* Returns as if the write had succeeded.
BugSpillToDisk(t) ==
    /\ task[t] \in {"spill", "fallback"}
    /\ \/ files' = Append(files, [turn |-> t, form |-> "full"]) /\ UNCHANGED spent
       \/ Spend("disk") /\ \E r \in Remains(t) : files' = files \o r
    /\ Goto(t, "done")
    /\ UNCHANGED <<redis, redisUp, hub, process, replay, worker, job, flush>>

\* DiskSpill.spill: PipelineRedis's own (then a failure reaches the except of
\* _enqueue_turn), or the last resort of _enqueue_turn (then it is final).
SpillToDisk(t) ==
    /\ task[t] \in {"spill", "fallback"}
    /\ \/ /\ files' = Append(files, [turn |-> t, form |-> "full"])
          /\ Goto(t, "done") /\ UNCHANGED spent
       \/ /\ Spend("disk")
          /\ \E r \in Remains(t) : files' = files \o r
          /\ Goto(t, IF task[t] = "spill" THEN "fallback" ELSE "lost")
    /\ UNCHANGED <<redis, redisUp, hub, process, replay, worker, job, flush>>

-----------------------------------------------------------------------------
(* DiskSpill.replay, run at startup and after a lazy recovery only. *)

\* An exception of XADD does not end the replay.
BugReplayAdd ==
    /\ replay.left > 0 /\ replay.step = "xadd"
    /\ IF redisUp THEN XAdd(Head(files)) ELSE UNCHANGED redis
    /\ replay' = [replay EXCEPT !.step = "unlink"]
    /\ UNCHANGED <<redisUp, stored, process, task, worker, job, flush, spent>>

\* XADD of the first file.  An exception, of read_bytes too, ends the replay; the file
\* stays.
ReplayAdd ==
    /\ replay.left > 0 /\ replay.step = "xadd"
    /\ \/ /\ redisUp /\ XAdd(Head(files))
          /\ \E ok \in BOOLEAN :
                /\ Answered(ok)
                /\ replay' = IF ok THEN [replay EXCEPT !.step = "unlink"]
                             ELSE [replay EXCEPT !.left = 0]
       \/ ~redisUp /\ replay' = [replay EXCEPT !.left = 0] /\ UNCHANGED <<redis, spent>>
       \/ Spend("disk") /\ replay' = [replay EXCEPT !.left = 0] /\ UNCHANGED redis
    /\ UNCHANGED <<redisUp, stored, process, task, worker, job, flush>>

\* The replayed file is not removed.
BugReplayUnlink ==
    /\ replay.left > 0 /\ replay.step = "unlink"
    /\ replay' = [replay EXCEPT !.left = 0, !.step = "xadd"]
    /\ UNCHANGED <<redis, redisUp, stored, process, task, worker, job, flush, spent>>

ReplayUnlink ==
    /\ replay.left > 0 /\ replay.step = "unlink"
    /\ files' = Tail(files)
    /\ replay' = [replay EXCEPT !.left = @ - 1, !.step = "xadd"]
    /\ UNCHANGED <<redis, redisUp, hub, process, task, worker, job, flush, spent>>

\* unlink raises: the replay ends, and the file whose entry is in the stream stays.
ReplayUnlinkFails ==
    /\ replay.left > 0 /\ replay.step = "unlink"
    /\ Spend("unlink")
    /\ replay' = [replay EXCEPT !.left = 0, !.step = "xadd"]
    /\ UNCHANGED <<redis, redisUp, stored, process, task, worker, job, flush>>

\* The caller goes on: the lifespan starts to serve, the task to enqueue.
ReplayDone ==
    /\ replay.by # "nobody" /\ replay.left = 0
    /\ replay' = NoReplay
    /\ IF replay.by = "startup"
       THEN phase' = "serving" /\ UNCHANGED task
       ELSE Goto(replay.by, "check") /\ UNCHANGED phase
    /\ UNCHANGED <<redis, redisUp, stored, pipeline, cooled, worker, job, flush, spent>>

-----------------------------------------------------------------------------
(* PipelineWorker._process_one, for the worker's and for the flush's batch. *)

Hold(a, B) == job' = [job EXCEPT ![a] = [Idle EXCEPT !.batch = B]]
\* The entry a works on, when it is at step s of it.
At(a, s) == {e \in Firsts(job[a].batch) : job[a].step = s}
Finish(a, e) == Hold(a, job[a].batch \ {e})
StepTo(a, s) == job' = [job EXCEPT ![a].step = s]

\* An exception of put or ack: back off and start over, or leave it pending.
Retry(a, e) ==
    IF job[a].tries + 1 < MaxRetries
    THEN job' = [job EXCEPT ![a].step = "put", ![a].tries = @ + 1]
    ELSE Finish(a, e)

\* Acknowledges whatever put did.
BugPut(a) ==
    /\ \E e \in At(a, "put") :
          /\ StepTo(a, "ack")
          /\ \/ hub' = hub \cup {e} /\ UNCHANGED spent
             \/ Spend("hub") /\ UNCHANGED hub
    /\ UNCHANGED <<redis, redisUp, files, process, task, replay, worker, flush>>

\* MemoryHub.put in the executor; the key ends in the entry id.
Put(a) ==
    /\ \E e \in At(a, "put") :
          \/ hub' = hub \cup {e} /\ StepTo(a, "ack") /\ UNCHANGED spent
          \/ Spend("hub") /\ Retry(a, e) /\ UNCHANGED hub
    /\ UNCHANGED <<redis, redisUp, files, process, task, replay, worker, flush>>

Ack(a) ==
    /\ \E e \in At(a, "ack") :
          \/ /\ redisUp /\ XAck(e)
             /\ \E ok \in BOOLEAN :
                   Answered(ok) /\ IF ok THEN StepTo(a, "del") ELSE Retry(a, e)
          \/ ~redisUp /\ Retry(a, e) /\ UNCHANGED <<redis, spent>>
    /\ UNCHANGED <<redisUp, stored, process, task, replay, worker, flush>>

\* A failed XDEL is logged and forgotten.
Del(a) ==
    /\ \E e \in At(a, "del") :
          /\ IF redisUp THEN XDel(e) ELSE UNCHANGED redis
          /\ Finish(a, e)
    /\ UNCHANGED <<redisUp, stored, process, task, replay, worker, flush, spent>>

-----------------------------------------------------------------------------
(* PipelineWorker._run. *)

Free(a) == job[a].batch = {}

\* Never reclaims.
BugWorkerLoop ==
    /\ wpc = "top"
    /\ loops' = (loops + 1) % ReclaimInterval
    /\ wpc' = "read"
    /\ UNCHANGED <<redis, redisUp, stored, process, task, replay, job, flush, spent>>

WorkerLoop ==
    /\ wpc = "top"
    /\ loops' = (loops + 1) % ReclaimInterval
    /\ wpc' = IF loops' = 0 THEN "reclaim" ELSE "read"
    /\ UNCHANGED <<redis, redisUp, stored, process, task, replay, job, flush, spent>>

\* _reclaim_pending: every exception is swallowed.
WorkerReclaim ==
    /\ wpc = "reclaim"
    /\ wpc' = "reclaiming"
    /\ \/ /\ redisUp
          /\ LET B == FirstOf(stale, Batch) IN
             /\ XAutoClaim(B)
             /\ \E ok \in BOOLEAN : Answered(ok) /\ Hold("worker", IF ok THEN Parsed(B) ELSE {})
       \/ ~redisUp /\ UNCHANGED <<redis, job, spent>>
    /\ UNCHANGED <<redisUp, stored, process, task, replay, loops, flush>>

\* read(): what is delivered is pending from here on, parsed or not.
WorkerRead ==
    /\ wpc = "read"
    /\ wpc' = "reading"
    /\ \/ /\ redisUp
          /\ LET B == FirstOf(Undelivered, Batch) IN
             /\ XReadGroup(B)
             /\ \E ok \in BOOLEAN : Answered(ok) /\ Hold("worker", IF ok THEN Parsed(B) ELSE {})
       \/ ~redisUp /\ UNCHANGED <<redis, job, spent>>
    /\ UNCHANGED <<redisUp, stored, process, task, replay, loops, flush>>

WorkerBatchDone ==
    /\ wpc \in {"reclaiming", "reading"} /\ Free("worker")
    /\ wpc' = IF wpc = "reclaiming" THEN "read" ELSE "top"
    /\ UNCHANGED <<redis, redisUp, stored, process, task, replay, loops, job, flush, spent>>

-----------------------------------------------------------------------------
(* PipelineWorker.force_drain(apply=True), run by /admin/queue/flush.  It  *)
(* runs beside the main loop; an exception of any of its own Redis calls   *)
(* ends it.                                                                *)

FlushAt(pc) == flush.pc = pc /\ Free("flush")
FlushGoto(pc) == flush' = [flush EXCEPT !.pc = pc]

FlushStart ==
    /\ phase = "serving" /\ wpc # "off" /\ FlushAt("idle")
    /\ Spend("flush") /\ FlushGoto("deliver")
    /\ UNCHANGED <<redis, redisUp, stored, process, task, replay, worker, job>>

FlushAbort ==
    /\ \E pc \in FlushSteps \ {"idle", "ids"} : FlushAt(pc)
    /\ ~redisUp
    /\ flush' = NoFlush
    /\ UNCHANGED <<redis, redisUp, stored, process, task, replay, worker, job, spent>>

\* _drain_undelivered.
FlushDeliver ==
    /\ FlushAt("deliver") /\ redisUp
    /\ LET B == FirstOf(Undelivered, FlushBatch) IN
       /\ XReadGroup(B)
       /\ \E ok \in BOOLEAN :
             /\ Answered(ok)
             /\ IF ok /\ ~Raises(B)
                THEN /\ Hold("flush", Parsed(B))
                     /\ IF Parsed(B) = {} THEN FlushGoto("pending") ELSE UNCHANGED flush
                ELSE flush' = NoFlush /\ UNCHANGED job
    /\ UNCHANGED <<redisUp, stored, process, task, replay, worker>>

\* _drain_pending: XAUTOCLAIM with min_idle 0 until nothing unseen comes back.
FlushPending ==
    /\ FlushAt("pending") /\ redisUp
    /\ LET B == FirstOf(pel, FlushBatch)
           fresh == Parsed(B) \ flush.seen
       IN /\ XAutoClaim(B)
          /\ \E ok \in BOOLEAN :
                /\ Answered(ok)
                /\ IF ok /\ ~Raises(B)
                   THEN /\ Hold("flush", fresh)
                        /\ flush' = [flush EXCEPT !.seen = @ \cup fresh,
                                        !.pc = IF fresh = {} THEN "info" ELSE @]
                   ELSE flush' = NoFlush /\ UNCHANGED job
    /\ UNCHANGED <<redisUp, stored, process, task, replay, worker>>

\* _sweep_orphans: group_info, then pending_ids, two snapshots with an await
\* in between; pending_ids answers the empty set when Redis fails.
FlushInfo ==
    /\ FlushAt("info") /\ redisUp
    /\ flush' = [flush EXCEPT !.last = cursor, !.pc = "ids"]
    /\ UNCHANGED <<redis, redisUp, stored, process, task, replay, worker, job, spent>>

FlushIds ==
    /\ FlushAt("ids")
    /\ flush' = [flush EXCEPT !.pend = IF redisUp THEN pel ELSE {}, !.pc = "scan"]
    /\ UNCHANGED <<redis, redisUp, stored, process, task, replay, worker, job, spent>>

\* scan_entries: undecodable entries are skipped, a batch without a decodable
\* one ends the scan.
FlushScan ==
    /\ FlushAt("scan") /\ flush.todo = {} /\ redisUp
    /\ LET B == {e \in FirstOf({d \in present : d > flush.from}, FlushBatch) :
                    Decodable(log[e])}
       IN \/ B = {} /\ flush' = NoFlush
          \/ \E last \in Lasts(B) :
                flush' = [flush EXCEPT !.from = last,
                            !.todo = {e \in B : e \notin flush.pend /\ e <= flush.last}]
    /\ UNCHANGED <<redis, redisUp, stored, process, task, replay, worker, job, spent>>

\* Deletes what looks like an orphan without asking the Hub.
BugFlushCheck ==
    /\ FlushAt("scan") /\ flush.todo # {}
    /\ FlushGoto("ack")
    /\ UNCHANGED <<redis, redisUp, stored, process, task, replay, worker, job, spent>>

\* Ask the Hub before touching an orphan: stored ones are deleted, the others
\* go through _process_one.
FlushCheck ==
    /\ FlushAt("scan")
    /\ \E e \in Firsts(flush.todo) :
          IF e \in hub THEN FlushGoto("ack") /\ UNCHANGED job
          ELSE flush' = [flush EXCEPT !.todo = @ \ {e}] /\ Hold("flush", {e})
    /\ UNCHANGED <<redis, redisUp, stored, process, task, replay, worker, spent>>

\* delete_entry: XACK, then XDEL.
FlushAck ==
    /\ FlushAt("ack") /\ redisUp
    /\ \E e \in Firsts(flush.todo) : XAck(e)
    /\ \E ok \in BOOLEAN : Answered(ok) /\ IF ok THEN FlushGoto("del") ELSE flush' = NoFlush
    /\ UNCHANGED <<redisUp, stored, process, task, replay, worker, job>>

FlushDel ==
    /\ FlushAt("del") /\ redisUp
    /\ \E e \in Firsts(flush.todo), ok \in BOOLEAN :
          /\ XDel(e) /\ Answered(ok)
          /\ flush' = IF ok THEN [flush EXCEPT !.todo = @ \ {e}, !.pc = "scan"]
                      ELSE NoFlush
    /\ UNCHANGED <<redisUp, stored, process, task, replay, worker, job>>

-----------------------------------------------------------------------------
(* The process and its environment. *)

InFlight(t) == task[t] \notin {"new", "done", "lost"}

\* The lifespan: connect, start the worker, replay; without Redis, serve at once.
Restart ==
    /\ phase = "down"
    /\ cooled' = TRUE
    /\ pipeline' = redisUp
    /\ IF redisUp
       THEN /\ phase' = "starting" /\ wpc' = "top" /\ loops' = 0
            /\ replay' = [by |-> "startup", left |-> Len(files), step |-> "xadd"]
       ELSE phase' = "serving" /\ UNCHANGED <<worker, replay>>
    /\ UNCHANGED <<redis, redisUp, stored, task, job, flush, spent>>

\* Everything in memory is gone, the tasks in flight with it.
Crash ==
    /\ phase # "down" /\ Spend("crash")
    /\ phase' = "down" /\ pipeline' = FALSE
    /\ wpc' = "off" /\ loops' = 0 /\ replay' = NoReplay
    /\ job' = [a \in Actors |-> Idle] /\ flush' = NoFlush
    /\ task' = [t \in Turns |-> IF InFlight(t) THEN "lost" ELSE task[t]]
    /\ UNCHANGED <<redis, redisUp, stored, cooled>>

\* Shutdown: the worker is cancelled wherever it is, then the background
\* enqueue tasks are awaited, then the connections are closed.
Stop ==
    /\ phase = "serving" /\ flush.pc = "idle" /\ Spend("stop")
    /\ phase' = "stopping"
    /\ wpc' = "off" /\ loops' = 0 /\ Hold("worker", {})
    /\ UNCHANGED <<redis, redisUp, stored, pipeline, cooled, task, replay, flush>>

Exit ==
    /\ phase = "stopping" /\ \A t \in Turns : ~InFlight(t)
    /\ phase' = "down" /\ pipeline' = FALSE
    /\ wpc' = "off" /\ loops' = 0 /\ Hold("worker", {})
    /\ UNCHANGED <<redis, redisUp, stored, cooled, task, replay, flush, spent>>

RedisDown ==
    /\ redisUp /\ Spend("outage")
    /\ redisUp' = FALSE
    /\ UNCHANGED <<redis, stored, process, task, replay, worker, job, flush>>

RedisUp ==
    /\ ~redisUp /\ redisUp' = TRUE
    /\ UNCHANGED <<redis, stored, process, task, replay, worker, job, flush, spent>>

\* _RECLAIM_MIN_IDLE_MS pass.
Tick ==
    /\ stale # pel /\ stale' = pel
    /\ UNCHANGED <<log, present, cursor, pel, redisUp, stored, process, task, replay,
                   worker, job, flush, spent>>

\* _REDIS_RECOVER_COOLDOWN_S pass; a recovery attempt itself is shorter.
Cooldown ==
    /\ ~cooled /\ \A t \in Turns : task[t] # "recovering"
    /\ cooled' = TRUE
    /\ UNCHANGED <<redis, redisUp, stored, phase, pipeline, task, replay, worker, job,
                   flush, spent>>

Enqueue(t) ==
    \/ Begin(t) \/ RecoverOk(t) \/ RecoverFail(t)
    \/ CheckBacklog(t) \/ RecheckBacklog(t) \/ Add(t) \/ SpillToDisk(t)
Replay == ReplayAdd \/ ReplayUnlink \/ ReplayUnlinkFails \/ ReplayDone
ProcessOne(a) == Put(a) \/ Ack(a) \/ Del(a)
Worker == WorkerLoop \/ WorkerReclaim \/ WorkerRead \/ WorkerBatchDone
Flush ==
    \/ FlushAbort \/ FlushDeliver \/ FlushPending \/ FlushInfo \/ FlushIds
    \/ FlushScan \/ FlushCheck \/ FlushAck \/ FlushDel

Next ==
    \/ \E t \in Turns : Enqueue(t)
    \/ Replay \/ Worker \/ Flush \/ FlushStart
    \/ \E a \in Actors : ProcessOne(a)
    \/ Restart \/ Crash \/ Stop \/ Exit \/ RedisDown \/ RedisUp \/ Tick \/ Cooldown

Spec == Init /\ [][Next]_vars

\* The part of the environment and of the scheduler the code may count on: the
\* event loop runs every coroutine, the executor finishes, time passes, Redis
\* comes back and the supervisor restarts the proxy (deploy/docker-compose.yml:
\* restart: unless-stopped).  Nothing is assumed of the operator's flush.
Fairness ==
    /\ \A t \in Turns : WF_vars(Enqueue(t))
    /\ WF_vars(Replay) /\ WF_vars(Worker) /\ WF_vars(ProcessOne("worker"))
    /\ WF_vars(Restart) /\ WF_vars(Exit) /\ WF_vars(RedisUp) /\ WF_vars(Tick)

FairSpec == Spec /\ Fairness

-----------------------------------------------------------------------------
(* Properties. *)

RedisOK ==
    /\ log \in Seq(Copies)
    /\ present \subseteq Ids /\ pel \subseteq Ids /\ stale \subseteq pel
    /\ cursor \in 0..Len(log)
    /\ redisUp \in BOOLEAN
StoresOK == files \in Seq(Copies) /\ hub \subseteq Ids
ProcessOK ==
    /\ phase \in {"down", "starting", "serving", "stopping"}
    /\ pipeline \in BOOLEAN /\ cooled \in BOOLEAN
    /\ task \in [Turns -> TaskStates]
    /\ wpc \in {"off", "top", "reclaim", "reclaiming", "read", "reading"}
    /\ loops \in 0..(ReclaimInterval - 1)
ReplayOK ==
    replay \in [by : Turns \cup {"startup", "nobody"}, left : 0..Len(files),
                step : {"xadd", "unlink"}]
JobOK ==
    job \in [Actors -> [batch : SUBSET Ids, step : {"put", "ack", "del"},
                        tries : 0..(MaxRetries - 1)]]
FlushOK ==
    flush \in [pc : FlushSteps, seen : SUBSET Ids, last : 0..Len(log),
               pend : SUBSET Ids, from : 0..Len(log), todo : SUBSET Ids]

TypeOK ==
    /\ RedisOK /\ StoresOK /\ ProcessOK /\ ReplayOK /\ JobOK /\ FlushOK
    /\ spent \in [Faults -> Nat]

FileCopy(t) == \E i \in 1..Len(files) : files[i].turn = t /\ Decodable(files[i])
EntryOf(t) == {e \in Ids : log[e].turn = t /\ Decodable(log[e])}

\* A turn that _enqueue_turn returned for has a readable copy in a place that
\* survives a crash and that some path leads from to the Hub, or is in the Hub:
\* neither the back-pressure branches, nor a replay cut short by a crash or an
\* outage, nor worker and flush working on one entry destroy the last copy.
NoTurnLost ==
    \A t \in Turns : task[t] = "done" => FileCopy(t) \/ EntryOf(t) \cap (present \cup hub) # {}

\* An entry leaves the pending list or the stream only when it is in the Hub
\* ("ack only after the Hub write"; force_drain "checks the Hub before it
\* deletes"), whichever of the two consumers removes it and whatever failed.
OnlyStoredIsDropped ==
    [][(pel \ pel') \cup (present \ present') \subseteq hub]_vars

\* Both consumers work on delivered entries only; the one about to acknowledge
\* an entry has it in the Hub, and the one about to delete it has left it in no
\* pending list, whatever the other one did to the same entry since.
JobIsStored(a) ==
    /\ \A e \in job[a].batch : e <= cursor
    /\ job[a].step \in {"ack", "del"} => Firsts(job[a].batch) \subseteq hub
    /\ job[a].step = "del" => Firsts(job[a].batch) \cap pel = {}
FlushIsStored ==
    /\ flush.last <= cursor /\ \A e \in flush.todo : e <= cursor
    /\ flush.pc \in {"ack", "del"} => Firsts(flush.todo) \subseteq hub
    /\ flush.pc = "del" => Firsts(flush.todo) \cap pel = {}
WorkIsStored ==
    /\ \A e \in pel : e <= cursor
    /\ \A a \in Actors : JobIsStored(a)
    /\ FlushIsStored

\* No pending record points to a deleted entry: XAUTOCLAIM would keep returning
\* it for nothing.  delete_entry acknowledges first for this reason.
PendingIsInStream == pel \subseteq present

\* What neither path of the main loop can reach any more (delivered, not
\* pending, still in the stream) is in the Hub: a leftover costs backlog room,
\* never a turn.
LeftoversAreStored ==
    \A e \in present : e <= cursor /\ e \notin pel => e \in hub

\* A turn has a second readable copy only through a lost reply, a crash between
\* XADD and unlink, or an unlink that failed, one for each (the file about to be
\* unlinked does not count).
Unlinking == IF replay.step = "unlink" THEN 1 ELSE 0
DuplicatesNeedAFault ==
    \A t \in Turns :
        Cardinality(EntryOf(t))
        + Cardinality({i \in (1 + Unlinking)..Len(files) :
                          files[i].turn = t /\ Decodable(files[i])})
            <= 1 + spent["reply"] + spent["crash"] + spent["unlink"]

\* The pipeline implements the promise of DurableTurns.
Fate(t) ==
    IF EntryOf(t) \cap hub # {} THEN "stored"
    ELSE IF FileCopy(t) \/ EntryOf(t) \cap present # {} THEN "durable"
    ELSE IF task[t] = "lost" THEN "lost" ELSE "offered"

Promise == INSTANCE DurableTurns
             WITH fate <- [t \in Turns |-> Fate(t)],
                  returned <- {t \in Turns : task[t] = "done"}
KeepsPromise == Promise!DurableSpec

NobodyWaits == \A t \in Turns : ~InFlight(t)
Torn == \E e \in present : ~Decodable(log[e])

\* Again and again there is a moment when nobody waits on the way into the stream, though
\* leftovers keep XLEN at the limit for good, and, while the proxy holds a pipeline, every
\* entry has reached the Hub: after failed writes, lost replies, a crash or a shutdown in
\* the middle of a batch, with a flush beside it (_enqueue_turn and the worker's loop).
\* One entry that cannot be decoded may keep all the others out (_parse_raw_entries); without
\* a pipeline only the next turn makes the proxy look for Redis again.
StreamKeepsMoving == []<>(NobodyWaits /\ (present \subseteq hub \/ Torn \/ ~pipeline))

=============================================================================
