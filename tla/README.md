# BladeX: TLA+ models, model checks and proofs

BladeX is a self-hosted, memory-first proxy between AI agents and language-model
providers. It forwards an agent's requests, writes down every finished turn, distils
what was said into facts, and gives ledgers and memory back to later requests. What
it must not do is lose a turn, forget what a user told it to remember, or remember
what a user told it to forget, whatever crashes, fails or overtakes what.

This directory models the parts on which that depends. All source paths below are
relative to `src/packages/`; `proxy/` abbreviates `bladex-proxy/bladex_proxy/` and
`core/` abbreviates `bladex-core/bladex_core/`.

| file | what it is |
|---|---|
| `Pipeline.tla` | the storage pipeline: enqueue, overflow files, stream, worker, flush |
| `DurableTurns.tla` | what the pipeline promises, without queues, files or processes |
| `PipelineProofs.tla` | theorems about `Pipeline`, with proofs for TLAPS |
| `ConsolidatorProofs.tla`, `DeploymentProofs.tla`, `ExportSyncProofs.tla`, `FlashProofs.tla`, `HubProofs.tla` | theorems about the component of that name; `HubProofs` also about `LedgerPool`, whose events are in the Hub |
| `RequestProofs.tla` | theorems about `Interception` and `Routing` |
| `RoundProofs.tla` | theorems about `MatterGraph` and `Adjudication` |
| `HubStore.tla` | the Memory Hub under the proxy's threads: put, reads, deletion, restart |
| `Consolidator.tla` | the consolidator: its loop and `rebuild_from_hub` |
| `Adjudication.tla` | novelty and adjudication of facts in a round, with the verdict ledger |
| `MatterGraph.tla` | matters and edges: attribution, journals, merge, split, digestion, their replay |
| `ExportSync.tla` | export to an Obsidian vault, and the backflow of its edits |
| `LedgerPool.tla` | the pool of task ledgers, its events and their replay |
| `FlashLedger.tla` | the markdown projection of a ledger, the user's edits, the doorbell |
| `Interception.tla` | a session's requests: inner loop, stripping, splicing, the stored turn |
| `Streams.tla` | the three front ends: translation of answers, streamed or whole, and their way back |
| `Routing.tla` | routes, sticky sessions, fail-over and model health |
| `Deployment.tla` | start, stop and crash of two homes, pid files, the claim on the stream |
| `MC*.tla`, `*.cfg` | instances of them for TLC |
| `PROJECT.json` | components, runs, mutants, the map to the source, hazards, theorems |

    tlc -workers 2 -config Pipeline.cfg MCPipeline
    tlc -workers 2 -config Round.cfg MCRound
    tlapm PipelineProofs.tla


## 1. The system

### 1.1 Layers and processes

    agent -> HTTP front end -> identity, assembly, agency -> routing -> provider
                    |                 ^
       finished turn|                 | ledgers, index (read only)
                    v                 |
    Redis stream  -> worker -> Memory Hub (RocksDB)      [proxy process writes]
    overflow files --^             |          |
                                   v          v
                            consolidator    flash daemon  [read-only secondaries]
                                   |          |
                                   v          v
                            Memory Index    markdown files, edited by the user
                                   |
                                   v
                            Obsidian, Postgres

- The **proxy** (one asyncio process) is the only writer of the Memory Hub.
- The **consolidator** reads the Hub as a RocksDB secondary and is, while it runs,
  the exclusive writer of the Memory Index. The proxy writes the Index only when the
  consolidator is down (`memory_index.py` opens it with the lock).
- The **flash daemon** is the only writer of the markdown projection, besides the user.
- **Redis** carries the stream of turns, the list of jobs for the consolidator, the
  doorbell of the flash daemon and the claim on the stream.
- The Hub is the single source of truth. Index and files can be rebuilt from it.

### 1.2 Components

For each: its state; its operations; what is hard; what makes it correct.

1. **Storage pipeline** (`proxy/storage/pipeline_redis.py`, `pipeline_worker.py`,
   `proxy/server/orchestration.py: _enqueue_turn, _try_recover_redis`, the lifespan in
   `app_factory.py`). *State*: stream, consumer group with its pending list, overflow
   files, one worker task, the tasks of requests in flight. *Operations*: enqueue with
   back-pressure, spill, replay of spilled files, read, reclaim, put + ack + delete,
   forced drain, lazy recovery, start and shutdown. *Hard*: at-least-once delivery over
   three stores with no transaction; a second consumer (the flush) beside the worker;
   calls whose effect is unknown after a timeout; crashes between any two effects.
   *Correct when*: a turn whose enqueue returned keeps a readable copy until the Hub has
   one, nothing is acknowledged or deleted before it is in the Hub, every entry gets there.
2. **Memory Hub** (`proxy/storage/memory_hub.py`). *State*: turns, content-addressed
   message bodies, administrative events, tombstones; in memory the prefix slots of each
   session, the recent-turn index, the tombstone cache. *Operations*: put, scans with
   tombstones applied, append of events and tombstones, catch-up of secondaries, recovery
   of the session cache. *Hard*: `put` runs in executor threads; check-then-store of
   contents; caches beside a database that another process or thread changes; ids built from
   the wall clock. *Correct when*: every reference resolves, a scan shows what was put and
   not deleted, a restart restores the candidates for prefix comparison.
3. **Instance claim** (`proxy/storage/instance_claim.py`). *State*: one Redis key per
   stream. *Operations*: claim, take over a stale claim, heartbeat, release. *Hard*:
   read-then-write without a condition. *Correct when*: two homes never both believe for
   long that they own one stream.
4. **Flash daemon and doorbell** (`proxy/flash_daemon.py`, `flash_wake.py`). *State*:
   pool files, the snapshot of what was last written, edits waiting to be adopted, the
   position in the doorbell stream. *Hard*: the user's editor writes the same files; the
   proxy may be away; the doorbell may be lost. *Correct when*: a user's edit is never
   overwritten unseen, and a projection eventually shows the pool.
5. **Ledger core and runtime** (`core/ledger.py`, `core/ledger_runtime.py`,
   `proxy/ledger_events.py`). *State*: ledgers with five sections and revisions, the
   table of active ledgers, tombstones. *Operations*: update by actor, replay of events,
   activation and switching, staleness. *Correct when*: only users change a goal, replay
   gives what the operations gave, a tombstone covers a ledger everywhere.
6. **Consolidator and Memory Index** (`proxy/consolidator.py`,
   `proxy/storage/memory_index.py`). *State*: facts, matters, edges, marks of consumed
   turns, retry counts, ids of corrected facts, the watermark of replayed events, the
   distillation journal; in the process the secondary's view, back-off and Hub watermark.
   *Operations*: incremental round, full rebuild, replay of user events, user edits while
   the daemon is down. *Hard*: none of a round's effects are atomic together; the same fact
   is written by a round, by a replay and by an administrator; a failing model must neither
   block the backlog nor burn it. *Correct when*: what is consumed is in the Index or has a
   reason not to be, user's labour survives, every turn is eventually consumed.
7. **Sync control, export and backflow** (`proxy/sync_control.py`, `export_sync.py`,
   `export_backflow.py`, `exporters/`). *State*: the job list and job hashes, one cursor,
   tombstone set and back-off per target. *Hard*: jobs are popped before they run; cursor by
   time stamp; partial failure of an export. *Correct when*: every fact and every deletion
   reaches every target, no edit made outside is overwritten before it was recorded.
8. **Routing and model health** (`core/routing.py`, `proxy/model_health.py`, `route.py`).
   *State*: sticky tier of each session, verdict cache, unhealthy models with their
   cooldown. *Correct when*: a session's tier only rises, a failing model is avoided while
   it cools, fail-over tries what is left and ends.
9. **Agency runtime and inner loop** (`proxy/agency/`, `innerloop.py`, `splice.py`,
   `loopledger.py`, `toolface.py`, `interception.py`). *State*: per session a splice ledger,
   frozen tool plan, ledger bindings. *Hard*: streaming, retried requests, tools that
   change the Hub, budget and round limits. *Correct when*: a client never sees a dangling
   call or an empty answer, each tool call takes effect once.
10. **Assembly and cache plan** (`proxy/cache_state.py`, `assembly*.py`, `inject.py`,
    `core/consolidation_proxy.py`). *State*: the frozen plan of each session. *Correct
    when*: a warm round replays the plan of the last cold one.
11. **Agent identity and registry** (`proxy/identity*.py`, `agent_registry.py`,
    `project_purge.py`): heuristics over requests, a registry with a time window.
12. **Distillation and embedding** (`proxy/distillation.py`, `embedding.py`, `embed_*.py`):
    calls of models; the embedding server has a queue with two priorities.
13. **HTTP front ends** (`proxy/server/`, `anthropic.py`, `responses.py`): translation of
    protocols; the administrative interface, through which users change memory.
14. **Core memory types and judgement** (`core/fact.py`, `matter.py`, `supersede.py`,
    `fusion.py`, ...): pure functions over texts and scores.
15. **Snapshot** (`proxy/snapshot.py`): export and idempotent import.
16. **Command line and lifecycle** (`proxy/cli/`): processes and pid files.
17. **Configuration, rules, metrics** (`proxy/config.py`, `hard_rules.py`, ...).
18. **bladex-mcp**: a client of the administrative interface, without state.

### 1.3 Interactions

| from | to | how | modelled in |
|---|---|---|---|
| front end | pipeline | background task, shielded from cancellation | `Pipeline`; what is handed over, `Interception` |
| pipeline worker, flush | Hub | `put` in an executor thread, retried | `Pipeline`; inside `put`, `HubStore` |
| Hub | consolidator | secondary, catch-up; may lag | `Consolidator`, `ExportSync` |
| administrator | Hub, Index | event or tombstone first, then the Index unless locked | `Consolidator` |
| CLI, dashboard | consolidator | list of jobs in Redis | `Consolidator` |
| consolidator | vault | export worker after a round, backflow over HTTP | `ExportSync` |
| agent | front end | one of three protocols, streamed or not | `Streams` |
| agent | ledgers | tools of the inner loop | `LedgerPool`; when they run, `Interception` |
| worker, proxy | flash daemon | doorbell stream, unacknowledged | `FlashLedger` |
| flash daemon | proxy | HTTP to the administrative interface | `FlashLedger` |
| CLI | proxy, side processes | pid files, signals, health probe | `Deployment` |
| two homes | one stream | the claim, a key in Redis | `Deployment` |
| inner loop, front end | provider | `call_model` with fail-over | `Routing` |

The mechanism of the Index lock: `main` of the consolidator opens the Index for writing
and keeps it; the proxy's write paths answer 202 ("deferred") while it is held and write
directly when it is not. In `Consolidator` this is the condition `Up`.


## 2. The modules

### 2.1 `Pipeline`

| variables | in the code |
|---|---|
| `log`, `present`, `cursor`, `pel`, `stale`, `redisUp` | the stream (all entries ever added, those not deleted), the group's last-delivered-id and pending list, the pending entries idle for `_RECLAIM_MIN_IDLE_MS` |
| `files`, `hub` | `overflow_*.msgpack` in name order; the keys of the Hub |
| `phase`, `pipeline`, `cooled` | the lifespan; `app.state.pipeline is not None`; the recovery cooldown |
| `task` | per turn, where its `_enqueue_turn` is |
| `replay` | the running `DiskSpill.replay` |
| `wpc`, `loops`, `job["worker"]` | `PipelineWorker._run`, `_loop_count`, its batch |
| `flush`, `job["flush"]` | `force_drain(apply=True)`, its batch |
| `spent` | the faults that happened, bounded by `Budget` |

One action is what runs between two awaits, or between two effects on different stores.

| actions | in the code |
|---|---|
| `Begin`, `RecoverOk`, `RecoverFail` | `_enqueue_turn` up to the pipeline it uses, `_try_recover_redis` |
| `CheckBacklog`, `RecheckBacklog`, `Add`, `SpillToDisk` | `PipelineRedis.enqueue` with its back-pressure, and the last resort of `_enqueue_turn` |
| `ReplayAdd`, `ReplayUnlink`, `ReplayUnlinkFails`, `ReplayDone` | `DiskSpill.replay` at startup and after a lazy recovery; an `unlink` that raises ends it and leaves a file whose entry is in the stream |
| `Put`, `Ack`, `Del` | `_process_one`, for worker and flush |
| `WorkerLoop`, `WorkerReclaim`, `WorkerRead`, `WorkerBatchDone` | `_run` |
| `FlushStart` ... `FlushDel`, `FlushAbort` | `force_drain`: undelivered, pending, orphans |
| `Restart`, `Crash`, `Stop`, `Exit` | the lifespan and the end of the process |
| `RedisDown`, `RedisUp`, `Tick`, `Cooldown` | Redis and the clock |

A Redis command either fails unexecuted (`~redisUp`) or is executed, with or without its
reply (`Answered`). A failed disk write leaves nothing, an empty file or a torn one
(`Remains`): `write_bytes` truncates and then writes.

`DurableTurns` is the abstract specification: each turn goes from offered to durable to
stored, or is lost before anything was returned for it. `Fate(t)` is the refinement
mapping, `KeepsPromise` the property.

### 2.2 `Consolidator`

| variables | in the code |
|---|---|
| `hub` | the Hub as the sequence of the proxy's writes: `put`, `delete` (a tombstone of a turn), `forget` (a tombstone of a fact), `remember` (`fact_import`), `correct` (`fact_correct`); a position stands for an entry id |
| `facts` | per fact: absent, as distilled or entered (`Original`), or the position of the correction it shows |
| `consumed`, `retry`, `corrected`, `watermark` | `__meta__/p2_consumed/`, `__meta__/p2_distill_retry/`, `__meta__/fact_corrected_ids`, `__meta__/admin_events_replay_watermark` |
| `journal` | turns whose distillation is cached |
| `jobs` | the Redis list of `SyncControl` |
| `pc`, `view`, `cachedAt`, `seen`, `idle`, `left`, `erred`, `round` | the daemon: position, the secondary's view, when its tombstone cache was built, `_HubWatermark`, `IdleBackoff`, the sleep, the round |
| `gone`, `wiped`, `swallowed`, `unadded`, `givenUp`, `blame` | history, read by the properties only |

| actions | in the code |
|---|---|
| `PutTurn`, `DeleteTurn`, `ForgetFact`, `RememberFact`, `CorrectFact`, `SubmitJob` | the proxy: the worker's put and the administrative interface |
| `Start`, `Begin`, `TakeJob`, `End`, `Wake`, `Doze`, `WakeInTime` | `main`, `_run_manual`, `sleep_until_work`, `IdleBackoff.observe` |
| `Fetch`, `Replay`, `ReplayEnd`, `Scan` | catch-up, `_replay_new_admin_events`, the choice of turns |
| `Distil`, `DistilOutage`, `AbortRound`, `Judge` | `consolidate_turns`, the outage rule, the retry counts, the tombstone filter |
| `WipeMark`, `WipeFact`, `WipeEnd`, `Restore`, `RestoreEnd` | `clear()` and `_replay_admin_events` of a full rebuild |
| `Replays` in `Replay` and `Restore` | `_apply_admin_event` logs and passes over what a single event raises, before it has written (`out`) or before it has marked (`half`), while the watermark moves past it |
| `StoreFact`, `StoreFails`, `StoreEnd`, `Consume`, `ConsumeEnd` | `add_fact` per fact, `_mark_consumed` per turn |
| `Crash`, `PollRaises`, `Raise` | a crash at any step, a Redis error outside every `try`, an exception out of `rebuild_from_hub` |

### 2.3 `HubStore`

RocksDB (`bodies`, `store`, `tombs`) survives the process; `cache`, `recent` and `slots` are
derived from it in memory. A step is one call of RocksDB or one touch of what threads share.

| actions | in the code |
|---|---|
| `Begin`, `CheckBody`, `StoreBody`, `Detect`, `Write`, `Note` | `put`: content addressing, prefix detection, the write, the recent-turn index |
| `SeekEntry`, `RemoveEntry`, `AppendEntry`, `MutatedDeque` | the session's slots, touched without a lock; a deque changed during iteration raises |
| `StartRead`, `ScanTurns`, `Merge`, `AskCache`, `AssignCache`, `UseCache`, `Page` | `recent_turns` and `count`, with the lazy index and the lazy tombstone cache |
| `AppendTombstone`, `DropCache`, `Restart` | deletion of a turn, a crash with `_recover_session_cache` |

### 2.4 `Adjudication`

Facts are the turns' numbers; `index` says absent, current or superseded by which fact;
`ledger` is the journal of paid verdicts.

| actions | in the code |
|---|---|
| `Begin` | what is new in the batch: duplicates inside it and against the library |
| `Examine`, `Ask`, `Settle` | the fast path by topic key, the model's batch, one verdict of it |
| `Filter`, `Clear`, `Store`, `StoreFails` | the tombstone filter, the wipe of a full rebuild, `add_fact` |
| `Replay`, `Apply` | the verdict ledger replayed over new objects, the records of this round |
| `Consume`, `End`, `Start`, `Crash` | marks, and the process |

### 2.5 `MatterGraph`

`graph` is the Index's half of the matter graph: status and titles of matters, edges, the facts and
their field `matter_id`. An edge keeps the key it was first written under (`home`) when a merge or
a split changes its matter. `corrected` are the facts a user corrected: a replay writes them back as the
event has them, and `Fresh` keeps them out of what a round attributes. `judged` and `stream` are the two judgement
journals, which outlive
`clear()`; `events` the Hub's administrative events, `replayed` the watermark.

| actions | in the code |
|---|---|
| `Round`, `Full` | the start of `rebuild_from_hub`: replay, facts stored, anchor cards made; `Full` clears first |
| `Attribute` | one fact of the attribution loop: `KeepAside` passes over a fact of lane profile or tool (`BLADEX_LANE_HARD_SPLIT`, on by default) that has no edge by hand; ledger anchor, `ToAnchor`; then `Decide`: D1 continuation, L1 by hand, L2/L3, L4 from the journal or by the model (all behind the ledger gate), L5 |
| `AttributeRaises`, `Dies` | a logged exception, a crash |
| `RoundEnds` | D1's last journal entry, `digest_unassigned_pool` |
| `User`, `ForgetFact` | `/admin/facts/{id}/assign`, detach, correct, merge, close, split, forget: event first, then at once or deferred |

`MCRound` runs `Adjudication` and `MatterGraph` as the two halves of a round in one configuration: each
starts from its own initial states, and the variable `half` says which of them a behaviour is about.
One of the four facts is of lane profile; the other three meet on the same cards.

### 2.6 `ExportSync`

| actions | in the code |
|---|---|
| `Type`, `Erase`, `TakeAway` | the user in the vault: a line changed, deleted, a whole page removed |
| `Correct`, `Forget` | the administrative interface |
| `Round`, `RoundRaises`, `Wake`, `Skip` | the consolidator's incremental round with replay; the export worker and its back-off |
| `Scan`, `Post`, `PostFails`, `PostsEnd` | backflow: what differs from the snapshot is posted, then recorded in it |
| `Collect`, `RemoveLine`, `AppendLine`, `SaveSnapshot`, `HandleTombstone`, `Finish`, `Fail` | `run_once`: rows above the cursor, pages, tombstones, the state file |
| `Crash`, `Start` | the process; a page torn by it reads as shorter |

`Round` filters by the tombstones only what it has just distilled: a forgotten fact that is stored stays, and may be
given a new time stamp (`touched`: superseded, strengthened). `revived` is the history of deleted
facts that were stamped after the export had dealt with their tombstone.

### 2.7 `LedgerPool`

| actions | in the code |
|---|---|
| `Create`, `SwitchTo`, `Read`, `Add`, `Retract`, `Close`, `Reopen` | the agents' ledger tools (`handlers.py`) with the events they append |
| `UserEdit`, `Tombstone` | the administrative interface: a replacing edit, a deletion |
| `Reload` | `replay_ledger_events` (`Replay`) |

`Retract` removes an entry by its place, with the rev the agent has read (`locked`) or without one, which the tool
permits; the handler compares it with the rev of whichever ledger is active when the call comes.
`Anchor` is the timeline that a rebuild uses to give turns their ledger.
An append may fail: the process keeps what the Hub does not have (`unsaved`).

### 2.8 `FlashLedger`

One ledger and its file. `d` is the daemon: where it is in a round, its snapshot, the
adoption it waits for. `Wake`, `Capture`, `Post`, `Settle`, `ReadHub`, `Materialize`, `Purge`,
`Save` are one round; `Start`, `Type`, `Model`, `Delete`, `Ring`, `RestartProxy`, `WakeDegraded`, `Crash`
its environment. A text the user types may have lost the line with the ledger's id (`strays`):
`Capture` then takes it for what the daemon wrote itself, and a start that finds it offers it as a ledger of its own.

### 2.9 `Interception`

`reqs[r]` is a request from the moment it is sent to its stored turns. `Ask`, `AskAside`,
`AskAgain` and leaving are the agent; `Prepare` is `prepare_inbound` (splicing, with the
restoration from the Hub); `SaysNothingOfOurs`, `SaysMixed`, `SaysPure` and `UpstreamFails` are the
first reply; `RunTools`, `HangUp` (a chat client closes the stream while our calls run), `LoopPays`, `LoopGoesOn`,
`LoopAnswers`, `LoopMixes`, `LoopRunsOut`,
`LoopFails` the inner loop; `Deliver`, `Collect`, `StoreNext`, `StoreLast` the end of a request.
`way` is how answers go out: in one piece, as events, as chunks.
`ours` is which calls of BladeX a reply has: `"named"` in the first piece of the call or `"late"` after it (in
streams). `Stripped` cuts the named ones out of a first reply and a late one passes; `Worded` puts another text in the
reply's place; what the agent hears is copied from the reply as it is then. `split` says that the agent sends the
answer back as several messages (`/v1/responses` makes one of every item): `Spliced` looks at those in one
piece only.

### 2.10 `Streams`

One answer, from the upstream's chunks to the agent and, with the agent's next request, back.
`s` holds the locals of the generator (`capture_stream`, `anthropic_stream_generator`,
`responses_stream_generator`) and what the client got; `ChatChunk`, `BlocksChunk` and `ItemsChunk` take
one chunk, in the steps of the code (thought, text, calls); `BlocksEnd` and `ItemsEnd` are what follows the
loop; `kept` is the `CaptureResult` that the `finally` of the endpoint stores. `AnswersWhole` is an answer in
one piece. `HeldAnswer` is what a well-behaved client of the protocol assembles, `Parsed` what
`parse_*_request` makes of it when it comes back. `MCInterception` explores `Interception` and `Streams`
as two halves of one run.

### 2.11 `Routing`

`RouteRequested`, `RouteStatic`, `RouteAuxiliary` and `RouteDynamic` are the four ways
of `RouteResolver.resolve`, each leaving a plan of models; `Succeeds`, `Fails` and `Refused` are one
attempt of `call_model`; `Flush`, `CoolsDown`, `CacheExpires`, `HoldElapses` the operator and the
clock. The pools of `Order`, `Tier`, `Provider`, `Caps` and `Local` are the configuration.

### 2.12 `Deployment`

Processes are pids; a command of the CLI (`Start` ... `Kill`) is a sequence of steps in a terminal, beside
them and beside a command in another terminal, of the same home too (fault `cross`). `SideUp` and `Report` have the embedding
server that does not listen in time, or cannot have its model (fault `slow`). `Get`, `Probe`, `SetNX`, `GetAgain`,
`Put` are the claim, `BeatGet` and `BeatSet` the heartbeat,
`ReleaseGet` and `ReleaseDel` the release: none is conditional in Redis.

### 2.13 Definitions named `Bug...`

Each is a broken variant of the definition after it (a dropped guard, a missing reset, a
swapped order). They are used by no specification; putting one in the place of the
original must make the named property fail (`mutants` in `PROJECT.json`), which shows
that the property depends on that piece of the code.


## 3. What is checked

All runs are exhaustive. The passing ones, with their times for two workers:

| run | instance | distinct states | properties |
|---|---|---|---|
| `pipeline` | 2 turns (1 heavy), `QueueMaxLen` 1, any 2 of outage, lost reply, disk error, file that cannot be removed, failing puts, crash, shutdown, flush; under fairness | 515 k, 81 s | `NoTurnLost`, `DuplicatesNeedAFault`, `LeftoversAreStored`, `KeepsPromise`, `OnlyStoredIsDropped`, `StreamKeepsMoving` |
| `hub_store` | 3 turns of one session (1 of the inner loop), 2 putting and 2 reading threads, 2 slots, 4 operations | 591 k, 21 s | `RefsResolve`, `AnswersAreCurrent`, `CandidatesKept` |
| `consolidator_user` | 2 turns (1 auxiliary), 1 note, 2 user operations, 1 job, 1 crash, 1 exception, 1 event whose replay raises, 3 in all | 1.97 M, 88 s | `ConsumedIsSettled`, `LabourKept`, `DeletedFactStaysGone` |
| `consolidator_live` | 3 turns (1 never distils), 1 turn per round, any 2 faults or jobs, under fairness | 519 k, 168 s | `OutageBurnsNothing`, `BacksOffOnlyWhenIdle`, `TurnsAreConsumed` |
| `rounds` | 4 facts, two of them alike, one said otherwise, three with a key; any 2 of crash, silent model, careless model, failing store, deletion, full rebuild. Or 4 facts of 2 turns and 2 titles, 1 of lane profile, 1 ledger, a verdict from before the gate; any 2 of each kind of user's event, crash, exception, model and full rebuild, or 3 of assign, detach, merge, split and full rebuild | 2.18 M, 101 s | `NothingVanishes`, `OneValuePerKey`, `PaidVerdictsHold`, `FactsArePlaced`, `AssignmentsSurvive`, `EdgesAdmitted` |
| `export_sync` | 2 facts on 1 page, 3 operations of users, 1 fault | 6.82 M, 130 s | `ExportedUpToCursor`, `DeletedAreRemoved`, `UsersOwnTheVault` |
| `ledger_pool` | 2 ledgers, 2 scopes, 1 session, 5 events in the Hub, 1 edit, 1 lost append, 1 restart | 493 k, 75 s | `ReplayAgrees`, `TurnsAreAnchored`, `EditsKeepEntries` |
| `flash_ledger` | 2 versions of the user, 1 of the model, any 2 faults, or a lost event, a crash and a proxy away; under fairness | 853 k, 42 s | `RepeatsAreFaults`, `UserTextIsKept`, `Converges` |
| `interception` | 3 requests of a session, 2 rounds, any 1 of crash, failure, client leaving, odd reply; three ways of answering. Or one answer on 3 paths, up to 3 chunks, 2 calls | 4.93 M, 120 s | `AgentNeverSeesOurs`, `TurnsAreComplete`, `ProtocolHolds`, `AnswerComesBack`, `CallsComeBack` |
| `routing` | 2 concurrent requests of a session, 3 models of 2 tiers, 6 kinds of request | 521 k, 61 s | `OnlyPicksStay`, `TierOnlyRises`, `PinnedIsReleased` |
| `deployment` | 2 homes on one or two hosts, 2 terminals, 2 pids each, 3 commands, any 1 fault | 1.13 M, 80 s | `ServesUnderItsClaim`, `OneBesideTheProxy` |

One more run checks a sentence that a comment and a test of the repository state and that the code does not
keep; TLC finds the behaviour in 14 states. `UserTextIsKept` excepts exactly this case.

| run | configuration | property violated | what happens |
|---|---|---|---|
| `flash_stray` | `FlashStray.cfg` | `StrayTextIsKept` | a text that lost the ledger's id counts as the daemon's own and is written over by the next change |

**`pipeline`** follows turns from `_enqueue_turn` to the Hub, with an operator's flush
beside the worker. A turn whose enqueue returned has a readable copy on disk, in the stream or
in the Hub, although back-pressure truncates or spills it, a replay may be cut short after any
file, and shutdown cancels the worker anywhere. Nothing leaves the pending list or the stream
before the Hub has it, and an entry that the main loop can no longer reach is in the Hub. Second copies appear
only with a lost reply, a crash between XADD and unlink, or an unlink that fails, one per fault. `KeepsPromise` says
the same of a turn's whole life. Every readable entry reaches the Hub as long as the proxy holds a
pipeline and no torn entry is in the stream, after crashes in the middle of a batch, disk errors, a shutdown or a
flush beside it, and failed writes that exhaust their retries; every enqueue ends.

**`hub_store`**: content addressing never leaves a turn with a dangling reference, for all
interleavings of two puts and a crash; reads from the lazy caches answer as a scan would, but for
one race that `AnswersAreCurrent` names (a tombstone written while a thread
is between its scan and its assignment of the cache); a turn's prefix stays a candidate.

**`consolidator_user`**: a turn is marked consumed only if the Index has its fact or a
reason not to; what a user entered or corrected, up to the watermark, is in the Index in its
last form, but for an event whose replay raised, which takes nothing away of what came before it; a turn's
fact for which `DELETE /admin/facts` answered "deleted" never returns. All
across crashes and exceptions at every step of incremental rounds and of a full rebuild.

**`consolidator_live`**: only a turn's own failures use it up, so an outage of the model of
any length burns nothing; the daemon backs off only if all it has seen is done; every stored
turn is consumed eventually, or the daemon has ended, although a round takes one turn of three and a turn that is put
off comes back before the others.

**`rounds`**: whatever verdicts the model gives, in whichever order turns come, each consumed
turn leads to a current fact (or a forgotten, refused or torn one); a full rebuild has one current value
per key; a verdict once paid for is not undone by a rebuild. Of the matters: a stored fact is in one
place, but for one whose attribution was lost by a crash, an exception or a correction; a fact of lane profile or tool
is in none but where the user put it; what a user
assigned is what a full rebuild arrives at, whatever the pipeline thinks; no automatic edge hangs on a card that
is gone or that the ledger gate refuses, though the journals outlive both the cards and the gate.

**`export_sync`**: the vault and the Index agree up to the cursor although both are edited
while an export runs; what comes back from the vault is what a user did there; what was deleted
stays out, unless a round stamps it anew in an Index that still has it.

**`ledger_pool`**: a restart loads what the process had, except for what an append that failed
left behind; an agent that gives the rev it has read of the ledger that is still active removes the entry it has read,
whoever wrote in between; entries go only by a removal, a replacing edit or a lost append.

**`flash_ledger`**: of the texts that name the ledger the daemon overwrites only what the proxy has adopted (or
what was typed while it was about to write, see section 6); adoption may repeat once per crash, lost reply or failed
write; while the daemon runs, the file converges.

**`interception`**: each round of the model is stored once, with the turn of some request; the
agent never gets a call it cannot run, but for one named late in the first reply of a stream; the model gets back
the calls that were cut, wherever the answer comes back in one piece after they have run. Of one answer:
whatever the order in which thought, text and the pieces of two calls come, blocks follow one another
and items match the final snapshot, but for text after a call and calls out of order; the stored turn
is the answer the agent holds; sent back, it parses to the same text and calls in an order upstream accepts.

**`routing`**: a session's tier falls only for a reason; a session held by a fail-over is released.

**`deployment`**: a proxy that reads the stream holds the claim or one of six named things
happened; no home ends with two processes of a kind beside its proxy, but for two commands of one home that crossed, a
terminal that was closed, a pid that came again and an embedding server that was given up.

### 3.1 The bounds, and why they are enough

- *Two turns, requests, putting threads, homes, terminals* make every pair of actors meet: two tasks, a task and a
  replay, an entry beside its duplicate, a claim and its takeover. *Three or four* are used where the
  question needs it: a history that branches (`hub_store`), a chain of supersession longer than
  one (`rounds`), a turn put off that pushes two others out of the window of one (`consolidator_live`), a loop
  whose rounds another request may take along (`interception`).
- `QueueMaxLen` 1 makes the second turn meet back-pressure. `Batch` and `FlushBatch` 2 hold
  both entries in one call; `ReclaimInterval` 2 alternates reading and reclaiming;
  `MaxRetries` 2 has one retry and one exhaustion.
- `Base` 1, `MaxInterval` 2, `IdleAfter` 0: one idle round doubles the interval, the second
  meets the cap. `RetryMax` 1: a first failure is put off, a second gives up.
- `Slots` 2 with three prefixes meets the eviction; `Cap` 1 the end of re-emission; `MaxVanished` 1
  the limit on lines that vanish at once; `RoundsCap` 2 a loop that goes on and one that runs out;
  `ScanTurns` 3 a record that is no longer found.
- The routing instance has two models of one tier under one quota (a fail-over inside a tier,
  a rate limit that hits both), a weaker one (a fail-over that degrades), one model without vision
  and one local (requests that the sticky model cannot serve).
- Budgets bound faults and what users do; each kind can hit the repair of another one. A behaviour
  without a fault is included in each run.
- Histories (`gone`, `typed`, `stands`, `how` and the like) are read by properties only.

Symmetry is declared only in runs without temporal liveness properties, over values which the
constants do not tell apart.

### 3.2 Deadlock

Bounded runs stop when what their bounds allow is used up: these configurations say
`CHECK_DEADLOCK FALSE`. `Consolidator` and `FlashLedger` are checked for deadlock: their daemons
always have a step.


## 4. Fairness

`Pipeline!Fairness` is weak fairness of each request's task, of the replay, of the worker and
its `_process_one`, of `Restart`, `Exit`, `RedisUp` and `Tick`. The event loop runs each
coroutine that is ready, the executor finishes its calls, time passes; the proxy is restarted
by its supervisor (`deploy/docker-compose.yml`: `restart: unless-stopped`). Redis coming back
is an assumption of the environment. Nothing is assumed of the operator's flush, of a
shutdown or of the cooldown.

`Consolidator!FairSpec` is weak fairness of `DaemonSteps` as a whole: one process that
runs its loop, which at each moment has one thing to do. No fairness for `Start`: nothing in
the code starts the daemon again (`PollRaises`), therefore `TurnsAreConsumed` excepts a
daemon that is down. No fairness for choices of the model: a poisoned turn fails for ever.

`FlashLedger!FairSpec` is weak fairness of the loop of a daemon that runs and of the doorbell that rings when a
turn is stored (`Ring`; its reader may lose it). No fairness for `Start`: nothing in the repository starts the flash
daemon again, therefore `Converges` excepts a daemon that is down. `Routing!RoutingSpec` is weak fairness of the clock for the
time of a hold; that the session goes on is a premise of `PinnedIsReleased`, as is the end of
the faults. The other specifications state no fairness and have no liveness properties.


## 5. What is proved

With TLAPS, for every value of the constants that the assumption of the component
admits: any turns, threads, homes, processes, facts, models, any bounds and any number of
faults.

| theorem | module | states |
|---|---|---|
| `Typing` | `PipelineProofs` | `Spec => []TypeOK` |
| `StreamSafety` | `PipelineProofs` | `WorkIsStored`, `PendingIsInStream`, `LeftoversAreStored` are invariants |
| `StoredBeforeDropped` | `PipelineProofs` | `Spec => OnlyStoredIsDropped` |
| `NoLoss` | `PipelineProofs` | `Spec => []NoTurnLost` |
| `OneCopyEach` | `PipelineProofs` | `Spec => []DuplicatesNeedAFault` |
| `Implementation` | `PipelineProofs` | `Spec => KeepsPromise`: the pipeline implements `DurableTurns` |
| `TurnsAreWhole` | `HubProofs` | `Spec => []RefsResolve` |
| `HubAnswers` | `HubProofs` | `Spec => []AnswersAreCurrent` |
| `CacheRace` | `HubProofs` | the tombstone cache lacks only what was written while a scan built it |
| `CandidatesStay` | `HubProofs` | `Spec => []CandidatesKept` |
| `SettledIsForEver` | `ConsolidatorProofs` | `Spec => []ConsumedIsSettled` |
| `LabourIsKept` | `ConsolidatorProofs` | `Spec => []LabourKept` |
| `DeletedIsGone` | `ConsolidatorProofs` | `Spec => []DeletedFactStaysGone` |
| `OutagesBurnNothing` | `ConsolidatorProofs` | `Spec => []OutageBurnsNothing` |
| `BackOffIsIdle` | `ConsolidatorProofs` | `Spec => []BacksOffOnlyWhenIdle` |
| `DeletedHaveNoLine` | `ExportSyncProofs` | `Spec => []DeletedAreRemoved` |
| `NothingBelowTheCursorIsLost` | `ExportSyncProofs` | `Spec => []ExportedUpToCursor` |
| `TheVaultIsTheUsers` | `ExportSyncProofs` | `Spec => []UsersOwnTheVault` |
| `StreamsAreClaimed` | `DeploymentProofs` | `Spec => []ServesUnderItsClaim` |
| `OneReader` | `DeploymentProofs` | at most one proxy reads the stream, under the same exceptions |
| `SidesAreOne` | `DeploymentProofs` | `Spec => []OneBesideTheProxy` |
| `PicksStay` | `RequestProofs` | `RoutingSpec => []OnlyPicksStay` |
| `RepeatsArePaid` | `FlashProofs` | `Spec => []RepeatsAreFaults` |
| `TypedIsKept` | `FlashProofs` | `Spec => UserTextIsKept` |
| `AgentSeesItsOwn` | `RequestProofs` | `Spec => []AgentNeverSeesOurs` |
| `TurnsAddUp` | `RequestProofs` | `Spec => []TurnsAreComplete` |
| `WhatWasCutReturns` | `RequestProofs` | `Spec => CallsComeBack` |
| `EdgesAreAdmitted` | `RoundProofs` | `GraphSpec => []EdgesAdmitted` |
| `FactsStayPlaced` | `RoundProofs` | `GraphSpec => []FactsArePlaced` |
| `AssignmentsStay` | `RoundProofs` | `GraphSpec => []AssignmentsSurvive` |
| `PaidVerdictsStay` | `RoundProofs` | `Spec => []PaidVerdictsHold` |
| `OneValueStays` | `RoundProofs` | `Spec => []OneValuePerKey` |
| `LedgersHold` | `HubProofs` | `PoolSpec => []LedgerInv` |
| `EditsStay` | `HubProofs` | `PoolSpec => []EditsKeepEntries` |
| `LedgersAreReplayed` | `HubProofs` | `PoolSpec => []ReplayAgrees` |
| `TurnsStayAnchored` | `HubProofs` | `PoolSpec => []TurnsAreAnchored` |

Each is the invariance of a strengthened invariant (`PipelineInv`, `TurnInv`, `RefInv`, `CountInv`,
`InterceptionInv`, `RoutingInv`, `GraphInv`, `RoundInv`, `LedgerInv`, in the other modules `IInv` or `Inv`), which
TLC had checked on the instance of the run before it was proved; the property follows
from it. The proof that a step keeps it has a lemma per conjunct (`...Step`) and in it a case per action.

**Assumptions on the constants.** `PipelineAssumption`: the turns are no sentinels, the batch
sizes and the retry limit are positive, the rest are natural numbers. `HubAssumption`,
`ConsolidatorAssumption`, `ExportAssumption`, `RoutingAssumption`: sets, sequences and numbers of the
kind that the constants are declared for; the turns of the Hub are numbered from 1 in the order of their keys.
`MatterGraphAssumption`, `AdjudicationAssumption`: finitely many facts, numbered in the order of their turns.
`DeploymentAssumption` says in addition that `None` is
neither a pid nor a home, a claim or a process; in the code it is Python's `None`. `FlashAssumption` says that
`None` and `Edited` are neither a text nor a number. `LedgerAssumption`: `None` is neither a ledger nor a scope, no ledger
is a scope, the bounds are natural numbers. `SplicingAssumption`: the bounds are positive, the budgets
of faults natural numbers. Nothing is assumed of the
actors: the exceptions are those that the properties name.

### 5.1 The pipeline

**The inductive invariant.** What a reader wants is `LeftoversAreStored` (an entry that the
main loop can no longer reach is in the Hub) and `OnlyStoredIsDropped`. Neither is
inductive: whether an XACK drops a stored entry depends on what its sender did two awaits
earlier, and meanwhile the other consumer may have moved. `WorkIsStored` is the missing
part: both consumers hold delivered entries only; one that is about to acknowledge
has its first entry in the Hub; one that is about to delete has it in no pending list.
With `PendingIsInStream` (nothing pending was deleted) and the types,

    PipelineInv == TypeOK /\ WorkIsStored /\ PendingIsInStream /\ LeftoversAreStored

is inductive. `Removals` and `Additions` say what the commands of Redis do to it,
`JobInv` and `FlushInv` treat the two consumers, `StreamInv` the stream.
`OnlyStoredIsDropped` follows from it for each step.

**No turn is lost.** `NoTurnLost` needs, besides, that the file about to be unlinked has a
copy in the stream or the Hub (`ReplayKeeps`):

    TurnInv == PipelineInv /\ ReplayKeeps /\ NoTurnLost

`KeptStays` (a copy in stream or Hub stays in one of them) rests on the same lemma
`Removals` as `StoredBeforeDropped`; `FileCopyStays` says a file disappears only by `ReplayUnlink`.

**The promise is kept.** The fate of a turn depends on whether the Hub has it (`InHub`) and
whether any place has it (`Copied`). `HubCopies` and `FirstCopy` say who may change these: the
Hub takes only entries that were copies before, and the first copy of a turn is made by its
own task. For the first, an entry that is in the stream no more must be in the Hub, for the
second the task that awaits a replay must be waiting; so the invariant is

    RefInv == TurnInv /\ DroppedAreStored /\ ReplayerWaits

Then an `Add` or a spill is `Persist`, `Return` or `Lose` of its turn (`CopyStep`), a put is
`Store` of one turn (`PutStep`), a crash is `Lose` of several (`CrashStep`), and the other
steps are stutters (`OtherStep`).

**A turn is copied once.** `DuplicatesNeedAFault` bounds the copies of a turn by the lost replies, the
crashes and the files that could not be removed. The copies alone are no invariant: the task of a turn makes its
copy later, and a fault in between
must not have been used up. So the one that is still to come (`ToCome`) is counted with them, up to the task's end:

    CountInv == TypeOK /\ ReplayIsAlone /\ \A t : Readable(t) + ToCome(t) <= Allowed

A replay copies a file into the stream before it deletes the file; meanwhile the first file is not counted
(`Unlinking`), and this is right only while nobody else replays: `ReplayIsAlone`. A put whose answer is lost
leaves a copy and a task that spills another (`AddCounts`, `SpillCounts`); a crash, or an unlink that fails, forgets
that the first file was copied; `ReplayAddCounts`, `UnlinkCounts` and `OthersKeepCounts` are the rest.

The first part of `PipelineProofs` is about types; its lemmas follow the parts of `TypeOK`, and `Command`
says once what any Redis command changes.

### 5.2 The Hub

`RefsResolve` speaks of the records, but a record's references are decided message by message while other
threads put and the process may die. `PendingResolve` says of each put under way that it refers only to
contents it found in the database; the others stay inline in its record. No content is ever removed. `IndexHolds`:
the index of recent turns, while it is built and afterwards, has every turn that was noted.
`AnswersAreCurrent` compares an answer with the store at two times; `ReadsHold` carries what the read has seen so
far from step to step: the scan, the merge with the pending keys of the index being built, and the
tombstones it saw. Its exception is exactly the race of `CacheMissesOnlyRaced`, which is a theorem of its own.

`CandidatesKept` is about a queue that threads look into, remove from and append to, in three steps and without a lock, and
that a restart fills again from the turns. `QueuesHold` says of each session whose prefixes fit into its slots
and where no two threads met (`shaken` is the history of that): the queue has no prefix twice; one thread
at most is at it; it is about to remove a prefix exactly when that is in the queue; each finished turn's prefix is in
the queue, or removed by the thread that will append it (`Orderly`). Then nothing falls off the queue's end, since what
is appended is not in it and all of it fits. `Recover` is a recursive function over the turns in the
order of their keys: what it keeps is proved of each prefix of them, by the least for which it would not be so.

### 5.3 The consolidator

A turn is marked consumed last, long after it was judged; in between users delete and correct and the process
crashes. `KeysAreSettled` says at each place of the round what the turns to be marked have already: their
fact, or a reason to have none. A fact that is not stored because the user corrected it rests on three others:
the correction's event is in the Hub (`CorrectedBefore`), events up to the watermark were replayed
(`CaughtUp`), and the Index shows the last of them (`EditsAreShown`); this is `LabourKept` too. Events whose replay
raised are out of it (`swallowed`): one that raised shows the state before it, and the replay of a full rebuild decides
anew which do. During
`clear()` the marks go before the facts, so `Settled` speaks of marks that are still there. `GoneIsSeen`: a
deletion that was answered was in the daemon's view, or will be before it stores that fact. `WaitsWhenDrained`: a
sleep longer than the base comes after a round that saw everything up to the `_HubWatermark` and left nothing.

### 5.4 Export and backflow

The properties speak of the scan and of the time between two runs, the steps are those in the middle of one.
`JobShape`: what is collected is newer than the cursor on disk, and nothing in the Index is newer
than the next one. Hence a fact that is done with, which was never indexed after its tombstone
unless a round stamped it anew (`revived`), is not collected again (`DoneIsGone`), and a run that fails leaves the
cursor below what it did not
write (`Exported`). `SnapshotIsRight`: a line differs from the snapshot, or from the one on disk when the
process is down, only by what a user typed; a line that is missing was erased, went with its page, is
forgotten, or a fault left it out. `EditsAreUsers` keeps this of edits that wait to be posted while the user
goes on typing. `LineAfter` lists what a step can make of one line, `HistoryGrows` says that the reasons stay.

### 5.5 The claim, and processes

A proxy that has acquired the stream has written the claim; whoever is about to overwrite or delete it has read it
some steps ago. `ClaimsAreHeld` says what it read then: nothing, a claim of its own home, where no other
proxy lives (`OneProxy`), or of a pid that is dead. That this stays true needs that a pid is not given out again
while a file or a claim names it (a fault, `reuse`). For `OneBesideTheProxy` the pid file names the process from its
birth to its end (`SidesAreNamed`), and a command that is about to signal it remembers the pid in the file
(`CommandsKnow`). This is so until two commands of the home cross, a terminal is closed, a pid comes again or
a server is given up (`Tracked`): then the property says nothing. `Apart` has two commands of different homes leave
each other's files alone.

### 5.6 Routing

`KeptIsPrimary`: a request whose entry was not written by another since has the sticky model first
in its plan, so a success of that model leaves the entry as a decision made it, and a success of any other
is marked as a fail-over.

### 5.7 The flash daemon

That an adoption repeats once per fault is not inductive: the fault comes rounds before the repetition. `Due`
says when the daemon may offer a version again that the proxy has (it is down or starts and its state knows a file; its
snapshot is not the file; it waits for an adoption whose answer it did not see), and `Counted` is the invariant
`repeats + Owed <= FaultsPaid`. It needs that what the daemon, the proxy and the Hub hold was adopted
(`TextsAreTaken`) and that a text on its way is the file's or the user typed since (`OffersAreFile`). The proof
sharpened the property: refused adoptions and lost events were among the faults it counted and are
not needed. `UserTextIsKept` follows from `SnapIsKnown` (only a file the saved state does not know is without a
snapshot), from `TextsAreTaken` (a snapshot is of a text that was adopted, or of a stray one) and
`AdoptionsAreFile` (until the Hub has caught up, the file holds what was adopted, or was typed since).
Lemmas on kinds of steps (`DaemonMoves`, `OfferMoves`, `WriteMoves`, ...) carry the invariant, one per action
(`...Step`) reduces it to them.

### 5.8 The interception of BladeX's calls

The requests of a session share the splice table and the buffer of the inner loops, and each takes from them what
others left. The seventeen actions of a handler, the three of the agent and the crash are first reduced to five kinds
of steps (`StepKinds`): a request is sent (`Sends`), comes in (`Prepares`), goes on (`Handles`), has a turn stored
(`Stores`), or the process dies
(`Dies`). `InterceptionInv` has, besides the types and what is known of a request where it is (`Shaped`), four
layers; each has a lemma per kind of step:

- `Rounded`, for `RoundsAreAccounted`: a round is in one place only, in the buffer, a turn that waits to be stored,
  or the store; each belongs to a request past its loop, so that the rounds it adds at its end are new; what waits
  in the buffer has a request that will fetch it.
- `Stowed`, for `AnsweredIsStored`: the turn of a request is the first it stores, and nobody else stores it.
- `Recorded`, for `RecordsAreStored`: a record that is not stored is fresh and its request has yet to build its turn, or
  another request came in before that (`met`). No record is made before its request is past the
  tools (`Past`), so none is taken for that of a request that is still to come.
- `Recalled`, for `CallsComeBack`: what the agent holds or has sent was answered, and what was cut out of it is in the
  table, unless its tools still run or were cancelled (chat stream) or there was a crash; while an answer waits to
  be heard, the same holds of
  the answer (`AnswersAreTabled`). What the Hub held at a restoration is in the table (`GivenAreTabled`).

`AgentNeverSeesOurs` follows from `Shaped`: a reply that still has a named call of BladeX is in a loop, or is that of a
request that failed or was left, and nobody hears it; a late one is in the first reply of a stream (`Slipped`), and what
is heard is of a request that has no round yet (`SlipsAreFirst`). `CallsComeBack` is about the step `Prepares` alone:
what it splices is the answers in one piece that the table has, and the invariant says what these are.

### 5.9 The round: matters

The properties are about a full rebuild, which replays what users did, years of it, before the pipeline thinks again. So an
operation is seen as a relation of two graphs: what it does to the facts that have an edge (`Linked`), one by hand (`Held`),
none of the pipeline (`Bare`). The lemmas of one event (`HandledBy`) and of one title of the digestion (`Digested`)
are carried through `ApplyEvents` and `Digest`, recursive functions over the events and over the titles in
their order. `GraphInv` has

- `Sound`: an automatic edge hangs on a card that is there or on the pool, and the ledger gate has let it through to the card it
  was first written for; a fact has one automatic edge at most, and one edge under a key. With it `EdgesAdmitted`, over
  merges, splits and journals that outlive the cards.
- `AsideAreBare`: a fact of lane profile or tool has no automatic edge. `WaitingAreBare`: facts whose turn in the
  attribution loop has not come have no automatic edge, and `AttributedAreLinked`:
  those whose turn has passed have an edge, unless the step raised or a user detached one; a fact that only a correction
brought back is never attributed (`lost`), and a correction leaves edges alone (`CorrectHandled`); hence `FactsArePlaced`.
- `AssignedAreHeld`: once all events were replayed in a full rebuild, a fact that a user assigned has edges by hand only.
  That each of the five ways of the pipeline then leaves it alone is most of the proof of `AssignmentsSurvive`.

### 5.10 The round: verdicts

A full rebuild judges facts on objects in memory, wipes the Index, stores the objects, replays the ledger of paid verdicts and
then applies those of this round. `RoundInv` follows it. `Gathering`, until the last verdict is in: what has been judged
is in the objects, what waits is not; each record says what its verdict did to them (`RecordsSay`); of two current
objects with one key, the model could judge one (`OneKey`). `Writing`, from then on: a fact that was kept and
stored is in the Index as its object says, and no other is; after the replay (`Replayed`) the Index shows nothing as current that
its object does not, and no target of a paid verdict whose candidate was kept, unless this round dropped another
fact for it (`Upheld`). At the end the Index has one current value per key (`OneValuePerKey`) and every
paid verdict (`PaidVerdictsHold`). Of other rounds nothing is claimed: the exceptions of section 6 are those of
incremental rounds, which promise less.

### 5.11 The ledgers

`Replay` and `Anchor` are recursive functions over the events, and what they make of a history is proved event by
event: `SoFar` says what holds of the replay after each. `Agree` relates a history to a pool and a table of active ledgers
(`Matches`): they are what the replay makes of it, but for what is `unsaved` or deleted. Three kinds of events keep it.
One that is appended does to the process what `ReplayStep` does to the replay (`Hearing`); one whose append fails puts what
it is about among the unsaved (`Missing`). A deletion is different: the replay skips what was said of the ledger
*before* it too, so two replays of the whole history are compared, with and without the tombstone
(`Alike`, `AlikeStep`, `DeletingAgrees`). The handlers are made of one, two or three such events, of which any may be lost
and between which the process may die (`PerformOne`, `PerformTwo`, `PerformThree`).

`EditsKeepEntries` alone is not inductive. That an entry survives a crash rests on `Agrees`: what is loaded is what the process
had. That the entry removed is the one that was read rests on `ViewsHold`: while a ledger's rev is the one an agent has read, its
entries are too, which is used for a call that gives that rev of that ledger (`locked`). This holds only for
ledgers whose revs were never given out twice, so those that are unsaved must be
among those that lost an event (`Listed`):

    LedgerInv == Agrees /\ Listed /\ PoolTyped /\ ViewsHold /\ RemovesWhatWasRead /\ EntriesAreKept

`Survive` says that a handler which writes no entry over loses none; the user's edit is the one that does.
`ReplayAgrees` follows from `Agrees`.

`TurnsAreAnchored` is a fact about a history alone, and no invariant is needed but `ReplayAgrees`. From the last
switch of a scope on,
the timeline and the replay either both have the ledger it switched to, or both none (`Tied`, `TiedStep`). The two
exceptions of the property are where this fails: a creation whose switch is missing moves the timeline only (`HalfCreated`),
and what is done to a ledger before the Hub knows it is for the timeline only (`Orphans`).

### 5.12 What stays with TLC

Liveness (`StreamKeepsMoving`, `TurnsAreConsumed`, `Converges`, `PinnedIsReleased`): temporal
properties under fairness and `ENABLED` are beyond the prover. `TierOnlyRises` of `Routing`: the pools are `SelectSeq` of the
configuration, of which the prover knows no more than the name. The two properties of `Streams`: blocks and items are
put together by folds and `SelectSeq`, and what these compute is induction over data. `NothingVanishes` of
`Adjudication`: a chain of supersession grows over several rounds and crashes, and that it ends in a fact that is
current or excused is again an induction over data.

Elsewhere a recursive function (`Recover`, `ApplyEvents`, `Digest`, `Replay`, `Anchor`) is reasoned about by its
least counterexample: the set of the
arguments for which a fact fails is a set of numbers, and has a least one if it is not empty (`LeastNat`). This is open where the
function recurs over a number and the fact has no operator for a parameter.

`TypeOK`, `WorkIsStored` and `PendingIsInStream` of `Pipeline` are proved and in no run, as are `OneReads` of
`DeploymentProofs` and `CacheMissesOnlyRaced` of `HubStore`.


## 6. What comments say and the code does not do

Met while modelling; the models follow the code. The properties except exactly these cases,
each by a named term (`raced`, `torn`, `late`, `Revived`, `stray`, ...), so that anything else would show.
The one in conflict with a test is shown by a run of its own (`flash_stray`).

*Pipeline.* After a failed XDEL the entry is not "still in the PEL" (`pipeline_redis.py`, `_delete`): XACK
came first, it takes backlog room until a flush. A file spilled while the pipeline object survives
an outage is replayed only by a restart. A file whose unlink raised after its XADD is replayed a second time. One
torn overflow file, replayed, makes
`read_pending` raise for every entry claimed with it, so that those starve too; `StreamKeepsMoving` excepts this
(`Torn`).

*Consolidator.* A replay of `fact_import` ignores the tombstone of the fact, so a forgotten note
comes back. What the replay of one event raises is logged, and the watermark moves past it: no
incremental round applies that event again, and one that raised half-way has written the fact without marking it
corrected. The tombstone cache of the daemon's secondary is never dropped. A full rebuild that
ends between `clear()` and the end of the replay leaves the watermark of what is no longer there.

*Adjudication.* A full rebuild revives a forgotten fact when a verdict of the same round
updates it: changed facts are stored after the tombstone filter. A return to an earlier value
in the earlier words (A, B, A) is dropped as a duplicate, although the newest statement should be
current. NOOP onto a superseded target drops the statement; the downgrade to ADD covers only targets that are
absent. A crash while facts are stored can leave 2 superseded by 3 and 3 by a 4 that was not
stored; a later NOOP of 4 onto 2 then leaves a cycle in which nothing is current. A crash after `add_fact` and
before the records are applied loses the verdict until a full rebuild. A verdict onto a target
that is still pending is written to the ledger and not applied.

*Export.* An incremental round filters only new facts by the tombstones: what was forgotten while the Index was locked
stays until a full rebuild, and is exported again if it is stamped anew. `flags.py` and
`export_backflow.py` say that a whole page that vanished is never taken for
deletions; its facts are deleted. The cursor passes facts whose time is below it (`fact.py`
on changes that "are never exported again" describes one of the ways). A page torn by a crash reads as deletions.
`bladex connector
run` may export beside the daemon.

*Ledgers.* Switching to a sub-task can leave its parent closed. If the append of a creation
fails, a later close is unheard by the replay. A user's edit revives a deleted ledger until the
next restart, with revision 0. The rev of a call is optional, and compared with the rev of the ledger that is active
when the call comes, not of the one that was read. A crash between the creation and its switch
leaves timeline and table apart.

*Flash.* A text that names no ledger or another one is neither offered nor kept: it becomes the daemon's snapshot and is
overwritten by the next change (run `flash_stray`). A text typed while an adoption is pending is overwritten by its
settlement. The baseline is stale
after a crash between write and save; `write_if_changed` swallows an `OSError`. The file of
a deleted ledger may stay. The first read of the doorbell from `$` loses a ring.

*Deployment.* "One instance per stream" (`instance_claim.py`) rests on a SET without a condition and on a heartbeat that
only logs. A start whose proxy ends at once returns 1 before it takes back its side processes. An embedding
server that does not listen within 20 s loses its pid file and goes on running. Two commands of one
home may run at once, nothing locks them out. `_stop_by_pidfile` does not look at the home; a
foreground proxy writes no pid file.

*Interception.* "A failed upstream is stored as a FAILED turn" does not hold for a failure
inside the loop of an answer in one piece. A stream's stripper decides by the first piece of a call: a call of BladeX
whose name comes later goes to the agent. On `/v1/responses` every item comes back as a message of its own and the anchor of
the whole answer does not match; a chat client has the end of its stream before our calls run
and may ask again
or hang up, which cancels them; a text with the word `tool_use` counts as a call handed on. In streams a resend is not recognised. The record of a mixed reply after
loop rounds has another anchor than the agent's history. A client that leaves ends the accounting of its rounds, as
does a failure of a
later round.

*Streams.* On `/v1/responses` text after a tool opens the message item again at output index 0, which a tool may
have, and its `output_item.done` repeats the whole text, against "与 response.completed 快照一致"; tools
that begin out of order get indices that differ from the snapshot. On `/v1/messages` text after a tool
nests blocks (the code only warns), and an id or name that comes after the first piece of the streamed
tool never reaches the client. An upstream error ends a stream like a normal end. A client that leaves
stores an empty turn, although `capture_stream` says what was captured is kept. Several function calls of one
answer come back on `/v1/responses` as an assistant message each, so that the tool messages do not all
follow their call. An answer in one piece on `/v1/messages` turns arguments that do not parse into `{}`.

*Routing.* The success hook updates the sticky entry for auxiliary requests too, although
`routing.py` keeps them out of stickiness; a fail-over from a routed model to a weaker one lowers the tier.

*Matters.* `merge_matters` says a replay after the immediate call changes nothing; but an assignment to
the source replayed after its merge puts the fact by hand on the closed source. `digest_unassigned_pool` detaches
every edge of a pooled fact, those assigned by hand too, and leaves `fact.matter_id` empty; splitting and
detaching one edge leave `matter_id` as it was. `assign_manual` never promotes, though a touch by hand is said to.
A full rebuild replays merges, closures and renames before the automatic matters they name exist, so
they have no effect. A closed matter may gain facts (journals and unit keys are checked for existence
only). After a crash between `add_fact` and attribution facts stay without a matter until a full rebuild.
The digestion does not ask the ledger gate. A full rebuild leaves corrected facts out of the attribution, so that they have no
edge but those by hand, while their `matter_id` may name a card. Facts of lane profile or tool get no edge at all, not even
the pool's (`BLADEX_LANE_HARD_SPLIT`).


## 7. What is abstracted, and what is not modelled

*In `Pipeline`*: a turn's payload is its name and whether it can be decoded, in full or
truncated; statistics, progress messages and the doorbell rung after a put are left out; `put`
is one step whose key ends in the entry id, so that a second put of an entry changes nothing.
Waiting for the queue to drain (`_wait_for_drain`) is a second look at its length.
The read-only variant of the flush changes nothing and has no action. The recovery that finds another home's claim fails like
one that finds no Redis.

*In `Consolidator`*: a turn yields one fact, which has its name. The calls of the model are a
choice of which turns fail (the call raises) and which answer unusably. Events on matters
and edges (`MatterGraph`), on scopes and agents, novelty, supersession and adjudication of new facts, filters of a
job (`since`, `until`, agents), re-attribution jobs, `--full`, `--once` and `--unconsume` on
the command line, maintenance in idle rounds, the export worker's wake-up, and vectors are left
out. Entry ids begin with the wall clock; here they are positions, so the clock never
steps back (listed as a hazard). After a deletion by `DELETE /admin/turns` the turn's fact stays
in the Index: the cascade runs on the proxy's read-only Index and fails at its first write.

*In `HubStore`*: a hash is the sequence it hashes. One deletion at a time (the event loop). Secondaries are in
`Consolidator`, ids from the clock and scans by agent or time are left out.

*In `Adjudication`*: `clear()` is one step (`Consolidator` takes it apart). Corrected facts, the limits of a
similarity search, failing writes of changed facts, and the fallback without a model are left out.

*In `MatterGraph`*: the text of matters, vectors and topic keys (they choose candidates), scopes, renames, the
lifecycle by age; one session and one agent.

*In `ExportSync`*: full rebuilds (which clear the Index), matters and edges (which move the cursor too), PostgreSQL
rows, the index pages, moves between pages.

*In `LedgerPool`*: goal protection, sections, rendering and its budget. *In `FlashLedger`*: several files, the index
file, the text itself.

*In `Interception`*: age in time, the limit of 512 sessions, the recent window, what is injected.
*In `Streams`*: usage, finish reasons and the system text; a chunk with pieces of two calls (two chunks here).
*In `Routing`*: the judge's cache, the limit on sessions, a hold of 0, stickiness switched off;
requests that find no candidate do not start.

*In `Deployment`*: one process beside the proxy stands for both; installation, upgrade, logs.

*Not modelled*: what `PROJECT.json` lists as such, with the reason. Pure functions of texts
(identity, distillation, fusion of rankings) have no state a model checker would explore.


## 8. Plan

1. The plan of the assembly (`consolidation_proxy.py`, `cache_state.py`): cold and warm rounds.
2. Registry of agents and purge of projects; the embedding server's queue.
3. A theorem on `NothingVanishes`, with a rank that orders a chain of supersession.
