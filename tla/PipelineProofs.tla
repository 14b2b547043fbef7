--------------------------- MODULE PipelineProofs ---------------------------
(***************************************************************************)
(* Theorems about Pipeline, for every value of its constants.              *)
(*                                                                         *)
(* No step destroys the last copy of a turn.  The argument rests on one    *)
(* inductive invariant: what the two consumers hold was delivered, what    *)
(* they acknowledge is in the Hub, what they delete is pending no more     *)
(* (WorkIsStored); so the stream never loses an entry that the Hub lacks,  *)
(* and the files lose only what the stream has taken over.                 *)
(*                                                                         *)
(* No step copies a turn without a fault: counted with the copies is the   *)
(* one that the task of the turn will still make (CountInv).               *)
(*                                                                         *)
(* The pipeline implements DurableTurns: under the mapping Fate, each step *)
(* persists, returns or stores one turn, loses some that nothing was       *)
(* returned for, or changes nothing.  The argument follows the two things  *)
(* a fate depends on: whether the Hub has a turn (InHub), and whether any  *)
(* place has it (Copied).                                                  *)
(***************************************************************************)
EXTENDS Pipeline, TLAPS, FiniteSetTheorems

\* The constants, one fact each.
LEMMA Constants ==
    /\ ReclaimInterval \in Nat /\ ReclaimInterval > 0
    /\ MaxRetries \in Nat /\ MaxRetries > 0
    /\ Budget \in [Faults -> Nat]
    /\ "startup" \notin Turns /\ "nobody" \notin Turns
  BY PipelineAssumption DEF PipelineAssumption

-----------------------------------------------------------------------------
(* Type correctness, one part of TypeOK at a time. *)

LEMMA TypeInit == Init => TypeOK
<1>. SUFFICES ASSUME Init PROVE TypeOK
  OBVIOUS
<1>. USE Constants DEF Init
<1>1. RedisOK /\ StoresOK
  BY DEF RedisOK, StoresOK, Ids
<1>2. ProcessOK
  <2>1. task \in [Turns -> TaskStates]
    BY DEF TaskStates
  <2>2. loops \in 0..(ReclaimInterval - 1)
    OBVIOUS
  <2>. QED  BY <2>1, <2>2 DEF ProcessOK
<1>3. ReplayOK
  BY DEF ReplayOK, NoReplay
<1>4. JobOK
  BY DEF JobOK, Idle
<1>5. FlushOK
  BY DEF FlushOK, NoFlush, FlushSteps
<1>6. spent \in [Faults -> Nat]
  BY DEF Faults
<1>. QED  BY <1>1, <1>2, <1>3, <1>4, <1>5, <1>6 DEF TypeOK

\* Every step spends at most one fault and one of the total.
LEMMA SpentType ==
  ASSUME spent \in [Faults -> Nat], [Next]_vars
  PROVE  spent' \in [Faults -> Nat]
<1>1. CASE UNCHANGED spent
  BY <1>1
<1>2. ASSUME NEW f \in Faults, Spend(f) PROVE spent' \in [Faults -> Nat]
  BY <1>2 DEF Spend, Faults
<1>3. ASSUME ~UNCHANGED spent PROVE \E f \in Faults : Spend(f)
  BY <1>3 DEF Next, vars, redis, stored, process, worker, Enqueue, Begin, RecoverOk, RecoverFail,
     CheckBacklog, RecheckBacklog, Add, SpillToDisk, Replay, ReplayAdd, ReplayUnlink, ReplayUnlinkFails, ReplayDone,
     ProcessOne, Put, Ack, Del, Worker, WorkerLoop, WorkerReclaim, WorkerRead, WorkerBatchDone,
     Flush, FlushStart, FlushAbort, FlushDeliver, FlushPending, FlushInfo, FlushIds, FlushScan,
     FlushCheck, FlushAck, FlushDel, Restart, Crash, Stop, Exit, RedisDown, RedisUp, Tick,
     Cooldown, Answered, Faults
<1>. QED  BY <1>1, <1>2, <1>3

\* The command a step executes on the stream, if any.
Command ==
    \/ UNCHANGED redis
    \/ \E c \in Copies : XAdd(c)
    \/ \E n \in {Batch, FlushBatch} : XReadGroup(FirstOf(Undelivered, n))
    \/ \E B \in SUBSET Ids : XAutoClaim(B)
    \/ \E e \in Ids : XAck(e) \/ XDel(e)
    \/ stale' = pel /\ UNCHANGED <<log, present, cursor, pel>>

LEMMA Commands ==
  ASSUME TypeOK, [Next]_vars
  PROVE  Command /\ redisUp' \in BOOLEAN
<1> USE DEF TypeOK, redis
<1>1. ASSUME NEW t \in Turns, Enqueue(t) PROVE Command /\ redisUp' \in BOOLEAN
  <2>1. CASE Add(t)
    BY <2>1 DEF Add, Command, Copies, Forms, RedisOK
  <2>. QED
    BY <1>1, <2>1 DEF Enqueue, Begin, RecoverOk, RecoverFail, CheckBacklog, RecheckBacklog,
       SpillToDisk, Command, RedisOK
<1>2. CASE Replay
  <2>1. ASSUME ReplayAdd PROVE Command /\ redisUp' \in BOOLEAN
    <3>1. redisUp => Head(files) \in Copies
      BY <2>1 DEF ReplayAdd, StoresOK, ReplayOK
    <3>. QED  BY <2>1, <3>1 DEF ReplayAdd, Command, RedisOK
  <2>. QED  BY <1>2, <2>1 DEF Replay, ReplayUnlink, ReplayUnlinkFails, ReplayDone, Command, RedisOK
<1>3. CASE Worker
  <2>1. FirstOf(stale, Batch) \in SUBSET Ids
    BY DEF FirstOf, RedisOK
  <2>. QED
    BY <1>3, <2>1 DEF Worker, WorkerLoop, WorkerReclaim, WorkerRead, WorkerBatchDone, Command,
       RedisOK
<1>4. CASE Flush \/ FlushStart
  <2>1. FirstOf(pel, FlushBatch) \in SUBSET Ids
    BY DEF FirstOf, RedisOK
  <2>2. Firsts(flush.todo) \subseteq Ids
    BY DEF Firsts, FlushOK
  <2>. QED
    BY <1>4, <2>1, <2>2 DEF Flush, FlushStart, FlushAbort, FlushDeliver, FlushPending, FlushInfo,
       FlushIds, FlushScan, FlushCheck, FlushAck, FlushDel, Command, RedisOK
<1>5. ASSUME NEW a \in Actors, ProcessOne(a) PROVE Command /\ redisUp' \in BOOLEAN
  <2>1. Firsts(job[a].batch) \subseteq Ids
    BY DEF Firsts, JobOK
  <2>. QED
    BY <1>5, <2>1 DEF ProcessOne, Put, Ack, Del, At, Command, RedisOK
<1>6. CASE Restart \/ Crash \/ Stop \/ Exit \/ RedisDown \/ RedisUp \/ Tick \/ Cooldown
  BY <1>6 DEF Restart, Crash, Stop, Exit, RedisDown, RedisUp, Tick, Cooldown, Command, RedisOK
<1>7. CASE UNCHANGED vars
  BY <1>7 DEF vars, Command, RedisOK
<1>. QED  BY <1>1, <1>2, <1>3, <1>4, <1>5, <1>6, <1>7 DEF Next

\* The log only grows, and every pointer into it stays inside.
LEMMA RedisType ==
  ASSUME TypeOK, [Next]_vars
  PROVE  /\ RedisOK'
         /\ Len(log) <= Len(log') /\ Len(log') \in Nat /\ Ids \subseteq Ids'
<1>. SUFFICES ASSUME Command, redisUp' \in BOOLEAN
             PROVE  /\ RedisOK'
                    /\ Len(log) <= Len(log') /\ Len(log') \in Nat /\ Ids \subseteq Ids'
  BY Commands
<1>. USE DEF TypeOK, RedisOK, Ids
<1>1. CASE UNCHANGED redis
  BY <1>1 DEF redis
<1>2. ASSUME NEW c \in Copies, XAdd(c)
      PROVE  RedisOK' /\ Ids \subseteq Ids' /\ Len(log') = Len(log) + 1
  <2>1. log' \in Seq(Copies) /\ Len(log') = Len(log) + 1 /\ Len(log) \in Nat
    BY <1>2 DEF XAdd
  <2>2. present' = present \cup {Len(log) + 1} /\ UNCHANGED <<cursor, pel, stale>>
    BY <1>2 DEF XAdd
  <2>3. Ids \subseteq Ids' /\ Len(log) + 1 \in Ids'
    BY <2>1
  <2>4. cursor' \in 0..Len(log')
    BY <2>1, <2>2
  <2>. QED  BY <2>1, <2>2, <2>3, <2>4
<1>3. ASSUME NEW n \in {Batch, FlushBatch}, XReadGroup(FirstOf(Undelivered, n))
      PROVE  RedisOK'
  <2>1. FirstOf(Undelivered, n) \subseteq present
    BY DEF FirstOf, Undelivered
  <2>2. cursor' \in {cursor} \cup FirstOf(Undelivered, n)
    BY <1>3 DEF XReadGroup, Lasts
  <2>3. cursor' \in 0..Len(log)
    BY <2>1, <2>2
  <2>. QED  BY <1>3, <2>1, <2>3 DEF XReadGroup
<1>4. ASSUME NEW B \in SUBSET Ids, XAutoClaim(B) PROVE RedisOK'
  BY <1>4 DEF XAutoClaim
<1>5. ASSUME NEW e \in Ids, XAck(e) \/ XDel(e) PROVE RedisOK'
  BY <1>5 DEF XAck, XDel
<1>6. CASE stale' = pel /\ UNCHANGED <<log, present, cursor, pel>>
  BY <1>6
<1>8. UNCHANGED log \/ \E c \in Copies : XAdd(c)
  BY DEF Command, redis, XReadGroup, XAutoClaim, XAck, XDel
<1>9. Len(log) <= Len(log') /\ Len(log') \in Nat /\ Ids \subseteq Ids'
  BY <1>2, <1>8
<1>. QED  BY <1>1, <1>2, <1>3, <1>4, <1>5, <1>6, <1>9 DEF Command

\* The overflow files, with the part of them a running replay still has to do.
LEMMA FilesType ==
  ASSUME TypeOK, [Next]_vars
  PROVE  files' \in Seq(Copies) /\ ReplayOK'
<1>. USE DEF TypeOK, StoresOK, ReplayOK
<1>1. CASE UNCHANGED <<files, replay>>
  BY <1>1
<1>2. ASSUME NEW t \in Turns, Enqueue(t), ~UNCHANGED <<files, replay>>
      PROVE  files' \in Seq(Copies) /\ ReplayOK'
  <2>1. CASE RecoverOk(t)
    BY <2>1 DEF RecoverOk, stored
  <2>2. CASE SpillToDisk(t)
    <3>1. [turn |-> t, form |-> "full"] \in Copies /\ Remains(t) \subseteq Seq(Copies)
      <4>1. \A f \in Forms : [turn |-> t, form |-> f] \in Copies
        BY DEF Copies
      <4>2. \A c \in Copies : <<c>> \in Seq(Copies)
        OBVIOUS
      <4>3. <<>> \in Seq(Copies)
        OBVIOUS
      <4>4. {"empty", "torn", "full"} \subseteq Forms
        BY DEF Forms
      <4>5. Remains(t) \subseteq Seq(Copies)
        BY <4>1, <4>2, <4>3, <4>4 DEF Remains
      <4>. QED  BY <4>1, <4>4, <4>5
    <3>2. files' \in Seq(Copies) /\ Len(files') >= Len(files)
      <4>1. CASE files' = Append(files, [turn |-> t, form |-> "full"])
        BY <3>1, <4>1
      <4>2. ASSUME NEW r \in Remains(t), files' = files \o r
            PROVE  files' \in Seq(Copies) /\ Len(files') >= Len(files)
        <5>1. r \in Seq(Copies)
          BY <3>1
        <5>2. Len(files \o r) = Len(files) + Len(r) /\ files \o r \in Seq(Copies)
          BY <5>1
        <5>3. Len(r) \in Nat /\ Len(files) \in Nat
          BY <5>1
        <5>. QED  BY <4>2, <5>2, <5>3
      <4>. QED  BY <2>2, <4>1, <4>2 DEF SpillToDisk
    <3>3. UNCHANGED replay
      BY <2>2 DEF SpillToDisk
    <3>. QED  BY <3>2, <3>3
  <2>. QED
    BY <1>2, <2>1, <2>2 DEF Enqueue, Begin, RecoverFail, CheckBacklog, RecheckBacklog, Add, stored
<1>3. CASE Replay
  <2>1. CASE ReplayAdd
    BY <2>1 DEF ReplayAdd, stored
  <2>2. CASE ReplayUnlink
    <3>1. files' = Tail(files) /\ replay' = [replay EXCEPT !.left = @ - 1, !.step = "xadd"]
      BY <2>2 DEF ReplayUnlink
    <3>2. files # <<>> /\ replay.left \in 1..Len(files)
      BY <2>2 DEF ReplayUnlink
    <3>3. files' \in Seq(Copies) /\ Len(files') = Len(files) - 1
      BY <3>1, <3>2
    <3>4. Len(files) \in Nat
      OBVIOUS
    <3>5. replay.left - 1 \in 0..Len(files')
      BY <3>2, <3>3, <3>4
    <3>6. ReplayOK'
      BY <3>1, <3>5
    <3>. QED  BY <3>3, <3>6
  <2>3. CASE ReplayDone
    BY <2>3 DEF ReplayDone, NoReplay, stored
  <2>4. CASE ReplayUnlinkFails
    <3>1. replay' = [replay EXCEPT !.left = 0, !.step = "xadd"] /\ UNCHANGED files
      BY <2>4 DEF ReplayUnlinkFails, stored
    <3>2. Len(files) \in Nat /\ 0 \in 0..Len(files)
      BY DEF StoresOK
    <3>. QED  BY <3>1, <3>2 DEF StoresOK, ReplayOK
  <2>. QED  BY <1>3, <2>1, <2>2, <2>3, <2>4 DEF Replay
<1>4. CASE Restart
  BY <1>4 DEF Restart, stored
<1>5. CASE Crash
  BY <1>5 DEF Crash, NoReplay, stored
<1>6. CASE Worker \/ Flush \/ FlushStart \/ Stop \/ Exit \/ RedisDown \/ RedisUp \/ Tick \/ Cooldown
           \/ UNCHANGED vars \/ \E a \in Actors : ProcessOne(a)
  <2>. UNCHANGED <<files, replay>>
    BY <1>6 DEF Worker, WorkerLoop, WorkerReclaim, WorkerRead, WorkerBatchDone, Flush, FlushStart,
       FlushAbort, FlushDeliver, FlushPending, FlushInfo, FlushIds, FlushScan, FlushCheck,
       FlushAck, FlushDel, Stop, Exit, RedisDown, RedisUp, Tick, Cooldown, vars, stored,
       ProcessOne, Put, Ack, Del
  <2>. QED  BY <1>1
<1>. QED  BY <1>1, <1>2, <1>3, <1>4, <1>5, <1>6 DEF Next

LEMMA HubType ==
  ASSUME TypeOK, [Next]_vars
  PROVE  hub' \subseteq Ids' /\ hub \subseteq hub'
<1>. USE DEF TypeOK, StoresOK
<1>1. ASSUME ~UNCHANGED hub
      PROVE  \E a \in Actors, e \in Ids : hub' = hub \cup {e}
  <2>1. \E a \in Actors : Put(a)
    BY <1>1 DEF Next, vars, stored, Enqueue, Begin, RecoverOk, RecoverFail, CheckBacklog,
       RecheckBacklog, Add, SpillToDisk, Replay, ReplayAdd, ReplayUnlink, ReplayUnlinkFails, ReplayDone, ProcessOne,
       Ack, Del, Worker, WorkerLoop, WorkerReclaim, WorkerRead, WorkerBatchDone, Flush, FlushStart,
       FlushAbort, FlushDeliver, FlushPending, FlushInfo, FlushIds, FlushScan, FlushCheck,
       FlushAck, FlushDel, Restart, Crash, Stop, Exit, RedisDown, RedisUp, Tick, Cooldown
  <2>. QED  BY <1>1, <2>1 DEF Put, At, Firsts, JobOK
<1>. QED  BY <1>1, RedisType

\* The control state of the process, the tasks and the worker.
LEMMA ProcessType ==
  ASSUME TypeOK, [Next]_vars
  PROVE  ProcessOK'
<1>. USE DEF TypeOK, ProcessOK
<1>1. task' \in [Turns -> TaskStates]
  <2>1. \/ UNCHANGED task
        \/ \E t \in Turns, s \in TaskStates : task' = [task EXCEPT ![t] = s]
        \/ task' = [t \in Turns |-> IF InFlight(t) THEN "lost" ELSE task[t]]
    BY DEF Next, vars, Enqueue, Begin, RecoverOk, RecoverFail, CheckBacklog, RecheckBacklog, Add,
       SpillToDisk, Replay, ReplayAdd, ReplayUnlink, ReplayUnlinkFails, ReplayDone, ProcessOne, Put, Ack, Del, Worker,
       WorkerLoop, WorkerReclaim, WorkerRead, WorkerBatchDone, Flush, FlushStart, FlushAbort,
       FlushDeliver, FlushPending, FlushInfo, FlushIds, FlushScan, FlushCheck, FlushAck, FlushDel,
       Restart, Crash, Stop, Exit, RedisDown, RedisUp, Tick, Cooldown, Goto, TaskStates, ReplayOK
  <2>. QED  BY <2>1 DEF TaskStates
<1>2. loops' \in {loops, 0, (loops + 1) % ReclaimInterval}
  BY DEF Next, vars, worker, Enqueue, Begin, RecoverOk, RecoverFail, CheckBacklog, RecheckBacklog,
     Add, SpillToDisk, Replay, ReplayAdd, ReplayUnlink, ReplayUnlinkFails, ReplayDone, ProcessOne, Put, Ack, Del,
     Worker, WorkerLoop, WorkerReclaim, WorkerRead, WorkerBatchDone, Flush, FlushStart, FlushAbort,
     FlushDeliver, FlushPending, FlushInfo, FlushIds, FlushScan, FlushCheck, FlushAck, FlushDel,
     Restart, Crash, Stop, Exit, RedisDown, RedisUp, Tick, Cooldown
<1>3. loops' \in 0..(ReclaimInterval - 1)
  BY <1>2, Constants
<1>4. wpc' \in {"off", "top", "reclaim", "reclaiming", "read", "reading"}
  BY DEF Next, vars, worker, Enqueue, Begin, RecoverOk, RecoverFail, CheckBacklog, RecheckBacklog,
     Add, SpillToDisk, Replay, ReplayAdd, ReplayUnlink, ReplayUnlinkFails, ReplayDone, ProcessOne, Put, Ack, Del,
     Worker, WorkerLoop, WorkerReclaim, WorkerRead, WorkerBatchDone, Flush, FlushStart, FlushAbort,
     FlushDeliver, FlushPending, FlushInfo, FlushIds, FlushScan, FlushCheck, FlushAck, FlushDel,
     Restart, Crash, Stop, Exit, RedisDown, RedisUp, Tick, Cooldown
<1>5. phase' \in {"down", "starting", "serving", "stopping"}
  BY DEF Next, vars, process, Enqueue, Begin, RecoverOk, RecoverFail, CheckBacklog, RecheckBacklog,
     Add, SpillToDisk, Replay, ReplayAdd, ReplayUnlink, ReplayUnlinkFails, ReplayDone, ProcessOne, Put, Ack, Del,
     Worker, WorkerLoop, WorkerReclaim, WorkerRead, WorkerBatchDone, Flush, FlushStart, FlushAbort,
     FlushDeliver, FlushPending, FlushInfo, FlushIds, FlushScan, FlushCheck, FlushAck, FlushDel,
     Restart, Crash, Stop, Exit, RedisDown, RedisUp, Tick, Cooldown, RedisOK
<1>6. pipeline' \in BOOLEAN /\ cooled' \in BOOLEAN
  BY DEF Next, vars, process, Enqueue, Begin, RecoverOk, RecoverFail, CheckBacklog, RecheckBacklog,
     Add, SpillToDisk, Replay, ReplayAdd, ReplayUnlink, ReplayUnlinkFails, ReplayDone, ProcessOne, Put, Ack, Del,
     Worker, WorkerLoop, WorkerReclaim, WorkerRead, WorkerBatchDone, Flush, FlushStart, FlushAbort,
     FlushDeliver, FlushPending, FlushInfo, FlushIds, FlushScan, FlushCheck, FlushAck, FlushDel,
     Restart, Crash, Stop, Exit, RedisDown, RedisUp, Tick, Cooldown, RedisOK
<1>. QED  BY <1>1, <1>3, <1>4, <1>5, <1>6

\* The batches of _process_one are ids of the log, at most MaxRetries attempts each.
LEMMA JobType ==
  ASSUME TypeOK, [Next]_vars
  PROVE  JobOK'
<1>. USE DEF TypeOK
<1>1. MaxRetries \in Nat /\ 0 < MaxRetries
  BY Constants
<1>2. Ids \subseteq Ids'
  BY RedisType
<1>3. ASSUME UNCHANGED job PROVE JobOK'
  BY <1>2, <1>3 DEF JobOK
<1>4. ASSUME NEW a \in Actors, NEW B \in SUBSET Ids, Hold(a, B) PROVE JobOK'
  BY <1>1, <1>2, <1>4 DEF JobOK, Hold, Idle
<1>5. ASSUME NEW a \in Actors, NEW s \in {"put", "ack", "del"}, StepTo(a, s) PROVE JobOK'
  BY <1>2, <1>5 DEF JobOK, StepTo
<1>6. ASSUME NEW a \in Actors, NEW e, Finish(a, e) PROVE JobOK'
  <2>. DEFINE B == job[a].batch \ {e}
  <2>1. B \in SUBSET Ids
    BY DEF JobOK
  <2>. QED  BY <1>4, <1>6, <2>1 DEF Finish
<1>7. ASSUME NEW a \in Actors, NEW e, Retry(a, e) PROVE JobOK'
  <2>1. CASE job[a].tries + 1 < MaxRetries
    <3>1. job[a].tries + 1 \in 0..(MaxRetries - 1)
      BY <1>1, <2>1 DEF JobOK
    <3>2. job' = [job EXCEPT ![a].step = "put", ![a].tries = @ + 1]
      BY <1>7, <2>1 DEF Retry
    <3>. QED  BY <1>2, <3>1, <3>2 DEF JobOK
  <2>. QED  BY <1>6, <1>7, <2>1 DEF Retry
<1>8. FirstOf(stale, Batch) \subseteq Ids /\ FirstOf(pel, FlushBatch) \subseteq Ids
      /\ \A n : FirstOf(Undelivered, n) \subseteq Ids
  BY DEF FirstOf, Undelivered, RedisOK
<1>9. \A B : Parsed(B) \subseteq B
  BY DEF Parsed
<1>10. "worker" \in Actors /\ "flush" \in Actors
  BY DEF Actors
<1>11. ASSUME NEW t \in Turns, Enqueue(t) PROVE UNCHANGED job
  BY <1>11 DEF Enqueue, Begin, RecoverOk, RecoverFail, CheckBacklog, RecheckBacklog, Add,
     SpillToDisk
<1>12. ASSUME NEW a \in Actors, ProcessOne(a) PROVE JobOK'
  BY <1>5, <1>6, <1>7, <1>12 DEF ProcessOne, Put, Ack, Del
<1>13. CASE Worker
  <2>1. ASSUME NEW B, B \subseteq Ids, NEW ok \in BOOLEAN,
               Hold("worker", IF ok THEN Parsed(B) ELSE {})
        PROVE  JobOK'
    <3>. DEFINE C == IF ok THEN Parsed(B) ELSE {}
    <3>1. C \in SUBSET Ids
      BY <1>9, <2>1
    <3>. QED  BY <1>4, <1>10, <2>1, <3>1
  <2>. QED
    BY <1>3, <1>8, <1>13, <2>1
    DEF Worker, WorkerLoop, WorkerReclaim, WorkerRead, WorkerBatchDone
<1>14. CASE Flush
  <2>1. CASE FlushDeliver
    BY <1>3, <1>4, <1>8, <1>9, <1>10, <2>1 DEF FlushDeliver
  <2>2. CASE FlushPending
    <3>1. \A B : B \subseteq Ids => Parsed(B) \ flush.seen \in SUBSET Ids
      BY <1>9
    <3>. QED  BY <1>3, <1>4, <1>8, <1>10, <2>2, <3>1 DEF FlushPending
  <2>3. CASE FlushCheck
    BY <1>3, <1>4, <1>10, <2>3 DEF FlushCheck, Firsts, FlushOK
  <2>. QED
    BY <1>3, <1>14, <2>1, <2>2, <2>3
    DEF Flush, FlushAbort, FlushInfo, FlushIds, FlushScan, FlushAck, FlushDel
<1>15. CASE Crash
  <2>1. job' = [b \in Actors |-> Idle]
    BY <1>15 DEF Crash
  <2>. QED  BY <1>1, <2>1 DEF JobOK, Idle
<1>16. CASE Stop \/ Exit
  BY <1>4, <1>10, <1>16 DEF Stop, Exit
<1>17. CASE Replay \/ FlushStart \/ Restart \/ RedisDown \/ RedisUp \/ Tick \/ Cooldown
            \/ UNCHANGED vars
  BY <1>3, <1>17 DEF Replay, ReplayAdd, ReplayUnlink, ReplayUnlinkFails, ReplayDone, FlushStart, Restart, RedisDown,
     RedisUp, Tick, Cooldown, vars
<1>. QED  BY <1>3, <1>11, <1>12, <1>13, <1>14, <1>15, <1>16, <1>17 DEF Next

\* The snapshots a flush works from stay inside the log.
LEMMA FlushType ==
  ASSUME TypeOK, [Next]_vars
  PROVE  FlushOK'
<1>. USE DEF TypeOK, FlushOK
<1>1. /\ Len(log) \in Nat /\ Len(log') \in Nat /\ Len(log) <= Len(log') /\ Ids \subseteq Ids'
      /\ 0..Len(log) \subseteq 0..Len(log')
  <2>1. Len(log) \in Nat
    BY DEF RedisOK
  <2>. QED  BY <2>1, RedisType
<1>2. ASSUME UNCHANGED flush \/ flush' = NoFlush PROVE FlushOK'
  BY <1>1, <1>2 DEF NoFlush, FlushSteps
<1>3. ASSUME NEW pc \in FlushSteps, FlushGoto(pc) PROVE FlushOK'
  BY <1>1, <1>3 DEF FlushGoto
<1>4. CASE FlushDeliver
  BY <1>2, <1>3, <1>4 DEF FlushDeliver, FlushSteps
<1>5. CASE FlushPending
  <2>. DEFINE B == FirstOf(pel, FlushBatch)
              fresh == Parsed(B) \ flush.seen
  <2>1. fresh \subseteq Ids
    BY DEF Parsed, FirstOf, RedisOK
  <2>2. \/ flush' = NoFlush
        \/ flush' = [flush EXCEPT !.seen = @ \cup fresh, !.pc = IF fresh = {} THEN "info" ELSE @]
    BY <1>5 DEF FlushPending
  <2>. HIDE DEF fresh
  <2>. QED  BY <1>1, <1>2, <2>1, <2>2 DEF FlushSteps
<1>6. CASE FlushInfo
  <2>1. cursor \in 0..Len(log)
    BY DEF RedisOK
  <2>. QED  BY <1>1, <1>6, <2>1 DEF FlushInfo, FlushSteps
<1>7. CASE FlushIds
  <2>1. pel \subseteq Ids
    BY DEF RedisOK
  <2>. QED  BY <1>1, <1>7, <2>1 DEF FlushIds, FlushSteps
<1>8. CASE FlushScan
  <2>. DEFINE B == {e \in FirstOf({d \in present : d > flush.from}, FlushBatch) :
                      Decodable(log[e])}
  <2>1. B \subseteq Ids
    BY DEF FirstOf, RedisOK
  <2>2. \/ flush' = NoFlush
        \/ \E last \in Lasts(B) :
              flush' = [flush EXCEPT !.from = last,
                          !.todo = {e \in B : e \notin flush.pend /\ e <= flush.last}]
    BY <1>8 DEF FlushScan
  <2>. HIDE DEF B
  <2>3. ASSUME NEW last \in Lasts(B),
               flush' = [flush EXCEPT !.from = last,
                           !.todo = {e \in B : e \notin flush.pend /\ e <= flush.last}]
        PROVE  FlushOK'
    <3>1. last \in Ids
      BY <2>1 DEF Lasts
    <3>2. last \in 0..Len(log)
      BY <1>1, <3>1 DEF Ids
    <3>3. {e \in B : e \notin flush.pend /\ e <= flush.last} \subseteq Ids
      BY <2>1
    <3>. QED  BY <1>1, <2>3, <3>2, <3>3
  <2>. QED  BY <1>2, <2>2, <2>3
<1>9. CASE FlushCheck
  <2>1. ASSUME NEW e, flush' = [flush EXCEPT !.todo = @ \ {e}] PROVE FlushOK'
    BY <1>1, <2>1
  <2>. QED  BY <1>3, <1>9, <2>1 DEF FlushCheck, FlushSteps
<1>10. CASE FlushAck
  BY <1>2, <1>3, <1>10 DEF FlushAck, FlushSteps
<1>11. CASE FlushDel
  <2>1. ASSUME NEW e, flush' = [flush EXCEPT !.todo = @ \ {e}, !.pc = "scan"] PROVE FlushOK'
    BY <1>1, <2>1 DEF FlushSteps
  <2>. QED  BY <1>2, <1>11, <2>1 DEF FlushDel
<1>12. CASE FlushStart
  BY <1>3, <1>12 DEF FlushStart, FlushSteps
<1>13. CASE FlushAbort
  BY <1>2, <1>13 DEF FlushAbort
<1>14. ASSUME ~Flush, ~FlushStart PROVE UNCHANGED flush \/ flush' = NoFlush
  BY <1>14 DEF Next, vars, Enqueue, Begin, RecoverOk, RecoverFail, CheckBacklog, RecheckBacklog,
     Add, SpillToDisk, Replay, ReplayAdd, ReplayUnlink, ReplayUnlinkFails, ReplayDone, ProcessOne, Put, Ack, Del,
     Worker, WorkerLoop, WorkerReclaim, WorkerRead, WorkerBatchDone, Restart, Crash, Stop, Exit,
     RedisDown, RedisUp, Tick, Cooldown
<1>. QED
  BY <1>2, <1>4, <1>5, <1>6, <1>7, <1>8, <1>9, <1>10, <1>11, <1>12, <1>13, <1>14 DEF Flush

\* The state of the pipeline keeps its types: no id outside the stream's
\* history in a batch, a snapshot, the pending list or the Hub, no replay past
\* the last overflow file, no more than _LEDGER_MAX_RETRIES attempts.
THEOREM Typing == Spec => []TypeOK
<1>1. TypeOK /\ [Next]_vars => TypeOK'
  BY RedisType, FilesType, HubType, ProcessType, JobType, FlushType, SpentType
  DEF TypeOK, StoresOK
<1>. QED  BY TypeInit, <1>1, PTL DEF Spec

-----------------------------------------------------------------------------
(* What the two consumers hold. *)

\* A COUNT n command returns an initial segment of the entries it ranges over.
LEMMA FirstOfIsInitial ==
  ASSUME NEW S, IsFiniteSet(S), S \subseteq Nat, NEW n,
         NEW x \in FirstOf(S, n), NEW y \in S, y <= x, n \in Nat
  PROVE  y \in FirstOf(S, n)
<1>. DEFINE below(e) == {d \in S : d < e}
<1>0. x \in S
  BY DEF FirstOf
<1>1. below(y) \subseteq below(x) /\ below(x) \subseteq S
  <2>1. \A d \in S : d < y => d < x
    <3>1. \A d \in S : d \in Nat
      OBVIOUS
    <3>. QED  BY <1>0, <3>1
  <2>. QED  BY <2>1
<1>2. IsFiniteSet(below(x))
  BY <1>1, FS_Subset
<1>3. /\ Cardinality(below(y)) <= Cardinality(below(x))
      /\ Cardinality(below(x)) \in Nat /\ Cardinality(below(y)) \in Nat
  <2>1. IsFiniteSet(below(y))
    BY <1>1, <1>2, FS_Subset
  <2>. QED  BY <1>1, <1>2, <2>1, FS_Subset, FS_CardinalityType
<1>4. Cardinality(below(x)) < n
  BY DEF FirstOf
<1>5. Cardinality(below(y)) < n
  BY <1>3, <1>4
<1>. QED  BY <1>5 DEF FirstOf

LEMMA UndeliveredIsFinite ==
  ASSUME TypeOK
  PROVE  IsFiniteSet(Undelivered) /\ Undelivered \subseteq Nat /\ Undelivered \subseteq Ids
<1>1. Len(log) \in Nat
  BY DEF TypeOK, RedisOK
<1>2. Undelivered \subseteq Ids
  BY DEF TypeOK, RedisOK, Undelivered
<1>3. IsFiniteSet(Ids) /\ Ids \subseteq Nat
  BY <1>1, FS_Interval DEF Ids
<1>. QED  BY <1>2, <1>3, FS_Subset

-----------------------------------------------------------------------------
(* What a step can do to the stream and to the Hub. *)

PipelineInv == TypeOK /\ WorkIsStored /\ PendingIsInStream /\ LeftoversAreStored

\* Only stored entries leave the pending list or the stream, and an entry
\* leaves the stream after it left the pending list.
LEMMA Removals ==
  ASSUME TypeOK, WorkIsStored, [Next]_vars
  PROVE  /\ (pel \ pel') \cup (present \ present') \subseteq hub
         /\ (present \ present') \cap pel = {}
<1>1. CASE pel \subseteq pel' /\ present \subseteq present'
  BY <1>1
<1>2. ASSUME NEW a \in Actors, Ack(a) \/ Del(a)
      PROVE  /\ (pel \ pel') \cup (present \ present') \subseteq hub
             /\ (present \ present') \cap pel = {}
  <2>1. JobIsStored(a)
    BY DEF WorkIsStored
  <2>2. CASE Ack(a)
    <3>1. PICK e \in At(a, "ack") : UNCHANGED redis \/ XAck(e)
      BY <2>2 DEF Ack
    <3>. QED  BY <2>1, <3>1 DEF At, JobIsStored, XAck, redis
  <2>3. CASE Del(a)
    <3>1. PICK e \in At(a, "del") : UNCHANGED redis \/ XDel(e)
      BY <2>3 DEF Del
    <3>. QED  BY <2>1, <3>1 DEF At, JobIsStored, XDel, redis
  <2>. QED  BY <1>2, <2>2, <2>3
<1>3. CASE FlushAck
  <2>1. PICK e \in Firsts(flush.todo) : XAck(e)
    BY <1>3 DEF FlushAck
  <2>. QED  BY <1>3, <2>1 DEF FlushAck, FlushAt, WorkIsStored, FlushIsStored, XAck
<1>4. CASE FlushDel
  <2>1. PICK e \in Firsts(flush.todo) : XDel(e)
    BY <1>4 DEF FlushDel
  <2>. QED  BY <1>4, <2>1 DEF FlushDel, FlushAt, WorkIsStored, FlushIsStored, XDel
<1>5. ASSUME ~FlushAck, ~FlushDel, \A a \in Actors : ~Ack(a) /\ ~Del(a)
      PROVE  pel \subseteq pel' /\ present \subseteq present'
  BY <1>5 DEF Next, vars, redis, Enqueue, Begin, RecoverOk, RecoverFail, CheckBacklog,
     RecheckBacklog, Add, SpillToDisk, Replay, ReplayAdd, ReplayUnlink, ReplayUnlinkFails, ReplayDone, ProcessOne,
     Put, Worker, WorkerLoop, WorkerReclaim, WorkerRead, WorkerBatchDone, Flush, FlushStart,
     FlushAbort, FlushDeliver, FlushPending, FlushInfo, FlushIds, FlushScan, FlushCheck,
     Restart, Crash, Stop, Exit, RedisDown, RedisUp, Tick, Cooldown, XAdd, XReadGroup, XAutoClaim
<1>. QED  BY <1>1, <1>2, <1>3, <1>4, <1>5

\* What is added: a new entry is undelivered, a newly pending one was undelivered.
LEMMA Additions ==
  ASSUME TypeOK, [Next]_vars
  PROVE  /\ cursor \in Nat /\ cursor' \in Nat /\ cursor <= cursor'
         /\ \A e \in present' \ present : e \in Nat /\ e > cursor'
         /\ \A e \in pel' \ pel : e \in present /\ e > cursor /\ e <= cursor' /\ e \in present'
         /\ \A e \in present : e > cursor /\ e <= cursor' => e \in pel'
<1>. SUFFICES ASSUME Command
             PROVE  /\ cursor \in Nat /\ cursor' \in Nat /\ cursor <= cursor'
                    /\ \A e \in present' \ present : e \in Nat /\ e > cursor'
                    /\ \A e \in pel' \ pel :
                          e \in present /\ e > cursor /\ e <= cursor' /\ e \in present'
                    /\ \A e \in present : e > cursor /\ e <= cursor' => e \in pel'
  BY Commands
<1>1. /\ Len(log) \in Nat /\ cursor \in 0..Len(log) /\ present \subseteq 1..Len(log)
      /\ Batch \in Nat /\ FlushBatch \in Nat
  BY PipelineAssumption DEF TypeOK, RedisOK, Ids, PipelineAssumption
<1>2. CASE UNCHANGED <<present, cursor, pel>>
  BY <1>1, <1>2
<1>3. ASSUME NEW c \in Copies, XAdd(c)
      PROVE  UNCHANGED <<cursor, pel>> /\ present' = present \cup {Len(log) + 1}
  BY <1>3 DEF XAdd
<1>4. ASSUME NEW n \in {Batch, FlushBatch}, XReadGroup(FirstOf(Undelivered, n))
      PROVE  /\ cursor' \in Nat /\ cursor <= cursor' /\ present' = present
             /\ \A e \in pel' \ pel : e \in present /\ e > cursor /\ e <= cursor'
             /\ \A e \in present : e > cursor /\ e <= cursor' => e \in pel'
  <2>. DEFINE B == FirstOf(Undelivered, n)
  <2>1. pel' = pel \cup B /\ cursor' \in (IF B = {} THEN {cursor} ELSE Lasts(B)) /\ present' = present
    BY <1>4 DEF XReadGroup
  <2>2. \A e \in B : e \in present /\ e > cursor /\ e \in Nat
    BY <1>1 DEF FirstOf, Undelivered
  <2>3. ASSUME NEW e \in Undelivered, NEW x \in B, e <= x PROVE e \in B
    BY <1>1, <2>3, UndeliveredIsFinite, FirstOfIsInitial
  <2>. HIDE DEF B
  <2>4. CASE B = {}
    BY <1>1, <2>1, <2>4
  <2>5. CASE B # {}
    <3>1. cursor' \in B /\ \A e \in B : e <= cursor'
      BY <2>1, <2>5 DEF Lasts
    <3>2. ASSUME NEW e \in present, e > cursor, e <= cursor' PROVE e \in B
      <4>1. e \in Undelivered
        BY <3>2 DEF Undelivered
      <4>. QED  BY <2>3, <3>1, <3>2, <4>1
    <3>3. cursor' \in Nat /\ cursor <= cursor'
      BY <1>1, <2>2, <3>1
    <3>4. \A e \in pel' \ pel : e \in B
      BY <2>1
    <3>5. B \subseteq pel' /\ present' = present
      BY <2>1
    <3>6. \A e \in pel' \ pel : e \in present /\ e > cursor /\ e <= cursor'
      BY <2>2, <3>1, <3>4
    <3>7. \A e \in present : e > cursor /\ e <= cursor' => e \in pel'
      BY <3>2, <3>5
    <3>. QED  BY <3>3, <3>5, <3>6, <3>7
  <2>. QED  BY <2>4, <2>5
<1>5. ASSUME NEW e \in Ids, XAck(e) \/ XDel(e)
      PROVE  cursor' = cursor /\ pel' \subseteq pel /\ present' \subseteq present
  BY <1>5 DEF XAck, XDel
<1>6. ASSUME NEW B \in SUBSET Ids, XAutoClaim(B)
      PROVE  UNCHANGED <<present, cursor, pel>>
  BY <1>6 DEF XAutoClaim
<1>. QED  BY <1>1, <1>2, <1>3, <1>4, <1>5, <1>6 DEF Command, redis

-----------------------------------------------------------------------------
(* The invariant. *)

LEMMA InvInit == Init => PipelineInv
<1>. SUFFICES ASSUME Init PROVE PipelineInv
  OBVIOUS
<1>1. (\A e \in pel : e <= cursor) /\ \A a \in Actors : JobIsStored(a)
  BY DEF Init, JobIsStored, Idle
<1>2. FlushIsStored
  BY DEF Init, FlushIsStored, NoFlush
<1>3. PendingIsInStream /\ LeftoversAreStored
  BY DEF Init, PendingIsInStream, LeftoversAreStored
<1>. QED  BY <1>1, <1>2, <1>3, TypeInit DEF PipelineInv, WorkIsStored

\* The stream only loses what is stored, so its two invariants are kept.
LEMMA StreamInv ==
  ASSUME PipelineInv, [Next]_vars
  PROVE  PendingIsInStream' /\ LeftoversAreStored'
<1>. USE DEF PipelineInv
<1>1. hub \subseteq hub'
  BY HubType
<1>2. present \subseteq Nat
  BY DEF TypeOK, RedisOK, Ids
<1>3. ASSUME NEW e \in pel' PROVE e \in present'
  <2>1. CASE e \in pel
    BY <2>1, Removals DEF PendingIsInStream
  <2>2. CASE e \notin pel
    BY <1>3, <2>2, Additions
  <2>. QED  BY <2>1, <2>2
<1>4. ASSUME NEW e \in present', e <= cursor', e \notin pel' PROVE e \in hub'
  <2>1. cursor \in Nat /\ cursor' \in Nat
    BY Additions
  <2>2. e \in present
    <3>1. e \notin present => e \in Nat /\ e > cursor'
      BY <1>4, Additions
    <3>. QED  BY <1>4, <2>1, <3>1
  <2>3. e <= cursor
    <3>1. ~(e > cursor)
      BY <1>4, <2>2, Additions
    <3>. QED  BY <1>2, <2>1, <2>2, <3>1
  <2>4. CASE e \in pel
    BY <1>1, <1>4, <2>4, Removals
  <2>5. CASE e \notin pel
    BY <1>1, <2>2, <2>3, <2>5 DEF LeftoversAreStored
  <2>. QED  BY <2>4, <2>5
<1>. QED  BY <1>3, <1>4 DEF PendingIsInStream, LeftoversAreStored

LEMMA PendingIsDelivered ==
  ASSUME PipelineInv, [Next]_vars
  PROVE  \A e \in pel' : e <= cursor'
<1>1. /\ cursor \in Nat /\ cursor' \in Nat /\ cursor <= cursor'
      /\ \A e \in pel' \ pel : e <= cursor'
  BY Additions DEF PipelineInv
<1>2. pel \subseteq Nat /\ \A e \in pel : e <= cursor
  BY DEF PipelineInv, TypeOK, RedisOK, Ids, WorkIsStored
<1>3. \A e \in pel : e <= cursor'
  BY <1>1, <1>2
<1>. QED  BY <1>1, <1>3

\* A consumer that stands still is not overtaken: the cursor and the Hub grow,
\* and what becomes pending was not delivered before.
LEMMA StandStill ==
  ASSUME PipelineInv, [Next]_vars
  PROVE  /\ \A a \in Actors : job'[a] = job[a] => JobIsStored(a)'
         /\ flush' = flush => FlushIsStored'
<1>. USE DEF PipelineInv
<1>1. /\ hub \subseteq hub' /\ cursor \in Nat /\ cursor' \in Nat /\ cursor <= cursor'
      /\ \A e \in pel' \ pel : e > cursor
  BY HubType, Additions
<1>2. \A e \in Ids : e <= cursor => e <= cursor'
  BY <1>1 DEF TypeOK, RedisOK, Ids
<1>3. \A e \in Ids : e <= cursor => ~(e > cursor)
  BY <1>1 DEF TypeOK, RedisOK, Ids
<1>4. ASSUME NEW S \in SUBSET Ids, \A e \in S : e <= cursor
      PROVE  /\ \A e \in S : e <= cursor'
             /\ Firsts(S) \subseteq hub => Firsts(S) \subseteq hub'
             /\ Firsts(S) \cap pel = {} => Firsts(S) \cap pel' = {}
  <2>1. Firsts(S) \subseteq S
    BY DEF Firsts
  <2>2. \A e \in S : e \in pel' => e \in pel
    BY <1>1, <1>3, <1>4
  <2>. QED  BY <1>1, <1>2, <1>4, <2>1, <2>2
<1>5. ASSUME NEW a \in Actors, job'[a] = job[a] PROVE JobIsStored(a)'
  <2>1. job[a].batch \in SUBSET Ids
    BY DEF TypeOK, JobOK
  <2>2. JobIsStored(a)
    BY DEF WorkIsStored
  <2>. QED  BY <1>4, <1>5, <2>1, <2>2 DEF JobIsStored, Firsts
<1>6. ASSUME flush' = flush PROVE FlushIsStored'
  <2>1. flush.todo \in SUBSET Ids /\ flush.last \in Nat
    BY DEF TypeOK, FlushOK, RedisOK
  <2>2. FlushIsStored
    BY DEF WorkIsStored
  <2>. QED  BY <1>1, <1>4, <1>6, <2>1, <2>2 DEF FlushIsStored, Firsts
<1>. QED  BY <1>5, <1>6

\* A consumer about to put has promised nothing but that its batch was delivered.
LEMMA AboutToPut ==
  ASSUME NEW a \in Actors, job'[a].step = "put", \A e \in job'[a].batch : e <= cursor'
  PROVE  JobIsStored(a)'
BY DEF JobIsStored

LEMMA JobInv ==
  ASSUME PipelineInv, [Next]_vars, NEW a \in Actors
  PROVE  JobIsStored(a)'
<1>. USE DEF PipelineInv
<1>1. TypeOK /\ JobOK /\ JobIsStored(a) /\ FlushIsStored
  BY DEF TypeOK, WorkIsStored
<1>2. /\ hub \subseteq hub' /\ cursor \in Nat /\ cursor' \in Nat /\ cursor <= cursor'
      /\ \A e \in pel' \ pel : e > cursor
  BY HubType, Additions
<1>3. \A e \in Ids : e <= cursor => e <= cursor'
  BY <1>2 DEF TypeOK, RedisOK, Ids
<1>4. CASE job'[a] = job[a]
  BY <1>4, StandStill
<1>5. ASSUME NEW B, B \subseteq Ids, \A e \in B : e <= cursor', Hold(a, B)
      PROVE  JobIsStored(a)'
  <2>1. job'[a] = [Idle EXCEPT !.batch = B]
    BY <1>1, <1>5 DEF Hold, JobOK
  <2>2. job'[a].step = "put" /\ job'[a].batch = B
    BY <2>1 DEF Idle
  <2>. QED  BY <1>5, <2>2, AboutToPut
<1>6. ASSUME NEW e, Finish(a, e) PROVE JobIsStored(a)'
  <2>. DEFINE B == job[a].batch \ {e}
  <2>1. B \subseteq Ids /\ \A d \in B : d <= cursor'
    BY <1>1, <1>3 DEF JobOK, JobIsStored
  <2>. QED  BY <1>5, <1>6, <2>1 DEF Finish
<1>7. ASSUME NEW e, Retry(a, e) PROVE JobIsStored(a)'
  <2>1. CASE Finish(a, e)
    BY <1>6, <2>1
  <2>2. CASE job' = [job EXCEPT ![a].step = "put", ![a].tries = @ + 1]
    <3>1. job'[a].step = "put" /\ job'[a].batch = job[a].batch
      BY <1>1, <2>2 DEF JobOK
    <3>. QED  BY <1>1, <1>3, <3>1, AboutToPut DEF JobOK, JobIsStored
  <2>. QED  BY <1>7, <2>1, <2>2 DEF Retry
<1>8. ASSUME NEW b \in Actors, NEW B, Hold(b, B), b # a PROVE job'[a] = job[a]
  BY <1>1, <1>8 DEF Hold, JobOK
<1>9. ASSUME NEW b \in Actors, NEW e, Retry(b, e) \/ Finish(b, e), b # a PROVE job'[a] = job[a]
  BY <1>1, <1>9 DEF Retry, Finish, Hold, JobOK
<1>10. ASSUME NEW b \in Actors, NEW s, StepTo(b, s), b # a PROVE job'[a] = job[a]
  BY <1>1, <1>10 DEF StepTo, JobOK
<1>11. ASSUME NEW b \in Actors, ProcessOne(b), b # a PROVE job'[a] = job[a]
  BY <1>9, <1>10, <1>11 DEF ProcessOne, Put, Ack, Del
<1>12. CASE Put(a)
  <2>1. PICK e \in At(a, "put") :
          (hub' = hub \cup {e} /\ StepTo(a, "ack")) \/ Retry(a, e)
    BY <1>12 DEF Put
  <2>2. CASE hub' = hub \cup {e} /\ StepTo(a, "ack")
    <3>1. job'[a].step = "ack" /\ job'[a].batch = job[a].batch
      BY <1>1, <2>2 DEF StepTo, JobOK
    <3>2. Firsts(job[a].batch) \subseteq {e}
      <4>1. e \in Firsts(job[a].batch) /\ job[a].batch \subseteq Nat
        BY <1>1, <2>1 DEF At, JobOK, TypeOK, RedisOK, Ids
      <4>. QED  BY <4>1 DEF Firsts
    <3>3. \A d \in job[a].batch : d <= cursor'
      BY <1>1, <1>3 DEF JobOK, JobIsStored
    <3>. QED  BY <2>2, <3>1, <3>2, <3>3 DEF JobIsStored, Firsts
  <2>. QED  BY <1>7, <2>1, <2>2
<1>13. CASE Ack(a)
  <2>1. PICK e \in At(a, "ack") : (XAck(e) /\ StepTo(a, "del")) \/ Retry(a, e)
    BY <1>13 DEF Ack
  <2>2. CASE XAck(e) /\ StepTo(a, "del")
    <3>1. job'[a].step = "del" /\ job'[a].batch = job[a].batch
      BY <1>1, <2>2 DEF StepTo, JobOK
    <3>2. Firsts(job[a].batch) \subseteq {e}
      <4>1. e \in Firsts(job[a].batch) /\ job[a].batch \subseteq Nat
        BY <1>1, <2>1 DEF At, JobOK, TypeOK, RedisOK, Ids
      <4>. QED  BY <4>1 DEF Firsts
    <3>3. \A d \in job[a].batch : d <= cursor'
      BY <1>1, <1>3 DEF JobOK, JobIsStored
    <3>4. Firsts(job[a].batch) \subseteq hub'
      BY <1>1, <1>2, <2>1 DEF At, JobIsStored
    <3>5. Firsts(job[a].batch) \cap pel' = {}
      BY <2>2, <3>2 DEF XAck
    <3>. QED  BY <3>1, <3>3, <3>4, <3>5 DEF JobIsStored, Firsts
  <2>. QED  BY <1>7, <2>1, <2>2
<1>14. CASE Del(a)
  BY <1>6, <1>14 DEF Del
<1>15. \A S, n : FirstOf(S, n) \subseteq S
  BY DEF FirstOf
<1>16. \A B : Parsed(B) \subseteq B
  BY DEF Parsed
<1>17. \A e \in pel : e \in Ids /\ e <= cursor'
  BY <1>3 DEF TypeOK, RedisOK, WorkIsStored
<1>18. CASE Worker
  <2>1. CASE WorkerReclaim
    <3>1. UNCHANGED job \/ \E ok \in BOOLEAN :
             Hold("worker", IF ok THEN Parsed(FirstOf(stale, Batch)) ELSE {})
      BY <2>1 DEF WorkerReclaim
    <3>2. \A e \in Parsed(FirstOf(stale, Batch)) : e \in Ids /\ e <= cursor'
      BY <1>15, <1>16, <1>17 DEF TypeOK, RedisOK
    <3>3. ASSUME NEW ok \in BOOLEAN, a = "worker",
                 Hold("worker", IF ok THEN Parsed(FirstOf(stale, Batch)) ELSE {})
          PROVE  JobIsStored(a)'
      <4>. DEFINE B == IF ok THEN Parsed(FirstOf(stale, Batch)) ELSE {}
      <4>1. B \subseteq Ids /\ \A e \in B : e <= cursor'
        BY <3>2
      <4>2. Hold(a, B)
        BY <3>3
      <4>. HIDE DEF B
      <4>. QED  BY <1>5, <4>1, <4>2
    <3>. QED  BY <1>4, <1>8, <3>1, <3>3 DEF Actors
  <2>2. CASE WorkerRead
    <3>. DEFINE R == FirstOf(Undelivered, Batch)
    <3>1. UNCHANGED job \/ (XReadGroup(R) /\ \E ok \in BOOLEAN :
             Hold("worker", IF ok THEN Parsed(R) ELSE {}))
      BY <2>2 DEF WorkerRead
    <3>2. R \subseteq Ids
      BY <1>15, UndeliveredIsFinite
    <3>. HIDE DEF R
    <3>3. ASSUME NEW ok \in BOOLEAN, a = "worker", XReadGroup(R),
                 Hold("worker", IF ok THEN Parsed(R) ELSE {})
          PROVE  JobIsStored(a)'
      <4>. DEFINE B == IF ok THEN Parsed(R) ELSE {}
      <4>1. R \subseteq pel'
        BY <3>3 DEF XReadGroup
      <4>2. B \subseteq Ids /\ \A e \in B : e <= cursor'
        BY <1>16, <3>2, <4>1, PendingIsDelivered
      <4>3. Hold(a, B)
        BY <3>3
      <4>. HIDE DEF B
      <4>. QED  BY <1>5, <4>2, <4>3
    <3>. QED  BY <1>4, <1>8, <3>1, <3>3 DEF Actors
  <2>. QED  BY <1>4, <1>18, <2>1, <2>2 DEF Worker, WorkerLoop, WorkerBatchDone
<1>19. CASE Flush
  <2>1. CASE FlushDeliver
    <3>. DEFINE R == FirstOf(Undelivered, FlushBatch)
    <3>1. XReadGroup(R) /\ (UNCHANGED job \/ Hold("flush", Parsed(R)))
      BY <2>1 DEF FlushDeliver
    <3>2. R \subseteq Ids
      BY <1>15, UndeliveredIsFinite
    <3>. HIDE DEF R
    <3>3. R \subseteq pel'
      BY <3>1 DEF XReadGroup
    <3>4. Parsed(R) \subseteq Ids /\ \A e \in Parsed(R) : e <= cursor'
      BY <1>16, <3>2, <3>3, PendingIsDelivered
    <3>. QED  BY <1>4, <1>5, <1>8, <3>1, <3>4 DEF Actors
  <2>2. CASE FlushPending
    <3>. DEFINE B == Parsed(FirstOf(pel, FlushBatch)) \ flush.seen
    <3>1. UNCHANGED job \/ Hold("flush", B)
      BY <2>2 DEF FlushPending
    <3>2. B \subseteq Ids /\ \A e \in B : e <= cursor'
      BY <1>15, <1>16, <1>17
    <3>. HIDE DEF B
    <3>. QED  BY <1>4, <1>5, <1>8, <3>1, <3>2 DEF Actors
  <2>3. CASE FlushCheck
    <3>1. PICK e \in Firsts(flush.todo) : UNCHANGED job \/ Hold("flush", {e})
      BY <2>3 DEF FlushCheck
    <3>2. e \in Ids /\ e <= cursor'
      BY <1>1, <1>3 DEF Firsts, TypeOK, FlushOK, FlushIsStored
    <3>3. {e} \subseteq Ids /\ \A d \in {e} : d <= cursor'
      BY <3>2
    <3>. QED  BY <1>4, <1>5, <1>8, <3>1, <3>3 DEF Actors
  <2>. QED
    BY <1>4, <1>19, <2>1, <2>2, <2>3
    DEF Flush, FlushAbort, FlushInfo, FlushIds, FlushScan, FlushAck, FlushDel
<1>20. CASE Crash
  <2>1. job'[a] = Idle
    BY <1>20 DEF Crash
  <2>. QED  BY <2>1, AboutToPut DEF Idle
<1>21. CASE Stop \/ Exit
  BY <1>4, <1>5, <1>8, <1>21 DEF Stop, Exit, Actors
<1>22. CASE Replay \/ FlushStart \/ Restart \/ RedisDown \/ RedisUp \/ Tick \/ Cooldown
            \/ UNCHANGED vars \/ \E t \in Turns : Enqueue(t)
  BY <1>4, <1>22 DEF Replay, ReplayAdd, ReplayUnlink, ReplayUnlinkFails, ReplayDone, FlushStart, Restart, RedisDown,
     RedisUp, Tick, Cooldown, vars, Enqueue, Begin, RecoverOk, RecoverFail, CheckBacklog,
     RecheckBacklog, Add, SpillToDisk
<1>23. CASE ProcessOne(a)
  BY <1>12, <1>13, <1>14, <1>23 DEF ProcessOne
<1>. QED  BY <1>4, <1>11, <1>18, <1>19, <1>20, <1>21, <1>22, <1>23 DEF Next

LEMMA FlushInv ==
  ASSUME PipelineInv, [Next]_vars
  PROVE  FlushIsStored'
<1>. USE DEF PipelineInv
<1>1. FlushOK /\ FlushIsStored
  BY DEF TypeOK, WorkIsStored
<1>2. /\ hub \subseteq hub' /\ cursor \in Nat /\ cursor' \in Nat /\ cursor <= cursor'
      /\ \A e \in pel' \ pel : e > cursor
  BY HubType, Additions
<1>3. CASE flush' = flush
  BY <1>3, StandStill
<1>4. CASE flush' = NoFlush
  BY <1>2, <1>4 DEF NoFlush, FlushIsStored
<1>5. /\ flush.todo \subseteq Ids /\ flush.last \in Nat /\ flush.last <= cursor'
      /\ \A e \in flush.todo : e <= cursor'
  BY <1>1, <1>2 DEF FlushOK, FlushIsStored, TypeOK, RedisOK, Ids
<1>6. ASSUME flush'.pc \notin {"ack", "del"}, flush'.todo \subseteq flush.todo,
             flush'.last = flush.last
      PROVE  FlushIsStored'
  BY <1>5, <1>6 DEF FlushIsStored
<1>7. ASSUME NEW pc, FlushGoto(pc)
      PROVE  flush'.pc = pc /\ flush'.todo = flush.todo /\ flush'.last = flush.last
  BY <1>1, <1>7 DEF FlushGoto, FlushOK
<1>8. CASE FlushStart
  BY <1>6, <1>7, <1>8 DEF FlushStart
<1>9. CASE FlushDeliver
  BY <1>3, <1>4, <1>6, <1>7, <1>9 DEF FlushDeliver
<1>10. CASE FlushPending
  <2>1. ASSUME NEW fresh,
               flush' = [flush EXCEPT !.seen = @ \cup fresh,
                            !.pc = IF fresh = {} THEN "info" ELSE @]
        PROVE  FlushIsStored'
    <3>1. flush.pc = "pending"
      BY <1>10 DEF FlushPending, FlushAt
    <3>2. flush'.pc \in {"info", "pending"} /\ flush'.todo = flush.todo /\ flush'.last = flush.last
      BY <1>1, <2>1, <3>1 DEF FlushOK
    <3>. QED  BY <1>6, <3>2
  <2>. QED  BY <1>4, <1>10, <2>1 DEF FlushPending
<1>11. CASE FlushInfo
  <2>1. flush'.pc = "ids" /\ flush'.todo = flush.todo /\ flush'.last = cursor
    BY <1>1, <1>11 DEF FlushInfo, FlushOK
  <2>. QED  BY <1>2, <1>5, <2>1 DEF FlushIsStored
<1>12. CASE FlushIds
  <2>1. flush'.pc = "scan" /\ flush'.todo = flush.todo /\ flush'.last = flush.last
    BY <1>1, <1>12 DEF FlushIds, FlushOK
  <2>. QED  BY <1>6, <2>1
<1>13. CASE FlushScan
  <2>. DEFINE B == {e \in FirstOf({d \in present : d > flush.from}, FlushBatch) :
                      Decodable(log[e])}
  <2>1. ASSUME NEW x \in Lasts(B),
               flush' = [flush EXCEPT !.from = x,
                           !.todo = {e \in B : e \notin flush.pend /\ e <= flush.last}]
        PROVE  FlushIsStored'
    <3>. DEFINE T == {e \in B : e \notin flush.pend /\ e <= flush.last}
    <3>1. B \subseteq Nat
      <4>1. present \subseteq Nat
        BY DEF TypeOK, RedisOK, Ids
      <4>2. B \subseteq present
        BY DEF FirstOf
      <4>. QED  BY <4>1, <4>2
    <3>2. T \subseteq Nat /\ \A e \in T : e <= flush.last
      BY <3>1
    <3>. HIDE DEF B
    <3>3. flush.pc = "scan"
      BY <1>13 DEF FlushScan, FlushAt
    <3>4. flush'.pc = "scan" /\ flush'.todo = T /\ flush'.last = flush.last
      BY <1>1, <2>1, <3>3 DEF FlushOK
    <3>. HIDE DEF T
    <3>5. \A e \in T : e <= cursor'
      BY <1>2, <1>5, <3>2
    <3>. QED  BY <1>5, <3>4, <3>5 DEF FlushIsStored
  <2>. QED  BY <1>4, <1>13, <2>1 DEF FlushScan
<1>14. CASE FlushCheck
  <2>1. PICK e \in Firsts(flush.todo) :
          (e \in hub /\ FlushGoto("ack")) \/ flush' = [flush EXCEPT !.todo = @ \ {e}]
    BY <1>14 DEF FlushCheck
  <2>2. flush.pc = "scan"
    BY <1>14 DEF FlushCheck, FlushAt
  <2>3. CASE e \in hub /\ FlushGoto("ack")
    <3>1. Firsts(flush.todo) \subseteq {e}
      BY <1>5, <2>1 DEF Firsts, Ids
    <3>. QED  BY <1>2, <1>5, <1>7, <2>3, <3>1 DEF FlushIsStored, Firsts
  <2>4. CASE flush' = [flush EXCEPT !.todo = @ \ {e}]
    <3>1. flush'.pc = "scan" /\ flush'.todo = flush.todo \ {e} /\ flush'.last = flush.last
      BY <1>1, <2>2, <2>4 DEF FlushOK
    <3>. QED  BY <1>6, <3>1
  <2>. QED  BY <2>1, <2>3, <2>4
<1>15. CASE FlushAck
  <2>1. PICK e \in Firsts(flush.todo) : XAck(e) /\ (FlushGoto("del") \/ flush' = NoFlush)
    BY <1>15 DEF FlushAck
  <2>2. CASE FlushGoto("del")
    <3>1. Firsts(flush.todo) \subseteq {e}
      BY <1>5, <2>1 DEF Firsts, Ids
    <3>2. Firsts(flush.todo) \subseteq hub'
      BY <1>1, <1>2, <1>15 DEF FlushAck, FlushAt, FlushIsStored
    <3>3. Firsts(flush.todo) \cap pel' = {}
      BY <2>1, <3>1 DEF XAck
    <3>. QED  BY <1>5, <1>7, <2>2, <3>2, <3>3 DEF FlushIsStored, Firsts
  <2>. QED  BY <1>4, <2>1, <2>2
<1>16. CASE FlushDel
  <2>1. PICK e \in Firsts(flush.todo) :
          flush' = [flush EXCEPT !.todo = @ \ {e}, !.pc = "scan"] \/ flush' = NoFlush
    BY <1>16 DEF FlushDel
  <2>2. CASE flush' = [flush EXCEPT !.todo = @ \ {e}, !.pc = "scan"]
    <3>1. flush'.pc = "scan" /\ flush'.todo = flush.todo \ {e} /\ flush'.last = flush.last
      BY <1>1, <2>2 DEF FlushOK
    <3>. QED  BY <1>6, <3>1
  <2>. QED  BY <1>4, <2>1, <2>2
<1>17. ASSUME ~Flush, ~FlushStart PROVE UNCHANGED flush \/ flush' = NoFlush
  BY <1>17 DEF Next, vars, Enqueue, Begin, RecoverOk, RecoverFail, CheckBacklog, RecheckBacklog,
     Add, SpillToDisk, Replay, ReplayAdd, ReplayUnlink, ReplayUnlinkFails, ReplayDone, ProcessOne, Put, Ack, Del,
     Worker, WorkerLoop, WorkerReclaim, WorkerRead, WorkerBatchDone, Restart, Crash, Stop, Exit,
     RedisDown, RedisUp, Tick, Cooldown
<1>. QED
  BY <1>3, <1>4, <1>8, <1>9, <1>10, <1>11, <1>12, <1>13, <1>14, <1>15, <1>16, <1>17
  DEF Flush, FlushAbort

LEMMA InvStep ==
  ASSUME PipelineInv, [Next]_vars
  PROVE  PipelineInv'
<1>1. TypeOK'
  BY RedisType, FilesType, HubType, ProcessType, JobType, FlushType, SpentType
  DEF PipelineInv, TypeOK, StoresOK
<1>2. WorkIsStored'
  BY PendingIsDelivered, JobInv, FlushInv DEF WorkIsStored
<1>. QED  BY <1>1, <1>2, StreamInv DEF PipelineInv

\* Whatever the worker, the flush, crashes and outages do: what is about to be
\* acknowledged is stored, no pending record points to a deleted entry, and a
\* delivered entry that is pending no more is stored.
THEOREM StreamSafety ==
  Spec => [](WorkIsStored /\ PendingIsInStream /\ LeftoversAreStored)
<1>1. PipelineInv /\ [Next]_vars => PipelineInv'
  BY InvStep
<1>2. PipelineInv => WorkIsStored /\ PendingIsInStream /\ LeftoversAreStored
  BY DEF PipelineInv
<1>. QED  BY InvInit, <1>1, <1>2, PTL DEF Spec

\* No step takes an entry out of the pending list or the stream that is not in
\* the Hub.
THEOREM StoredBeforeDropped == Spec => OnlyStoredIsDropped
<1>1. PipelineInv /\ [Next]_vars => PipelineInv'
  BY InvStep
<1>2. PipelineInv /\ [Next]_vars => [(pel \ pel') \cup (present \ present') \subseteq hub]_vars
  BY Removals DEF PipelineInv
<1>. QED  BY InvInit, <1>1, <1>2, PTL DEF Spec, OnlyStoredIsDropped

-----------------------------------------------------------------------------
(* No turn is lost: the files lose only what the stream has taken over. *)

\* A readable entry of t is in the stream or in the Hub.
Kept(t) == EntryOf(t) \cap (present \cup hub) # {}

\* The file a replay is about to unlink has its entry.
ReplayKeeps ==
    replay.step = "unlink" /\ replay.left > 0 /\ Decodable(Head(files))
        => Kept(Head(files).turn)

TurnInv == PipelineInv /\ ReplayKeeps /\ NoTurnLost

\* The log is append-only.
LEMMA LogGrows ==
  ASSUME TypeOK, [Next]_vars
  PROVE  \A e \in Ids : e \in Ids' /\ log'[e] = log[e]
<1>1. CASE UNCHANGED log
  BY <1>1 DEF Ids
<1>2. ASSUME NEW c \in Copies, XAdd(c) PROVE \A e \in Ids : e \in Ids' /\ log'[e] = log[e]
  BY <1>2 DEF XAdd, TypeOK, RedisOK, Ids
<1>3. UNCHANGED log \/ \E c \in Copies : XAdd(c)
  BY Commands DEF Command, redis, XReadGroup, XAutoClaim, XAck, XDel
<1>. QED  BY <1>1, <1>2, <1>3

LEMMA KeptStays ==
  ASSUME PipelineInv, [Next]_vars, NEW t \in Turns, Kept(t)
  PROVE  Kept(t)'
<1>1. PICK e \in EntryOf(t) : e \in present \cup hub
  BY DEF Kept
<1>2. e \in EntryOf(t)'
  BY <1>1, LogGrows DEF PipelineInv, EntryOf, Decodable
<1>3. e \in present' \cup hub'
  BY <1>1, HubType, Removals DEF PipelineInv
<1>. QED  BY <1>2, <1>3 DEF Kept

\* The entry an XADD makes is one of its turn, if it can be read.
LEMMA AddedIsKept ==
  ASSUME TypeOK, NEW c \in Copies, XAdd(c), Decodable(c)
  PROVE  Kept(c.turn)'
<1>1. Len(log) + 1 \in Ids' /\ log'[Len(log) + 1] = c
  BY DEF XAdd, TypeOK, RedisOK, Ids
<1>2. Len(log) + 1 \in EntryOf(c.turn)'
  BY <1>1 DEF EntryOf, Decodable
<1>3. Len(log) + 1 \in present'
  BY DEF XAdd
<1>. QED  BY <1>2, <1>3 DEF Kept

\* The files change at the end, by a spill, or at the front, by a replay.
LEMMA FileChange ==
  ASSUME TypeOK, [Next]_vars
  PROVE  \/ UNCHANGED files
         \/ \E t \in Turns : SpillToDisk(t)
         \/ ReplayUnlink
BY DEF Next, vars, stored, Enqueue, Begin, RecoverOk, RecoverFail, CheckBacklog,
   RecheckBacklog, Add, Replay, ReplayAdd, ReplayUnlinkFails, ReplayDone, ProcessOne, Put, Ack, Del, Worker,
   WorkerLoop, WorkerReclaim, WorkerRead, WorkerBatchDone, Flush, FlushStart, FlushAbort,
   FlushDeliver, FlushPending, FlushInfo, FlushIds, FlushScan, FlushCheck, FlushAck, FlushDel,
   Restart, Crash, Stop, Exit, RedisDown, RedisUp, Tick, Cooldown

\* A spill leaves the files there are as they were.
LEMMA SpillKeepsFiles ==
  ASSUME TypeOK, NEW t \in Turns, SpillToDisk(t)
  PROVE  \A i \in 1..Len(files) : i \in 1..Len(files') /\ files'[i] = files[i]
<1>1. files \in Seq(Copies) /\ Len(files) \in Nat
  BY DEF TypeOK, StoresOK
<1>2. CASE files' = Append(files, [turn |-> t, form |-> "full"])
  BY <1>1, <1>2
<1>3. ASSUME NEW r \in Remains(t), files' = files \o r
      PROVE  \A i \in 1..Len(files) : i \in 1..Len(files') /\ files'[i] = files[i]
  <2>1. r = <<>> \/ \E f \in {"empty", "torn"} : r = <<[turn |-> t, form |-> f]>>
    BY DEF Remains
  <2>2. CASE r = <<>>
    <3>1. files' = files
      BY <1>1, <1>3, <2>2
    <3>. QED  BY <3>1
  <2>3. ASSUME NEW f \in {"empty", "torn"}, r = <<[turn |-> t, form |-> f]>>
        PROVE  \A i \in 1..Len(files) : i \in 1..Len(files') /\ files'[i] = files[i]
    <3>1. [turn |-> t, form |-> f] \in Copies
      BY DEF Copies, Forms
    <3>2. files' = Append(files, [turn |-> t, form |-> f])
      BY <1>1, <1>3, <2>3, <3>1
    <3>. QED  BY <1>1, <3>1, <3>2
  <2>. QED  BY <2>1, <2>2, <2>3
<1>. QED  BY <1>2, <1>3 DEF SpillToDisk

\* What it adds is the turn's own.
LEMMA SpillAppends ==
  ASSUME TypeOK, NEW t \in Turns, SpillToDisk(t)
  PROVE  \A i \in 1..Len(files') : i \notin 1..Len(files) => files'[i].turn = t
<1>1. files \in Seq(Copies) /\ Len(files) \in Nat
  BY DEF TypeOK, StoresOK
<1>2. ASSUME NEW f \in Forms, files' = Append(files, [turn |-> t, form |-> f])
      PROVE  \A i \in 1..Len(files') : i \notin 1..Len(files) => files'[i].turn = t
  <2>1. [turn |-> t, form |-> f] \in Copies
    BY DEF Copies
  <2>2. Len(files') = Len(files) + 1 /\ files'[Len(files) + 1].turn = t
    BY <1>1, <1>2, <2>1
  <2>. QED  BY <1>1, <2>2
<1>3. \/ files' = files
      \/ \E f \in Forms : files' = Append(files, [turn |-> t, form |-> f])
  <2>1. ASSUME NEW r \in Remains(t), files' = files \o r
        PROVE  \/ files' = files
               \/ \E f \in Forms : files' = Append(files, [turn |-> t, form |-> f])
    <3>1. CASE r = <<>>
      BY <1>1, <2>1, <3>1
    <3>2. ASSUME NEW f \in {"empty", "torn"}, r = <<[turn |-> t, form |-> f]>>
          PROVE  files' = Append(files, [turn |-> t, form |-> f]) /\ f \in Forms
      <4>1. [turn |-> t, form |-> f] \in Copies /\ f \in Forms
        BY DEF Copies, Forms
      <4>. QED  BY <1>1, <2>1, <3>2, <4>1
    <3>. QED  BY <3>1, <3>2 DEF Remains
  <2>. QED  BY <2>1 DEF SpillToDisk, Forms
<1>. QED  BY <1>1, <1>2, <1>3

LEMMA FileCopyStays ==
  ASSUME TurnInv, [Next]_vars, NEW t \in Turns, FileCopy(t)
  PROVE  FileCopy(t)' \/ Kept(t)'
<1>. USE DEF TurnInv, PipelineInv
<1>1. PICK i \in 1..Len(files) : files[i].turn = t /\ Decodable(files[i])
  BY DEF FileCopy
<1>2. CASE UNCHANGED files
  BY <1>1, <1>2 DEF FileCopy, Decodable
<1>3. ASSUME NEW u \in Turns, SpillToDisk(u) PROVE FileCopy(t)'
  BY <1>1, <1>3, SpillKeepsFiles DEF FileCopy, Decodable
<1>4. CASE ReplayUnlink
  <2>1. files \in Seq(Copies) /\ Len(files) \in Nat
    BY DEF TypeOK, StoresOK
  <2>2. CASE i = 1
    <3>1. Kept(t)
      BY <1>1, <1>4, <2>1, <2>2 DEF ReplayKeeps, ReplayUnlink
    <3>. QED  BY <3>1, KeptStays
  <2>3. CASE i # 1
    <3>1. i - 1 \in 1..(Len(files) - 1)
      BY <1>1, <2>1, <2>3
    <3>2. files' = Tail(files) /\ files # <<>>
      BY <1>1, <1>4, <2>1 DEF ReplayUnlink
    <3>3. i - 1 \in 1..Len(files') /\ files'[i - 1] = files[i]
      BY <1>1, <2>1, <3>1, <3>2
    <3>. QED  BY <1>1, <3>3 DEF FileCopy, Decodable
  <2>. QED  BY <2>2, <2>3
<1>. QED  BY <1>2, <1>3, <1>4, FileChange

LEMMA ReplayKeepsStep ==
  ASSUME TurnInv, [Next]_vars
  PROVE  ReplayKeeps'
<1>. USE DEF TurnInv, PipelineInv
<1>1. ASSUME UNCHANGED replay, replay.left > 0, Head(files') = Head(files), files # <<>>
      PROVE  ReplayKeeps'
  <2>1. PICK c \in Copies : c = Head(files)
    BY <1>1 DEF TypeOK, StoresOK
  <2>2. c.turn \in Turns
    BY DEF Copies
  <2>3. Kept(c.turn) => Kept(c.turn)'
    BY <2>2, KeptStays
  <2>4. replay.step = "unlink" /\ Decodable(c) => Kept(c.turn)
    BY <1>1, <2>1 DEF ReplayKeeps
  <2>5. replay.step = "unlink" /\ Decodable(c) => Kept(c.turn)'
    BY <2>3, <2>4
  <2>6. c = Head(files') /\ replay' = replay
    BY <1>1, <2>1
  <2>. QED  BY <2>5, <2>6 DEF ReplayKeeps, Decodable, Kept, EntryOf
<1>2. ASSUME replay'.step = "xadd" \/ ~(replay'.left > 0) PROVE ReplayKeeps'
  BY <1>2 DEF ReplayKeeps
<1>3. replay.left > 0 => files # <<>>
  BY DEF TypeOK, StoresOK, ReplayOK
<1>4. CASE UNCHANGED <<files, replay>>
  BY <1>1, <1>2, <1>3, <1>4
<1>5. ASSUME NEW t \in Turns, SpillToDisk(t) PROVE ReplayKeeps'
  <2>1. UNCHANGED replay
    BY <1>5 DEF SpillToDisk
  <2>2. CASE replay.left > 0
    <3>1. files \in Seq(Copies) /\ files' \in Seq(Copies) /\ files # <<>>
      BY <1>3, <2>2, FilesType DEF TypeOK, StoresOK
    <3>2. 1 \in 1..Len(files)
      BY <3>1
    <3>3. 1 \in 1..Len(files') /\ files'[1] = files[1]
      BY <1>5, <3>2, SpillKeepsFiles
    <3>4. Head(files') = Head(files)
      BY <3>1, <3>3
    <3>. QED  BY <1>1, <2>1, <2>2, <3>1, <3>4
  <2>. QED  BY <1>2, <2>1, <2>2
<1>6. CASE ReplayAdd
  <2>1. replay.left > 0 /\ UNCHANGED files
    BY <1>6 DEF ReplayAdd, stored
  <2>2. PICK c \in Copies : c = Head(files)
    BY <1>3, <2>1 DEF TypeOK, StoresOK
  <2>3. XAdd(c) \/ ~(replay'.left > 0)
    BY <1>6, <2>2 DEF ReplayAdd, TypeOK, ReplayOK
  <2>4. CASE XAdd(c)
    <3>1. Decodable(c) => Kept(c.turn)'
      BY <2>4, AddedIsKept
    <3>2. c = Head(files')
      BY <2>1, <2>2
    <3>. QED  BY <3>1, <3>2 DEF ReplayKeeps, Decodable, Kept, EntryOf
  <2>. QED  BY <1>2, <2>3, <2>4
<1>7. CASE ReplayUnlink
  BY <1>2, <1>7 DEF ReplayUnlink, TypeOK, ReplayOK
<1>8. ASSUME ~UNCHANGED <<files, replay>>, ~ReplayAdd, ~ReplayUnlink,
             \A t \in Turns : ~SpillToDisk(t)
      PROVE  replay'.step = "xadd"
  <2>1. \/ replay' = NoReplay
        \/ \E x : replay' = [by |-> x, left |-> Len(files), step |-> "xadd"]
        \/ replay' = [replay EXCEPT !.left = 0, !.step = "xadd"]
    BY <1>8 DEF Next, vars, stored, Enqueue, Begin, RecoverOk, RecoverFail, CheckBacklog,
     RecheckBacklog, Add, Replay, ReplayUnlinkFails, ReplayDone, ProcessOne, Put, Ack, Del, Worker, WorkerLoop,
     WorkerReclaim, WorkerRead, WorkerBatchDone, Flush, FlushStart, FlushAbort, FlushDeliver,
     FlushPending, FlushInfo, FlushIds, FlushScan, FlushCheck, FlushAck, FlushDel, Restart, Crash,
     Stop, Exit, RedisDown, RedisUp, Tick, Cooldown
  <2>2. replay' = [replay EXCEPT !.left = 0, !.step = "xadd"] => replay'.step = "xadd"
    BY DEF TypeOK, ReplayOK
  <2>. QED  BY <2>1, <2>2 DEF NoReplay
<1>. QED  BY <1>2, <1>4, <1>5, <1>6, <1>7, <1>8

\* A task ends with a copy of its turn on the stream or on the disk.
LEMMA DoneIsKept ==
  ASSUME TypeOK, [Next]_vars, NEW t \in Turns, task[t] # "done", task'[t] = "done"
  PROVE  FileCopy(t)' \/ Kept(t)'
<1>1. ASSUME NEW u \in Turns, NEW s, Goto(u, s), s # "done" PROVE FALSE
  BY <1>1 DEF Goto, TypeOK, ProcessOK
<1>2. ASSUME NEW u \in Turns, NEW s, Goto(u, s) PROVE u = t
  BY <1>2 DEF Goto, TypeOK, ProcessOK
<1>3. ASSUME NEW u \in Turns, Add(u) PROVE Kept(t)'
  <2>1. u = t
    BY <1>2, <1>3 DEF Add
  <2>. DEFINE c == [turn |-> t, form |-> IF task[t] = "add" THEN "full" ELSE "truncated"]
  <2>2. XAdd(c)
    <3>1. "spill" # "done"
      OBVIOUS
    <3>. QED  BY <1>1, <1>3, <2>1, <3>1 DEF Add
  <2>3. c \in Copies /\ c.turn = t /\ Decodable(c)
    BY DEF Copies, Forms, Decodable
  <2>. QED  BY <2>2, <2>3, AddedIsKept
<1>4. ASSUME NEW u \in Turns, SpillToDisk(u) PROVE FileCopy(t)'
  <2>1. u = t
    BY <1>2, <1>4 DEF SpillToDisk
  <2>2. files' = Append(files, [turn |-> t, form |-> "full"])
    BY <1>1, <1>4, <2>1 DEF SpillToDisk
  <2>3. /\ Len(files) + 1 \in 1..Len(files')
        /\ files'[Len(files) + 1] = [turn |-> t, form |-> "full"]
    <3>1. files \in Seq(Copies) /\ [turn |-> t, form |-> "full"] \in Copies
      BY DEF TypeOK, StoresOK, Copies, Forms
    <3>. QED  BY <2>2, <3>1
  <2>. QED  BY <2>3 DEF FileCopy, Decodable
<1>5. \/ UNCHANGED task
      \/ \E u \in Turns : Add(u) \/ SpillToDisk(u)
      \/ \E u \in Turns, s \in TaskStates \ {"done"} : Goto(u, s)
      \/ task' = [u \in Turns |-> IF InFlight(u) THEN "lost" ELSE task[u]]
  BY DEF Next, vars, Enqueue, Begin, RecoverOk, RecoverFail, CheckBacklog,
     RecheckBacklog, Replay, ReplayAdd, ReplayUnlink, ReplayUnlinkFails, ReplayDone, ProcessOne, Put, Ack, Del, Worker,
     WorkerLoop, WorkerReclaim, WorkerRead, WorkerBatchDone, Flush, FlushStart, FlushAbort,
     FlushDeliver, FlushPending, FlushInfo, FlushIds, FlushScan, FlushCheck, FlushAck, FlushDel,
     Restart, Crash, Stop, Exit, RedisDown, RedisUp, Tick, Cooldown, TaskStates, TypeOK, ReplayOK
<1>. QED  BY <1>1, <1>3, <1>4, <1>5

LEMMA TurnInit == Init => TurnInv
BY InvInit DEF TurnInv, Init, ReplayKeeps, NoReplay, NoTurnLost

LEMMA TurnStep ==
  ASSUME TurnInv, [Next]_vars
  PROVE  TurnInv'
<1>1. PipelineInv' /\ ReplayKeeps'
  BY InvStep, ReplayKeepsStep DEF TurnInv
<1>2. ASSUME NEW t \in Turns, task'[t] = "done" PROVE FileCopy(t)' \/ Kept(t)'
  <2>1. CASE task[t] = "done"
    <3>1. FileCopy(t) \/ Kept(t)
      BY <2>1 DEF TurnInv, NoTurnLost, Kept
    <3>. QED  BY <3>1, FileCopyStays, KeptStays DEF TurnInv
  <2>2. CASE task[t] # "done"
    BY <1>2, <2>2, DoneIsKept DEF TurnInv, PipelineInv
  <2>. QED  BY <2>1, <2>2
<1>3. NoTurnLost'
  BY <1>2 DEF NoTurnLost, Kept
<1>. QED  BY <1>1, <1>3 DEF TurnInv

\* A turn that _enqueue_turn returned for is never lost.
THEOREM NoLoss == Spec => []NoTurnLost
<1>1. TurnInv /\ [Next]_vars => TurnInv'
  BY TurnStep
<1>2. TurnInv => NoTurnLost
  BY DEF TurnInv
<1>. QED  BY TurnInit, <1>1, <1>2, PTL DEF Spec

-----------------------------------------------------------------------------
(* A turn is stored twice only through a fault: the copies that can still  *)
(* reach the Hub are counted, and the one a task in flight will still make.*)

\* One replay at a time: no recovery starts while one runs, and the process
\* does not end under it but by a crash.
ReplayIsAlone ==
    /\ replay.step = "unlink" => replay.left > 0
    /\ replay.by = "nobody" => replay = NoReplay
    /\ replay.by = "startup" => phase = "starting"
    /\ replay.by \in Turns => task[replay.by] = "replaying"
    /\ replay.by # "nobody" => pipeline
    /\ phase = "down" => \A t \in Turns : ~InFlight(t)
    /\ \A t \in Turns : task[t] = "recovering" => ~cooled /\ ~pipeline
    /\ \A t, u \in Turns : task[t] = "recovering" /\ task[u] = "recovering" => t = u

\* The readable files of t but the one whose entry is in the stream already.
FilesOf(t) ==
    {i \in (1 + Unlinking)..Len(files) : files[i].turn = t /\ Decodable(files[i])}
Readable(t) == Cardinality(EntryOf(t)) + Cardinality(FilesOf(t))
Ended(t) == task[t] \in {"done", "lost"}
ToCome(t) == IF Ended(t) THEN 0 ELSE 1
Allowed == 1 + spent["reply"] + spent["crash"] + spent["unlink"]

CountInv ==
    /\ TypeOK /\ ReplayIsAlone
    /\ \A t \in Turns : Readable(t) + ToCome(t) <= Allowed

LEMMA AloneInit == Init => ReplayIsAlone
  BY Constants DEF Init, ReplayIsAlone, NoReplay, InFlight

LEMMA AloneStep ==
  ASSUME TypeOK, ReplayIsAlone, [Next]_vars
  PROVE  ReplayIsAlone'
<1>. USE Constants DEF TypeOK, ProcessOK, ReplayOK
<1>1. CASE UNCHANGED <<replay, phase, task, pipeline, cooled>>
  BY <1>1 DEF ReplayIsAlone, InFlight, NoReplay
<1>2. ASSUME NEW t \in Turns, Begin(t) PROVE ReplayIsAlone'
  BY <1>2 DEF Begin, Goto, ReplayIsAlone, InFlight, NoReplay
<1>3. ASSUME NEW t \in Turns, RecoverOk(t) PROVE ReplayIsAlone'
  BY <1>3 DEF RecoverOk, Goto, ReplayIsAlone, InFlight, NoReplay
<1>4. ASSUME NEW t \in Turns, NEW s \in {"check", "recheck", "add", "addTruncated", "spill",
                                         "fallback", "done", "lost"},
             InFlight(t), task[t] # "replaying", Goto(t, s), UNCHANGED <<replay, process>>
      PROVE  ReplayIsAlone'
  BY <1>4 DEF Goto, ReplayIsAlone, InFlight, NoReplay, process
<1>5. CASE ReplayAdd \/ ReplayUnlink \/ ReplayUnlinkFails
  <2>1. replay.left > 0 /\ UNCHANGED process /\ UNCHANGED task
    BY <1>5 DEF ReplayAdd, ReplayUnlink, ReplayUnlinkFails
  <2>2. replay.by # "nobody"
    BY <2>1 DEF ReplayIsAlone, NoReplay
  <2>3. replay'.by = replay.by /\ (replay'.step = "unlink" => replay'.left > 0)
    BY <1>5, <2>1 DEF ReplayAdd, ReplayUnlink, ReplayUnlinkFails, ReplayIsAlone
  <2>. QED  BY <2>1, <2>2, <2>3 DEF ReplayIsAlone, InFlight, process
<1>6. CASE ReplayDone
  BY <1>6 DEF ReplayDone, Goto, ReplayIsAlone, InFlight, NoReplay
<1>7. CASE Restart
  <2>1. UNCHANGED task /\ \A t \in Turns : task[t] # "recovering"
    BY <1>7 DEF Restart, ReplayIsAlone, InFlight
  <2>2. replay = NoReplay
    BY <1>7 DEF Restart, ReplayIsAlone, InFlight
  <2>3. CASE redisUp
    BY <1>7, <2>1, <2>3 DEF Restart, ReplayIsAlone, InFlight
  <2>4. CASE ~redisUp
    BY <1>7, <2>1, <2>2, <2>4 DEF Restart, ReplayIsAlone, NoReplay
  <2>. QED  BY <2>3, <2>4
<1>8. CASE Crash
  BY <1>8 DEF Crash, ReplayIsAlone, InFlight, NoReplay
<1>9. CASE Stop
  BY <1>9 DEF Stop, ReplayIsAlone, InFlight, NoReplay
<1>10. CASE Exit
  <2>1. /\ phase = "stopping" /\ \A t \in Turns : ~InFlight(t)
        /\ UNCHANGED <<replay, task>>
    BY <1>10 DEF Exit
  <2>2. replay.by = "nobody"
    BY <2>1 DEF ReplayIsAlone, InFlight
  <2>. QED  BY <2>1, <2>2 DEF ReplayIsAlone, InFlight, NoReplay
<1>11. CASE Cooldown
  BY <1>11 DEF Cooldown, ReplayIsAlone, InFlight, NoReplay
<1>12. ASSUME NEW t \in Turns, Enqueue(t) PROVE ReplayIsAlone'
  BY <1>2, <1>3, <1>4, <1>12 DEF Enqueue, RecoverFail, CheckBacklog, RecheckBacklog, Add,
     SpillToDisk, InFlight
<1>13. CASE Worker \/ Flush \/ FlushStart \/ (\E a \in Actors : ProcessOne(a)) \/ RedisDown
            \/ RedisUp \/ Tick \/ UNCHANGED vars
  BY <1>1, <1>13 DEF vars, process, Worker, WorkerLoop, WorkerReclaim, WorkerRead, WorkerBatchDone,
     Flush, FlushStart, FlushAbort, FlushDeliver, FlushPending, FlushInfo, FlushIds, FlushScan,
     FlushCheck, FlushAck, FlushDel, ProcessOne, Put, Ack, Del, RedisDown, RedisUp, Tick
<1>. QED  BY <1>5, <1>6, <1>7, <1>8, <1>9, <1>11, <1>12, <1>13, <1>10 DEF Next, Replay

\* A task that ended stays ended.
LEMMA EndedStays ==
  ASSUME TypeOK, ReplayIsAlone, [Next]_vars, NEW t \in Turns, Ended(t)
  PROVE  Ended(t)'
<1>. USE DEF TypeOK, ProcessOK, Ended
<1>1. ASSUME NEW u \in Turns, NEW s, Goto(u, s), ~Ended(u) PROVE Ended(t)'
  BY <1>1 DEF Goto
<1>2. ASSUME NEW u \in Turns, Enqueue(u) PROVE Ended(t)'
  BY <1>1, <1>2 DEF Enqueue, Begin, RecoverOk, RecoverFail, CheckBacklog, RecheckBacklog, Add,
     SpillToDisk
<1>3. CASE ReplayDone
  BY <1>1, <1>3, Constants DEF ReplayDone, ReplayIsAlone, ReplayOK
<1>4. CASE Crash
  BY <1>4 DEF Crash
<1>. QED  BY <1>2, <1>3, <1>4 DEF Next, vars, Replay, ReplayAdd, ReplayUnlink, ReplayUnlinkFails, ProcessOne, Put, Ack,
     Del, Worker, WorkerLoop, WorkerReclaim, WorkerRead, WorkerBatchDone, Flush, FlushStart,
     FlushAbort, FlushDeliver, FlushPending, FlushInfo, FlushIds, FlushScan, FlushCheck, FlushAck,
     FlushDel, Restart, Stop, Exit, RedisDown, RedisUp, Tick, Cooldown

LEMMA AllowedGrows ==
  ASSUME TypeOK, [Next]_vars
  PROVE  /\ Allowed \in Nat /\ Allowed' \in Nat /\ Allowed <= Allowed'
         /\ (\E f \in {"reply", "crash", "unlink"} : Spend(f)) => Allowed' = Allowed + 1
<1>. USE DEF TypeOK, Allowed
<1>1. spent' \in [Faults -> Nat]
  BY SpentType
<1>2. {"reply", "crash", "unlink", "any"} \subseteq Faults
  BY DEF Faults
<1>3. ASSUME NEW f \in Faults, Spend(f)
      PROVE  /\ Allowed <= Allowed'
             /\ f \in {"reply", "crash", "unlink"} => Allowed' = Allowed + 1
  BY <1>1, <1>2, <1>3 DEF Spend
<1>4. UNCHANGED spent \/ \E f \in Faults : Spend(f)
  BY DEF Next, vars, redis, stored, process, worker, Enqueue, Begin, RecoverOk, RecoverFail,
     CheckBacklog, RecheckBacklog, Add, SpillToDisk, Replay, ReplayAdd, ReplayUnlink, ReplayUnlinkFails, ReplayDone,
     ProcessOne, Put, Ack, Del, Worker, WorkerLoop, WorkerReclaim, WorkerRead, WorkerBatchDone,
     Flush, FlushStart, FlushAbort, FlushDeliver, FlushPending, FlushInfo, FlushIds, FlushScan,
     FlushCheck, FlushAck, FlushDel, Restart, Crash, Stop, Exit, RedisDown, RedisUp, Tick,
     Cooldown, Answered, Faults
<1>5. Allowed \in Nat /\ Allowed' \in Nat
  BY <1>1, <1>2
<1>. QED  BY <1>2, <1>3, <1>4, <1>5

LEMMA PartOfInterval ==
  ASSUME NEW n \in Nat, NEW S \in SUBSET (1..n)
  PROVE  IsFiniteSet(S) /\ Cardinality(S) \in Nat
<1>1. IsFiniteSet(1..n)
  BY FS_Interval
<1>. QED  BY <1>1, FS_Subset, FS_CardinalityType

LEMMA CountsAreFinite ==
  ASSUME TypeOK, NEW t
  PROVE  /\ IsFiniteSet(EntryOf(t)) /\ Cardinality(EntryOf(t)) \in Nat
         /\ IsFiniteSet(FilesOf(t)) /\ Cardinality(FilesOf(t)) \in Nat
<1>1. Len(log) \in Nat /\ Len(files) \in Nat /\ Unlinking \in {0, 1}
  BY DEF TypeOK, RedisOK, StoresOK, Unlinking
<1>2. EntryOf(t) \subseteq 1..Len(log) /\ FilesOf(t) \subseteq 1..Len(files)
  BY <1>1 DEF EntryOf, Ids, FilesOf
<1>. QED  BY <1>1, <1>2, PartOfInterval

\* An XADD makes one more entry of its turn, if it can be read.
LEMMA AddCounts ==
  ASSUME TypeOK, NEW c \in Copies, XAdd(c), NEW t
  PROVE  Cardinality(EntryOf(t)') =
           Cardinality(EntryOf(t)) + (IF c.turn = t /\ Decodable(c) THEN 1 ELSE 0)
<1>. DEFINE n == Len(log) + 1
<1>1. /\ Len(log) \in Nat /\ Ids' = Ids \cup {n} /\ n \notin Ids /\ log'[n] = c
      /\ \A e \in Ids : log'[e] = log[e]
  BY DEF XAdd, TypeOK, RedisOK, Ids
<1>2. EntryOf(t)' = IF c.turn = t /\ Decodable(c) THEN EntryOf(t) \cup {n} ELSE EntryOf(t)
  <2>. HIDE DEF n
  <2>. QED  BY <1>1 DEF EntryOf, Decodable
<1>3. n \notin EntryOf(t)
  BY <1>1 DEF EntryOf
<1>4. IsFiniteSet(EntryOf(t)) /\ Cardinality(EntryOf(t)) \in Nat
  BY CountsAreFinite
<1>. HIDE DEF n
<1>5. Cardinality(EntryOf(t) \cup {n}) = Cardinality(EntryOf(t)) + 1
  BY <1>3, <1>4, FS_AddElement
<1>. QED  BY <1>2, <1>4, <1>5

\* A spill that succeeds makes one more file of its turn; what a failed one
\* leaves behind cannot be read.
LEMMA SpillCounts ==
  ASSUME TypeOK, NEW u \in Turns, SpillToDisk(u), NEW t
  PROVE  Cardinality(FilesOf(t)') <=
           Cardinality(FilesOf(t)) + (IF u = t /\ task' = [task EXCEPT ![u] = "done"]
                                      THEN 1 ELSE 0)
<1>1. files \in Seq(Copies) /\ Len(files) \in Nat /\ UNCHANGED Unlinking
  BY DEF TypeOK, StoresOK, SpillToDisk, Unlinking
<1>2. IsFiniteSet(FilesOf(t)) /\ Cardinality(FilesOf(t)) \in Nat
  BY CountsAreFinite
<1>3. ASSUME NEW f \in Forms, files' = Append(files, [turn |-> u, form |-> f])
      PROVE  FilesOf(t)' \subseteq
               IF u = t /\ f \in {"full", "truncated"}
               THEN FilesOf(t) \cup {Len(files) + 1} ELSE FilesOf(t)
  <2>1. [turn |-> u, form |-> f] \in Copies
    BY <1>3 DEF Copies
  <2>2. /\ Len(files') = Len(files) + 1 /\ files'[Len(files) + 1] = [turn |-> u, form |-> f]
        /\ \A i \in 1..Len(files) : files'[i] = files[i]
    BY <1>1, <1>3, <2>1
  <2>3. ASSUME NEW i \in FilesOf(t)', i # Len(files) + 1 PROVE i \in FilesOf(t)
    <3>1. i \in 1..Len(files) /\ files'[i] = files[i]
      BY <1>1, <2>2, <2>3 DEF FilesOf, Unlinking
    <3>. QED  BY <1>1, <3>1 DEF FilesOf, Decodable
  <2>4. ASSUME Len(files) + 1 \in FilesOf(t)' PROVE u = t /\ f \in {"full", "truncated"}
    BY <2>2, <2>4 DEF FilesOf, Decodable
  <2>. QED  BY <2>3, <2>4
<1>4. CASE files' = Append(files, [turn |-> u, form |-> "full"]) /\ Goto(u, "done")
  <2>1. FilesOf(t)' \subseteq IF u = t THEN FilesOf(t) \cup {Len(files) + 1} ELSE FilesOf(t)
    BY <1>3, <1>4 DEF Forms
  <2>2. /\ IsFiniteSet(FilesOf(t) \cup {Len(files) + 1})
        /\ Cardinality(FilesOf(t) \cup {Len(files) + 1}) <= Cardinality(FilesOf(t)) + 1
    BY <1>2, FS_AddElement
  <2>3. CASE u = t
    <3>1. Cardinality(FilesOf(t)') <= Cardinality(FilesOf(t) \cup {Len(files) + 1})
      BY <2>1, <2>2, <2>3, FS_Subset
    <3>2. IsFiniteSet(FilesOf(t)')
      BY <2>1, <2>2, <2>3, FS_Subset
    <3>3. /\ Cardinality(FilesOf(t)') \in Nat
          /\ Cardinality(FilesOf(t) \cup {Len(files) + 1}) \in Nat
      BY <2>2, <3>2, FS_CardinalityType
    <3>. QED  BY <1>2, <1>4, <2>2, <2>3, <3>1, <3>3 DEF Goto
  <2>4. CASE u # t
    <3>1. Cardinality(FilesOf(t)') <= Cardinality(FilesOf(t))
      BY <1>2, <2>1, <2>4, FS_Subset
    <3>. QED  BY <1>2, <2>4, <3>1
  <2>. QED  BY <2>3, <2>4
<1>5. ASSUME NEW r \in Remains(u), files' = files \o r, ~(task' = [task EXCEPT ![u] = "done"])
      PROVE  Cardinality(FilesOf(t)') <= Cardinality(FilesOf(t))
  <2>1. FilesOf(t)' \subseteq FilesOf(t)
    <3>1. CASE r = <<>>
      <4>1. files' = files
        BY <1>1, <1>5, <3>1
      <4>. QED  BY <1>1, <4>1 DEF FilesOf, Decodable
    <3>2. ASSUME NEW f \in {"empty", "torn"}, r = <<[turn |-> u, form |-> f]>>
          PROVE  FilesOf(t)' \subseteq FilesOf(t)
      <4>1. [turn |-> u, form |-> f] \in Copies /\ f \in Forms
        BY DEF Copies, Forms
      <4>2. files' = Append(files, [turn |-> u, form |-> f])
        BY <1>1, <1>5, <3>2, <4>1
      <4>. QED  BY <1>3, <4>1, <4>2
    <3>. QED  BY <3>1, <3>2 DEF Remains
  <2>. QED  BY <1>2, <2>1, FS_Subset
<1>6. \/ files' = Append(files, [turn |-> u, form |-> "full"]) /\ Goto(u, "done")
      \/ \E r \in Remains(u) : files' = files \o r /\ ~(task' = [task EXCEPT ![u] = "done"])
  <2>1. task \in [Turns -> TaskStates]
    BY DEF TypeOK, ProcessOK
  <2>2. ASSUME NEW s, s # "done", Goto(u, s) PROVE ~(task' = [task EXCEPT ![u] = "done"])
    BY <2>1, <2>2 DEF Goto
  <2>3. (IF task[u] = "spill" THEN "fallback" ELSE "lost") # "done"
    OBVIOUS
  <2>. QED  BY <2>2, <2>3 DEF SpillToDisk
<1>. QED  BY <1>2, <1>4, <1>5, <1>6

\* The file that is unlinked was not counted any more; the others move up.
LEMMA UnlinkCounts ==
  ASSUME TypeOK, ReplayUnlink, NEW t
  PROVE  Cardinality(FilesOf(t)') <= Cardinality(FilesOf(t))
<1>1. /\ files \in Seq(Copies) /\ Len(files) \in Nat /\ Len(files) > 0
      /\ files' = Tail(files) /\ replay.step = "unlink" /\ replay'.step = "xadd"
  BY DEF TypeOK, StoresOK, ReplayOK, ReplayUnlink
<1>2. /\ Len(files') = Len(files) - 1
      /\ \A i \in 1..(Len(files) - 1) : files'[i] = files[i + 1]
  BY <1>1
<1>3. Unlinking = 1 /\ Unlinking' = 0
  BY <1>1 DEF Unlinking
<1>4. \A i \in FilesOf(t)' : i \in Nat /\ i + 1 \in FilesOf(t)
  BY <1>1, <1>2, <1>3 DEF FilesOf, Decodable
<1>. DEFINE f == [i \in FilesOf(t)' |-> i + 1]
<1>5. f \in Injection(FilesOf(t)', FilesOf(t))
  <2>1. f \in [FilesOf(t)' -> FilesOf(t)]
    BY <1>4
  <2>2. \A i, j \in FilesOf(t)' : f[i] = f[j] => i = j
    BY <1>4
  <2>. QED  BY <2>1, <2>2 DEF Injection, IsInjective
<1>. QED  BY <1>5, CountsAreFinite, FS_Injection

\* A replayed file is not counted as soon as its entry is.
LEMMA ReplayAddCounts ==
  ASSUME TypeOK, ReplayIsAlone, [Next]_vars, ReplayAdd, NEW t
  PROVE  Readable(t)' + Allowed <= Readable(t) + Allowed'
<1>1. /\ files \in Seq(Copies) /\ Len(files) \in Nat /\ Len(files) > 0
      /\ UNCHANGED files /\ replay.step = "xadd"
  BY DEF TypeOK, StoresOK, ReplayOK, ReplayAdd, stored
<1>. DEFINE c == files[1]
<1>2. c \in Copies /\ c = Head(files)
  BY <1>1
<1>3. Unlinking = 0
  BY <1>1 DEF Unlinking
<1>4. /\ IsFiniteSet(FilesOf(t)) /\ Cardinality(FilesOf(t)) \in Nat
      /\ Cardinality(EntryOf(t)) \in Nat
  BY CountsAreFinite
<1>5. Allowed \in Nat /\ Allowed' \in Nat /\ Allowed <= Allowed'
  BY AllowedGrows
<1>6. CASE XAdd(c) /\ replay' = [replay EXCEPT !.step = "unlink"]
  <2>1. Unlinking' = 1
    BY <1>6 DEF Unlinking, TypeOK, ReplayOK
  <2>2. FilesOf(t)' = FilesOf(t) \ {1}
    BY <1>1, <1>3, <2>1 DEF FilesOf, Decodable
  <2>3. 1 \in FilesOf(t) <=> c.turn = t /\ Decodable(c)
    BY <1>1, <1>3 DEF FilesOf, Decodable
  <2>4. Cardinality(FilesOf(t)') =
          Cardinality(FilesOf(t)) - (IF c.turn = t /\ Decodable(c) THEN 1 ELSE 0)
    <3>1. Cardinality(FilesOf(t) \ {1}) =
            IF 1 \in FilesOf(t) THEN Cardinality(FilesOf(t)) - 1 ELSE Cardinality(FilesOf(t))
      BY <1>4, FS_RemoveElement
    <3>. QED  BY <1>4, <2>2, <2>3, <3>1
  <2>5. Cardinality(EntryOf(t)') =
          Cardinality(EntryOf(t)) + (IF c.turn = t /\ Decodable(c) THEN 1 ELSE 0)
    BY <1>2, <1>6, AddCounts
  <2>. QED  BY <1>4, <1>5, <2>4, <2>5 DEF Readable
<1>7. CASE XAdd(c) /\ Spend("reply") /\ replay' = [replay EXCEPT !.left = 0]
  <2>1. Unlinking' = 0
    BY <1>1, <1>7 DEF Unlinking, TypeOK, ReplayOK
  <2>2. FilesOf(t)' = FilesOf(t)
    BY <1>1, <1>3, <2>1 DEF FilesOf, Decodable
  <2>3. Allowed' = Allowed + 1
    BY <1>7, AllowedGrows
  <2>4. Cardinality(EntryOf(t)') \in Nat /\ Cardinality(EntryOf(t)') <= Cardinality(EntryOf(t)) + 1
    BY <1>2, <1>4, <1>7, AddCounts
  <2>. QED  BY <1>4, <1>5, <2>2, <2>3, <2>4 DEF Readable
<1>8. CASE UNCHANGED redis /\ replay' = [replay EXCEPT !.left = 0]
  <2>1. Unlinking' = 0
    BY <1>1, <1>8 DEF Unlinking, TypeOK, ReplayOK
  <2>2. FilesOf(t)' = FilesOf(t) /\ EntryOf(t)' = EntryOf(t)
    BY <1>1, <1>3, <1>8, <2>1 DEF FilesOf, Decodable, EntryOf, Ids, redis
  <2>. QED  BY <1>4, <1>5, <2>2 DEF Readable
<1>. QED  BY <1>2, <1>6, <1>7, <1>8 DEF ReplayAdd, Answered

\* Nothing else makes or counts a copy.
LEMMA OthersKeepCounts ==
  ASSUME TypeOK, ReplayIsAlone, [Next]_vars, ~ReplayAdd, ~ReplayUnlink,
         ~ReplayUnlinkFails, ~Crash,
         \A u \in Turns : ~Add(u) /\ ~SpillToDisk(u)
  PROVE  UNCHANGED <<log, files, Unlinking>>
<1>1. UNCHANGED <<log, files>>
  BY DEF Next, vars, redis, stored, Enqueue, Begin, RecoverOk, RecoverFail, CheckBacklog,
     RecheckBacklog, Replay, ReplayUnlinkFails, ReplayDone, ProcessOne, Put, Ack, Del, Worker, WorkerLoop,
     WorkerReclaim, WorkerRead, WorkerBatchDone, Flush, FlushStart, FlushAbort, FlushDeliver,
     FlushPending, FlushInfo, FlushIds, FlushScan, FlushCheck, FlushAck, FlushDel, Restart, Stop,
     Exit, RedisDown, RedisUp, Tick, Cooldown, XReadGroup, XAutoClaim, XAck, XDel
<1>2. UNCHANGED replay \/ (replay.step = "xadd" /\ replay'.step = "xadd")
  <2>1. \A t \in Turns : RecoverOk(t) => replay.step = "xadd" /\ replay'.step = "xadd"
    <3>1. ASSUME NEW t \in Turns, RecoverOk(t) PROVE replay = NoReplay
      BY <3>1 DEF RecoverOk, ReplayIsAlone
    <3>. QED  BY <3>1 DEF RecoverOk, NoReplay
  <2>2. ReplayDone => replay.step = "xadd" /\ replay'.step = "xadd"
    BY DEF ReplayDone, ReplayIsAlone, NoReplay, TypeOK, ReplayOK
  <2>3. Restart => UNCHANGED replay \/ (replay.step = "xadd" /\ replay'.step = "xadd")
    <3>1. Restart => replay = NoReplay
      BY Constants DEF Restart, ReplayIsAlone, InFlight, TypeOK, ReplayOK
    <3>. QED  BY <3>1 DEF Restart, NoReplay
  <2>. QED
    BY <2>1, <2>2, <2>3 DEF Next, vars, Enqueue, Begin, RecoverFail, CheckBacklog, RecheckBacklog,
     Replay, ReplayUnlinkFails, ProcessOne, Put, Ack, Del, Worker, WorkerLoop, WorkerReclaim, WorkerRead,
     WorkerBatchDone, Flush, FlushStart, FlushAbort, FlushDeliver, FlushPending, FlushInfo,
     FlushIds, FlushScan, FlushCheck, FlushAck, FlushDel, Stop, Exit, RedisDown, RedisUp, Tick,
     Cooldown
<1>. QED  BY <1>1, <1>2 DEF Unlinking

LEMMA CountStep ==
  ASSUME CountInv, [Next]_vars, NEW t \in Turns
  PROVE  (Readable(t) + ToCome(t) <= Allowed)'
<1>. USE DEF CountInv
<1>1. /\ Cardinality(EntryOf(t)) \in Nat /\ Cardinality(FilesOf(t)) \in Nat
      /\ IsFiniteSet(FilesOf(t))
  BY CountsAreFinite
<1>2. /\ Cardinality(EntryOf(t)') \in Nat /\ Cardinality(FilesOf(t)') \in Nat
      /\ FilesOf(t)' \subseteq 1..Len(files')
  <2>1. TypeOK'
    BY RedisType, FilesType, HubType, ProcessType, JobType, FlushType, SpentType
    DEF TypeOK, StoresOK
  <2>2. Len(log') \in Nat /\ Len(files') \in Nat /\ Unlinking' \in {0, 1}
    BY <2>1 DEF TypeOK, RedisOK, StoresOK, Unlinking
  <2>3. EntryOf(t)' \subseteq 1..Len(log') /\ FilesOf(t)' \subseteq 1..Len(files')
    BY <2>2 DEF EntryOf, Ids, FilesOf
  <2>. QED  BY <2>2, <2>3, PartOfInterval
<1>3. /\ Allowed \in Nat /\ Allowed' \in Nat /\ Allowed <= Allowed'
      /\ (\E f \in {"reply", "crash", "unlink"} : Spend(f)) => Allowed' = Allowed + 1
  BY AllowedGrows
<1>4. ToCome(t) \in {0, 1} /\ ToCome(t)' \in {0, 1} /\ ToCome(t)' <= ToCome(t)
  BY EndedStays DEF ToCome
<1>5. Readable(t) + ToCome(t) <= Allowed
  OBVIOUS
<1>6. ASSUME Readable(t)' + Allowed <= Readable(t) + Allowed'
      PROVE  (Readable(t) + ToCome(t) <= Allowed)'
  BY <1>1, <1>2, <1>3, <1>4, <1>5, <1>6 DEF Readable
<1>7. CASE ReplayAdd
  BY <1>6, <1>7, ReplayAddCounts
<1>8. CASE ReplayUnlink
  <2>1. EntryOf(t)' = EntryOf(t)
    BY <1>8 DEF ReplayUnlink, redis, EntryOf, Ids, Decodable
  <2>2. Cardinality(FilesOf(t)') <= Cardinality(FilesOf(t))
    BY <1>8, UnlinkCounts
  <2>. QED  BY <1>1, <1>2, <1>3, <1>6, <2>1, <2>2 DEF Readable
<1>9. CASE Crash \/ ReplayUnlinkFails
  <2>1. EntryOf(t)' = EntryOf(t) /\ UNCHANGED files /\ Allowed' = Allowed + 1
    BY <1>3, <1>9 DEF Crash, ReplayUnlinkFails, redis, stored, EntryOf, Ids, Decodable
  <2>2. FilesOf(t)' \subseteq FilesOf(t) \cup {1}
    <3>1. Unlinking \in {0, 1} /\ Unlinking' \in {0, 1} /\ Len(files) \in Nat
      BY DEF Unlinking, TypeOK, StoresOK
    <3>2. SUFFICES ASSUME NEW i \in FilesOf(t)', i # 1 PROVE i \in FilesOf(t)
      OBVIOUS
    <3>3. i \in 1..Len(files)
      BY <1>2, <2>1, <3>2
    <3>4. i \in (1 + Unlinking)..Len(files)
      BY <3>1, <3>2, <3>3
    <3>. QED  BY <2>1, <3>2, <3>4 DEF FilesOf, Decodable
  <2>3. /\ IsFiniteSet(FilesOf(t) \cup {1})
        /\ Cardinality(FilesOf(t) \cup {1}) <= Cardinality(FilesOf(t)) + 1
        /\ Cardinality(FilesOf(t) \cup {1}) \in Nat
    <3>1. /\ IsFiniteSet(FilesOf(t) \cup {1})
          /\ Cardinality(FilesOf(t) \cup {1})
                \in {Cardinality(FilesOf(t)), Cardinality(FilesOf(t)) + 1}
      BY <1>1, FS_AddElement
    <3>. QED  BY <1>1, <3>1, FS_CardinalityType
  <2>4. Cardinality(FilesOf(t)') <= Cardinality(FilesOf(t) \cup {1})
    BY <2>2, <2>3, FS_Subset
  <2>. QED  BY <1>1, <1>2, <1>3, <1>6, <2>1, <2>3, <2>4 DEF Readable
<1>10. ASSUME NEW u \in Turns, Add(u) PROVE (Readable(t) + ToCome(t) <= Allowed)'
  <2>1. FilesOf(t)' = FilesOf(t) /\ ~Ended(u) /\ task \in [Turns -> TaskStates]
    BY <1>10 DEF Add, stored, FilesOf, Unlinking, Decodable, Ended, TypeOK, ProcessOK
  <2>. DEFINE c == [turn |-> u, form |-> IF task[u] = "add" THEN "full" ELSE "truncated"]
  <2>2. c \in Copies /\ c.turn = u /\ Decodable(c)
    BY DEF Copies, Forms, Decodable
  <2>3. CASE UNCHANGED redis
    <3>1. EntryOf(t)' = EntryOf(t)
      BY <2>3 DEF redis, EntryOf, Ids, Decodable
    <3>. QED  BY <1>1, <1>2, <1>3, <1>6, <2>1, <3>1 DEF Readable
  <2>4. CASE XAdd(c) /\ (Spend("reply") \/ Goto(u, "done"))
    <3>1. Cardinality(EntryOf(t)') = Cardinality(EntryOf(t)) + (IF u = t THEN 1 ELSE 0)
      BY <2>2, <2>4, AddCounts
    <3>2. CASE u # t
      BY <1>1, <1>2, <1>3, <1>6, <2>1, <3>1, <3>2 DEF Readable
    <3>3. CASE u = t /\ Spend("reply")
      BY <1>1, <1>2, <1>3, <1>6, <2>1, <3>1, <3>3 DEF Readable
    <3>4. CASE u = t /\ Goto(u, "done")
      <4>1. ToCome(t) = 1 /\ ToCome(t)' = 0
        BY <2>1, <3>4 DEF ToCome, Ended, Goto
      <4>. QED  BY <1>1, <1>2, <1>3, <1>5, <2>1, <3>1, <3>4, <4>1 DEF Readable
    <3>. QED  BY <2>4, <3>2, <3>3, <3>4
  <2>. QED  BY <1>10, <2>3, <2>4 DEF Add, Answered
<1>11. ASSUME NEW u \in Turns, SpillToDisk(u) PROVE (Readable(t) + ToCome(t) <= Allowed)'
  <2>1. EntryOf(t)' = EntryOf(t) /\ ~Ended(u) /\ task \in [Turns -> TaskStates]
    BY <1>11 DEF SpillToDisk, redis, EntryOf, Ids, Decodable, Ended, TypeOK, ProcessOK
  <2>2. Cardinality(FilesOf(t)') <=
          Cardinality(FilesOf(t)) + (IF u = t /\ task' = [task EXCEPT ![u] = "done"]
                                     THEN 1 ELSE 0)
    BY <1>11, SpillCounts
  <2>3. CASE u = t /\ task' = [task EXCEPT ![u] = "done"]
    <3>1. ToCome(t) = 1 /\ ToCome(t)' = 0
      BY <2>1, <2>3 DEF ToCome, Ended
    <3>. QED  BY <1>1, <1>2, <1>3, <1>5, <2>1, <2>2, <2>3, <3>1 DEF Readable
  <2>4. CASE ~(u = t /\ task' = [task EXCEPT ![u] = "done"])
    BY <1>1, <1>2, <1>3, <1>6, <2>1, <2>2, <2>4 DEF Readable
  <2>. QED  BY <2>3, <2>4
<1>12. ASSUME UNCHANGED <<log, files, Unlinking>> PROVE (Readable(t) + ToCome(t) <= Allowed)'
  <2>1. EntryOf(t)' = EntryOf(t) /\ FilesOf(t)' = FilesOf(t)
    BY <1>12 DEF EntryOf, Ids, FilesOf, Decodable
  <2>. QED  BY <1>1, <1>2, <1>3, <1>6, <2>1 DEF Readable
<1>. QED  BY <1>7, <1>8, <1>9, <1>10, <1>11, <1>12, OthersKeepCounts

\* A turn gets a second readable copy only through a lost reply, a crash between XADD
\* and unlink, or an unlink that failed, one for each.
THEOREM OneCopyEach == Spec => []DuplicatesNeedAFault
<1>1. Init => CountInv
  <2>1. ASSUME Init, NEW t \in Turns PROVE Readable(t) + ToCome(t) <= Allowed
    <3>1. EntryOf(t) = {} /\ FilesOf(t) = {} /\ Allowed = 1
      BY <2>1 DEF Init, EntryOf, Ids, FilesOf, NoReplay, Unlinking, Allowed, Faults
    <3>2. Cardinality(EntryOf(t)) = 0 /\ Cardinality(FilesOf(t)) = 0
      BY <3>1, FS_EmptySet
    <3>. QED  BY <3>1, <3>2 DEF Readable, ToCome
  <2>. QED  BY <2>1, TypeInit, AloneInit DEF CountInv
<1>2. CountInv /\ [Next]_vars => CountInv'
  <2>. SUFFICES ASSUME CountInv, [Next]_vars PROVE CountInv'
    OBVIOUS
  <2>1. TypeOK' /\ ReplayIsAlone'
    BY RedisType, FilesType, HubType, ProcessType, JobType, FlushType, SpentType, AloneStep
    DEF CountInv, TypeOK, StoresOK
  <2>. QED  BY <2>1, CountStep DEF CountInv
<1>3. CountInv => DuplicatesNeedAFault
  <2>. SUFFICES ASSUME CountInv, NEW t \in Turns PROVE Readable(t) <= Allowed
    BY DEF DuplicatesNeedAFault, Readable, FilesOf, Allowed
  <2>1. /\ Cardinality(EntryOf(t)) \in Nat /\ Cardinality(FilesOf(t)) \in Nat
        /\ ToCome(t) \in {0, 1} /\ Allowed \in Nat
    BY CountsAreFinite DEF CountInv, TypeOK, Faults, Allowed, ToCome
  <2>. QED  BY <2>1 DEF CountInv, Readable
<1>. QED  BY <1>1, <1>2, <1>3, PTL DEF Spec

-----------------------------------------------------------------------------
(* The refinement. *)

InHub(t) == EntryOf(t) \cap hub # {}
Copied(t) == FileCopy(t) \/ Kept(t)

\* An entry that is not in the stream any more is in the Hub.
DroppedAreStored == Ids \ present \subseteq hub

\* The task that runs a replay waits for its end.
ReplayerWaits == replay.by \in Turns => task[replay.by] = "replaying"

RefInv == TurnInv /\ DroppedAreStored /\ ReplayerWaits

LEMMA RefInit == Init => RefInv
BY TurnInit, PipelineAssumption
DEF RefInv, DroppedAreStored, ReplayerWaits, Ids, Init, NoReplay, PipelineAssumption

\* How a step can change who awaits the replay, and that task.
ReplayMove ==
    \/ replay' = NoReplay \/ replay'.by = "startup"
    \/ \E t \in Turns : replay'.by = t /\ Goto(t, "replaying")
    \/ /\ replay'.by = replay.by
       /\ \/ UNCHANGED task
          \/ \E t \in Turns, s \in TaskStates : task[t] # "replaying" /\ Goto(t, s)

LEMMA ReplayMoves ==
  ASSUME TypeOK, [Next]_vars
  PROVE  ReplayMove
<1>1. ASSUME NEW t \in Turns, Enqueue(t) PROVE ReplayMove
  <2>1. CASE RecoverOk(t)
    <3>1. replay'.by = t
      BY <2>1 DEF RecoverOk
    <3>. QED  BY <2>1, <3>1 DEF RecoverOk, ReplayMove
  <2>2. CASE ~RecoverOk(t)
    <3>1. UNCHANGED replay
      BY <1>1, <2>2 DEF Enqueue, Begin, RecoverFail, CheckBacklog, RecheckBacklog, Add, SpillToDisk
    <3>2. task[t] # "replaying" /\ \E s \in TaskStates : Goto(t, s)
      BY <1>1, <2>2 DEF Enqueue, Begin, RecoverFail, CheckBacklog, RecheckBacklog, Add,
         SpillToDisk, TaskStates
    <3>. QED  BY <3>1, <3>2 DEF ReplayMove
  <2>. QED  BY <2>1, <2>2
<1>2. CASE Replay
  <2>1. CASE ReplayDone
    BY <2>1 DEF ReplayDone, ReplayMove
  <2>2. CASE ReplayAdd \/ ReplayUnlink \/ ReplayUnlinkFails
    <3>1. replay'.by = replay.by /\ UNCHANGED task
      BY <2>2 DEF ReplayAdd, ReplayUnlink, ReplayUnlinkFails, TypeOK, ReplayOK
    <3>. QED  BY <3>1 DEF ReplayMove
  <2>. QED  BY <1>2, <2>1, <2>2 DEF Replay
<1>3. CASE Restart
  <2>1. replay'.by = "startup" \/ UNCHANGED <<replay, task>>
    BY <1>3 DEF Restart
  <2>. QED  BY <2>1 DEF ReplayMove
<1>4. CASE Crash
  BY <1>4 DEF Crash, ReplayMove
<1>5. CASE UNCHANGED <<task, replay>>
  BY <1>5 DEF ReplayMove
<1>6. \/ \E t \in Turns : Enqueue(t)
      \/ Replay \/ Restart \/ Crash \/ UNCHANGED <<task, replay>>
  BY DEF Next, vars, ProcessOne, Put, Ack, Del, Worker, WorkerLoop, WorkerReclaim, WorkerRead,
     WorkerBatchDone, Flush, FlushStart, FlushAbort, FlushDeliver, FlushPending, FlushInfo,
     FlushIds, FlushScan, FlushCheck, FlushAck, FlushDel, Stop, Exit, RedisDown, RedisUp, Tick,
     Cooldown
<1>. QED  BY <1>1, <1>2, <1>3, <1>4, <1>5, <1>6

LEMMA RefStep ==
  ASSUME RefInv, [Next]_vars
  PROVE  RefInv'
<1>. USE DEF RefInv
<1>1. TurnInv'
  BY TurnStep
<1>2. ASSUME NEW e \in Ids', e \notin present' PROVE e \in hub'
  <2>1. CASE e \in Ids
    <3>1. e \in present => e \in hub
      BY <1>2, Removals DEF TurnInv, PipelineInv
    <3>2. e \in hub
      BY <2>1, <3>1 DEF DroppedAreStored
    <3>. QED  BY <3>2, HubType DEF TurnInv, PipelineInv
  <2>2. CASE e \notin Ids
    <3>1. ASSUME NEW c \in Copies, XAdd(c) PROVE FALSE
      <4>1. Ids' = Ids \cup {Len(log) + 1} /\ Len(log) + 1 \in present'
        BY <3>1 DEF XAdd, Ids, TurnInv, PipelineInv, TypeOK, RedisOK
      <4>. QED  BY <1>2, <2>2, <4>1
    <3>2. ~UNCHANGED log
      BY <1>2, <2>2 DEF Ids
    <3>. QED
      BY <3>1, <3>2, Commands DEF Command, redis, XReadGroup, XAutoClaim, XAck, XDel, TurnInv, PipelineInv
  <2>. QED  BY <2>1, <2>2
<1>3. ReplayerWaits'
  BY ReplayMoves, PipelineAssumption
  DEF ReplayMove, ReplayerWaits, Goto, NoReplay, PipelineAssumption, TurnInv, PipelineInv,
      TypeOK, ProcessOK
<1>. QED  BY <1>1, <1>2, <1>3 DEF DroppedAreStored

-----------------------------------------------------------------------------
(* What a step does to the copies of a turn. *)

\* A readable entry that has an id already was kept all along.
LEMMA OldEntries ==
  ASSUME RefInv, [Next]_vars, NEW t \in Turns, NEW e \in EntryOf(t)', e \in Ids
  PROVE  e \in EntryOf(t) /\ Kept(t)
<1>1. e \in EntryOf(t)
  BY LogGrows DEF RefInv, TurnInv, PipelineInv, EntryOf, Decodable
<1>2. e \in present \cup hub
  BY DEF RefInv, DroppedAreStored
<1>. QED  BY <1>1, <1>2 DEF Kept

\* What the Hub has it keeps, and it takes only entries that were there.
LEMMA HubCopies ==
  ASSUME RefInv, [Next]_vars, NEW t \in Turns
  PROVE  /\ InHub(t) => InHub(t)'
         /\ InHub(t)' => Copied(t)
         /\ UNCHANGED hub => InHub(t)' = InHub(t)
<1>. USE DEF RefInv, TurnInv, PipelineInv
<1>1. InHub(t) => InHub(t)'
  BY LogGrows, HubType DEF InHub, EntryOf, Decodable
<1>2. hub' \subseteq Ids
  <2>1. UNCHANGED hub \/ \E a \in Actors : Put(a)
    BY DEF Next, vars, stored, Enqueue, Begin, RecoverOk, RecoverFail, CheckBacklog,
       RecheckBacklog, Add, SpillToDisk, Replay, ReplayAdd, ReplayUnlink, ReplayUnlinkFails, ReplayDone, ProcessOne,
       Ack, Del, Worker, WorkerLoop, WorkerReclaim, WorkerRead, WorkerBatchDone, Flush, FlushStart,
       FlushAbort, FlushDeliver, FlushPending, FlushInfo, FlushIds, FlushScan, FlushCheck,
       FlushAck, FlushDel, Restart, Crash, Stop, Exit, RedisDown, RedisUp, Tick, Cooldown
  <2>. QED  BY <2>1 DEF Put, At, Firsts, TypeOK, JobOK, StoresOK
<1>3. ASSUME InHub(t)' PROVE Copied(t) /\ (UNCHANGED hub => InHub(t))
  <2>1. PICK e \in EntryOf(t)' : e \in hub'
    BY <1>3 DEF InHub
  <2>2. e \in EntryOf(t) /\ Kept(t)
    BY <1>2, <2>1, OldEntries
  <2>. QED  BY <2>1, <2>2 DEF InHub, Copied
<1>4. InHub(t) \in BOOLEAN /\ InHub(t)' \in BOOLEAN
  BY DEF InHub
<1>. QED  BY <1>1, <1>3, <1>4

\* Only the turn's own task makes its first copy.
LEMMA FirstCopy ==
  ASSUME RefInv, [Next]_vars, NEW t \in Turns, Copied(t)'
  PROVE  Copied(t) \/ Add(t) \/ SpillToDisk(t)
<1>. USE DEF RefInv, TurnInv, PipelineInv
<1>0. files \in Seq(Copies) /\ log \in Seq(Copies) /\ Len(log) \in Nat
  BY DEF TypeOK, StoresOK, RedisOK
<1>1. ASSUME Kept(t)', ~Copied(t) PROVE Add(t)
  <2>1. PICK e \in EntryOf(t)' : TRUE
    BY <1>1 DEF Kept
  <2>2. e \notin Ids
    BY <1>1, <2>1, OldEntries DEF Copied
  <2>3. ~UNCHANGED log
    BY <2>1, <2>2 DEF EntryOf, Ids
  <2>4. \E u \in Turns : Add(u) \/ ReplayAdd
    BY <2>3 DEF Next, vars, redis, Enqueue, Begin, RecoverOk, RecoverFail, CheckBacklog,
       RecheckBacklog, SpillToDisk, Replay, ReplayUnlink, ReplayUnlinkFails, ReplayDone, ProcessOne, Put, Ack, Del,
       Worker, WorkerLoop, WorkerReclaim, WorkerRead, WorkerBatchDone, Flush, FlushStart,
       FlushAbort, FlushDeliver, FlushPending, FlushInfo, FlushIds, FlushScan, FlushCheck,
       FlushAck, FlushDel, Restart, Crash, Stop, Exit, RedisDown, RedisUp, Tick, Cooldown,
       XReadGroup, XAutoClaim, XAck, XDel
  <2>5. ASSUME NEW c \in Copies, XAdd(c) PROVE c.turn = t /\ Decodable(c)
    <3>1. e = Len(log) + 1
      BY <1>0, <2>1, <2>2, <2>5 DEF XAdd, EntryOf, Ids
    <3>2. log'[e] = c
      BY <1>0, <2>5, <3>1 DEF XAdd
    <3>. QED  BY <2>1, <3>2 DEF EntryOf, Decodable
  <2>6. ASSUME NEW u \in Turns, Add(u) PROVE u = t
    <3>. DEFINE c == [turn |-> u, form |-> IF task[u] = "add" THEN "full" ELSE "truncated"]
    <3>1. XAdd(c)
      BY <2>3, <2>6 DEF Add, redis
    <3>2. c \in Copies /\ c.turn = u
      BY DEF Copies, Forms
    <3>. QED  BY <2>5, <3>1, <3>2
  <2>7. ASSUME ReplayAdd PROVE FALSE
    <3>1. files # <<>>
      BY <2>7 DEF ReplayAdd, TypeOK, ReplayOK
    <3>2. Head(files) \in Copies /\ Head(files) = files[1] /\ 1 \in 1..Len(files)
      BY <1>0, <3>1
    <3>3. XAdd(Head(files))
      BY <2>3, <2>7 DEF ReplayAdd, redis
    <3>4. FileCopy(t)
      BY <2>5, <3>2, <3>3 DEF FileCopy
    <3>. QED  BY <1>1, <3>4 DEF Copied
  <2>. QED  BY <2>4, <2>6, <2>7
<1>2. ASSUME FileCopy(t)', ~Copied(t) PROVE SpillToDisk(t)
  <2>1. PICK i \in 1..Len(files') : files'[i].turn = t /\ Decodable(files'[i])
    BY <1>2 DEF FileCopy, Decodable
  <2>2. ~UNCHANGED files
    BY <1>2, <2>1 DEF FileCopy, Copied
  <2>3. ASSUME ReplayUnlink PROVE FALSE
    <3>1. files # <<>> /\ files' = Tail(files)
      BY <2>3 DEF ReplayUnlink, TypeOK, ReplayOK
    <3>2. i + 1 \in 1..Len(files) /\ files[i + 1] = files'[i]
      BY <1>0, <2>1, <3>1
    <3>. QED  BY <1>2, <2>1, <3>2 DEF FileCopy, Copied
  <2>4. ASSUME NEW u \in Turns, SpillToDisk(u) PROVE u = t
    <3>1. \A j \in 1..Len(files) : files'[j] = files[j]
      BY <2>4, SpillKeepsFiles
    <3>2. i \notin 1..Len(files)
      BY <1>2, <2>1, <3>1 DEF FileCopy, Copied
    <3>3. \A j \in 1..Len(files') : j \notin 1..Len(files) => files'[j].turn = u
      BY <2>4, SpillAppends
    <3>. QED  BY <2>1, <3>2, <3>3
  <2>. QED  BY <2>2, <2>3, <2>4, FileChange
<1>. QED  BY <1>1, <1>2 DEF Copied

-----------------------------------------------------------------------------
(* What a step does to the fate of a turn. *)

LEMMA FateCases ==
  ASSUME NEW t \in Turns
  PROVE  /\ Fate(t) = IF InHub(t) THEN "stored" ELSE IF Copied(t) THEN "durable"
                      ELSE IF task[t] = "lost" THEN "lost" ELSE "offered"
         /\ Fate(t)' = IF InHub(t)' THEN "stored" ELSE IF Copied(t)' THEN "durable"
                       ELSE IF task'[t] = "lost" THEN "lost" ELSE "offered"
BY DEF Fate, InHub, Copied, Kept

LEMMA CopiedStays ==
  ASSUME RefInv, [Next]_vars, NEW t \in Turns, Copied(t)
  PROVE  Copied(t)'
BY KeptStays, FileCopyStays DEF RefInv, TurnInv, Copied

\* A turn's task makes its own copy and no other, and moves on.
MakesCopy(t) == Add(t) \/ SpillToDisk(t)

LEMMA CopyMoves ==
  ASSUME TypeOK, NEW t \in Turns, MakesCopy(t)
  PROVE  /\ task[t] \in {"add", "addTruncated", "spill", "fallback"}
         /\ task'[t] \in {"spill", "fallback", "done", "lost"} /\ task'[t] # task[t]
         /\ \A u \in Turns \ {t} : task'[u] = task[u]
         /\ UNCHANGED hub
BY DEF MakesCopy, Add, SpillToDisk, Goto, TypeOK, ProcessOK, stored

\* Any other step ends no task, and only a crash gives one up.
LEMMA OtherTasks ==
  ASSUME RefInv, [Next]_vars, \A u \in Turns : ~MakesCopy(u), ~Crash, NEW t \in Turns
  PROVE  (task'[t] = "done" <=> task[t] = "done") /\ (task'[t] = "lost" <=> task[t] = "lost")
<1>. USE DEF RefInv, TurnInv, PipelineInv, TypeOK, ProcessOK
<1>1. \/ UNCHANGED task
      \/ \E u \in Turns, s \in TaskStates \ {"done", "lost"} :
             Goto(u, s) /\ task[u] \notin {"done", "lost"}
      \/ ReplayDone
  BY DEF MakesCopy, Next, vars, Enqueue, Begin, RecoverOk, RecoverFail, CheckBacklog,
     RecheckBacklog, Replay, ReplayAdd, ReplayUnlink, ReplayUnlinkFails, ProcessOne, Put, Ack, Del, Worker,
     WorkerLoop, WorkerReclaim, WorkerRead, WorkerBatchDone, Flush, FlushStart, FlushAbort,
     FlushDeliver, FlushPending, FlushInfo, FlushIds, FlushScan, FlushCheck, FlushAck, FlushDel,
     Restart, Crash, Stop, Exit, RedisDown, RedisUp, Tick, Cooldown, TaskStates
<1>2. ASSUME ReplayDone
      PROVE  UNCHANGED task \/ \E u \in Turns : task[u] = "replaying" /\ Goto(u, "check")
  BY <1>2 DEF ReplayDone, ReplayerWaits, ReplayOK
<1>3. ASSUME NEW u \in Turns, NEW s \in TaskStates \ {"done", "lost"}, Goto(u, s),
             task[u] \notin {"done", "lost"}
      PROVE  (task'[t] = "done" <=> task[t] = "done") /\ (task'[t] = "lost" <=> task[t] = "lost")
  BY <1>3 DEF Goto
<1>4. "check" \in TaskStates \ {"done", "lost"}
  BY DEF TaskStates
<1>. QED  BY <1>1, <1>2, <1>3, <1>4

-----------------------------------------------------------------------------
(* Every step of the pipeline is one of DurableTurns, or none. *)

fate == [t \in Turns |-> Fate(t)]
returned == {t \in Turns : task[t] = "done"}

\* A task that adds or spills persists its turn, returns, or loses it.
LEMMA CopyStep ==
  ASSUME RefInv, [Next]_vars, NEW u \in Turns, MakesCopy(u)
  PROVE  Promise!DurableNext \/ UNCHANGED <<fate, returned>>
<1>. USE DEF RefInv, TurnInv, PipelineInv
<1>1. ASSUME NEW t \in Turns, t # u PROVE Fate(t)' = Fate(t) /\ task'[t] = task[t]
  <2>1. task'[t] = task[t] /\ UNCHANGED hub /\ ~MakesCopy(t)
    BY <1>1, CopyMoves
  <2>2. InHub(t)' = InHub(t)
    BY <2>1, HubCopies
  <2>3. Copied(t)' <=> Copied(t)
    BY <2>1, FirstCopy, CopiedStays DEF MakesCopy
  <2>. QED  BY <2>1, <2>2, <2>3, FateCases
<1>2. /\ task[u] \notin {"done", "lost"}
      /\ InHub(u)' = InHub(u) /\ (Copied(u) => Copied(u)') /\ (InHub(u) => Copied(u))
      /\ task'[u] = "done" => Copied(u)'
  <2>1. task'[u] = "done" => Copied(u)'
    BY CopyMoves, DoneIsKept DEF Copied
  <2>. QED  BY <2>1, CopyMoves, HubCopies, CopiedStays
<1>3. fate' = [t \in Turns |-> IF t = u THEN Fate(u)' ELSE Fate(t)]
  BY <1>1 DEF fate
<1>4. returned' = IF task'[u] = "done" THEN returned \cup {u} ELSE returned
  BY <1>1, <1>2 DEF returned
<1>5. u \notin returned
  BY <1>2 DEF returned
<1>6. CASE Fate(u) = "offered" /\ Fate(u)' = "durable"
  <2>1. Promise!Persist(u)
    BY <1>3, <1>4, <1>6 DEF Promise!Persist, fate, returned
  <2>. QED  BY <2>1 DEF Promise!DurableNext
<1>7. CASE Fate(u) = "offered" /\ Fate(u)' = "lost" /\ task'[u] # "done"
  <2>1. Promise!Lose({u})
    BY <1>3, <1>4, <1>5, <1>7 DEF Promise!Lose, fate, returned
  <2>. QED  BY <2>1 DEF Promise!DurableNext
<1>8. CASE Fate(u)' = Fate(u) /\ task'[u] = "done" /\ Fate(u) \in {"durable", "stored"}
  <2>1. Promise!Return(u)
    BY <1>3, <1>4, <1>8 DEF Promise!Return, fate, returned
  <2>. QED  BY <2>1 DEF Promise!DurableNext
<1>9. CASE Fate(u)' = Fate(u) /\ task'[u] # "done"
  <2>1. UNCHANGED <<fate, returned>>
    BY <1>3, <1>4, <1>9 DEF fate, returned
  <2>. QED  BY <2>1
<1>10. \/ Fate(u) = "offered" /\ Fate(u)' = "durable"
       \/ Fate(u) = "offered" /\ Fate(u)' = "lost" /\ task'[u] # "done"
       \/ Fate(u)' = Fate(u) /\ task'[u] = "done" /\ Fate(u) \in {"durable", "stored"}
       \/ Fate(u)' = Fate(u) /\ task'[u] # "done"
  <2>1. InHub(u) \in BOOLEAN /\ InHub(u)' \in BOOLEAN
    BY DEF InHub
  <2>. QED  BY <1>2, <2>1, FateCases
<1>. QED  BY <1>6, <1>7, <1>8, <1>9, <1>10

\* A write to the Hub stores at most one turn.
LEMMA PutStep ==
  ASSUME RefInv, [Next]_vars, NEW a \in Actors, Put(a)
  PROVE  Promise!DurableNext \/ UNCHANGED <<fate, returned>>
<1>. USE DEF RefInv, TurnInv, PipelineInv
<1>1. UNCHANGED <<task, log, files>>
  BY DEF Put, redis
<1>2. PICK e \in Ids : hub' = hub \/ hub' = hub \cup {e}
  BY DEF Put, At, Firsts, TypeOK, JobOK
<1>3. ASSUME NEW t \in Turns, t # log[e].turn PROVE Fate(t)' = Fate(t)
  <2>1. InHub(t)' <=> InHub(t)
    BY <1>1, <1>2, <1>3 DEF InHub, EntryOf, Ids, Decodable
  <2>2. Copied(t)' <=> Copied(t)
    BY <1>1, CopiedStays, FirstCopy DEF Add, SpillToDisk, Goto, TypeOK, ProcessOK
  <2>. QED  BY <1>1, <2>1, <2>2, FateCases
<1>4. returned' = returned
  BY <1>1 DEF returned
<1>5. PICK u \in Turns : u = log[e].turn
  <2>1. log[e] \in Copies
    BY DEF TypeOK, RedisOK, Ids
  <2>. QED  BY <2>1 DEF Copies
<1>6. fate' = [t \in Turns |-> IF t = u THEN Fate(u)' ELSE Fate(t)]
  BY <1>3, <1>5 DEF fate
<1>7. Fate(u)' = Fate(u) \/ (Fate(u) = "durable" /\ Fate(u)' = "stored")
  <2>1. Copied(u)' <=> Copied(u)
    BY <1>1, CopiedStays, FirstCopy DEF Add, SpillToDisk, Goto, TypeOK, ProcessOK
  <2>. QED  BY <1>1, <2>1, HubCopies, FateCases
<1>8. CASE Fate(u)' = Fate(u)
  BY <1>4, <1>6, <1>8 DEF fate
<1>9. CASE Fate(u) = "durable" /\ Fate(u)' = "stored"
  <2>1. Promise!Store(u)
    BY <1>4, <1>6, <1>9 DEF Promise!Store, fate, returned
  <2>. QED  BY <2>1 DEF Promise!DurableNext
<1>. QED  BY <1>7, <1>8, <1>9

\* A crash loses the turns whose tasks had made no copy yet.
LEMMA CrashStep ==
  ASSUME RefInv, [Next]_vars, Crash
  PROVE  Promise!DurableNext
<1>. USE DEF RefInv, TurnInv, PipelineInv
<1>. DEFINE S == {t \in Turns : Fate(t) = "offered" /\ InFlight(t)}
<1>1. /\ UNCHANGED <<hub, log, present, files>>
      /\ task' = [t \in Turns |-> IF InFlight(t) THEN "lost" ELSE task[t]]
  BY DEF Crash, redis, stored
<1>2. returned' = returned
  BY <1>1 DEF returned, InFlight, TypeOK, ProcessOK
<1>3. ASSUME NEW t \in Turns
      PROVE  Fate(t)' = IF t \in S THEN "lost" ELSE Fate(t)
  <2>1. (InHub(t)' <=> InHub(t)) /\ (Copied(t)' <=> Copied(t))
    BY <1>1 DEF InHub, Copied, Kept, FileCopy, EntryOf, Ids, Decodable
  <2>. QED  BY <1>1, <2>1, FateCases DEF InFlight
<1>4. \A t \in S : t \in Turns /\ Fate(t) = "offered" /\ t \notin returned
  BY DEF returned, InFlight
<1>5. fate' = [t \in Turns |-> IF t \in S THEN "lost" ELSE Fate(t)]
  BY <1>3 DEF fate
<1>6. S \in SUBSET Turns
  OBVIOUS
<1>. HIDE DEF S
<1>7. Promise!Lose(S)
  BY <1>2, <1>4, <1>5 DEF Promise!Lose, fate, returned
<1>. QED  BY <1>6, <1>7 DEF Promise!DurableNext

\* No other step changes a fate.
LEMMA OtherStep ==
  ASSUME RefInv, [Next]_vars, \A u \in Turns : ~MakesCopy(u), ~Crash, \A a \in Actors : ~Put(a)
  PROVE  UNCHANGED <<fate, returned>>
<1>1. UNCHANGED hub
  BY DEF MakesCopy, Next, vars, stored, Enqueue, Begin, RecoverOk, RecoverFail, CheckBacklog,
     RecheckBacklog, Replay, ReplayAdd, ReplayUnlink, ReplayUnlinkFails, ReplayDone, ProcessOne, Ack, Del,
     Worker, WorkerLoop, WorkerReclaim, WorkerRead, WorkerBatchDone, Flush, FlushStart, FlushAbort,
     FlushDeliver, FlushPending, FlushInfo, FlushIds, FlushScan, FlushCheck, FlushAck, FlushDel,
     Restart, Crash, Stop, Exit, RedisDown, RedisUp, Tick, Cooldown
<1>2. ASSUME NEW t \in Turns PROVE Fate(t)' = Fate(t) /\ (task'[t] = "done" <=> task[t] = "done")
  <2>1. InHub(t)' = InHub(t) /\ (Copied(t)' <=> Copied(t))
    BY <1>1, HubCopies, CopiedStays, FirstCopy DEF MakesCopy
  <2>. QED  BY <2>1, OtherTasks, FateCases
<1>. QED  BY <1>2 DEF fate, returned

\* The pipeline keeps the promise of DurableTurns: what was returned for stays
\* durable until it is stored, what is stored stays, and only what nothing was
\* returned for can be lost.
THEOREM Implementation == Spec => KeepsPromise
<1>1. Init => Promise!DurableInit
  <2>. SUFFICES ASSUME Init PROVE Promise!DurableInit
    OBVIOUS
  <2>1. ASSUME NEW t \in Turns PROVE Fate(t) = "offered" /\ task[t] # "done"
    BY DEF Init, Fate, EntryOf, FileCopy, Ids
  <2>. QED  BY <2>1 DEF Promise!DurableInit
<1>2. RefInv /\ [Next]_vars => RefInv'
  BY RefStep
<1>3. RefInv /\ [Next]_vars => [Promise!DurableNext]_<<fate, returned>>
  BY CopyStep, PutStep, CrashStep, OtherStep
<1>4. [Promise!DurableNext]_<<fate, returned>> =>
         [Promise!DurableNext]_<<[t \in Turns |-> Fate(t)], {t \in Turns : task[t] = "done"}>>
  BY DEF fate, returned
<1>. QED  BY RefInit, <1>1, <1>2, <1>3, <1>4, PTL DEF Spec, KeepsPromise, Promise!DurableSpec
=============================================================================
