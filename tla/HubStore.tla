------------------------------ MODULE HubStore ------------------------------
(***************************************************************************)
(* The Memory Hub as the proxy's threads share it (storage/memory_hub.py). *)
(*                                                                         *)
(*   executor threads:  put(turn)        recent_turns / count              *)
(*   event loop:        append_tombstone, recent_turns                     *)
(*                                                                         *)
(* RocksDB holds bodies of messages, turns that refer to them, and         *)
(* tombstones.  The process keeps four things derived from it: the set of  *)
(* tombstoned keys, the index of recent turns, and per session the last    *)
(* few prefixes that put compares a new turn with.  A step of the model is *)
(* one call of RocksDB or one touch of what the threads share; the         *)
(* interpreter may switch threads between any two.                         *)
(*                                                                         *)
(* A prefix hash is the sequence of messages itself (hashes do not         *)
(* collide).  Turns are numbered in the order of their keys.               *)
(*                                                                         *)
(* A definition named Bug... is a broken variant of the one after it: the  *)
(* mutation runs put it in its place and expect a property to fail.        *)
(***************************************************************************)
EXTENDS Naturals, Sequences, FiniteSets, SequencesExt

CONSTANTS
    Turns,      \* the turns, numbered in key order
    Msgs,       \* Msgs[t]: the contents of t's request messages
    Session,    \* Session[t]: its session_prefix
    SelfMade,   \* the turns of the inner loop (aux_source)
    Slots,      \* BLADEX_PREFIX_SLOTS
    Putters,    \* executor threads that put: the worker's and the flush's
    Readers,    \* threads that read: the loop and the executor's
    Loop,       \* those of them on the event loop, as append_tombstone is
    MaxPuts,    \* bound on the puts, redeliveries included
    MaxReads,   \* bound on the reads
    MaxDeletes, \* bound on the deletions
    MaxCrashes, \* bound on the restarts
    MaxOps      \* bound on all four together

ASSUME HubAssumption ==
    /\ IsFiniteSet(Turns) /\ Turns = 1 .. Cardinality(Turns)
    /\ SelfMade \subseteq Turns /\ Loop \subseteq Readers
    /\ Slots \in Nat \ {0}
    /\ {MaxPuts, MaxReads, MaxDeletes, MaxCrashes, MaxOps} \subseteq Nat
    /\ DOMAIN Msgs = Turns /\ DOMAIN Session = Turns
    /\ \A t \in Turns : Msgs[t] \in Seq(UNION {Range(Msgs[u]) : u \in Turns})

VARIABLES
    \* RocksDB: survives the process.
    bodies,   \* __msg__/: the contents stored
    store,    \* turn keys: which messages are references, prefix_changed
    tombs,    \* tombstone/: the turns under one
    \* The process.
    cache,    \* _tombstone_cache
    recent,   \* _RecentTurnIndex: state, keys, pending
    slots,    \* _session_last
    put,      \* the puts in progress, by thread
    read,     \* the reads in progress, by thread
    deleting, \* the turn append_tombstone has written and not yet uncached
    \* History.
    finished, \* the turns a put of which has returned
    deleted,  \* the turns whose deletion has returned
    raced,    \* tombstones written while some thread was filling the cache
    shaken,   \* sessions in which two threads remembered at once
    spent

disk == <<bodies, store, tombs>>
history == <<finished, deleted, raced, shaken>>
vars == <<disk, cache, recent, slots, put, read, deleting, history, spent>>

Contents == UNION {Range(Msgs[t]) : t \in Turns}
Sessions == {Session[t] : t \in Turns}
NoTurn == 0
NoCache == {NoTurn}   \* None: no set of turns
Idle == [pc |-> "idle", turn |-> NoTurn, refs |-> {}, at |-> 0, seen |-> <<>>, changed |-> FALSE]
Resting == [pc |-> "idle", snap |-> {}, known |-> {}, gone |-> {}, answer |-> {}]
Unbuilt == [state |-> "none", keys |-> {}, pending |-> {}]

Stored == DOMAIN store
Affordable == spent.puts + spent.reads + spent.deletes + spent.crashes < MaxOps
Filling == {r \in Readers : read[r].pc = "assign"}

-----------------------------------------------------------------------------
(* The candidates of a session: an LRU queue of at most Slots prefixes.    *)

LastSlots(q) == IF Len(q) > Slots THEN Tail(q) ELSE q

\* slots.remove: the first entry that is p.
Without(q, p) ==
    IF p \in Range(q)
    THEN RemoveAt(q, CHOOSE i \in DOMAIN q : q[i] = p /\ \A j \in 1 .. i - 1 : q[j] # p)
    ELSE q

\* _prefix_changed_against_slots: no candidate is a prefix of the messages.
Against(q, msgs) == q # <<>> /\ \A i \in DOMAIN q : ~IsPrefix(q[i], msgs)

\* _remember_prefix, when no other thread is in it.
Remember(q, p) == LastSlots(Append(Without(q, p), p))

BugRecover(s, on) ==
    LET queue[t \in 0 .. Cardinality(Turns)] ==
            IF t = 0 THEN <<>>
            ELSE IF t \in DOMAIN on /\ Session[t] = s
                 THEN Remember(queue[t - 1], Msgs[t]) ELSE queue[t - 1]
    IN  queue[Cardinality(Turns)]

\* _recover_session_cache: the turns of the session in key order.
Recover(s, on) ==
    LET queue[t \in 0 .. Cardinality(Turns)] ==
            IF t = 0 THEN <<>>
            ELSE IF t \in DOMAIN on /\ Session[t] = s /\ t \notin SelfMade
                 THEN Remember(queue[t - 1], Msgs[t]) ELSE queue[t - 1]
    IN  queue[Cardinality(Turns)]

\* What different prefixes the stored turns of a session have.
Flows(s) == {Msgs[t] : t \in {u \in Stored : Session[u] = s /\ u \notin SelfMade}}

-----------------------------------------------------------------------------
(* put, on an executor thread.  at is the message deduplicated next.       *)

After(at, t) == IF at > Len(Msgs[t]) THEN "detect" ELSE "dedup"

Begin(th, t) ==
    /\ spent.puts < MaxPuts /\ Affordable
    /\ put[th].pc = "idle"
    /\ put' = [put EXCEPT ![th] = [Idle EXCEPT !.pc = After(1, t), !.turn = t, !.at = 1]]
    /\ spent' = [spent EXCEPT !.puts = @ + 1]
    /\ UNCHANGED <<disk, cache, recent, slots, read, deleting, history>>

BugCheckBody(th) ==
    LET p == put[th]  t == p.turn IN
    /\ p.pc = "dedup"
    /\ put' = [put EXCEPT ![th] = [p EXCEPT !.refs = @ \cup {p.at}, !.at = @ + 1,
                                            !.pc = After(p.at + 1, t)]]
    /\ UNCHANGED <<disk, cache, recent, slots, read, deleting, history, spent>>

\* _dedup_messages asks whether the body is there: if so it keeps a reference.
CheckBody(th) ==
    LET p == put[th]  t == p.turn IN
    /\ p.pc = "dedup"
    /\ put' = [put EXCEPT ![th] =
                IF Msgs[t][p.at] \in bodies
                THEN [p EXCEPT !.refs = @ \cup {p.at}, !.at = @ + 1, !.pc = After(p.at + 1, t)]
                ELSE [p EXCEPT !.pc = "body"]]
    /\ UNCHANGED <<disk, cache, recent, slots, read, deleting, history, spent>>

\* Otherwise it stores the body and the turn keeps the content inline.
StoreBody(th) ==
    LET p == put[th]  t == p.turn IN
    /\ p.pc = "body"
    /\ bodies' = bodies \cup {Msgs[t][p.at]}
    /\ put' = [put EXCEPT ![th] = [p EXCEPT !.at = @ + 1, !.pc = After(p.at + 1, t)]]
    /\ UNCHANGED <<store, tombs, cache, recent, slots, read, deleting, history, spent>>

\* _detect_prefix_change begins to iterate over the candidates.
Detect(th) ==
    LET p == put[th]  t == p.turn IN
    /\ p.pc = "detect"
    /\ put' = [put EXCEPT ![th] =
                IF t \in SelfMade \/ slots[Session[t]] = <<>> THEN [p EXCEPT !.pc = "write"]
                ELSE [p EXCEPT !.pc = "detected", !.seen = slots[Session[t]]]]
    /\ UNCHANGED <<disk, cache, recent, slots, read, deleting, history, spent>>

Detected(th) ==
    LET p == put[th] IN
    /\ p.pc = "detected"
    /\ put' = [put EXCEPT ![th] = [p EXCEPT !.changed = Against(p.seen, Msgs[p.turn]),
                                            !.seen = <<>>, !.pc = "write"]]
    /\ UNCHANGED <<disk, cache, recent, slots, read, deleting, history, spent>>

\* "deque mutated during iteration": another thread remembered meanwhile.
\* put raises; the entry is not acknowledged and comes back.
MutatedDeque(th) ==
    /\ put[th].pc = "detected"
    /\ put[th].seen # slots[Session[put[th].turn]]
    /\ put' = [put EXCEPT ![th] = Idle]
    /\ UNCHANGED <<disk, cache, recent, slots, read, deleting, history, spent>>

Write(th) ==
    LET p == put[th]  t == p.turn IN
    /\ p.pc = "write"
    /\ store' = [u \in Stored \cup {t} |->
                    IF u = t THEN [refs |-> p.refs, changed |-> p.changed] ELSE store[u]]
    /\ put' = [put EXCEPT ![th].pc = "note"]
    /\ UNCHANGED <<bodies, tombs, cache, recent, slots, read, deleting, history, spent>>

BugNoted(t) ==
    IF recent.state = "built" THEN [recent EXCEPT !.keys = @ \cup {t}] ELSE recent

\* _RecentTurnIndex.note.
Noted(t) ==
    CASE recent.state = "built"    -> [recent EXCEPT !.keys = @ \cup {t}]
      [] recent.state = "building" -> [recent EXCEPT !.pending = @ \cup {t}]
      [] OTHER                     -> recent

Note(th) ==
    LET t == put[th].turn IN
    /\ put[th].pc = "note"
    /\ recent' = Noted(t)
    /\ IF t \in SelfMade
       THEN put' = [put EXCEPT ![th] = Idle] /\ finished' = finished \cup {t}
       ELSE put' = [put EXCEPT ![th].pc = "remember"] /\ UNCHANGED finished
    /\ UNCHANGED <<disk, cache, slots, read, deleting, deleted, raced, shaken, spent>>

(* _remember_prefix: `if entry in slots`, `slots.remove`, `slots.append`.  *)
Remembering(th, s) ==
    put[th].pc \in {"remove", "append"} /\ Session[put[th].turn] = s

\* The session in which this step finds another thread remembering too.
Clash(th) ==
    LET s == Session[put[th].turn]
    IN  IF \E o \in Putters \ {th} : Remembering(o, s) THEN {s} ELSE {}

SeekEntry(th) ==
    LET t == put[th].turn IN
    /\ put[th].pc = "remember"
    /\ put' = [put EXCEPT ![th].pc =
                IF Msgs[t] \in Range(slots[Session[t]]) THEN "remove" ELSE "append"]
    /\ shaken' = shaken \cup Clash(th)
    /\ UNCHANGED <<disk, cache, recent, slots, read, deleting, finished, deleted, raced, spent>>

\* ValueError when another thread removed it first: put raises after the write.
RemoveEntry(th) ==
    LET t == put[th].turn  s == Session[t] IN
    /\ put[th].pc = "remove"
    /\ IF Msgs[t] \in Range(slots[s])
       THEN /\ slots' = [slots EXCEPT ![s] = Without(@, Msgs[t])]
            /\ put' = [put EXCEPT ![th].pc = "append"]
       ELSE put' = [put EXCEPT ![th] = Idle] /\ UNCHANGED slots
    /\ UNCHANGED <<disk, cache, recent, read, deleting, history, spent>>

AppendEntry(th) ==
    LET t == put[th].turn  s == Session[t] IN
    /\ put[th].pc = "append"
    /\ slots' = [slots EXCEPT ![s] = LastSlots(Append(@, Msgs[t]))]
    /\ put' = [put EXCEPT ![th] = Idle]
    /\ finished' = finished \cup {t}
    /\ UNCHANGED <<disk, cache, recent, read, deleting, deleted, raced, shaken, spent>>

-----------------------------------------------------------------------------
(* recent_turns and count: build the index once, then subtract tombstones. *)

Building == {r \in Readers : read[r].pc \in {"scan turns", "merge"}}

\* The event loop does one thing at a time.
LoopFree == \A r \in Loop : read[r].pc \in {"idle", "answered"}

\* ensure_built: a built index is used, else one reader takes the build lock
\* and the others wait for it.
StartRead(r) ==
    /\ spent.reads < MaxReads /\ Affordable
    /\ read[r].pc \in {"idle", "answered", "raised"}
    /\ r \in Loop => deleting = NoTurn /\ LoopFree
    /\ recent.state = "built" \/ Building = {}
    /\ read' = [read EXCEPT ![r] =
                [Resting EXCEPT !.pc = IF recent.state = "built" THEN "tombs" ELSE "scan turns",
                                !.known = finished, !.gone = deleted]]
    /\ recent' = IF recent.state = "built" THEN recent
                 ELSE [recent EXCEPT !.state = "building", !.pending = {}]
    /\ spent' = [spent EXCEPT !.reads = @ + 1]
    /\ UNCHANGED <<disk, cache, slots, put, deleting, history>>

\* The iterator of RocksDB shows the moment of its creation.
ScanTurns(r) ==
    /\ read[r].pc = "scan turns"
    /\ read' = [read EXCEPT ![r].pc = "merge", ![r].snap = Stored]
    /\ UNCHANGED <<disk, cache, recent, slots, put, deleting, history, spent>>

Merge(r) ==
    /\ read[r].pc = "merge"
    /\ recent' = [state |-> "built", keys |-> read[r].snap \cup recent.pending, pending |-> {}]
    /\ read' = [read EXCEPT ![r].pc = "tombs", ![r].snap = {}]
    /\ UNCHANGED <<disk, cache, slots, put, deleting, history, spent>>

\* _tombstoned_keys: when the cache is None scan the tombstones, ...
AskCache(r) ==
    /\ read[r].pc = "tombs"
    /\ read' = [read EXCEPT ![r] =
                IF cache = NoCache THEN [@ EXCEPT !.pc = "assign", !.snap = tombs]
                ELSE [@ EXCEPT !.pc = "use"]]
    /\ UNCHANGED <<disk, cache, recent, slots, put, deleting, history, spent>>

\* ... assign what the scan found, ...
AssignCache(r) ==
    /\ read[r].pc = "assign"
    /\ cache' = read[r].snap
    /\ read' = [read EXCEPT ![r].pc = "use", ![r].snap = {}]
    /\ UNCHANGED <<disk, recent, slots, put, deleting, history, spent>>

\* ... and return the attribute.  It is read again: a deletion on the loop may
\* have set it to None meanwhile, and the reader raises.
UseCache(r) ==
    /\ read[r].pc = "use"
    /\ read' = [read EXCEPT ![r] =
                IF cache = NoCache THEN [Resting EXCEPT !.pc = "raised"]
                ELSE [@ EXCEPT !.pc = "page", !.snap = cache]]
    /\ UNCHANGED <<disk, cache, recent, slots, put, deleting, history, spent>>

Page(r) ==
    /\ read[r].pc = "page"
    /\ read' = [read EXCEPT ![r].pc = "answered", ![r].snap = {},
                            ![r].answer = recent.keys \ read[r].snap]
    /\ UNCHANGED <<disk, cache, recent, slots, put, deleting, history, spent>>

-----------------------------------------------------------------------------
(* append_tombstone, on the event loop.                                    *)

AppendTombstone(t) ==
    /\ spent.deletes < MaxDeletes /\ Affordable
    /\ deleting = NoTurn
    /\ LoopFree
    /\ t \in Stored
    /\ tombs' = tombs \cup {t}
    /\ deleting' = t
    /\ raced' = IF Filling = {} THEN raced ELSE raced \cup {t}
    /\ spent' = [spent EXCEPT !.deletes = @ + 1]
    /\ UNCHANGED <<bodies, store, cache, recent, slots, put, read, finished, deleted, shaken>>

DropCache ==
    /\ deleting # NoTurn
    /\ cache' = NoCache
    /\ deleted' = deleted \cup {deleting}
    /\ deleting' = NoTurn
    /\ UNCHANGED <<disk, recent, slots, put, read, finished, raced, shaken, spent>>

-----------------------------------------------------------------------------
\* The process dies and is started again: open() recovers the candidates.
Restart ==
    /\ spent.crashes < MaxCrashes /\ Affordable
    /\ cache' = NoCache
    /\ recent' = Unbuilt
    /\ slots' = [s \in Sessions |-> Recover(s, store)]
    /\ put' = [th \in Putters |-> Idle]
    /\ read' = [r \in Readers |-> Resting]
    /\ deleting' = NoTurn
    /\ raced' = {} /\ shaken' = {}
    /\ spent' = [spent EXCEPT !.crashes = @ + 1]
    /\ UNCHANGED <<disk, finished, deleted>>

Init ==
    /\ bodies = {} /\ store = <<>> /\ tombs = {}
    /\ cache = NoCache
    /\ recent = Unbuilt
    /\ slots = [s \in Sessions |-> <<>>]
    /\ put = [th \in Putters |-> Idle]
    /\ read = [r \in Readers |-> Resting]
    /\ deleting = NoTurn
    /\ finished = {} /\ deleted = {} /\ raced = {} /\ shaken = {}
    /\ spent = [puts |-> 0, reads |-> 0, deletes |-> 0, crashes |-> 0]

PutStep(th) ==
    \/ \E t \in Turns : Begin(th, t)
    \/ CheckBody(th) \/ StoreBody(th) \/ Detect(th) \/ Detected(th) \/ MutatedDeque(th)
    \/ Write(th) \/ Note(th) \/ SeekEntry(th) \/ RemoveEntry(th) \/ AppendEntry(th)

ReadStep(r) ==
    \/ StartRead(r) \/ ScanTurns(r) \/ Merge(r)
    \/ AskCache(r) \/ AssignCache(r) \/ UseCache(r) \/ Page(r)

Next ==
    \/ \E th \in Putters : PutStep(th)
    \/ \E r \in Readers : ReadStep(r)
    \/ \E t \in Turns : AppendTombstone(t)
    \/ DropCache
    \/ Restart

Spec == Init /\ [][Next]_vars

-----------------------------------------------------------------------------
(* Properties.                                                             *)

TypeOK ==
    /\ bodies \subseteq Contents /\ tombs \subseteq Stored /\ Stored \subseteq Turns
    /\ \A t \in Stored : store[t].refs \subseteq DOMAIN Msgs[t] /\ store[t].changed \in BOOLEAN
    /\ cache = NoCache \/ cache \subseteq tombs
    /\ recent.state \in {"none", "building", "built"}
    /\ recent.keys \cup recent.pending \subseteq Stored
    /\ \A s \in Sessions : Len(slots[s]) <= Slots
    /\ deleting \in Turns \cup {NoTurn}

\* A turn read back is whole: every message that put left as a reference has
\* its body in the store, whichever threads deduplicated at the same time and
\* wherever the process died.
RefsResolve ==
    \A t \in Stored : \A i \in store[t].refs : Msgs[t][i] \in bodies

\* recent_turns and count answer from memory what a scan of the store would:
\* every turn whose put had returned and that nobody deletes, and none whose
\* deletion had returned when the read began, unless its tombstone was written
\* while a thread was between its scan of the tombstones and its assignment.
AnswersAreCurrent ==
    \A r \in Readers :
        read[r].pc = "answered" =>
            /\ read[r].known \ tombs \subseteq read[r].answer
            /\ read[r].answer \cap read[r].gone \subseteq raced

\* The cache of tombstoned keys misses a finished deletion only by that race.
CacheMissesOnlyRaced ==
    cache # NoCache => deleted \subseteq cache \cup raced

\* As long as a session's different histories fit in its slots, put and a
\* restart keep every finished turn's prefix a candidate, so that a turn that
\* continues one of them is not taken for a compressed history.  Two threads
\* that remember in one session at once can lose one (until a restart).
CandidatesKept ==
    \A t \in finished \ SelfMade :
        LET s == Session[t] IN
        \/ Cardinality(Flows(s)) > Slots
        \/ s \in shaken
        \/ Msgs[t] \in Range(slots[s])
        \/ \E th \in Putters : /\ put[th].pc = "append" /\ Session[put[th].turn] = s
                               /\ Msgs[put[th].turn] = Msgs[t]
=============================================================================
