------------------------------ MODULE HubProofs ------------------------------
(***************************************************************************)
(* Theorems about what the Hub keeps, for every value of the constants:    *)
(* the turns of the store and the candidates of a session (HubStore), and  *)
(* the ledgers that are rebuilt from their events (LedgerPool, in the      *)
(* second half of this module).                                            *)
(***************************************************************************)
EXTENDS HubStore, LedgerPool, FiniteSetTheorems, SequenceTheorems, WellFoundedInduction, TLAPS

PutSteps == {"idle", "dedup", "body", "detect", "detected", "write", "note",
             "remember", "remove", "append"}
ReadSteps == {"idle", "scan turns", "merge", "tombs", "assign", "use", "page",
              "answered", "raised"}

\* A put, whatever the candidates are that it has seen.
IsPut(p) ==
    /\ p = [pc |-> p.pc, turn |-> p.turn, refs |-> p.refs, at |-> p.at,
            seen |-> p.seen, changed |-> p.changed]
    /\ p.pc \in PutSteps /\ (p.pc # "idle" => p.turn \in Turns)
    /\ p.pc \in {"dedup", "body"} => p.at \in DOMAIN Msgs[p.turn]

Reads == [pc : ReadSteps, snap : SUBSET Turns, known : SUBSET Turns, gone : SUBSET Turns,
          answer : SUBSET Turns]
Indexes == [state : {"none", "building", "built"}, keys : SUBSET Turns, pending : SUBSET Turns]

Typed ==
    /\ Stored \subseteq Turns
    /\ put = [th \in Putters |-> put[th]] /\ \A th \in Putters : IsPut(put[th])
    /\ read \in [Readers -> Reads] /\ recent \in Indexes
    /\ cache = NoCache \/ cache \subseteq tombs
    /\ tombs \subseteq Turns /\ deleting \in tombs \cup {NoTurn}
    /\ finished \subseteq Stored /\ deleted \subseteq tombs

\* The references that a put goes to write resolve as those that are written.
RefsAre(refs, t) == refs \subseteq DOMAIN Msgs[t] /\ \A i \in refs : Msgs[t][i] \in bodies
PendingResolve == \A th \in Putters : put[th].pc # "idle" => RefsAre(put[th].refs, put[th].turn)

\* The turns that are in the index, or in what it is built from: finished, or noted.
IsNoted(p) == p.pc \in {"remember", "remove", "append"}
Settled == finished \cup {put[th].turn : th \in {o \in Putters : IsNoted(put[o])}}

IndexHolds ==
    /\ \A th \in Putters : put[th].pc = "note" \/ IsNoted(put[th]) => put[th].turn \in Stored
    /\ recent.state = "built" => Settled \subseteq recent.keys /\ Building = {}
    /\ Building # {} => recent.state = "building"
    /\ \A r, q \in Building : r = q
    /\ \A r \in Readers : read[r].pc = "merge" => Settled \subseteq read[r].snap \cup recent.pending

\* What a read has got hold of so far.
ReadsHold ==
    \A r \in Readers :
        /\ read[r].known \subseteq finished /\ read[r].gone \subseteq deleted
        /\ read[r].pc \in {"tombs", "assign", "use", "page"} =>
               recent.state = "built" /\ read[r].known \subseteq recent.keys
        /\ read[r].pc = "assign" => read[r].snap \subseteq tombs /\ tombs \subseteq read[r].snap \cup raced
        /\ read[r].pc = "page" => read[r].snap \subseteq tombs /\ read[r].gone \subseteq read[r].snap \cup raced

\* The candidates.  As long as the flows of a session fit and no two threads have
\* remembered in it at once, its queue has every finished flow, and each once.
Distinct(q) == \A i, j \in 1 .. Len(q) : i # j => q[i] # q[j]

RememberingOne(s) ==
    \A th, o \in Putters : Remembering(th, s) /\ Remembering(o, s) => th = o

\* A thread is about to remove what is there, or to append what is not.
SeekingHolds(s) ==
    \A th \in Putters :
        Remembering(th, s) =>
            (put[th].pc = "remove" <=> Msgs[put[th].turn] \in Range(slots[s]))

Kept(t, s) ==
    \/ Msgs[t] \in Range(slots[s])
    \/ \E th \in Putters :
          put[th].pc = "append" /\ Session[put[th].turn] = s /\ Msgs[put[th].turn] = Msgs[t]

Orderly(s) ==
    /\ Distinct(slots[s]) /\ RememberingOne(s) /\ SeekingHolds(s)
    /\ \A t \in finished \ SelfMade : Session[t] = s => Kept(t, s)

QueuesHold ==
    /\ slots = [s \in Sessions |-> slots[s]]
    /\ \A s \in Sessions : slots[s] \in Seq(Flows(s))
    /\ \A th \in Putters : IsNoted(put[th]) => put[th].turn \notin SelfMade
    /\ \A s \in Sessions : Cardinality(Flows(s)) <= Slots /\ s \notin shaken => Orderly(s)

IInv ==
    /\ Typed /\ RefsResolve /\ PendingResolve
    /\ IndexHolds /\ ReadsHold /\ CacheMissesOnlyRaced /\ AnswersAreCurrent
    /\ QueuesHold
-----------------------------------------------------------------------------
(* What the steps do to the state, one fact each. *)

\* The next message to deduplicate is one, when there is a next.
LEMMA NextMessage ==
  ASSUME NEW t \in Turns, NEW at \in Nat \ {0}
  PROVE  /\ After(at, t) \in {"dedup", "detect"}
         /\ After(at, t) = "dedup" => at \in DOMAIN Msgs[t]
<1>1. Msgs[t] \in Seq(Contents)
  BY HubAssumption DEF HubAssumption, Contents
<1>. QED  BY <1>1 DEF After

LEMMA MessageNumber ==
  ASSUME NEW t \in Turns, NEW i \in DOMAIN Msgs[t] PROVE i + 1 \in Nat \ {0}
<1>1. Msgs[t] \in Seq(Contents)
  BY HubAssumption DEF HubAssumption, Contents
<1>. QED  BY <1>1

\* A step of a put leaves the other puts, and what is read, alone.
LEMMA OnePut ==
  ASSUME Typed, NEW th \in Putters, PutStep(th)
  PROVE  /\ put' = [o \in Putters |-> put'[o]]
         /\ \A o \in Putters \ {th} : put'[o] = put[o]
         /\ UNCHANGED <<tombs, cache, read, deleting, deleted, raced>>
BY DEF Typed, PutStep, Begin, CheckBody, StoreBody, Detect, Detected, MutatedDeque, Write, Note,
   SeekEntry, RemoveEntry, AppendEntry, history, disk

\* Where a put goes from where it is, and what it brings along.
LEMMA Course ==
  ASSUME Typed, NEW th \in Putters, PutStep(th)
  PROVE  /\ IsPut(put'[th])
         /\ put'[th].pc # "idle" /\ put[th].pc # "idle" =>
              put'[th].turn = put[th].turn /\ put'[th].refs \subseteq put[th].refs \cup {put[th].at}
<1>. DEFINE p == put[th]
<1>. DEFINE q == put'[th]
<1>0. /\ put = [o \in Putters |-> put[o]]
      /\ p = [pc |-> p.pc, turn |-> p.turn, refs |-> p.refs, at |-> p.at,
              seen |-> p.seen, changed |-> p.changed]
      /\ p.pc \in PutSteps /\ (p.pc # "idle" => p.turn \in Turns)
      /\ p.pc \in {"dedup", "body"} => p.at \in DOMAIN Msgs[p.turn]
  BY DEF Typed, IsPut
<1>. USE <1>0 DEF IsPut, PutSteps
<1>1. ASSUME NEW t \in Turns, Begin(th, t) PROVE IsPut(q) /\ p.pc = "idle"
  <2>1. q = [pc |-> After(1, t), turn |-> t, refs |-> {}, at |-> 1, seen |-> <<>>, changed |-> FALSE]
    BY <1>1 DEF Begin, Idle
  <2>2. /\ After(1, t) \in {"dedup", "detect"}
        /\ After(1, t) = "dedup" => 1 \in DOMAIN Msgs[t]
    BY NextMessage
  <2>3. p.pc = "idle"
    BY <1>1 DEF Begin
  <2>. HIDE DEF p, q
  <2>4. IsPut(q)
    BY <2>1, <2>2
  <2>. QED  BY <2>3, <2>4
<1>2. CASE CheckBody(th)
  <2>1. \/ q = [pc |-> "body", turn |-> p.turn, refs |-> p.refs, at |-> p.at,
                seen |-> p.seen, changed |-> p.changed]
        \/ q = [pc |-> After(p.at + 1, p.turn), turn |-> p.turn, refs |-> p.refs \cup {p.at},
                at |-> p.at + 1, seen |-> p.seen, changed |-> p.changed]
    BY <1>2 DEF CheckBody
  <2>2. p.turn \in Turns /\ p.at \in DOMAIN Msgs[p.turn] /\ p.pc # "idle"
    BY <1>2 DEF CheckBody
  <2>3. /\ After(p.at + 1, p.turn) \in {"dedup", "detect"}
        /\ After(p.at + 1, p.turn) = "dedup" => p.at + 1 \in DOMAIN Msgs[p.turn]
    BY <2>2, MessageNumber, NextMessage
  <2>. QED  BY <1>2, <2>1, <2>2, <2>3 DEF CheckBody
<1>3. CASE StoreBody(th)
  <2>1. q = [pc |-> After(p.at + 1, p.turn), turn |-> p.turn, refs |-> p.refs,
             at |-> p.at + 1, seen |-> p.seen, changed |-> p.changed]
    BY <1>3 DEF StoreBody
  <2>2. p.turn \in Turns /\ p.at \in DOMAIN Msgs[p.turn] /\ p.pc # "idle"
    BY <1>3 DEF StoreBody
  <2>3. /\ After(p.at + 1, p.turn) \in {"dedup", "detect"}
        /\ After(p.at + 1, p.turn) = "dedup" => p.at + 1 \in DOMAIN Msgs[p.turn]
    BY <2>2, MessageNumber, NextMessage
  <2>. QED  BY <1>3, <2>1, <2>2, <2>3 DEF StoreBody
<1>4. CASE Detect(th) \/ Detected(th)
  <2>1. \E pc \in {"write", "detected"} : \E seen, changed :
            q = [pc |-> pc, turn |-> p.turn, refs |-> p.refs, at |-> p.at,
                 seen |-> seen, changed |-> changed]
    <3>1. CASE Detect(th)
      BY <3>1 DEF Detect
    <3>2. CASE Detected(th)
      BY <3>2 DEF Detected
    <3>. QED  BY <1>4, <3>1, <3>2
  <2>. QED  BY <1>4, <2>1 DEF Detect, Detected
<1>5. CASE MutatedDeque(th) \/ AppendEntry(th)
  <2>1. q = [pc |-> "idle", turn |-> NoTurn, refs |-> {}, at |-> 0, seen |-> <<>>, changed |-> FALSE]
    BY <1>5 DEF MutatedDeque, AppendEntry, Idle
  <2>. QED  BY <2>1
<1>6. CASE Write(th) \/ SeekEntry(th)
  BY <1>6 DEF Write, SeekEntry
<1>7. CASE Note(th) \/ RemoveEntry(th)
  <2>1. \/ q = [pc |-> "idle", turn |-> NoTurn, refs |-> {}, at |-> 0, seen |-> <<>>, changed |-> FALSE]
        \/ \E pc \in {"remember", "append"} : q = [p EXCEPT !.pc = pc]
    BY <1>7 DEF Note, RemoveEntry, Idle
  <2>. QED  BY <1>7, <2>1 DEF Note, RemoveEntry
<1>. QED  BY <1>1, <1>2, <1>3, <1>4, <1>5, <1>6, <1>7 DEF PutStep

-----------------------------------------------------------------------------
(* The inductive invariant, one part at a time. *)

LEMMA TypedStep == Typed /\ IndexHolds /\ ReadsHold /\ Next => Typed'
<1>. SUFFICES ASSUME Typed, IndexHolds, ReadsHold, Next PROVE Typed'
  OBVIOUS
<1>. USE DEF Typed
<1>1. ASSUME NEW th \in Putters, PutStep(th) PROVE Typed'
  <2>1. /\ put' = [o \in Putters |-> put'[o]] /\ \A o \in Putters : IsPut(put'[o])
        /\ UNCHANGED <<tombs, cache, read, deleting, deleted, raced>>
    BY <1>1, OnePut, Course
  <2>2. put[th].pc # "idle" => put[th].turn \in Turns
    BY DEF IsPut
  <2>3. Stored' \subseteq Turns /\ Stored \subseteq Stored'
    BY <1>1, <2>2 DEF PutStep, Begin, CheckBody, StoreBody, Detect, Detected, MutatedDeque, Write,
       Note, SeekEntry, RemoveEntry, AppendEntry, disk, Stored
  <2>4. finished' \subseteq finished \cup {put[th].turn}
        /\ (finished' # finished => put[th].pc \in {"note", "append"})
    BY <1>1 DEF PutStep, Begin, CheckBody, StoreBody, Detect, Detected, MutatedDeque, Write,
       Note, SeekEntry, RemoveEntry, AppendEntry, history
  <2>5. finished' \subseteq Stored'
    BY <2>3, <2>4 DEF IndexHolds, IsNoted
  <2>6. recent' \in Indexes
    <3>1. CASE Note(th)
      BY <2>2, <3>1 DEF Note, Noted, Indexes
    <3>2. CASE ~Note(th)
      BY <1>1, <3>2 DEF PutStep, Begin, CheckBody, StoreBody, Detect, Detected, MutatedDeque, Write,
       Note, SeekEntry, RemoveEntry, AppendEntry
    <3>. QED  BY <3>1, <3>2
  <2>. QED  BY <2>1, <2>3, <2>5, <2>6
<1>2. ASSUME NEW r \in Readers, ReadStep(r) PROVE Typed'
  <2>1. UNCHANGED <<store, tombs, put, deleting, finished, deleted>>
    BY <1>2 DEF ReadStep, StartRead, ScanTurns, Merge, AskCache, AssignCache, UseCache, Page, disk,
       history
  <2>2. read[r] \in Reads
    OBVIOUS
  <2>3. read' \in [Readers -> Reads]
    <3>1. CASE StartRead(r)
      BY <3>1 DEF StartRead, Resting, Reads, ReadSteps
    <3>2. CASE ScanTurns(r)
      BY <2>2, <3>2 DEF ScanTurns, Reads, ReadSteps
    <3>3. CASE Merge(r) \/ AssignCache(r)
      <4>1. \/ read' = [read EXCEPT ![r].pc = "tombs", ![r].snap = {}]
            \/ read' = [read EXCEPT ![r].pc = "use", ![r].snap = {}]
        BY <3>3 DEF Merge, AssignCache
      <4>2. read'[r] \in Reads
        <5>1. \/ read'[r] = [[read[r] EXCEPT !.pc = "tombs"] EXCEPT !.snap = {}]
              \/ read'[r] = [[read[r] EXCEPT !.pc = "use"] EXCEPT !.snap = {}]
          BY <4>1
        <5>2. \A pc \in ReadSteps : [[read[r] EXCEPT !.pc = pc] EXCEPT !.snap = {}] \in Reads
          BY <2>2 DEF Reads
        <5>. QED  BY <5>1, <5>2 DEF ReadSteps
      <4>3. read' = [q \in Readers |-> IF q = r THEN read'[r] ELSE read[q]]
        BY <4>1
      <4>. QED  BY <4>2, <4>3
    <3>4. CASE AskCache(r)
      <4>1. \/ read' = [read EXCEPT ![r] = [read[r] EXCEPT !.pc = "assign", !.snap = tombs]]
            \/ read' = [read EXCEPT ![r] = [read[r] EXCEPT !.pc = "use"]]
        BY <3>4 DEF AskCache
      <4>2. /\ [read[r] EXCEPT !.pc = "assign", !.snap = tombs] \in Reads
            /\ [read[r] EXCEPT !.pc = "use"] \in Reads
        BY <2>2 DEF Reads, ReadSteps
      <4>. QED  BY <4>1, <4>2
    <3>5. CASE UseCache(r)
      <4>1. \/ read' = [read EXCEPT ![r] = [Resting EXCEPT !.pc = "raised"]]
            \/ /\ cache # NoCache
               /\ read' = [read EXCEPT ![r] = [read[r] EXCEPT !.pc = "page", !.snap = cache]]
        BY <3>5 DEF UseCache
      <4>2. [Resting EXCEPT !.pc = "raised"] \in Reads
        BY DEF Reads, ReadSteps, Resting
      <4>3. cache \subseteq Turns => [read[r] EXCEPT !.pc = "page", !.snap = cache] \in Reads
        BY <2>2 DEF Reads, ReadSteps
      <4>. QED  BY <4>1, <4>2, <4>3
    <3>6. CASE Page(r)
      BY <2>2, <3>6 DEF Page, Reads, ReadSteps, Indexes
    <3>. QED  BY <1>2, <3>1, <3>2, <3>3, <3>4, <3>5, <3>6 DEF ReadStep
  <2>4. recent' \in Indexes
    <3>1. CASE StartRead(r)
      BY <3>1 DEF StartRead, Indexes
    <3>2. CASE Merge(r)
      BY <2>2, <3>2 DEF Merge, Indexes, Reads
    <3>. QED
      BY <1>2, <3>1, <3>2 DEF ReadStep, ScanTurns, AskCache, AssignCache, UseCache, Page
  <2>5. cache' = NoCache \/ cache' \subseteq tombs
    <3>1. CASE AssignCache(r)
      BY <3>1 DEF AssignCache, ReadsHold
    <3>. QED
      BY <1>2, <3>1 DEF ReadStep, StartRead, ScanTurns, Merge, AskCache, UseCache, Page
  <2>. QED  BY <2>1, <2>3, <2>4, <2>5 DEF Stored
<1>3. ASSUME NEW t \in Turns, AppendTombstone(t) PROVE Typed'
  BY <1>3 DEF AppendTombstone, Stored
<1>4. CASE DropCache
  BY <1>4 DEF DropCache, disk, Stored
<1>5. CASE Restart
  BY <1>5 DEF Restart, disk, Stored, Resting, Reads, ReadSteps, Unbuilt, Indexes, Idle, IsPut,
     PutSteps
<1>. QED  BY <1>1, <1>2, <1>3, <1>4, <1>5 DEF Next

\* The references resolve: bodies are only added, and only a body that is there
\* becomes a reference.
LEMMA ResolveStep ==
  Typed /\ RefsResolve /\ PendingResolve /\ Next => RefsResolve' /\ PendingResolve'
<1>. SUFFICES ASSUME Typed, RefsResolve, PendingResolve, Next PROVE RefsResolve' /\ PendingResolve'
  OBVIOUS
<1>. USE DEF RefsResolve, PendingResolve, RefsAre
<1>1. ASSUME NEW th \in Putters, PutStep(th) PROVE RefsResolve' /\ PendingResolve'
  <2>1. bodies \subseteq bodies'
    BY <1>1 DEF PutStep, Begin, CheckBody, StoreBody, Detect, Detected, MutatedDeque, Write,
       Note, SeekEntry, RemoveEntry, AppendEntry, disk
  <2>2. IsPut(put[th])
    BY DEF Typed
  <2>3. RefsResolve'
    <3>1. CASE Write(th)
      <4>1. /\ Stored' = Stored \cup {put[th].turn}
            /\ \A u \in Stored' : store'[u].refs = IF u = put[th].turn THEN put[th].refs ELSE store[u].refs
        BY <3>1 DEF Write, Stored
      <4>2. \A i \in put[th].refs : Msgs[put[th].turn][i] \in bodies
        BY <3>1 DEF Write
      <4>. QED  BY <2>1, <4>1, <4>2
    <3>2. CASE UNCHANGED store
      BY <2>1, <3>2 DEF Stored
    <3>. QED
      BY <1>1, <3>1, <3>2 DEF PutStep, Begin, CheckBody, StoreBody, Detect, Detected, MutatedDeque,
         Note, SeekEntry, RemoveEntry, AppendEntry, disk
  <2>4. (put[th].pc # "idle" => RefsAre(put[th].refs, put[th].turn))'
    <3>1. ASSUME NEW t \in Turns, Begin(th, t)
          PROVE  (put[th].pc # "idle" => RefsAre(put[th].refs, put[th].turn))'
      BY <3>1 DEF Begin, Idle, Typed
    <3>2. CASE CheckBody(th)
      <4>1. /\ put[th].pc = "dedup" /\ put[th].turn \in Turns /\ put[th].at \in DOMAIN Msgs[put[th].turn]
            /\ put'[th].turn = put[th].turn
            /\ \/ put'[th].refs = put[th].refs
               \/ /\ Msgs[put[th].turn][put[th].at] \in bodies
                  /\ put'[th].refs = put[th].refs \cup {put[th].at}
        BY <2>2, <3>2 DEF CheckBody, IsPut, Typed
      <4>. QED  BY <2>1, <4>1
    <3>3. CASE /\ put'[th].pc # "idle" => put[th].pc # "idle"
               /\ put[th].pc # "idle" /\ put'[th].pc # "idle" =>
                     put'[th].turn = put[th].turn /\ put'[th].refs = put[th].refs
      BY <2>1, <3>3
    <3>4. CASE StoreBody(th) \/ Detect(th) \/ Detected(th)
      <4>1. CASE StoreBody(th)
        BY <2>2, <3>3, <4>1 DEF StoreBody, Typed, IsPut
      <4>2. CASE Detect(th)
        BY <2>2, <3>3, <4>2 DEF Detect, Typed, IsPut
      <4>3. CASE Detected(th)
        BY <2>2, <3>3, <4>3 DEF Detected, Typed, IsPut
      <4>. QED  BY <3>4, <4>1, <4>2, <4>3
    <3>5. CASE MutatedDeque(th) \/ Write(th) \/ Note(th)
      BY <2>2, <3>3, <3>5 DEF MutatedDeque, Write, Note, Idle, Typed, IsPut
    <3>6. CASE SeekEntry(th) \/ RemoveEntry(th) \/ AppendEntry(th)
      BY <2>2, <3>3, <3>6 DEF SeekEntry, RemoveEntry, AppendEntry, Idle, Typed, IsPut
    <3>. QED
      BY <1>1, <3>1, <3>2, <3>4, <3>5, <3>6 DEF PutStep
  <2>. QED  BY <1>1, <2>1, <2>3, <2>4, OnePut
<1>2. ASSUME NEW r \in Readers, ReadStep(r) PROVE RefsResolve' /\ PendingResolve'
  <2>1. UNCHANGED <<bodies, store, put>>
    BY <1>2 DEF ReadStep, StartRead, ScanTurns, Merge, AskCache, AssignCache, UseCache, Page, disk
  <2>. QED  BY <2>1 DEF Stored
<1>3. ASSUME NEW t \in Turns, AppendTombstone(t) PROVE RefsResolve' /\ PendingResolve'
  BY <1>3 DEF AppendTombstone, Stored
<1>4. CASE DropCache
  BY <1>4 DEF DropCache, disk, Stored
<1>5. CASE Restart
  BY <1>5 DEF Restart, disk, Stored, Idle
<1>. QED  BY <1>1, <1>2, <1>3, <1>4, <1>5 DEF Next

\* Before it notes its turn a put comes to write it.
LEMMA Unnoted ==
  ASSUME Typed, NEW th \in Putters, PutStep(th), put[th].pc # "note", ~IsNoted(put[th])
  PROVE  ~IsNoted(put'[th]) /\ (put'[th].pc = "note" => Write(th))
<1>. USE DEF IsNoted
<1>1. IsPut(put[th])
  BY DEF Typed
<1>2. ASSUME NEW t \in Turns, Begin(th, t) PROVE put'[th].pc \in {"dedup", "detect"}
  BY <1>2 DEF Begin, Idle, Typed, After
<1>3. CASE CheckBody(th)
  BY <1>1, <1>3 DEF CheckBody, After, Typed, IsPut
<1>4. CASE StoreBody(th)
  BY <1>1, <1>4 DEF StoreBody, After, Typed, IsPut
<1>5. CASE Detect(th)
  BY <1>1, <1>5 DEF Detect, Typed, IsPut
<1>6. CASE Detected(th)
  BY <1>1, <1>6 DEF Detected, Typed, IsPut
<1>7. CASE MutatedDeque(th) \/ Write(th)
  BY <1>1, <1>7 DEF MutatedDeque, Write, Typed, IsPut, Idle
<1>. QED  BY <1>2, <1>3, <1>4, <1>5, <1>6, <1>7 DEF PutStep, Note, SeekEntry, RemoveEntry, AppendEntry

\* A put settles its turn when it has noted it, and not otherwise.
LEMMA Settling ==
  ASSUME Typed, NEW th \in Putters, PutStep(th)
  PROVE  /\ IF Note(th) THEN Settled' = Settled \cup {put[th].turn}
            ELSE Settled' \subseteq Settled /\ UNCHANGED recent
         /\ finished \subseteq finished'
<1>. USE DEF Settled, IsNoted
<1>1. \A o \in Putters \ {th} : put'[o] = put[o]
  BY OnePut
<1>2. IsPut(put[th])
  BY DEF Typed
<1>3. CASE Note(th)
  <2>1. /\ put[th].pc = "note"
        /\ \/ put'[th].pc = "idle" /\ finished' = finished \cup {put[th].turn}
           \/ /\ put'[th].pc = "remember" /\ put'[th].turn = put[th].turn
              /\ UNCHANGED finished
    BY <1>2, <1>3 DEF Note, Typed, IsPut, Idle
  <2>. QED  BY <1>1, <1>3, <2>1
<1>4. CASE SeekEntry(th) \/ RemoveEntry(th)
  <2>1. IsNoted(put[th]) /\ (put'[th].pc = "idle" \/ put'[th].turn = put[th].turn)
    BY <1>2, <1>4 DEF SeekEntry, RemoveEntry, Typed, IsPut, Idle
  <2>2. UNCHANGED <<finished, recent>> /\ ~Note(th)
    BY <1>4 DEF SeekEntry, RemoveEntry, history, Note
  <2>. QED  BY <1>1, <2>1, <2>2
<1>5. CASE AppendEntry(th)
  <2>1. /\ IsNoted(put[th]) /\ put'[th].pc = "idle" /\ UNCHANGED recent /\ ~Note(th)
        /\ finished' = finished \cup {put[th].turn}
    BY <1>2, <1>5 DEF AppendEntry, Typed, IsPut, Idle, Note
  <2>. QED  BY <1>1, <2>1
<1>6. CASE (\E t \in Turns : Begin(th, t)) \/ CheckBody(th) \/ StoreBody(th) \/ Detect(th)
           \/ Detected(th) \/ MutatedDeque(th) \/ Write(th)
  <2>1. ~IsNoted(put[th]) /\ UNCHANGED <<finished, recent>> /\ ~Note(th)
    BY <1>6 DEF Begin, CheckBody, StoreBody, Detect, Detected, MutatedDeque, Write, history, Note
  <2>2. put[th].pc # "note"
    BY <1>6 DEF Begin, CheckBody, StoreBody, Detect, Detected, MutatedDeque, Write
  <2>3. ~IsNoted(put'[th])
    BY <2>1, <2>2, Unnoted
  <2>. QED  BY <1>1, <2>1, <2>3
<1>. QED  BY <1>3, <1>4, <1>5, <1>6 DEF PutStep

\* What a built index holds, and what one that is being built will hold.
LEMMA IndexStep == Typed /\ IndexHolds /\ Next => IndexHolds'
<1>. SUFFICES ASSUME Typed, IndexHolds, Next PROVE IndexHolds'
  OBVIOUS
<1>1. ASSUME NEW th \in Putters, PutStep(th) PROVE IndexHolds'
  <2>1. \A o \in Putters : put'[o].pc = "note" \/ IsNoted(put'[o]) => put'[o].turn \in Stored'
    <3>1. Stored \subseteq Stored'
      BY <1>1 DEF PutStep, Begin, CheckBody, StoreBody, Detect, Detected, MutatedDeque, Write, Note,
         SeekEntry, RemoveEntry, AppendEntry, disk, Stored
    <3>2. CASE put[th].pc = "note" \/ IsNoted(put[th])
      <4>1. put[th].pc # "idle" /\ put[th].turn \in Stored
        BY <3>2 DEF IndexHolds, IsNoted
      <4>. QED  BY <1>1, <3>1, <4>1, OnePut, Course DEF IndexHolds, IsNoted
    <3>3. CASE ~(put[th].pc = "note" \/ IsNoted(put[th]))
      <4>1. Write(th) => put'[th].turn \in Stored'
        BY DEF Write, Typed, IsPut, Stored
      <4>. QED  BY <1>1, <3>1, <3>3, <4>1, OnePut, Unnoted DEF IndexHolds
    <3>. QED  BY <3>2, <3>3
  <2>2. UNCHANGED read
    BY <1>1, OnePut
  <2>3. CASE Note(th)
    <3>1. Settled' = Settled \cup {put[th].turn}
      BY <1>1, <2>3, Settling
    <3>2. /\ recent'.state = recent.state
          /\ recent.state = "built" => recent'.keys = recent.keys \cup {put[th].turn}
          /\ recent.state = "building" => recent'.pending = recent.pending \cup {put[th].turn}
      BY <2>3 DEF Note, Noted, Typed, Indexes
    <3>3. \A q \in Readers : read[q].pc = "merge" => recent.state = "building"
      <4>1. \A q \in Readers : read[q].pc = "merge" => Building # {}
        BY DEF Building
      <4>. QED  BY <4>1 DEF IndexHolds
    <3>4. Building' = Building
      BY <2>2 DEF Building
    <3>. QED  BY <2>1, <2>2, <3>1, <3>2, <3>3, <3>4 DEF IndexHolds
  <2>4. CASE ~Note(th)
    BY <1>1, <2>1, <2>2, <2>4, Settling DEF Typed, IndexHolds, Building
  <2>. QED  BY <2>3, <2>4
<1>2. ASSUME NEW r \in Readers, ReadStep(r) PROVE IndexHolds'
  <2>1. UNCHANGED <<store, put, finished>>
    BY <1>2 DEF ReadStep, StartRead, ScanTurns, Merge, AskCache, AssignCache, UseCache, Page, disk,
       history
  <2>2. Settled' = Settled /\ Settled \subseteq Stored /\ Stored' = Stored
    BY <2>1 DEF Settled, Stored, Typed, IndexHolds
  <2>. SUFFICES /\ recent'.state = "built" => Settled \subseteq recent'.keys /\ Building' = {}
                /\ Building' # {} => recent'.state = "building"
                /\ \A q, o \in Building' : q = o
                /\ \A q \in Readers : read'[q].pc = "merge" =>
                       Settled \subseteq read'[q].snap \cup recent'.pending
    BY <2>1, <2>2 DEF IndexHolds
  <2>3. \A q \in Readers \ {r} : read'[q] = read[q]
    BY <1>2 DEF ReadStep, StartRead, ScanTurns, Merge, AskCache, AssignCache, UseCache, Page, Typed
  <2>4. read[r] \in Reads
    BY DEF Typed
  <2>5. CASE StartRead(r)
    <3>1. CASE recent.state = "built"
      BY <2>3, <2>5, <3>1 DEF StartRead, Typed, IndexHolds, Building, Resting
    <3>2. CASE recent.state # "built"
      <4>1. Building' = {r} /\ read'[r].pc = "scan turns"
        BY <2>3, <2>5, <3>2 DEF StartRead, Typed, Building, Resting
      <4>2. recent'.state = "building"
        BY <2>5, <3>2 DEF StartRead, Typed, Indexes
      <4>. QED  BY <4>1, <4>2 DEF Building
    <3>. QED  BY <3>1, <3>2
  <2>6. CASE ScanTurns(r)
    <3>1. Building' = Building /\ UNCHANGED recent /\ read'[r].snap = Stored
      BY <2>3, <2>4, <2>6 DEF ScanTurns, Typed, Reads, Building
    <3>. QED  BY <2>2, <2>3, <3>1 DEF IndexHolds
  <2>7. CASE Merge(r)
    <3>1. Building = {r} /\ Settled \subseteq read[r].snap \cup recent.pending
      BY <2>7 DEF Merge, IndexHolds, Building
    <3>2. recent'.state = "built" /\ recent'.keys = read[r].snap \cup recent.pending
      BY <2>4, <2>7 DEF Merge, Typed
    <3>3. Building' = {}
      BY <2>3, <2>4, <2>7, <3>1 DEF Merge, Typed, Reads, Building
    <3>. QED  BY <3>1, <3>2, <3>3 DEF Building
  <2>8. CASE AskCache(r) \/ AssignCache(r) \/ UseCache(r) \/ Page(r)
    <3>1. r \notin Building /\ UNCHANGED recent
      BY <2>8 DEF AskCache, AssignCache, UseCache, Page, Building
    <3>2. read'[r].pc \in {"assign", "use", "raised", "page", "answered"}
      <4>1. CASE AskCache(r)
        BY <2>4, <4>1 DEF AskCache, Typed, Reads
      <4>2. CASE AssignCache(r)
        BY <2>4, <4>2 DEF AssignCache, Typed, Reads
      <4>3. CASE UseCache(r)
        BY <2>4, <4>3 DEF UseCache, Typed, Reads, Resting
      <4>4. CASE Page(r)
        BY <2>4, <4>4 DEF Page, Typed, Reads
      <4>. QED  BY <2>8, <4>1, <4>2, <4>3, <4>4
    <3>. QED  BY <2>3, <3>1, <3>2 DEF IndexHolds, Building
  <2>. QED  BY <1>2, <2>5, <2>6, <2>7, <2>8 DEF ReadStep
<1>3. ASSUME NEW t \in Turns, AppendTombstone(t) PROVE IndexHolds'
  BY <1>3 DEF AppendTombstone, IndexHolds, Stored, Settled, Building
<1>4. CASE DropCache
  BY <1>4 DEF DropCache, IndexHolds, disk, Stored, Settled, Building
<1>5. CASE Restart
  BY <1>5 DEF Restart, IndexHolds, Idle, Resting, Unbuilt, Building, IsNoted
<1>. QED  BY <1>1, <1>2, <1>3, <1>4, <1>5 DEF Next

\* What a read has got hold of: only its own steps touch it, and all it relies on grows.
LEMMA ReadsStep ==
  Typed /\ IndexHolds /\ ReadsHold /\ CacheMissesOnlyRaced /\ Next => ReadsHold'
<1>. SUFFICES ASSUME Typed, IndexHolds, ReadsHold, CacheMissesOnlyRaced, Next PROVE ReadsHold'
  OBVIOUS
<1>. USE DEF ReadsHold
<1>1. ASSUME NEW th \in Putters, PutStep(th) PROVE ReadsHold'
  <2>1. finished \subseteq finished' /\ UNCHANGED <<tombs, read, deleted, raced>>
    BY <1>1, OnePut, Settling
  <2>2. recent.state = "built" => recent'.state = "built" /\ recent.keys \subseteq recent'.keys
    <3>1. CASE Note(th)
      BY <3>1 DEF Note, Noted, Typed, Indexes
    <3>. QED  BY <1>1, <3>1, Settling
  <2>. QED  BY <2>1, <2>2
<1>2. ASSUME NEW r \in Readers, ReadStep(r) PROVE ReadsHold'
  <2>1. UNCHANGED <<store, tombs, finished, deleted, raced>>
    BY <1>2 DEF ReadStep, StartRead, ScanTurns, Merge, AskCache, AssignCache, UseCache, Page, disk,
       history
  <2>2. \A q \in Readers \ {r} : read'[q] = read[q]
    BY <1>2 DEF ReadStep, StartRead, ScanTurns, Merge, AskCache, AssignCache, UseCache, Page, Typed
  <2>3. read[r] \in Reads
    BY DEF Typed
  <2>4. recent.state = "built" => UNCHANGED recent
    BY <1>2 DEF ReadStep, StartRead, ScanTurns, Merge, AskCache, AssignCache, UseCache, Page,
       IndexHolds, Building
  <2>. SUFFICES
        /\ read'[r].known \subseteq finished /\ read'[r].gone \subseteq deleted
        /\ read'[r].pc \in {"tombs", "assign", "use", "page"} =>
               recent'.state = "built" /\ read'[r].known \subseteq recent'.keys
        /\ read'[r].pc = "assign" =>
               read'[r].snap \subseteq tombs /\ tombs \subseteq read'[r].snap \cup raced
        /\ read'[r].pc = "page" =>
               read'[r].snap \subseteq tombs /\ read'[r].gone \subseteq read'[r].snap \cup raced
    BY <2>1, <2>2, <2>4
  <2>5. CASE StartRead(r)
    BY <2>5 DEF StartRead, Resting, Typed, IndexHolds, Settled
  <2>6. CASE ScanTurns(r)
    BY <2>3, <2>6 DEF ScanTurns, Typed, Reads
  <2>7. CASE Merge(r)
    BY <2>3, <2>7 DEF Merge, Typed, Reads, IndexHolds, Settled
  <2>8. CASE AskCache(r)
    BY <2>3, <2>8 DEF AskCache, Typed, Reads
  <2>9. CASE AssignCache(r)
    BY <2>3, <2>9 DEF AssignCache, Typed, Reads
  <2>10. CASE UseCache(r)
    BY <2>3, <2>10 DEF UseCache, Typed, Reads, Resting, CacheMissesOnlyRaced
  <2>11. CASE Page(r)
    BY <2>3, <2>11 DEF Page, Typed, Reads
  <2>. QED  BY <1>2, <2>5, <2>6, <2>7, <2>8, <2>9, <2>10, <2>11 DEF ReadStep
<1>3. ASSUME NEW t \in Turns, AppendTombstone(t) PROVE ReadsHold'
  BY <1>3 DEF AppendTombstone, Filling
<1>4. CASE DropCache
  BY <1>4 DEF DropCache, disk
<1>5. CASE Restart
  BY <1>5 DEF Restart, Resting
<1>. QED  BY <1>1, <1>2, <1>3, <1>4, <1>5 DEF Next

\* The cache, and the answers.
LEMMA AnswersStep ==
  Typed /\ ReadsHold /\ CacheMissesOnlyRaced /\ AnswersAreCurrent /\ Next
    => CacheMissesOnlyRaced' /\ AnswersAreCurrent'
<1>. SUFFICES ASSUME Typed, ReadsHold, CacheMissesOnlyRaced, AnswersAreCurrent, Next
              PROVE  CacheMissesOnlyRaced' /\ AnswersAreCurrent'
  OBVIOUS
<1>. USE DEF CacheMissesOnlyRaced, AnswersAreCurrent
<1>1. ASSUME NEW th \in Putters, PutStep(th) PROVE CacheMissesOnlyRaced' /\ AnswersAreCurrent'
  BY <1>1, OnePut
<1>2. ASSUME NEW r \in Readers, ReadStep(r) PROVE CacheMissesOnlyRaced' /\ AnswersAreCurrent'
  <2>1. UNCHANGED <<tombs, deleted, raced>>
    BY <1>2 DEF ReadStep, StartRead, ScanTurns, Merge, AskCache, AssignCache, UseCache, Page, disk,
       history
  <2>2. \A q \in Readers \ {r} : read'[q] = read[q]
    BY <1>2 DEF ReadStep, StartRead, ScanTurns, Merge, AskCache, AssignCache, UseCache, Page, Typed
  <2>3. read[r] \in Reads
    BY DEF Typed
  <2>4. CacheMissesOnlyRaced'
    <3>1. CASE AssignCache(r)
      BY <2>1, <3>1 DEF AssignCache, ReadsHold, Typed
    <3>. QED
      BY <1>2, <2>1, <3>1 DEF ReadStep, StartRead, ScanTurns, Merge, AskCache, UseCache, Page
  <2>5. CASE Page(r)
    <3>1. read'[r].answer = recent.keys \ read[r].snap
          /\ read'[r].known = read[r].known /\ read'[r].gone = read[r].gone
      BY <2>3, <2>5 DEF Page, Reads, Typed
    <3>2. /\ read[r].known \subseteq recent.keys /\ read[r].snap \subseteq tombs
          /\ read[r].gone \subseteq read[r].snap \cup raced
      BY <2>5 DEF Page, ReadsHold
    <3>. QED  BY <2>1, <2>2, <2>4, <3>1, <3>2
  <2>6. CASE ~Page(r)
    <3>1. read'[r].pc # "answered"
      <4>1. CASE StartRead(r)
        BY <4>1 DEF StartRead, Typed, Resting
      <4>2. CASE ScanTurns(r)
        BY <2>3, <4>2 DEF ScanTurns, Typed, Reads
      <4>3. CASE Merge(r)
        BY <2>3, <4>3 DEF Merge, Typed, Reads
      <4>4. CASE AskCache(r)
        BY <2>3, <4>4 DEF AskCache, Typed, Reads
      <4>5. CASE AssignCache(r)
        BY <2>3, <4>5 DEF AssignCache, Typed, Reads
      <4>6. CASE UseCache(r)
        BY <2>3, <4>6 DEF UseCache, Typed, Reads, Resting
      <4>. QED  BY <1>2, <2>6, <4>1, <4>2, <4>3, <4>4, <4>5, <4>6 DEF ReadStep
    <3>. QED  BY <2>1, <2>2, <2>4, <3>1
  <2>. QED  BY <2>5, <2>6
<1>3. ASSUME NEW t \in Turns, AppendTombstone(t) PROVE CacheMissesOnlyRaced' /\ AnswersAreCurrent'
  BY <1>3 DEF AppendTombstone
<1>4. CASE DropCache
  BY <1>4 DEF DropCache, disk
<1>5. CASE Restart
  BY <1>5 DEF Restart, Resting
<1>. QED  BY <1>1, <1>2, <1>3, <1>4, <1>5 DEF Next

-----------------------------------------------------------------------------
(* The candidates of a session: a queue of different prefixes. *)

LEMMA TurnNumbers ==
    Turns \subseteq Nat \ {0} /\ IsFiniteSet(Turns) /\ Cardinality(Turns) \in Nat
    /\ Turns = 1 .. Cardinality(Turns)
<1>1. IsFiniteSet(Turns) /\ Turns = 1 .. Cardinality(Turns)
  BY HubAssumption DEF HubAssumption
<1>2. Cardinality(Turns) \in Nat
  BY <1>1, FS_CardinalityType
<1>. QED  BY <1>1, <1>2

\* A set of natural numbers that is not empty has a least element.
LEMMA LeastNat ==
  ASSUME NEW T, T \subseteq Nat, T # {}
  PROVE  \E x \in T : \A y \in T : x <= y
<1>1. \E x \in T : \A y \in T : ~(<<y, x>> \in OpToRel(<, Nat))
  BY NatLessThanWellFounded, WFMin
<1>2. PICK x \in T : \A y \in T : ~(y < x)
  BY <1>1 DEF OpToRel
<1>3. \A y \in T : x <= y
  BY <1>2
<1>. QED  BY <1>3

LEMMA Removal ==
  ASSUME NEW S, NEW q \in Seq(S), NEW i \in 1 .. Len(q)
  PROVE  /\ RemoveAt(q, i) \in Seq(S) /\ Len(RemoveAt(q, i)) = Len(q) - 1
         /\ \A k \in 1 .. Len(q) - 1 : RemoveAt(q, i)[k] = IF k < i THEN q[k] ELSE q[k + 1]
<1>. DEFINE front == SubSeq(q, 1, i - 1)
            back == SubSeq(q, i + 1, Len(q))
<1>1. front \in Seq(S) /\ Len(front) = i - 1 /\ \A k \in 1 .. i - 1 : front[k] = q[k]
  OBVIOUS
<1>2. back \in Seq(S) /\ Len(back) = Len(q) - i /\ \A k \in 1 .. Len(q) - i : back[k] = q[i + k]
  OBVIOUS
<1>3. RemoveAt(q, i) = front \o back
  BY DEF RemoveAt
<1>. HIDE DEF front, back
<1>4. /\ front \o back \in Seq(S) /\ Len(front \o back) = Len(q) - 1
      /\ \A k \in 1 .. Len(q) - 1 :
           (front \o back)[k] = IF k <= i - 1 THEN front[k] ELSE back[k - (i - 1)]
  <2>1. front \in Seq(S) /\ back \in Seq(S)
    BY <1>1, <1>2
  <2>2. /\ front \o back \in Seq(S) /\ Len(front \o back) = Len(front) + Len(back)
        /\ \A k \in 1 .. Len(front) + Len(back) :
             (front \o back)[k] = IF k <= Len(front) THEN front[k] ELSE back[k - Len(front)]
    BY <2>1, ConcatProperties
  <2>3. Len(front) + Len(back) = Len(q) - 1
    BY <1>1, <1>2
  <2>. QED  BY <1>1, <2>2, <2>3
<1>5. ASSUME NEW k \in 1 .. Len(q) - 1
      PROVE  (front \o back)[k] = IF k < i THEN q[k] ELSE q[k + 1]
  <2>1. CASE k < i
    <3>1. k \in 1 .. i - 1
      BY <2>1
    <3>. QED  BY <1>1, <1>4, <2>1, <3>1
  <2>2. CASE ~(k < i)
    <3>1. k - (i - 1) \in 1 .. Len(q) - i /\ i + (k - (i - 1)) = k + 1
      BY <2>2
    <3>. QED  BY <1>2, <1>4, <2>2, <3>1
  <2>. QED  BY <2>1, <2>2
<1>. QED  BY <1>3, <1>4, <1>5

LEMMA WithoutEntry ==
  ASSUME NEW S, NEW q \in Seq(S), NEW p
  PROVE  /\ Without(q, p) \in Seq(S)
         /\ Distinct(q) => Distinct(Without(q, p)) /\ Range(Without(q, p)) = Range(q) \ {p}
<1>1. DOMAIN q = 1 .. Len(q) /\ Len(q) \in Nat
  OBVIOUS
<1>2. CASE p \notin Range(q)
  BY <1>2 DEF Without
<1>3. CASE p \in Range(q)
  <2>. DEFINE T == {i \in DOMAIN q : q[i] = p}
              i == CHOOSE i \in DOMAIN q : q[i] = p /\ \A j \in 1 .. i - 1 : q[j] # p
              r == RemoveAt(q, i)
  <2>1. i \in 1 .. Len(q) /\ q[i] = p
    <3>1. T # {} /\ T \subseteq Nat
      BY <1>1, <1>3 DEF Range
    <3>2. PICK k \in T : \A j \in T : k <= j
      BY <3>1, LeastNat
    <3>3. k \in DOMAIN q /\ q[k] = p /\ \A j \in 1 .. k - 1 : q[j] # p
      <4>1. \A j \in 1 .. k - 1 : j \in DOMAIN q /\ ~(k <= j)
        BY <1>1
      <4>. QED  BY <3>2, <4>1
    <3>. QED  BY <1>1, <3>3
  <2>2. Without(q, p) = r
    BY <1>3 DEF Without
  <2>. HIDE DEF i
  <2>3. /\ r \in Seq(S) /\ Len(r) = Len(q) - 1
        /\ \A k \in 1 .. Len(q) - 1 : r[k] = IF k < i THEN q[k] ELSE q[k + 1]
    BY <2>1, Removal
  <2>. HIDE DEF r
  <2>4. ASSUME Distinct(q) PROVE Distinct(r) /\ Range(r) = Range(q) \ {p}
    <3>1. DOMAIN r = 1 .. Len(q) - 1
      BY <2>3
    <3>. DEFINE was(k) == IF k < i THEN k ELSE k + 1
    <3>2. \A k \in 1 .. Len(q) - 1 : was(k) \in 1 .. Len(q) \ {i} /\ r[k] = q[was(k)]
      BY <2>1, <2>3
    <3>3. \A j, k \in 1 .. Len(q) - 1 : j # k => was(j) # was(k)
      BY <2>1
    <3>4. \A k \in 1 .. Len(q) \ {i} : \E j \in 1 .. Len(q) - 1 : was(j) = k
      <4>. TAKE k \in 1 .. Len(q) \ {i}
      <4>1. CASE k < i
        <5>1. k \in 1 .. Len(q) - 1 /\ was(k) = k
          BY <2>1, <4>1
        <5>. QED  BY <5>1
      <4>2. CASE ~(k < i)
        <5>1. k - 1 \in 1 .. Len(q) - 1 /\ was(k - 1) = k
          BY <2>1, <4>2
        <5>. QED  BY <5>1
      <4>. QED  BY <4>1, <4>2
    <3>. HIDE DEF was
    <3>5. Distinct(r)
      BY <2>3, <2>4, <3>2, <3>3 DEF Distinct
    <3>6. \A k \in 1 .. Len(q) : k # i => q[k] # p
      BY <2>1, <2>4 DEF Distinct
    <3>7. Range(r) \subseteq Range(q) \ {p}
      BY <1>1, <3>1, <3>2, <3>6 DEF Range
    <3>8. Range(q) \ {p} \subseteq Range(r)
      <4>1. ASSUME NEW x \in Range(q) \ {p} PROVE x \in Range(r)
        <5>1. PICK k \in 1 .. Len(q) : q[k] = x
          BY <1>1 DEF Range
        <5>2. k \in 1 .. Len(q) \ {i}
          BY <2>1, <4>1, <5>1
        <5>3. PICK j \in 1 .. Len(q) - 1 : was(j) = k
          BY <3>4, <5>2
        <5>. QED  BY <3>1, <3>2, <5>1, <5>3 DEF Range
      <4>. QED  BY <4>1
    <3>. QED  BY <3>5, <3>7, <3>8
  <2>. QED  BY <2>2, <2>3, <2>4
<1>. QED  BY <1>2, <1>3

\* Different prefixes of a set that fits in the slots fit, too.
LEMMA Fitting ==
  ASSUME NEW S, IsFiniteSet(S), Cardinality(S) <= Slots, NEW q \in Seq(S), Distinct(q)
  PROVE  Len(q) <= Slots
<1>1. q \in [1 .. Len(q) -> S] /\ Len(q) \in Nat
  OBVIOUS
<1>2. q \in Injection(1 .. Len(q), S)
  BY <1>1 DEF Distinct, Injection, IsInjective
<1>3. Cardinality(1 .. Len(q)) <= Cardinality(S)
  BY <1>2, FS_Injection
<1>. DEFINE n == Len(q)
<1>. HIDE DEF n
<1>4. Cardinality(1 .. n) = n
  <2>1. n \in Nat
    BY <1>1 DEF n
  <2>. QED  BY <2>1, FS_Interval
<1>5. Cardinality(S) \in Nat /\ Slots \in Nat
  BY FS_CardinalityType, HubAssumption DEF HubAssumption
<1>. QED  BY <1>1, <1>3, <1>4, <1>5 DEF n

\* A prefix at the end of the queue: nothing falls out at its beginning.
LEMMA Pushing ==
  ASSUME NEW S, NEW q \in Seq(S), NEW p \in S
  PROVE  /\ LastSlots(Append(q, p)) \in Seq(S)
         /\ IsFiniteSet(S) /\ Cardinality(S) <= Slots /\ Distinct(q) /\ p \notin Range(q) =>
              /\ Distinct(LastSlots(Append(q, p)))
              /\ Range(LastSlots(Append(q, p))) = Range(q) \cup {p}
<1>. DEFINE r == Append(q, p)
<1>1. /\ r \in Seq(S) /\ Len(r) = Len(q) + 1 /\ Len(q) \in Nat /\ DOMAIN q = 1 .. Len(q)
      /\ DOMAIN r = 1 .. Len(q) + 1 /\ r[Len(q) + 1] = p /\ \A i \in 1 .. Len(q) : r[i] = q[i]
      /\ r # <<>>
  OBVIOUS
<1>. HIDE DEF r
<1>2. LastSlots(r) \in Seq(S)
  BY <1>1 DEF LastSlots
<1>3. ASSUME IsFiniteSet(S), Cardinality(S) <= Slots, Distinct(q), p \notin Range(q)
      PROVE  Distinct(LastSlots(r)) /\ Range(LastSlots(r)) = Range(q) \cup {p}
  <2>1. \A i \in 1 .. Len(q) + 1 : i \in 1 .. Len(q) \/ i = Len(q) + 1
    BY <1>1
  <2>2. \A i \in 1 .. Len(q) : q[i] # p
    BY <1>1, <1>3 DEF Range
  <2>3. Distinct(r)
    BY <1>1, <1>3, <2>1, <2>2 DEF Distinct
  <2>4. Len(r) <= Slots
    BY <1>1, <1>3, <2>3, Fitting
  <2>5. LastSlots(r) = r
    <3>1. Len(r) \in Nat /\ Slots \in Nat
      BY <1>1, HubAssumption DEF HubAssumption
    <3>. QED  BY <2>4, <3>1 DEF LastSlots
  <2>6. Range(r) = Range(q) \cup {p}
    <3>1. \A i \in DOMAIN q : i \in DOMAIN r /\ q[i] = r[i]
      BY <1>1
    <3>2. \A i \in DOMAIN r : r[i] \in Range(q) \cup {p}
      BY <1>1, <2>1 DEF Range
    <3>3. Len(q) + 1 \in DOMAIN r
      BY <1>1
    <3>. QED  BY <1>1, <3>1, <3>2, <3>3 DEF Range
  <2>. QED  BY <2>3, <2>5, <2>6
<1>. QED  BY <1>2, <1>3 DEF r

LEMMA Remembered ==
  ASSUME NEW S, NEW q \in Seq(S), NEW p \in S
  PROVE  /\ Remember(q, p) \in Seq(S)
         /\ IsFiniteSet(S) /\ Cardinality(S) <= Slots /\ Distinct(q) =>
              Distinct(Remember(q, p)) /\ Range(Remember(q, p)) = Range(q) \cup {p}
<1>. DEFINE w == Without(q, p)
<1>1. /\ w \in Seq(S)
      /\ Distinct(q) => Distinct(w) /\ Range(w) = Range(q) \ {p}
  BY WithoutEntry
<1>2. Remember(q, p) = LastSlots(Append(w, p))
  BY DEF Remember
<1>. HIDE DEF w
<1>3. /\ LastSlots(Append(w, p)) \in Seq(S)
      /\ IsFiniteSet(S) /\ Cardinality(S) <= Slots /\ Distinct(w) /\ p \notin Range(w) =>
           /\ Distinct(LastSlots(Append(w, p)))
           /\ Range(LastSlots(Append(w, p))) = Range(w) \cup {p}
  BY <1>1, Pushing
<1>. QED  BY <1>1, <1>2, <1>3

\* What _recover_session_cache puts in the queue of a session.
Mine(s, on, t) == t \in DOMAIN on /\ Session[t] = s /\ t \notin SelfMade
Queue(s, on, n, q) ==
    q = [t \in 0 .. n |-> IF t = 0 THEN <<>>
                          ELSE IF t \in DOMAIN on /\ Session[t] = s /\ t \notin SelfMade
                               THEN Remember(q[t - 1], Msgs[t]) ELSE q[t - 1]]

LEMMA QueueOneMore ==
  ASSUME NEW s, NEW on, NEW n \in Nat, NEW r, Queue(s, on, n, r)
  PROVE  \E q : Queue(s, on, n + 1, q)
<1>. DEFINE next(t, x) == IF t \in DOMAIN on /\ Session[t] = s /\ t \notin SelfMade
                          THEN Remember(x, Msgs[t]) ELSE x
            q == [t \in 0 .. n + 1 |-> IF t = n + 1 THEN next(n + 1, r[n]) ELSE r[t]]
<1>1. \A t \in 0 .. n : r[t] = IF t = 0 THEN <<>> ELSE next(t, r[t - 1])
  BY DEF Queue
<1>. HIDE DEF next
<1>2. \A t \in 0 .. n + 1 : q[t] = IF t = 0 THEN <<>> ELSE next(t, q[t - 1])
  <2>. TAKE t \in 0 .. n + 1
  <2>1. CASE t = n + 1
    <3>1. t # 0 /\ t - 1 = n /\ n # n + 1 /\ n \in 0 .. n + 1
      BY <2>1
    <3>. QED  BY <2>1, <3>1
  <2>2. CASE t # n + 1 /\ t # 0
    <3>1. t \in 0 .. n /\ t - 1 \in 0 .. n + 1 /\ t - 1 # n + 1
      BY <2>2
    <3>. QED  BY <1>1, <2>2, <3>1
  <2>3. CASE t # n + 1 /\ t = 0
    BY <1>1, <2>3
  <2>. QED  BY <2>1, <2>2, <2>3
<1>3. q = [t \in 0 .. n + 1 |-> q[t]]
  OBVIOUS
<1>. HIDE DEF q
<1>4. q = [t \in 0 .. n + 1 |-> IF t = 0 THEN <<>> ELSE next(t, q[t - 1])]
  BY <1>2, <1>3
<1>. QED  BY <1>4 DEF Queue, next

LEMMA QueueAll ==
  ASSUME NEW s, NEW on
  PROVE  \A n \in Nat : \E q : Queue(s, on, n, q)
<1>. DEFINE T == {n \in Nat : ~ \E q : Queue(s, on, n, q)}
<1>. SUFFICES ASSUME T # {} PROVE FALSE
  OBVIOUS
<1>1. PICK n \in T : \A k \in T : n <= k
  BY LeastNat
<1>2. n # 0
  <2>1. Queue(s, on, 0, [t \in 0 .. 0 |-> <<>>])
    BY DEF Queue
  <2>. QED  BY <1>1, <2>1
<1>3. n - 1 \in Nat /\ n - 1 \notin T
  BY <1>1, <1>2
<1>4. PICK r : Queue(s, on, n - 1, r)
  BY <1>3
<1>5. \E q : Queue(s, on, (n - 1) + 1, q)
  BY <1>3, <1>4, QueueOneMore
<1>. QED  BY <1>1, <1>5

LEMMA Recovering ==
  ASSUME NEW s, NEW on
  PROVE  \E q : /\ q[0] = <<>> /\ Recover(s, on) = q[Cardinality(Turns)]
                /\ \A t \in 1 .. Cardinality(Turns) :
                     q[t] = IF Mine(s, on, t) THEN Remember(q[t - 1], Msgs[t]) ELSE q[t - 1]
<1>. DEFINE n == Cardinality(Turns)
            q == CHOOSE q : q = [t \in 0 .. n |->
                     IF t = 0 THEN <<>>
                     ELSE IF t \in DOMAIN on /\ Session[t] = s /\ t \notin SelfMade
                          THEN Remember(q[t - 1], Msgs[t]) ELSE q[t - 1]]
<1>1. n \in Nat
  BY TurnNumbers
<1>2. Recover(s, on) = q[n]
  BY DEF Recover
<1>3. Queue(s, on, n, q)
  BY <1>1, QueueAll DEF Queue
<1>. HIDE DEF q, n
<1>4. \A t \in 0 .. n : q[t] = IF t = 0 THEN <<>>
                               ELSE IF Mine(s, on, t) THEN Remember(q[t - 1], Msgs[t]) ELSE q[t - 1]
  BY <1>3 DEF Queue, Mine
<1>5. q[0] = <<>> /\ \A t \in 1 .. n : q[t] = IF Mine(s, on, t) THEN Remember(q[t - 1], Msgs[t])
                                               ELSE q[t - 1]
  BY <1>1, <1>4
<1>. QED  BY <1>2, <1>5 DEF n

LEMMA FlowsFiniteOf ==
  ASSUME NEW s, NEW on \in SUBSET Turns
  PROVE  IsFiniteSet({Msgs[t] : t \in {u \in on : Session[u] = s /\ u \notin SelfMade}})
<1>. DEFINE U == {u \in on : Session[u] = s /\ u \notin SelfMade}
            F == {Msgs[t] : t \in U}
            f == [t \in U |-> Msgs[t]]
<1>1. IsFiniteSet(U)
  <2>1. U \subseteq Turns
    OBVIOUS
  <2>. QED  BY <2>1, TurnNumbers, FS_Subset
<1>. HIDE DEF U
<1>2. f \in Surjection(U, F)
  BY DEF Surjection
<1>3. IsFiniteSet(F)
  BY <1>1, <1>2, FS_Surjection
<1>. QED  BY <1>3 DEF U, F

LEMMA FlowsAreFinite ==
  ASSUME NEW s, Stored \subseteq Turns
  PROVE  IsFiniteSet(Flows(s))
BY FlowsFiniteOf DEF Flows

\* A restart finds every flow that fits.
LEMMA RecoveredFlows ==
  ASSUME NEW s, Stored \subseteq Turns
  PROVE  /\ Recover(s, store) \in Seq(Flows(s))
         /\ Cardinality(Flows(s)) <= Slots =>
              Distinct(Recover(s, store)) /\ Flows(s) \subseteq Range(Recover(s, store))
<1>. DEFINE n == Cardinality(Turns)
            F == Flows(s)
            fits == Cardinality(F) <= Slots
<1>1. PICK q : /\ q[0] = <<>> /\ Recover(s, store) = q[n]
               /\ \A t \in 1 .. n :
                    q[t] = IF Mine(s, store, t) THEN Remember(q[t - 1], Msgs[t]) ELSE q[t - 1]
  BY Recovering
<1>2. n \in Nat /\ Turns = 1 .. n /\ IsFiniteSet(F)
  BY TurnNumbers, FlowsAreFinite
<1>3. \A t : Mine(s, store, t) => Msgs[t] \in F
  BY DEF Mine, Flows, Stored
<1>4. \A x \in F : \E t \in 1 .. n : Mine(s, store, t) /\ x = Msgs[t]
  BY <1>2 DEF Mine, Flows, Stored
<1>. HIDE DEF n, F
<1>. DEFINE Good(t) ==
        /\ q[t] \in Seq(F)
        /\ fits => /\ Distinct(q[t])
                   /\ \A u \in 1 .. t : Mine(s, store, u) => Msgs[u] \in Range(q[t])
            T == {t \in 0 .. n : ~Good(t)}
<1>5. Good(0)
  BY <1>1 DEF Distinct
<1>6. ASSUME NEW t \in 1 .. n, Good(t - 1) PROVE Good(t)
  <2>1. \A u \in 1 .. t : u \in 1 .. t - 1 \/ u = t
    BY <1>2
  <2>2. CASE Mine(s, store, t)
    <3>1. q[t] = Remember(q[t - 1], Msgs[t]) /\ Msgs[t] \in F /\ q[t - 1] \in Seq(F)
      BY <1>1, <1>3, <1>6, <2>2
    <3>2. q[t] \in Seq(F)
      BY <3>1, Remembered
    <3>3. ASSUME fits PROVE Distinct(q[t]) /\ Range(q[t]) = Range(q[t - 1]) \cup {Msgs[t]}
      BY <1>2, <1>6, <3>1, <3>3, Remembered
    <3>. HIDE DEF fits
    <3>. QED  BY <1>6, <2>1, <3>2, <3>3
  <2>3. CASE ~Mine(s, store, t)
    <3>1. q[t] = q[t - 1]
      BY <1>1, <2>3
    <3>. QED  BY <1>6, <2>1, <2>3, <3>1
  <2>. QED  BY <2>2, <2>3
<1>. HIDE DEF Good, fits
<1>7. T = {}
  <2>. SUFFICES ASSUME T # {} PROVE FALSE
    OBVIOUS
  <2>1. T \subseteq Nat
    BY <1>2
  <2>2. PICK t \in T : \A k \in T : t <= k
    BY <2>1, LeastNat
  <2>3. t # 0
    BY <1>5, <2>2
  <2>4. t \in 1 .. n /\ t - 1 \in 0 .. n /\ t - 1 \notin T
    BY <1>2, <2>2, <2>3
  <2>. QED  BY <1>6, <2>2, <2>4
<1>8. Good(n)
  BY <1>2, <1>7
<1>9. fits => F \subseteq Range(q[n])
  BY <1>4, <1>8 DEF Good
<1>. QED  BY <1>1, <1>8, <1>9 DEF Good, fits, F

-----------------------------------------------------------------------------
(* The candidates stay in order. *)

\* What is not touched of a session stays orderly.
LEMMA Undisturbed ==
  ASSUME NEW s, Orderly(s), slots'[s] = slots[s],
         \A th \in Putters :
            /\ Remembering(th, s)' <=> Remembering(th, s)
            /\ Remembering(th, s) => put'[th].pc = put[th].pc /\ put'[th].turn = put[th].turn,
         \A t \in finished' \ SelfMade : Session[t] = s => t \in finished
  PROVE  Orderly(s)'
<1>1. Distinct(slots[s])' /\ RememberingOne(s)'
  BY DEF Orderly, Distinct, RememberingOne
<1>2. SeekingHolds(s)'
  BY DEF Orderly, SeekingHolds
<1>3. ASSUME NEW t \in (finished \ SelfMade)', Session[t] = s PROVE Kept(t, s)'
  <2>1. Kept(t, s)
    BY <1>3 DEF Orderly
  <2>2. \A th \in Putters : put[th].pc = "append" /\ Session[put[th].turn] = s => Remembering(th, s)
    BY DEF Remembering
  <2>. QED  BY <2>1, <2>2 DEF Kept
<1>. QED  BY <1>1, <1>2, <1>3 DEF Orderly

\* The turns of the store only grow, and with them the flows.
LEMMA FlowsGrow ==
  ASSUME Typed, Typed', Stored \subseteq Stored', NEW s
  PROVE  /\ Flows(s) \subseteq Flows(s)'
         /\ Cardinality(Flows(s)') <= Slots => Cardinality(Flows(s)) <= Slots
<1>1. Flows(s) \subseteq Flows(s)'
  BY DEF Flows
<1>2. IsFiniteSet(Flows(s)')
  <2>1. (Stored \subseteq Turns)'
    BY DEF Typed
  <2>. QED  BY <2>1, FlowsFiniteOf DEF Flows
<1>. DEFINE F == Flows(s)  G == Flows(s)'
<1>3. F \subseteq G /\ IsFiniteSet(G)
  BY <1>1, <1>2
<1>. HIDE DEF F, G
<1>4. Cardinality(F) <= Cardinality(G) /\ Cardinality(F) \in Nat /\ Cardinality(G) \in Nat
  BY <1>3, FS_Subset, FS_CardinalityType
<1>. QED  BY <1>1, <1>4, HubAssumption DEF F, G, HubAssumption

\* The steps of a put that leave the candidates and the remembering threads alone.
Quiet(th) ==
    \/ \E t \in Turns : Begin(th, t)
    \/ CheckBody(th) \/ StoreBody(th) \/ Detect(th) \/ Detected(th) \/ MutatedDeque(th)
    \/ Write(th) \/ Note(th)

LEMMA QuietSteps ==
  ASSUME Typed, NEW th \in Putters, Quiet(th)
  PROVE  /\ PutStep(th) /\ UNCHANGED <<slots, shaken>> /\ Stored \subseteq Stored'
         /\ put[th].pc \notin {"remove", "append"} /\ put'[th].pc \notin {"remove", "append"}
         /\ finished' \ SelfMade \subseteq finished
         /\ IsNoted(put'[th]) => put'[th].turn \notin SelfMade
<1>1. PutStep(th)
  BY DEF Quiet, PutStep
<1>2. UNCHANGED <<slots, shaken>> /\ put[th].pc \notin {"remove", "append"}
  BY DEF Quiet, Begin, CheckBody, StoreBody, Detect, Detected, MutatedDeque, Write, Note, history
<1>3. IsPut(put[th]) /\ put = [o \in Putters |-> put[o]]
  BY DEF Typed
<1>4. Stored \subseteq Stored'
  BY DEF Quiet, Begin, CheckBody, StoreBody, Detect, Detected, MutatedDeque, Write, Note, disk, Stored
<1>5. CASE Note(th)
  <2>1. put'[th].pc = "idle" \/ (put'[th].pc = "remember" /\ put'[th].turn = put[th].turn
                                  /\ put[th].turn \notin SelfMade)
    BY <1>3, <1>5 DEF Note, Idle, IsPut
  <2>2. finished' \ SelfMade \subseteq finished
    BY <1>5 DEF Note
  <2>. QED  BY <1>1, <1>2, <1>4, <2>1, <2>2 DEF IsNoted
<1>6. CASE ~Note(th)
  <2>1. put[th].pc # "note" /\ ~IsNoted(put[th])
    BY <1>6 DEF Quiet, Begin, CheckBody, StoreBody, Detect, Detected, MutatedDeque, Write, IsNoted
  <2>2. ~IsNoted(put'[th])
    BY <1>1, <2>1, Unnoted
  <2>3. UNCHANGED finished
    BY <1>6 DEF Quiet, Begin, CheckBody, StoreBody, Detect, Detected, MutatedDeque, Write, history
  <2>. QED  BY <1>1, <1>2, <1>4, <2>2, <2>3 DEF IsNoted
<1>. QED  BY <1>5, <1>6

\* The steps that remember, and what they have in common.
LEMMA NoisySteps ==
  ASSUME Typed, IndexHolds, QueuesHold, NEW th \in Putters,
         SeekEntry(th) \/ RemoveEntry(th) \/ AppendEntry(th)
  PROVE  /\ PutStep(th) /\ Stored' = Stored /\ \A s : Flows(s)' = Flows(s)
         /\ IsNoted(put[th]) /\ put[th].turn \in Turns /\ put[th].turn \notin SelfMade
         /\ Session[put[th].turn] \in Sessions
         /\ Msgs[put[th].turn] \in Flows(Session[put[th].turn])
         /\ put'[th].pc # "idle" => put'[th].turn = put[th].turn
         /\ slots' = [s \in Sessions |-> slots'[s]]
         /\ \A s \in Sessions \ {Session[put[th].turn]} : slots'[s] = slots[s]
         /\ finished' \subseteq finished \cup {put[th].turn} /\ shaken \subseteq shaken'
<1>. USE DEF QueuesHold
<1>1. PutStep(th)
  BY DEF PutStep
<1>2. Stored' = Stored
  BY DEF SeekEntry, RemoveEntry, AppendEntry, disk, Stored
<1>3. \A s : Flows(s)' = Flows(s)
  BY <1>2 DEF Flows
<1>4. IsNoted(put[th]) /\ put[th].pc # "idle"
  BY DEF SeekEntry, RemoveEntry, AppendEntry, IsNoted
<1>5. put[th].turn \in Stored /\ put[th].turn \in Turns /\ put[th].turn \notin SelfMade
  BY <1>4 DEF IndexHolds, Typed
<1>6. Session[put[th].turn] \in Sessions /\ Msgs[put[th].turn] \in Flows(Session[put[th].turn])
  BY <1>5 DEF Sessions, Flows
<1>7. put'[th].pc # "idle" => put'[th].turn = put[th].turn
  BY <1>1, <1>4, Course
<1>8. /\ slots' = [s \in Sessions |-> slots'[s]]
      /\ \A s \in Sessions \ {Session[put[th].turn]} : slots'[s] = slots[s]
  BY <1>6 DEF SeekEntry, RemoveEntry, AppendEntry
<1>9. finished' \subseteq finished \cup {put[th].turn} /\ shaken \subseteq shaken'
  BY DEF SeekEntry, RemoveEntry, AppendEntry, history
<1>. QED  BY <1>1, <1>2, <1>3, <1>4, <1>5, <1>6, <1>7, <1>8, <1>9

\* A thread that remembers elsewhere does not disturb a session.
LEMMA ElsewhereOrderly ==
  ASSUME Typed, IndexHolds, QueuesHold, NEW th \in Putters,
         SeekEntry(th) \/ RemoveEntry(th) \/ AppendEntry(th),
         NEW s \in Sessions, s # Session[put[th].turn], Orderly(s)
  PROVE  Orderly(s)'
<1>1. /\ PutStep(th)
      /\ put'[th].pc # "idle" => put'[th].turn = put[th].turn
      /\ slots'[s] = slots[s] /\ finished' \subseteq finished \cup {put[th].turn}
  BY NoisySteps
<1>2. \A o \in Putters \ {th} : put'[o] = put[o]
  BY <1>1, OnePut
<1>3. ~Remembering(th, s) /\ ~Remembering(th, s)'
  BY <1>1 DEF Remembering
<1>4. \A o \in Putters :
         /\ Remembering(o, s)' <=> Remembering(o, s)
         /\ Remembering(o, s) => put'[o].pc = put[o].pc /\ put'[o].turn = put[o].turn
  BY <1>2, <1>3 DEF Remembering
<1>5. \A t \in finished' \ SelfMade : Session[t] = s => t \in finished
  BY <1>1
<1>. QED  BY <1>1, <1>4, <1>5, Undisturbed

\* _remember_prefix looks for the prefix: nobody else is in there, or the session is shaken.
LEMMA SeekOrderly ==
  ASSUME Typed, IndexHolds, QueuesHold, NEW th \in Putters, SeekEntry(th),
         NEW s \in Sessions, s = Session[put[th].turn], s \notin shaken', Orderly(s)
  PROVE  Orderly(s)'
<1>1. PutStep(th) /\ UNCHANGED <<slots, finished>> /\ put[th].pc = "remember"
  BY DEF PutStep, SeekEntry
<1>2. \A o \in Putters \ {th} : put'[o] = put[o]
  BY <1>1, OnePut
<1>3. \A o \in Putters \ {th} : ~Remembering(o, s)
  BY DEF SeekEntry, Clash
<1>4. ~Remembering(th, s)
  BY <1>1 DEF Remembering
<1>5. /\ put'[th].turn = put[th].turn
      /\ put'[th].pc = IF Msgs[put[th].turn] \in Range(slots[s]) THEN "remove" ELSE "append"
  BY DEF SeekEntry, Typed, IsPut
<1>6. \A o \in Putters : Remembering(o, s)' => o = th
  BY <1>2, <1>3 DEF Remembering
<1>7. RememberingOne(s)'
  BY <1>6 DEF RememberingOne
<1>8. SeekingHolds(s)'
  BY <1>1, <1>5, <1>6 DEF SeekingHolds
<1>9. ASSUME NEW t \in (finished \ SelfMade)', Session[t] = s PROVE Kept(t, s)'
  <2>1. Kept(t, s)
    BY <1>1, <1>9 DEF Orderly
  <2>2. \A o \in Putters : ~(put[o].pc = "append" /\ Session[put[o].turn] = s)
    BY <1>3, <1>4 DEF Remembering
  <2>. QED  BY <1>1, <2>1, <2>2 DEF Kept
<1>10. Distinct(slots[s])'
  BY <1>1 DEF Orderly, Distinct
<1>. QED  BY <1>7, <1>8, <1>9, <1>10 DEF Orderly

\* slots.remove: the prefix is there, and the thread goes on to append it.
LEMMA RemoveOrderly ==
  ASSUME Typed, IndexHolds, QueuesHold, NEW th \in Putters, RemoveEntry(th),
         NEW s \in Sessions, s = Session[put[th].turn], Orderly(s)
  PROVE  Orderly(s)'
<1>. DEFINE p == Msgs[put[th].turn]
<1>1. PutStep(th) /\ UNCHANGED finished /\ put[th].pc = "remove" /\ Remembering(th, s)
  BY DEF PutStep, RemoveEntry, history, Remembering
<1>2. \A o \in Putters \ {th} : put'[o] = put[o]
  BY <1>1, OnePut
<1>3. \A o \in Putters \ {th} : ~Remembering(o, s)
  BY <1>1 DEF Orderly, RememberingOne
<1>4. p \in Range(slots[s])
  BY <1>1 DEF Orderly, SeekingHolds
<1>5. slots'[s] = Without(slots[s], p)
  BY <1>4 DEF RemoveEntry, QueuesHold
<1>6. put'[th].pc = "append" /\ put'[th].turn = put[th].turn
  BY <1>4 DEF RemoveEntry, Typed, IsPut
<1>7. slots[s] \in Seq(Flows(s)) /\ Distinct(slots[s])
  BY DEF QueuesHold, Orderly
<1>8. Distinct(slots'[s]) /\ Range(slots'[s]) = Range(slots[s]) \ {p}
  BY <1>5, <1>7, WithoutEntry
<1>9. \A o \in Putters : Remembering(o, s)' => o = th
  BY <1>2, <1>3 DEF Remembering
<1>10. RememberingOne(s)'
  BY <1>9 DEF RememberingOne
<1>11. SeekingHolds(s)'
  BY <1>6, <1>8, <1>9 DEF SeekingHolds
<1>12. ASSUME NEW t \in (finished \ SelfMade)', Session[t] = s PROVE Kept(t, s)'
  <2>1. Kept(t, s)
    BY <1>1, <1>12 DEF Orderly
  <2>2. \A o \in Putters : ~(put[o].pc = "append" /\ Session[put[o].turn] = s)
    BY <1>1, <1>3 DEF Remembering
  <2>3. Msgs[t] \in Range(slots[s])
    BY <2>1, <2>2 DEF Kept
  <2>4. CASE Msgs[t] = p
    BY <1>6, <2>4 DEF Kept
  <2>5. CASE Msgs[t] # p
    BY <1>8, <2>3, <2>5 DEF Kept
  <2>. QED  BY <2>4, <2>5
<1>13. Distinct(slots[s])'
  BY <1>8 DEF Distinct
<1>. QED  BY <1>10, <1>11, <1>12, <1>13 DEF Orderly

\* slots.append: the prefix is not there, and since all flows fit none falls out.
LEMMA AppendOrderly ==
  ASSUME Typed, IndexHolds, QueuesHold, NEW th \in Putters, AppendEntry(th),
         NEW s \in Sessions, s = Session[put[th].turn], Orderly(s), Cardinality(Flows(s)) <= Slots
  PROVE  Orderly(s)'
<1>. DEFINE p == Msgs[put[th].turn]
<1>1. PutStep(th) /\ finished' = finished \cup {put[th].turn} /\ put[th].pc = "append"
      /\ Remembering(th, s)
  BY DEF PutStep, AppendEntry, Remembering
<1>2. \A o \in Putters \ {th} : put'[o] = put[o]
  BY <1>1, OnePut
<1>3. \A o \in Putters \ {th} : ~Remembering(o, s)
  BY <1>1 DEF Orderly, RememberingOne
<1>4. p \notin Range(slots[s])
  BY <1>1 DEF Orderly, SeekingHolds
<1>5. slots'[s] = LastSlots(Append(slots[s], p))
  BY DEF AppendEntry, QueuesHold
<1>6. put'[th].pc = "idle"
  BY DEF AppendEntry, Typed, Idle
<1>7. slots[s] \in Seq(Flows(s)) /\ Distinct(slots[s]) /\ p \in Flows(s) /\ IsFiniteSet(Flows(s))
  <2>1. p \in Flows(s)
    BY NoisySteps
  <2>2. IsFiniteSet(Flows(s))
    BY FlowsAreFinite DEF Typed
  <2>. QED  BY <2>1, <2>2 DEF QueuesHold, Orderly
<1>8. Distinct(slots'[s]) /\ Range(slots'[s]) = Range(slots[s]) \cup {p}
  BY <1>4, <1>5, <1>7, Pushing
<1>9. \A o \in Putters : ~Remembering(o, s)'
  BY <1>2, <1>3, <1>6 DEF Remembering
<1>10. RememberingOne(s)' /\ SeekingHolds(s)'
  BY <1>9 DEF RememberingOne, SeekingHolds
<1>11. ASSUME NEW t \in (finished \ SelfMade)', Session[t] = s PROVE Kept(t, s)'
  <2>1. CASE t = put[th].turn
    BY <1>8, <2>1 DEF Kept
  <2>2. CASE t # put[th].turn
    <3>1. Kept(t, s)
      BY <1>1, <1>11, <2>2 DEF Orderly
    <3>2. \A o \in Putters : put[o].pc = "append" /\ Session[put[o].turn] = s => o = th
      BY <1>3 DEF Remembering
    <3>. QED  BY <1>8, <3>1, <3>2 DEF Kept
  <2>. QED  BY <2>1, <2>2
<1>12. Distinct(slots[s])'
  BY <1>8 DEF Distinct
<1>. QED  BY <1>10, <1>11, <1>12 DEF Orderly

\* What a queue holds are flows of its session.
LEMMA NoisyQueues ==
  ASSUME Typed, IndexHolds, QueuesHold, NEW th \in Putters,
         SeekEntry(th) \/ RemoveEntry(th) \/ AppendEntry(th), NEW s \in Sessions
  PROVE  slots'[s] \in Seq(Flows(s))
<1>. DEFINE p == Msgs[put[th].turn]
<1>1. slots[s] \in Seq(Flows(s))
  BY DEF QueuesHold
<1>2. \A u \in Sessions \ {Session[put[th].turn]} : slots'[u] = slots[u]
  BY NoisySteps
<1>3. CASE s # Session[put[th].turn]
  BY <1>1, <1>2, <1>3
<1>4. CASE s = Session[put[th].turn]
  <2>1. p \in Flows(s)
    BY <1>4, NoisySteps
  <2>2. \/ slots'[s] = slots[s]
        \/ slots'[s] = Without(slots[s], p)
        \/ slots'[s] = LastSlots(Append(slots[s], p))
    BY <1>4 DEF SeekEntry, RemoveEntry, AppendEntry, QueuesHold
  <2>3. Without(slots[s], p) \in Seq(Flows(s))
    BY <1>1, WithoutEntry
  <2>4. LastSlots(Append(slots[s], p)) \in Seq(Flows(s))
    BY <1>1, <2>1, Pushing
  <2>. QED  BY <1>1, <2>2, <2>3, <2>4
<1>. QED  BY <1>3, <1>4

LEMMA QueuesStutter ==
  ASSUME QueuesHold, UNCHANGED <<store, slots, put, finished, shaken>>
  PROVE  QueuesHold'
<1>1. \A s : Flows(s)' = Flows(s)
  BY DEF Flows, Stored
<1>2. ASSUME NEW s \in Sessions, Orderly(s) PROVE Orderly(s)'
  BY <1>2, Undisturbed DEF Remembering
<1>. QED  BY <1>1, <1>2 DEF QueuesHold

\* The candidates of all sessions: every step but those of _remember_prefix and a
\* restart leaves them alone.
LEMMA QueuesStep == Typed /\ IndexHolds /\ Typed' /\ QueuesHold /\ Next => QueuesHold'
<1>. SUFFICES ASSUME Typed, IndexHolds, Typed', QueuesHold, Next PROVE QueuesHold'
  OBVIOUS
<1>1. ASSUME NEW th \in Putters, Quiet(th) PROVE QueuesHold'
  <2>1. /\ PutStep(th) /\ UNCHANGED <<slots, shaken>> /\ Stored \subseteq Stored'
        /\ put[th].pc \notin {"remove", "append"} /\ put'[th].pc \notin {"remove", "append"}
        /\ finished' \ SelfMade \subseteq finished
        /\ IsNoted(put'[th]) => put'[th].turn \notin SelfMade
    BY <1>1, QuietSteps
  <2>2. \A o \in Putters \ {th} : put'[o] = put[o]
    BY <2>1, OnePut
  <2>3. ASSUME NEW s \in Sessions PROVE slots'[s] \in Seq(Flows(s)')
    <3>1. slots[s] \in Seq(Flows(s)) /\ Flows(s) \subseteq Flows(s)'
      BY <2>1, FlowsGrow DEF QueuesHold
    <3>. QED  BY <2>1, <3>1
  <2>4. \A o \in Putters : IsNoted(put'[o]) => put'[o].turn \notin SelfMade
    BY <2>1, <2>2 DEF QueuesHold
  <2>5. ASSUME NEW s \in Sessions, Cardinality(Flows(s)') <= Slots, s \notin shaken'
        PROVE  Orderly(s)'
    <3>1. Orderly(s)
      BY <2>1, <2>5, FlowsGrow DEF QueuesHold
    <3>2. \A o \in Putters :
            /\ Remembering(o, s)' <=> Remembering(o, s)
            /\ Remembering(o, s) => put'[o].pc = put[o].pc /\ put'[o].turn = put[o].turn
      BY <2>1, <2>2 DEF Remembering
    <3>3. slots'[s] = slots[s] /\ \A t \in finished' \ SelfMade : Session[t] = s => t \in finished
      BY <2>1
    <3>. QED  BY <3>1, <3>2, <3>3, Undisturbed
  <2>6. (slots = [s \in Sessions |-> slots[s]])'
    BY <2>1 DEF QueuesHold
  <2>. QED  BY <2>3, <2>4, <2>5, <2>6 DEF QueuesHold
<1>2. ASSUME NEW th \in Putters, SeekEntry(th) \/ RemoveEntry(th) \/ AppendEntry(th)
      PROVE  QueuesHold'
  <2>1. /\ PutStep(th) /\ \A s : Flows(s)' = Flows(s)
        /\ put[th].turn \notin SelfMade
        /\ put'[th].pc # "idle" => put'[th].turn = put[th].turn
        /\ slots' = [s \in Sessions |-> slots'[s]] /\ shaken \subseteq shaken'
    BY <1>2, NoisySteps
  <2>2. \A o \in Putters \ {th} : put'[o] = put[o]
    BY <2>1, OnePut
  <2>3. \A s \in Sessions : slots'[s] \in Seq(Flows(s)')
    BY <1>2, <2>1, NoisyQueues
  <2>4. \A o \in Putters : IsNoted(put'[o]) => put'[o].turn \notin SelfMade
    BY <2>1, <2>2 DEF QueuesHold, IsNoted
  <2>5. ASSUME NEW s \in Sessions, Cardinality(Flows(s)') <= Slots, s \notin shaken'
        PROVE  Orderly(s)'
    <3>1. Cardinality(Flows(s)) <= Slots
      BY <2>1, <2>5
    <3>2. Orderly(s)
      BY <2>1, <2>5, <3>1 DEF QueuesHold
    <3>3. CASE s # Session[put[th].turn]
      BY <1>2, <3>2, <3>3, ElsewhereOrderly
    <3>4. CASE s = Session[put[th].turn]
      BY <1>2, <2>5, <3>1, <3>2, <3>4, SeekOrderly, RemoveOrderly, AppendOrderly
    <3>. QED  BY <3>3, <3>4
  <2>. QED  BY <2>1, <2>3, <2>4, <2>5 DEF QueuesHold
<1>3. CASE Restart
  <2>1. /\ slots' = [s \in Sessions |-> Recover(s, store)] /\ UNCHANGED <<store, finished>>
        /\ shaken' = {} /\ \A th \in Putters : put'[th] = Idle
    BY <1>3 DEF Restart, disk
  <2>2. Stored' = Stored /\ \A s : Flows(s)' = Flows(s)
    BY <2>1 DEF Flows, Stored
  <2>3. ASSUME NEW s \in Sessions
        PROVE  /\ slots'[s] \in Seq(Flows(s)')
               /\ Cardinality(Flows(s)) <= Slots =>
                     Distinct(slots'[s]) /\ Flows(s) \subseteq Range(slots'[s])
    <3>1. Stored \subseteq Turns
      BY DEF Typed
    <3>. QED  BY <2>1, <2>2, <3>1, RecoveredFlows
  <2>4. \A th \in Putters : put'[th].pc = "idle"
    BY <2>1 DEF Idle
  <2>5. ASSUME NEW s \in Sessions, Cardinality(Flows(s)') <= Slots PROVE Orderly(s)'
    <3>1. Distinct(slots'[s]) /\ Flows(s) \subseteq Range(slots'[s])
      BY <2>2, <2>3, <2>5
    <3>2. Distinct(slots[s])' /\ RememberingOne(s)' /\ SeekingHolds(s)'
      BY <2>4, <3>1 DEF Distinct, RememberingOne, SeekingHolds, Remembering
    <3>3. \A t \in finished \ SelfMade : Session[t] = s => Msgs[t] \in Flows(s)
      BY DEF Typed, Flows
    <3>. QED  BY <2>1, <3>1, <3>2, <3>3 DEF Orderly, Kept
  <2>6. (slots = [s \in Sessions |-> slots[s]])'
    BY <2>1
  <2>. QED  BY <2>3, <2>4, <2>5, <2>6 DEF QueuesHold, IsNoted
<1>4. ASSUME NEW r \in Readers, ReadStep(r) PROVE QueuesHold'
  BY <1>4, QueuesStutter DEF ReadStep, StartRead, ScanTurns, Merge, AskCache, AssignCache, UseCache, Page,
     disk, history
<1>5. CASE (\E t \in Turns : AppendTombstone(t)) \/ DropCache
  BY <1>5, QueuesStutter DEF AppendTombstone, DropCache, disk
<1>. QED  BY <1>1, <1>2, <1>3, <1>4, <1>5 DEF Next, PutStep, Quiet

-----------------------------------------------------------------------------
(* The theorems. *)

LEMMA InvInit == Init => IInv
<1>. SUFFICES ASSUME Init PROVE IInv
  OBVIOUS
<1>. USE DEF Init
<1>1. Typed
  <2>1. Stored = {}
    BY DEF Stored
  <2>2. put = [th \in Putters |-> put[th]] /\ \A th \in Putters : IsPut(put[th])
    BY DEF IsPut, Idle, PutSteps
  <2>3. Resting \in Reads /\ Unbuilt \in Indexes
    BY DEF Resting, Reads, ReadSteps, Unbuilt, Indexes
  <2>. QED  BY <2>1, <2>2, <2>3 DEF Typed
<1>2. RefsResolve /\ PendingResolve
  BY DEF RefsResolve, PendingResolve, Stored, Idle
<1>3. IndexHolds
  BY DEF IndexHolds, Settled, IsNoted, Building, Idle, Resting, Unbuilt
<1>4. ReadsHold /\ CacheMissesOnlyRaced /\ AnswersAreCurrent
  BY DEF ReadsHold, CacheMissesOnlyRaced, AnswersAreCurrent, Resting
<1>5. QueuesHold
  <2>1. \A s \in Sessions : Orderly(s)
    BY DEF Orderly, Distinct, RememberingOne, SeekingHolds, Remembering, Idle
  <2>. QED  BY <2>1 DEF QueuesHold, IsNoted, Idle
<1>. QED  BY <1>1, <1>2, <1>3, <1>4, <1>5 DEF IInv

LEMMA InvStep == IInv /\ [Next]_vars => IInv'
<1>1. IInv /\ Next => IInv'
  BY TypedStep, ResolveStep, IndexStep, ReadsStep, AnswersStep, QueuesStep DEF IInv
<1>2. ASSUME IInv, UNCHANGED vars PROVE IInv'
  <2>1. Typed' /\ RefsResolve' /\ PendingResolve' /\ IndexHolds' /\ ReadsHold'
        /\ CacheMissesOnlyRaced' /\ AnswersAreCurrent'
    BY <1>2 DEF IInv, vars, disk, history, Typed, RefsResolve, PendingResolve, RefsAre, IndexHolds,
       Settled, Building, Stored, ReadsHold, CacheMissesOnlyRaced, AnswersAreCurrent
  <2>2. QueuesHold'
    BY <1>2, QueuesStutter DEF IInv, vars, disk, history
  <2>. QED  BY <2>1, <2>2 DEF IInv
<1>. QED  BY <1>1, <1>2

LEMMA HubInvariant == Spec => []IInv
  BY InvInit, InvStep, PTL DEF Spec

\* A turn read back is whole (RefsResolve), however many threads deduplicate at
\* once, whichever turns share their messages, wherever the process dies.
THEOREM TurnsAreWhole == Spec => []RefsResolve
<1>1. IInv => RefsResolve
  BY DEF IInv
<1>. QED  BY <1>1, HubInvariant, PTL

\* The paged answers of the Hub agree with its store (AnswersAreCurrent), for any
\* number of readers, putters and deletions.
THEOREM HubAnswers == Spec => []AnswersAreCurrent
<1>1. IInv => AnswersAreCurrent
  BY DEF IInv
<1>. QED  BY <1>1, HubInvariant, PTL

\* The cached tombstones miss a deletion only by the race of CacheMissesOnlyRaced.
THEOREM CacheRace == Spec => []CacheMissesOnlyRaced
<1>1. IInv => CacheMissesOnlyRaced
  BY DEF IInv
<1>. QED  BY <1>1, HubInvariant, PTL

\* While a session's histories fit in its slots no finished turn drops out of the
\* candidates (CandidatesKept), for any number of threads, slots, sessions and turns,
\* and whenever the process restarts.
THEOREM CandidatesStay == Spec => []CandidatesKept
<1>1. IInv => CandidatesKept
  <2>. SUFFICES ASSUME IInv, NEW t \in finished \ SelfMade,
                       Cardinality(Flows(Session[t])) <= Slots, Session[t] \notin shaken
                PROVE  Kept(t, Session[t])
    <3>1. Slots \in Nat /\ \A s : Stored \subseteq Turns => Cardinality(Flows(s)) \in Nat
      BY FlowsAreFinite, FS_CardinalityType, HubAssumption DEF HubAssumption
    <3>2. IInv => Stored \subseteq Turns
      BY DEF IInv, Typed
    <3>. QED  BY <3>1, <3>2 DEF CandidatesKept, Kept
  <2>1. t \in Turns
    BY DEF IInv, Typed
  <2>2. Session[t] \in Sessions
    BY <2>1 DEF Sessions
  <2>. QED  BY <2>2 DEF IInv, QueuesHold, Orderly
<1>. QED  BY <1>1, HubInvariant, PTL

-----------------------------------------------------------------------------
(***************************************************************************)
(* LedgerPool.  The history is read event by event: SoFar says what holds  *)
(* of the replay after each.  Agree relates a history to a pool and a      *)
(* table; an event that is appended keeps it (Hearing), one that is lost   *)
(* puts what it is about among the unsaved (Missing), a deletion makes the *)
(* replay pass over all that was said of the ledger before (Deleting).     *)
(* The handlers are made of such events (PerformOne, Two, Three), and      *)
(* whatever fails of them they keep the invariant, LedgerInv.              *)
(***************************************************************************)

\* Ledgers and the events about them.
Ledger == [rev : Nat, status : {"active", "closed"}, parent : Ledgers \cup {None},
           succ : Ledgers \cup {None}, by : Scopes \cup {None, "user"},
           entries : Seq([n : Nat, ref : Ledgers \cup {None}])]

Events ==
    [op : Dumps, scope : Scopes \cup {None}, ledger : Ledgers, led : Ledger]
    \cup [op : {"switch"}, scope : Scopes, sess : SessionIds, ledger : Ledgers]
    \cup [op : {"close"}, ledger : Ledgers, succ : Ledgers \cup {None}]
    \cup [op : {"reopen", "tomb"}, ledger : Ledgers]

\* What is in an event.
LEMMA EventFacts ==
  ASSUME NEW e \in Events
  PROVE  /\ e.op \in Dumps \cup {"switch", "close", "reopen", "tomb"} /\ e.ledger \in Ledgers
         /\ e.op = "switch" => e.scope \in Scopes /\ e.sess \in SessionIds
         /\ e.op \in Dumps => e.led \in Ledger /\ e.scope \in Scopes \cup {None}
BY DEF Events, Dumps

-----------------------------------------------------------------------------
(* The two readings of the history, event by event. *)

\* st is the function that Replay defines, up to n.
Told(h, n, st) ==
    st = [i \in 0 .. n |-> IF i = 0 THEN Empty ELSE ReplayStep(h, st[i-1], i)]

\* The function that the replay defines exists, state by state.
LEMMA ToldOneMore ==
  ASSUME NEW h, NEW n \in Nat, NEW r, Told(h, n, r)
  PROVE  \E st : Told(h, n + 1, st)
<1>. DEFINE next(x, i) == ReplayStep(h, x, i)
            st == [i \in 0 .. n + 1 |-> IF i = n + 1 THEN next(r[n], n + 1) ELSE r[i]]
<1>1. \A i \in 0 .. n : r[i] = IF i = 0 THEN Empty ELSE next(r[i-1], i)
  BY DEF Told
<1>. HIDE DEF next
<1>2. \A i \in 0 .. n + 1 : st[i] = IF i = 0 THEN Empty ELSE next(st[i-1], i)
  <2>. TAKE i \in 0 .. n + 1
  <2>1. CASE i = n + 1
    <3>1. i # 0 /\ i - 1 = n /\ n # n + 1 /\ n \in 0 .. n + 1
      BY <2>1
    <3>. QED  BY <2>1, <3>1
  <2>2. CASE i # n + 1 /\ i # 0
    <3>1. i \in 0 .. n /\ i - 1 \in 0 .. n + 1 /\ i - 1 # n + 1
      BY <2>2
    <3>. QED  BY <1>1, <2>2, <3>1
  <2>3. CASE i # n + 1 /\ i = 0
    BY <1>1, <2>3
  <2>. QED  BY <2>1, <2>2, <2>3
<1>3. st = [i \in 0 .. n + 1 |-> st[i]]
  OBVIOUS
<1>. HIDE DEF st
<1>4. st = [i \in 0 .. n + 1 |-> IF i = 0 THEN Empty ELSE next(st[i-1], i)]
  BY <1>2, <1>3
<1>. QED  BY <1>4 DEF Told, next

LEMMA ToldAll ==
  ASSUME NEW h
  PROVE  \A n \in Nat : \E st : Told(h, n, st)
<1>. DEFINE T == {n \in Nat : ~ \E st : Told(h, n, st)}
<1>. SUFFICES ASSUME T # {} PROVE FALSE
  OBVIOUS
<1>1. PICK n \in T : \A k \in T : n <= k
  BY LeastNat
<1>2. n # 0
  <2>1. Told(h, 0, [i \in 0 .. 0 |-> Empty])
    BY DEF Told
  <2>. QED  BY <1>1, <2>1
<1>3. n - 1 \in Nat /\ n - 1 \notin T
  BY <1>1, <1>2
<1>4. PICK r : Told(h, n - 1, r)
  BY <1>3
<1>5. \E st : Told(h, (n - 1) + 1, st)
  BY <1>3, <1>4, ToldOneMore
<1>. QED  BY <1>1, <1>5

\* The states that the replay goes through.
Path(h, st) ==
    st[0] = Empty /\ \A i \in 1 .. Len(h) : st[i] = ReplayStep(h, st[i-1], i)

\* The replay is the last state of such a path.
LEMMA Replaying ==
  ASSUME NEW h, Len(h) \in Nat
  PROVE  \E st : Path(h, st) /\ Replay(h) = st[Len(h)]
<1>. DEFINE n == Len(h)
            st == CHOOSE st : st = [i \in 0 .. n |->
                     IF i = 0 THEN Empty ELSE ReplayStep(h, st[i-1], i)]
<1>1. Replay(h) = st[n]
  BY DEF Replay
<1>2. Told(h, n, st)
  BY ToldAll DEF Told
<1>. HIDE DEF st, n
<1>3. \A i \in 0 .. n : st[i] = IF i = 0 THEN Empty ELSE ReplayStep(h, st[i-1], i)
  BY <1>2 DEF Told
<1>4. st[0] = Empty /\ \A i \in 1 .. n : st[i] = ReplayStep(h, st[i-1], i)
  BY <1>3 DEF n
<1>. QED  BY <1>1, <1>4 DEF n, Path

\* at is the function that Anchor defines, up to n.
Shown(h, s, n, at) ==
    at = [i \in 0 .. n |-> IF i = 0 THEN None ELSE AnchorStep(h, s, at[i-1], i)]

\* The same for the timeline.
LEMMA ShownOneMore ==
  ASSUME NEW h, NEW s, NEW n \in Nat, NEW r, Shown(h, s, n, r)
  PROVE  \E at : Shown(h, s, n + 1, at)
<1>. DEFINE next(x, i) == AnchorStep(h, s, x, i)
            at == [i \in 0 .. n + 1 |-> IF i = n + 1 THEN next(r[n], n + 1) ELSE r[i]]
<1>1. \A i \in 0 .. n : r[i] = IF i = 0 THEN None ELSE next(r[i-1], i)
  BY DEF Shown
<1>. HIDE DEF next
<1>2. \A i \in 0 .. n + 1 : at[i] = IF i = 0 THEN None ELSE next(at[i-1], i)
  <2>. TAKE i \in 0 .. n + 1
  <2>1. CASE i = n + 1
    <3>1. i # 0 /\ i - 1 = n /\ n # n + 1 /\ n \in 0 .. n + 1
      BY <2>1
    <3>. QED  BY <2>1, <3>1
  <2>2. CASE i # n + 1 /\ i # 0
    <3>1. i \in 0 .. n /\ i - 1 \in 0 .. n + 1 /\ i - 1 # n + 1
      BY <2>2
    <3>. QED  BY <1>1, <2>2, <3>1
  <2>3. CASE i # n + 1 /\ i = 0
    BY <1>1, <2>3
  <2>. QED  BY <2>1, <2>2, <2>3
<1>3. at = [i \in 0 .. n + 1 |-> at[i]]
  OBVIOUS
<1>. HIDE DEF at
<1>4. at = [i \in 0 .. n + 1 |-> IF i = 0 THEN None ELSE next(at[i-1], i)]
  BY <1>2, <1>3
<1>. QED  BY <1>4 DEF Shown, next

LEMMA ShownAll ==
  ASSUME NEW h, NEW s
  PROVE  \A n \in Nat : \E at : Shown(h, s, n, at)
<1>. DEFINE T == {n \in Nat : ~ \E at : Shown(h, s, n, at)}
<1>. SUFFICES ASSUME T # {} PROVE FALSE
  OBVIOUS
<1>1. PICK n \in T : \A k \in T : n <= k
  BY LeastNat
<1>2. n # 0
  <2>1. Shown(h, s, 0, [i \in 0 .. 0 |-> None])
    BY DEF Shown
  <2>. QED  BY <1>1, <2>1
<1>3. n - 1 \in Nat /\ n - 1 \notin T
  BY <1>1, <1>2
<1>4. PICK r : Shown(h, s, n - 1, r)
  BY <1>3
<1>5. \E at : Shown(h, s, (n - 1) + 1, at)
  BY <1>3, <1>4, ShownOneMore
<1>. QED  BY <1>1, <1>5

LEMMA AnchorOf ==
  ASSUME NEW h, NEW s, NEW n \in Nat
  PROVE  \E at : Shown(h, s, n, at) /\ Anchor(h, s, n) = at[n]
<1>. DEFINE at == CHOOSE at : at = [i \in 0 .. n |->
                     IF i = 0 THEN None ELSE AnchorStep(h, s, at[i-1], i)]
<1>1. Anchor(h, s, n) = at[n]
  BY DEF Anchor
<1>2. Shown(h, s, n, at)
  BY ShownAll DEF Shown
<1>. QED  BY <1>1, <1>2

\* The anchor after an event depends on the one before it.
LEMMA AnchorNext ==
  ASSUME NEW h, NEW s
  PROVE  /\ Anchor(h, s, 0) = None
         /\ \A n \in Nat : Anchor(h, s, n + 1) = AnchorStep(h, s, Anchor(h, s, n), n + 1)
<1>1. Anchor(h, s, 0) = None
  <2>1. PICK at : Shown(h, s, 0, at) /\ Anchor(h, s, 0) = at[0]
    BY AnchorOf
  <2>. QED  BY <2>1 DEF Shown
<1>2. ASSUME NEW n \in Nat PROVE Anchor(h, s, n + 1) = AnchorStep(h, s, Anchor(h, s, n), n + 1)
  <2>. DEFINE next(x, i) == AnchorStep(h, s, x, i)
  <2>1. PICK at : Shown(h, s, n, at) /\ Anchor(h, s, n) = at[n]
    BY AnchorOf
  <2>2. PICK more : Shown(h, s, n + 1, more) /\ Anchor(h, s, n + 1) = more[n + 1]
    BY AnchorOf
  <2>3. \A i \in 0 .. n : at[i] = IF i = 0 THEN None ELSE next(at[i-1], i)
    BY <2>1 DEF Shown
  <2>4. \A i \in 0 .. n + 1 : more[i] = IF i = 0 THEN None ELSE next(more[i-1], i)
    BY <2>2 DEF Shown
  <2>. HIDE DEF next
  <2>. DEFINE D == {i \in 0 .. n : at[i] # more[i]}
  <2>5. D = {}
    <3>. SUFFICES ASSUME D # {} PROVE FALSE
      OBVIOUS
    <3>1. D \subseteq Nat
      OBVIOUS
    <3>2. PICK i \in D : \A k \in D : i <= k
      BY <3>1, LeastNat
    <3>3. i \in 0 .. n /\ i \in 0 .. n + 1 /\ i # 0
      BY <2>3, <2>4, <3>2
    <3>4. i - 1 \in 0 .. n /\ i - 1 \notin D
      BY <3>2, <3>3
    <3>. QED  BY <2>3, <2>4, <3>2, <3>3, <3>4
  <2>6. at[n] = more[n] /\ n + 1 \in 0 .. n + 1 /\ n + 1 # 0 /\ (n + 1) - 1 = n
    BY <2>5
  <2>7. more[n + 1] = next(more[n], n + 1)
    BY <2>4, <2>6
  <2>. QED  BY <2>1, <2>2, <2>6, <2>7 DEF next
<1>. QED  BY <1>1, <1>2

-----------------------------------------------------------------------------
(* One more event. *)

\* Where the tombstone of a ledger is.
LEMMA FirstTomb ==
  ASSUME NEW S, NEW h \in Seq(S), NEW l \in Tombs(h)
  PROVE  /\ TombAt(h, l) \in 1 .. Len(h) /\ h[TombAt(h, l)].op = "tomb" /\ h[TombAt(h, l)].ledger = l
         /\ \A j \in 1 .. TombAt(h, l) - 1 : ~(h[j].op = "tomb" /\ h[j].ledger = l)
<1>. DEFINE T == {i \in DOMAIN h : h[i].op = "tomb" /\ h[i].ledger = l}
<1>1. DOMAIN h = 1 .. Len(h) /\ Len(h) \in Nat
  OBVIOUS
<1>2. T # {} /\ T \subseteq Nat
  BY <1>1 DEF Tombs
<1>3. PICK i \in T : \A k \in T : i <= k
  BY <1>2, LeastNat
<1>4. \A j \in 1 .. i - 1 : ~(h[j].op = "tomb" /\ h[j].ledger = l)
  <2>1. \A j \in 1 .. i - 1 : j \in DOMAIN h /\ ~(i <= j)
    BY <1>1, <1>3
  <2>. QED  BY <1>3, <2>1
<1>5. /\ i \in DOMAIN h /\ h[i].op = "tomb" /\ h[i].ledger = l
      /\ \A j \in 1 .. i - 1 : ~(h[j].op = "tomb" /\ h[j].ledger = l)
  BY <1>3, <1>4
<1>. QED  BY <1>1, <1>5 DEF TombAt

\* A tombstone without one before it is the one that counts.
LEMMA FirstIsOne ==
  ASSUME NEW S, NEW h \in Seq(S), NEW l \in Tombs(h), NEW i \in 1 .. Len(h),
         h[i].op = "tomb", h[i].ledger = l,
         \A j \in 1 .. i - 1 : ~(h[j].op = "tomb" /\ h[j].ledger = l)
  PROVE  TombAt(h, l) = i
<1>. DEFINE k == TombAt(h, l)
<1>1. k \in 1 .. Len(h) /\ h[k].op = "tomb" /\ h[k].ledger = l
      /\ \A j \in 1 .. k - 1 : ~(h[j].op = "tomb" /\ h[j].ledger = l)
  BY FirstTomb
<1>. HIDE DEF k
<1>2. ~(k < i) /\ ~(i < k)
  <2>1. k < i => k \in 1 .. i - 1
    BY <1>1
  <2>2. i < k => i \in 1 .. k - 1
    BY <1>1
  <2>. QED  BY <1>1, <2>1, <2>2
<1>3. k = i
  BY <1>1, <1>2
<1>. QED  BY <1>3 DEF k

\* A history and one event more.
LEMMA OneMore ==
  ASSUME NEW S, NEW h \in Seq(S), NEW e \in S
  PROVE  /\ Append(h, e) \in Seq(S) /\ Len(Append(h, e)) = Len(h) + 1 /\ Len(h) \in Nat
         /\ \A i \in 1 .. Len(h) : Append(h, e)[i] = h[i] /\ i # Len(h) + 1
         /\ Append(h, e)[Len(h) + 1] = e /\ DOMAIN Append(h, e) = 1 .. Len(h) + 1
         /\ \A i \in 1 .. Len(h) + 1 : i \in 1 .. Len(h) \/ i = Len(h) + 1
         /\ DOMAIN h = 1 .. Len(h)
OBVIOUS

\* The deleted ledgers, with one event more.
LEMMA TombsOneMore ==
  ASSUME NEW S, NEW h \in Seq(S), NEW e \in S
  PROVE  /\ Tombs(Append(h, e)) = Tombs(h) \cup (IF e.op = "tomb" THEN {e.ledger} ELSE {})
         /\ \A l \in Tombs(h) : TombAt(Append(h, e), l) = TombAt(h, l)
         /\ e.op = "tomb" /\ e.ledger \notin Tombs(h) =>
               TombAt(Append(h, e), e.ledger) = Len(h) + 1
         /\ \A l \in Tombs(h) : TombAt(h, l) \in 1 .. Len(h)
<1>. DEFINE g == Append(h, e)
<1>1. /\ g \in Seq(S) /\ Len(g) = Len(h) + 1 /\ Len(h) \in Nat
      /\ \A i \in 1 .. Len(h) : g[i] = h[i] /\ i # Len(h) + 1
      /\ g[Len(h) + 1] = e /\ DOMAIN g = 1 .. Len(h) + 1
      /\ \A i \in 1 .. Len(h) + 1 : i \in 1 .. Len(h) \/ i = Len(h) + 1
      /\ DOMAIN h = 1 .. Len(h)
  BY OneMore
<1>. HIDE DEF g
<1>2. Tombs(g) = Tombs(h) \cup (IF e.op = "tomb" THEN {e.ledger} ELSE {})
  <2>1. ASSUME NEW l \in Tombs(g) PROVE l \in Tombs(h) \/ (e.op = "tomb" /\ l = e.ledger)
    <3>1. PICK i \in 1 .. Len(h) + 1 : g[i].op = "tomb" /\ g[i].ledger = l
      BY <1>1 DEF Tombs
    <3>. QED  BY <1>1, <3>1 DEF Tombs
  <2>2. ASSUME NEW l \in Tombs(h) PROVE l \in Tombs(g)
    <3>1. PICK i \in 1 .. Len(h) : h[i].op = "tomb" /\ h[i].ledger = l
      BY <1>1 DEF Tombs
    <3>2. i \in DOMAIN g /\ g[i] = h[i]
      BY <1>1
    <3>. QED  BY <3>1, <3>2 DEF Tombs
  <2>3. e.op = "tomb" => e.ledger \in Tombs(g)
    <3>1. Len(h) + 1 \in DOMAIN g
      BY <1>1
    <3>. QED  BY <1>1, <3>1 DEF Tombs
  <2>. QED  BY <2>1, <2>2, <2>3
<1>3. ASSUME NEW l \in Tombs(h) PROVE TombAt(g, l) = TombAt(h, l) /\ TombAt(h, l) \in 1 .. Len(h)
  <2>. DEFINE i == TombAt(h, l)
  <2>1. i \in 1 .. Len(h) /\ h[i].op = "tomb" /\ h[i].ledger = l
        /\ \A j \in 1 .. i - 1 : ~(h[j].op = "tomb" /\ h[j].ledger = l)
    BY FirstTomb
  <2>. HIDE DEF i
  <2>2. i \in 1 .. Len(g) /\ g[i] = h[i] /\ \A j \in 1 .. i - 1 : j \in 1 .. Len(h)
    BY <1>1, <2>1
  <2>3. \A j \in 1 .. i - 1 : ~(g[j].op = "tomb" /\ g[j].ledger = l)
    BY <1>1, <2>1, <2>2
  <2>4. l \in Tombs(g)
    BY <1>2
  <2>5. TombAt(g, l) = i
    BY <1>1, <2>1, <2>2, <2>3, <2>4, FirstIsOne
  <2>. QED  BY <2>1, <2>5 DEF i
<1>4. ASSUME e.op = "tomb", e.ledger \notin Tombs(h) PROVE TombAt(g, e.ledger) = Len(h) + 1
  <2>1. \A j \in 1 .. Len(h) : ~(g[j].op = "tomb" /\ g[j].ledger = e.ledger)
    BY <1>1, <1>4 DEF Tombs
  <2>2. Len(h) + 1 \in 1 .. Len(g) /\ (Len(h) + 1) - 1 = Len(h) /\ e.ledger \in Tombs(g)
    BY <1>1, <1>2, <1>4
  <2>. QED  BY <1>1, <1>4, <2>1, <2>2, FirstIsOne
<1>. QED  BY <1>2, <1>3, <1>4 DEF g

\* An event which deletes no ledger anew changes nothing of what was read before.
LEMMA OneMoreEvent ==
  ASSUME NEW h \in Seq(Events), NEW e \in Events, e.op = "tomb" => e.ledger \in Tombs(h)
  PROVE  /\ Tombs(Append(h, e)) = Tombs(h)
         /\ \A s : \A i \in 0 .. Len(h) : Anchor(Append(h, e), s, i) = Anchor(h, s, i)
         /\ Replay(Append(h, e)) = ReplayStep(Append(h, e), Replay(h), Len(h) + 1)
         /\ Before(Append(h, e), Len(h) + 1) <=> e.ledger \notin Tombs(h)
         /\ \A i \in 1 .. Len(h) : Before(Append(h, e), i) <=> Before(h, i)
<1>. DEFINE g == Append(h, e)
            n == Len(h)
<1>1. /\ g \in Seq(Events) /\ Len(g) = n + 1 /\ n \in Nat
      /\ \A i \in 1 .. n : g[i] = h[i] /\ i # n + 1
      /\ g[n + 1] = e /\ DOMAIN g = 1 .. n + 1
  BY OneMore
<1>2. /\ Tombs(g) = Tombs(h)
      /\ \A l \in Tombs(h) : TombAt(g, l) = TombAt(h, l) /\ TombAt(h, l) \in 1 .. n
  <2>1. /\ Tombs(g) = Tombs(h) \cup (IF e.op = "tomb" THEN {e.ledger} ELSE {})
        /\ \A l \in Tombs(h) : TombAt(g, l) = TombAt(h, l)
        /\ \A l \in Tombs(h) : TombAt(h, l) \in 1 .. n
    BY TombsOneMore
  <2>. HIDE DEF g, n
  <2>. QED  BY <2>1
<1>. HIDE DEF g, n
<1>3. \A i \in 1 .. n : Before(g, i) <=> Before(h, i)
  BY <1>1, <1>2 DEF Before
<1>4. Before(g, n + 1) <=> e.ledger \notin Tombs(h)
  <2>1. \A l \in Tombs(h) : ~(n + 1 < TombAt(g, l))
    BY <1>1, <1>2
  <2>. QED  BY <1>1, <1>2, <2>1 DEF Before
<1>5. \A s, c : \A i \in 1 .. n : AnchorStep(g, s, c, i) = AnchorStep(h, s, c, i)
  BY <1>1, <1>2, <1>3 DEF AnchorStep
<1>6. ASSUME NEW s PROVE \A i \in 0 .. n : Anchor(g, s, i) = Anchor(h, s, i)
  <2>. DEFINE D == {i \in 0 .. n : Anchor(g, s, i) # Anchor(h, s, i)}
  <2>. SUFFICES ASSUME D # {} PROVE FALSE
    OBVIOUS
  <2>1. D \subseteq Nat
    BY <1>1
  <2>2. PICK i \in D : \A k \in D : i <= k
    BY <2>1, LeastNat
  <2>3. i # 0
    BY <2>2, AnchorNext
  <2>4. i - 1 \in Nat /\ i - 1 \in 0 .. n /\ i - 1 \notin D /\ (i - 1) + 1 = i /\ i \in 1 .. n
    BY <1>1, <2>2, <2>3
  <2>5. /\ Anchor(g, s, i) = AnchorStep(g, s, Anchor(g, s, i - 1), i)
        /\ Anchor(h, s, i) = AnchorStep(h, s, Anchor(h, s, i - 1), i)
    BY <2>4, AnchorNext
  <2>. QED  BY <1>5, <2>2, <2>4, <2>5
<1>7. \A x : \A i \in 1 .. n : ReplayStep(g, x, i) = ReplayStep(h, x, i)
  <2>1. \A i \in 1 .. n : i - 1 \in 0 .. n
    BY <1>1
  <2>2. \A i \in 1 .. n : h[i].op = "tomb" => h[i].ledger \in Tombs(h)
    <3>1. DOMAIN h = 1 .. n
      BY DEF n
    <3>. QED  BY <3>1 DEF Tombs
  <2>3. ASSUME NEW x, NEW i \in 1 .. n PROVE ReplayStep(g, x, i) = ReplayStep(h, x, i)
    <3>1. g[i] = h[i] /\ (Before(g, i) <=> Before(h, i)) /\ Tombs(g) = Tombs(h)
      BY <1>1, <1>2, <1>3
    <3>2. h[i].op = "tomb" => TombAt(g, h[i].ledger) = TombAt(h, h[i].ledger)
      BY <1>2, <2>2
    <3>3. \A s \in Scopes : Anchor(g, s, i - 1) = Anchor(h, s, i - 1)
      BY <1>6, <2>1
    <3>4. {s \in Scopes : Anchor(g, s, i - 1) = h[i].ledger}
            = {s \in Scopes : Anchor(h, s, i - 1) = h[i].ledger}
      BY <3>3
    <3>5. CASE h[i].op = "tomb"
      <4>1. h[i].op \notin Dumps /\ h[i].op # "switch" /\ h[i].op # "close" /\ h[i].op # "reopen"
        BY <3>5 DEF Dumps
      <4>. QED  BY <3>1, <3>2, <3>4, <3>5, <4>1 DEF ReplayStep
    <3>6. CASE h[i].op # "tomb"
      BY <3>1, <3>6 DEF ReplayStep
    <3>. QED  BY <3>5, <3>6
  <2>. QED  BY <2>3
<1>8. Replay(g) = ReplayStep(g, Replay(h), n + 1)
  <2>1. PICK st : Path(h, st) /\ Replay(h) = st[n]
    BY <1>1, Replaying DEF n
  <2>2. PICK more : Path(g, more) /\ Replay(g) = more[n + 1]
    BY <1>1, Replaying
  <2>3. st[0] = Empty /\ \A i \in 1 .. n : st[i] = ReplayStep(h, st[i-1], i)
    BY <2>1 DEF Path, n
  <2>4. more[0] = Empty /\ \A i \in 1 .. n + 1 : more[i] = ReplayStep(g, more[i-1], i)
    BY <1>1, <2>2 DEF Path
  <2>. DEFINE D == {i \in 0 .. n : st[i] # more[i]}
  <2>5. D = {}
    <3>. SUFFICES ASSUME D # {} PROVE FALSE
      OBVIOUS
    <3>1. D \subseteq Nat
      BY <1>1
    <3>2. PICK i \in D : \A k \in D : i <= k
      BY <3>1, LeastNat
    <3>3. i # 0
      BY <2>3, <2>4, <3>2
    <3>4. i \in 1 .. n /\ i \in 1 .. n + 1 /\ i - 1 \in 0 .. n /\ i - 1 \notin D
      BY <1>1, <3>2, <3>3
    <3>5. st[i] = ReplayStep(h, st[i-1], i) /\ more[i] = ReplayStep(g, more[i-1], i)
      BY <2>3, <2>4, <3>4
    <3>. QED  BY <1>7, <3>2, <3>4, <3>5
  <2>6. st[n] = more[n] /\ n + 1 \in 1 .. n + 1 /\ (n + 1) - 1 = n
    BY <1>1, <2>5
  <2>. QED  BY <2>1, <2>2, <2>4, <2>6
<1>. QED  BY <1>2, <1>3, <1>4, <1>6, <1>8 DEF g, n

-----------------------------------------------------------------------------
(* What an event does to the pool and to the table, ledger by ledger. *)

IsState(r) == r = [pool |-> r.pool, bound |-> r.bound, from |-> r.from]

\* What becomes of a replay's state r with the event e, about the ledger l, at i.
Steps(h, i, r, q, e, l) ==
    /\ IsState(q)
    /\ e.op \in Dumps /\ l \in Tombs(h) => q = r
    /\ e.op \in Dumps /\ l \notin Tombs(h) =>
          q.pool = With(r.pool, l, e.led) /\ q.bound = r.bound /\ q.from = r.from
    /\ e.op = "switch" /\ Before(h, i) =>
          /\ q.pool = r.pool /\ q.bound = With(r.bound, e.scope, l)
          /\ q.from = With(r.from, e.scope, e.sess)
    /\ e.op = "switch" /\ ~Before(h, i) =>
          q.pool = r.pool /\ q.bound = Minus(r.bound, {e.scope}) /\ q.from = r.from
    /\ e.op = "close" /\ l \in DOMAIN r.pool =>
          /\ q.pool = [r.pool EXCEPT ![l] = Closed(@, e.succ)]
          /\ q.bound = Minus(r.bound, {s \in DOMAIN r.bound : r.bound[s] = l})
          /\ q.from = Minus(r.from, {s \in DOMAIN r.bound : r.bound[s] = l})
    /\ e.op = "reopen" /\ l \in DOMAIN r.pool =>
          /\ q.pool = [r.pool EXCEPT ![l] = Reopened(@)]
          /\ q.bound = r.bound /\ q.from = r.from
    /\ e.op \in {"close", "reopen"} /\ l \notin DOMAIN r.pool => q = r
    /\ e.op = "tomb" /\ i # TombAt(h, l) => q = r
    /\ e.op = "tomb" /\ i = TombAt(h, l) =>
          /\ q.pool = r.pool /\ q.from = r.from
          /\ q.bound = Minus(r.bound, {s \in Scopes : Anchor(h, s, i - 1) = l})

\* A step of the replay is one of these.
LEMMA StepFields ==
  ASSUME NEW h \in Seq(Events), NEW i \in 1 .. Len(h), NEW r, IsState(r)
  PROVE  Steps(h, i, r, ReplayStep(h, r, i), h[i], h[i].ledger)
<1>. DEFINE e == h[i]
            l == e.ledger
            q == ReplayStep(h, r, i)
            ss == {s \in DOMAIN r.bound : r.bound[s] = l}
<1>1. e.op \in Dumps \cup {"switch", "close", "reopen", "tomb"}
  BY EventFacts
<1>2. CASE e.op \in Dumps
  BY <1>2 DEF Dumps, IsState, ReplayStep, Steps
<1>3. CASE e.op = "switch"
  <2>1. q = IF Before(h, i) THEN [r EXCEPT !.bound = With(@, e.scope, l), !.from = With(@, e.scope, e.sess)]
            ELSE [r EXCEPT !.bound = Minus(@, {e.scope})]
    BY <1>3 DEF Dumps, ReplayStep
  <2>2. q = IF Before(h, i)
            THEN [pool |-> r.pool, bound |-> With(r.bound, e.scope, l), from |-> With(r.from, e.scope, e.sess)]
            ELSE [pool |-> r.pool, bound |-> Minus(r.bound, {e.scope}), from |-> r.from]
    BY <2>1 DEF IsState
  <2>. HIDE DEF q
  <2>. QED  BY <1>3, <2>2 DEF Dumps, IsState, Steps, q
<1>4. CASE e.op = "close"
  <2>1. q = IF l \in DOMAIN r.pool
            THEN Unbind([r EXCEPT !.pool[l] = Closed(@, e.succ)], l) ELSE r
    BY <1>4 DEF Dumps, ReplayStep
  <2>. DEFINE mid == [pool |-> [r.pool EXCEPT ![l] = Closed(@, e.succ)], bound |-> r.bound, from |-> r.from]
  <2>2. [r EXCEPT !.pool[l] = Closed(@, e.succ)] = mid
    BY DEF IsState
  <2>3. Unbind(mid, l) = [pool |-> [r.pool EXCEPT ![l] = Closed(@, e.succ)],
                          bound |-> Minus(r.bound, ss), from |-> Minus(r.from, ss)]
    <3>1. mid.bound = r.bound /\ mid.from = r.from
      OBVIOUS
    <3>2. Unbind(mid, l) = [mid EXCEPT !.bound = Minus(@, ss), !.from = Minus(@, ss)]
      BY <3>1 DEF Unbind
    <3>. HIDE DEF ss
    <3>. QED  BY <3>2
  <2>4. q = IF l \in DOMAIN r.pool
            THEN [pool |-> [r.pool EXCEPT ![l] = Closed(@, e.succ)],
                  bound |-> Minus(r.bound, ss), from |-> Minus(r.from, ss)] ELSE r
    BY <2>1, <2>2, <2>3
  <2>. HIDE DEF q
  <2>. QED  BY <1>4, <2>4 DEF Dumps, IsState, Steps, q
<1>5. CASE e.op = "reopen"
  <2>1. q = IF l \in DOMAIN r.pool
            THEN [pool |-> [r.pool EXCEPT ![l] = Reopened(@)], bound |-> r.bound, from |-> r.from] ELSE r
    BY <1>5 DEF Dumps, ReplayStep, IsState
  <2>. HIDE DEF q
  <2>. QED  BY <1>5, <2>1 DEF Dumps, IsState, Steps, q
<1>6. CASE e.op = "tomb"
  <2>1. q = IF i = TombAt(h, l)
            THEN [pool |-> r.pool, from |-> r.from,
                  bound |-> Minus(r.bound, {s \in Scopes : Anchor(h, s, i - 1) = l})]
            ELSE r
    BY <1>6 DEF Dumps, ReplayStep, IsState
  <2>. HIDE DEF q
  <2>. QED  BY <1>6, <2>1 DEF Dumps, IsState, Steps, q
<1>. QED  BY <1>1, <1>2, <1>3, <1>4, <1>5, <1>6

\* What becomes of the anchor c of the scope s with the event e, about the ledger l, at i.
Leads(h, i, s, c, x, e, l) ==
    /\ e.op = "switch" => x = IF e.scope # s THEN c ELSE IF Before(h, i) THEN l ELSE None
    /\ e.op \in Dumps => x = IF e.op = "create" /\ e.scope = s /\ l \notin Tombs(h) THEN l ELSE c
    /\ e.op = "close" => x = IF l = c /\ Before(h, i) THEN None ELSE c
    /\ e.op = "reopen" => x = c
    /\ e.op = "tomb" => x = IF l = c THEN None ELSE c

\* A step of the timeline is one of these.
LEMMA AnchorFields ==
  ASSUME NEW h \in Seq(Events), NEW i \in 1 .. Len(h), NEW s \in Scopes, NEW c
  PROVE  Leads(h, i, s, c, AnchorStep(h, s, c, i), h[i], h[i].ledger)
<1>. DEFINE e == h[i]
<1>1. e.op \in {"create", "update", "edit", "switch", "close", "reopen", "tomb"}
  BY EventFacts DEF Dumps
<1>2. CASE e.op = "switch"
  BY <1>2 DEF Dumps, Leads, AnchorStep
<1>3. CASE e.op = "close"
  BY <1>3 DEF Dumps, Leads, AnchorStep
<1>4. CASE e.op = "tomb"
  BY <1>4 DEF Dumps, Leads, AnchorStep
<1>5. CASE e.op = "create"
  BY <1>5 DEF Dumps, Leads, AnchorStep
<1>6. CASE e.op \in {"update", "edit", "reopen"}
  BY <1>6 DEF Dumps, Leads, AnchorStep
<1>. QED  BY <1>1, <1>2, <1>3, <1>4, <1>5, <1>6

\* The ledgers that the first i events write and no event deletes.
Dumped(h, i) ==
    {l \in Ledgers : l \notin Tombs(h) /\ \E j \in 1 .. i : h[j].op \in Dumps /\ h[j].ledger = l}

\* What holds of the replay after each event.  A deleted ledger that is the anchor of a
\* scope is what its switch has bound there.
SoFar(h, r, i) ==
    /\ IsState(r)
    /\ DOMAIN r.pool = Dumped(h, i) /\ \A l \in DOMAIN r.pool : r.pool[l] \in Ledger
    /\ DOMAIN r.bound \subseteq DOMAIN r.from /\ DOMAIN r.from \subseteq Scopes
    /\ \A s \in DOMAIN r.bound : r.bound[s] \in Ledgers
    /\ \A s \in Scopes :
          Anchor(h, s, i) \in Tombs(h) => s \in DOMAIN r.bound /\ r.bound[s] = Anchor(h, s, i)

LEMMA TombsAreLedgers ==
  ASSUME NEW h \in Seq(Events) PROVE Tombs(h) \subseteq Ledgers /\ None \notin Tombs(h)
<1>1. \A i \in DOMAIN h : h[i] \in Events
  OBVIOUS
<1>2. \A i \in DOMAIN h : h[i].ledger \in Ledgers
  BY <1>1, EventFacts
<1>. QED  BY <1>2, LedgerAssumption DEF Tombs, LedgerAssumption

\* It holds after one event more ...
LEMMA SoFarStep ==
  ASSUME NEW h \in Seq(Events), NEW i \in 1 .. Len(h), NEW r, SoFar(h, r, i - 1)
  PROVE  SoFar(h, ReplayStep(h, r, i), i)
<1>. DEFINE e == h[i]
            l == e.ledger
            q == ReplayStep(h, r, i)
            T == Tombs(h)
            ss == {s \in DOMAIN r.bound : r.bound[s] = l}
            was(s) == Anchor(h, s, i - 1)
            is(s) == Anchor(h, s, i)
<1>1. /\ IsState(r) /\ DOMAIN r.pool = Dumped(h, i - 1) /\ \A m \in DOMAIN r.pool : r.pool[m] \in Ledger
      /\ DOMAIN r.bound \subseteq DOMAIN r.from /\ DOMAIN r.from \subseteq Scopes
      /\ \A s \in DOMAIN r.bound : r.bound[s] \in Ledgers
      /\ \A s \in Scopes : was(s) \in T => s \in DOMAIN r.bound /\ r.bound[s] = was(s)
  BY DEF SoFar
<1>2. e \in Events /\ l \in Ledgers /\ None \notin T /\ T \subseteq Ledgers
      /\ e.op \in Dumps \cup {"switch", "close", "reopen", "tomb"}
      /\ (e.op = "switch" => e.scope \in Scopes) /\ (e.op \in Dumps => e.led \in Ledger)
  BY EventFacts, TombsAreLedgers
<1>3. i - 1 \in Nat /\ (i - 1) + 1 = i
  OBVIOUS
<1>4. \A s : is(s) = AnchorStep(h, s, was(s), i)
  BY <1>3, AnchorNext
<1>5. Dumped(h, i) = IF e.op \in Dumps /\ l \notin T THEN Dumped(h, i - 1) \cup {l} ELSE Dumped(h, i - 1)
  <2>1. \A j \in 1 .. i : j \in 1 .. i - 1 \/ j = i
    OBVIOUS
  <2>2. \A j \in 1 .. i - 1 : j \in 1 .. i
    OBVIOUS
  <2>3. i \in 1 .. i
    OBVIOUS
  <2>. QED  BY <1>2, <2>1, <2>2, <2>3 DEF Dumped
<1>6. Dumped(h, i - 1) \cap T = {}
  BY DEF Dumped
<1>12. Steps(h, i, r, q, e, l) /\ \A s \in Scopes : Leads(h, i, s, was(s), is(s), e, l)
  BY <1>1, <1>4, StepFields, AnchorFields
<1>13. SoFar(h, q, i) <=>
         /\ IsState(q)
         /\ DOMAIN q.pool = Dumped(h, i) /\ \A m \in DOMAIN q.pool : q.pool[m] \in Ledger
         /\ DOMAIN q.bound \subseteq DOMAIN q.from /\ DOMAIN q.from \subseteq Scopes
         /\ \A s \in DOMAIN q.bound : q.bound[s] \in Ledgers
         /\ \A s \in Scopes : is(s) \in T => s \in DOMAIN q.bound /\ q.bound[s] = is(s)
  BY DEF SoFar
<1>. SUFFICES SoFar(h, q, i)
  OBVIOUS
<1>. HIDE DEF q, is, was, e, l
<1>7. CASE e.op \in Dumps
  <2>1. \A s \in Scopes : is(s) \in T => is(s) = was(s)
    BY <1>7, <1>12 DEF Leads, Dumps
  <2>2. CASE l \in T
    <3>1. q = r
      BY <1>7, <1>12, <2>2 DEF Steps
    <3>. QED  BY <1>1, <1>5, <1>7, <2>1, <2>2, <3>1, <1>13
  <2>3. CASE l \notin T
    <3>1. IsState(q) /\ q.pool = With(r.pool, l, e.led) /\ q.bound = r.bound /\ q.from = r.from
      BY <1>7, <1>12, <2>3 DEF Steps, T
    <3>2. /\ DOMAIN q.pool = DOMAIN r.pool \cup {l} /\ q.pool[l] = e.led
          /\ \A z \in DOMAIN r.pool \ {l} : q.pool[z] = r.pool[z]
      BY <3>1 DEF With
    <3>3. \A m \in DOMAIN q.pool : q.pool[m] \in Ledger
      BY <1>1, <1>2, <1>7, <3>2
    <3>. QED  BY <1>1, <1>5, <1>7, <2>1, <2>3, <3>1, <3>2, <3>3, <1>13
  <2>. QED  BY <2>2, <2>3
<1>8. CASE e.op = "switch"
  <2>1. Dumped(h, i) = Dumped(h, i - 1)
    BY <1>5, <1>8 DEF Dumps
  <2>2. \A s \in Scopes : is(s) = IF e.scope # s THEN was(s) ELSE IF Before(h, i) THEN l ELSE None
    BY <1>8, <1>12 DEF Leads, Dumps
  <2>3. CASE Before(h, i)
    <3>1. /\ IsState(q) /\ q.pool = r.pool /\ q.bound = With(r.bound, e.scope, l)
          /\ q.from = With(r.from, e.scope, e.sess)
      BY <1>8, <1>12, <2>3 DEF Steps, T
    <3>2. /\ DOMAIN q.bound = DOMAIN r.bound \cup {e.scope} /\ q.bound[e.scope] = l
          /\ \A z \in DOMAIN r.bound \ {e.scope} : q.bound[z] = r.bound[z]
          /\ DOMAIN q.from = DOMAIN r.from \cup {e.scope}
      BY <3>1 DEF With
    <3>3. \A s \in DOMAIN q.bound : q.bound[s] \in Ledgers
      BY <1>1, <1>2, <3>2
    <3>4. \A s \in Scopes : is(s) \in T => s \in DOMAIN q.bound /\ q.bound[s] = is(s)
      BY <1>1, <2>2, <2>3, <3>2
    <3>. QED  BY <1>1, <1>2, <1>8, <2>1, <3>1, <3>2, <3>3, <3>4, <1>13
  <2>4. CASE ~Before(h, i)
    <3>1. /\ IsState(q) /\ q.pool = r.pool /\ q.bound = Minus(r.bound, {e.scope}) /\ q.from = r.from
      BY <1>8, <1>12, <2>4 DEF Steps, T
    <3>2. /\ DOMAIN q.bound = DOMAIN r.bound \ {e.scope}
          /\ \A z \in DOMAIN r.bound \ {e.scope} : q.bound[z] = r.bound[z]
      BY <3>1 DEF Minus, Restrict
    <3>3. \A s \in DOMAIN q.bound : q.bound[s] \in Ledgers
      BY <1>1, <3>2
    <3>4. \A s \in Scopes : is(s) \in T => s \in DOMAIN q.bound /\ q.bound[s] = is(s)
      BY <1>1, <1>2, <2>2, <2>4, <3>2
    <3>. QED  BY <1>1, <1>8, <2>1, <3>1, <3>2, <3>3, <3>4, <1>13
  <2>. QED  BY <2>3, <2>4
<1>9. CASE e.op = "close"
  <2>1. Dumped(h, i) = Dumped(h, i - 1)
    BY <1>5, <1>9 DEF Dumps
  <2>2. \A s \in Scopes : is(s) = was(s) \/ is(s) = None
    BY <1>9, <1>12 DEF Leads, Dumps
  <2>3. CASE l \notin DOMAIN r.pool
    <3>1. q = r
      BY <1>9, <1>12, <2>3 DEF Steps, T
    <3>. QED  BY <1>1, <1>2, <2>1, <2>2, <3>1, <1>13
  <2>4. CASE l \in DOMAIN r.pool
    <3>1. /\ IsState(q) /\ q.pool = [r.pool EXCEPT ![l] = Closed(@, e.succ)]
          /\ q.bound = Minus(r.bound, ss) /\ q.from = Minus(r.from, ss)
      BY <1>9, <1>12, <2>4 DEF Steps, T
    <3>2. /\ DOMAIN q.bound = DOMAIN r.bound \ ss /\ DOMAIN q.from = DOMAIN r.from \ ss
          /\ \A z \in DOMAIN r.bound \ ss : q.bound[z] = r.bound[z]
      BY <3>1 DEF Minus, Restrict
    <3>3. DOMAIN q.pool = DOMAIN r.pool /\ \A m \in DOMAIN q.pool : q.pool[m] \in Ledger
      <4>1. e.succ \in Ledgers \cup {None}
        BY <1>2, <1>9 DEF Events, Dumps
      <4>2. \A x \in Ledger : Closed(x, e.succ) \in Ledger
        BY <4>1 DEF Closed, Ledger
      <4>. QED  BY <1>1, <3>1, <4>2
    <3>4. l \notin T
      BY <1>1, <1>6, <2>4
    <3>5. \A s \in Scopes : is(s) \in T => s \in DOMAIN q.bound /\ q.bound[s] = is(s)
      BY <1>1, <1>2, <2>2, <3>2, <3>4
    <3>. QED  BY <1>1, <2>1, <3>1, <3>2, <3>3, <3>5, <1>13
  <2>. QED  BY <2>3, <2>4
<1>10. CASE e.op = "reopen"
  <2>1. Dumped(h, i) = Dumped(h, i - 1)
    BY <1>5, <1>10 DEF Dumps
  <2>2. \A s \in Scopes : is(s) = was(s)
    BY <1>10, <1>12 DEF Leads, Dumps
  <2>3. CASE l \notin DOMAIN r.pool
    <3>1. q = r
      BY <1>10, <1>12, <2>3 DEF Steps, T
    <3>. QED  BY <1>1, <2>1, <2>2, <3>1, <1>13
  <2>4. CASE l \in DOMAIN r.pool
    <3>1. /\ IsState(q) /\ q.pool = [r.pool EXCEPT ![l] = Reopened(@)]
          /\ q.bound = r.bound /\ q.from = r.from
      BY <1>10, <1>12, <2>4 DEF Steps, T
    <3>2. DOMAIN q.pool = DOMAIN r.pool /\ \A m \in DOMAIN q.pool : q.pool[m] \in Ledger
      <4>1. \A x \in Ledger : Reopened(x) \in Ledger
        BY DEF Reopened, Ledger
      <4>. QED  BY <1>1, <3>1, <4>1
    <3>. QED  BY <1>1, <2>1, <2>2, <3>1, <3>2, <1>13
  <2>. QED  BY <2>3, <2>4
<1>11. CASE e.op = "tomb"
  <2>1. Dumped(h, i) = Dumped(h, i - 1)
    BY <1>5, <1>11 DEF Dumps
  <2>2. \A s \in Scopes : is(s) = IF l = was(s) THEN None ELSE was(s)
    BY <1>11, <1>12 DEF Leads, Dumps
  <2>3. CASE i # TombAt(h, l)
    <3>1. q = r
      BY <1>11, <1>12, <2>3 DEF Steps, T
    <3>. QED  BY <1>1, <1>2, <2>1, <2>2, <3>1, <1>13
  <2>4. CASE i = TombAt(h, l)
    <3>. DEFINE xs == {s \in Scopes : was(s) = l}
    <3>1. /\ IsState(q) /\ q.pool = r.pool /\ q.from = r.from /\ q.bound = Minus(r.bound, xs)
      BY <1>11, <1>12, <2>4 DEF Steps, T, was
    <3>2. /\ DOMAIN q.bound = DOMAIN r.bound \ xs
          /\ \A z \in DOMAIN r.bound \ xs : q.bound[z] = r.bound[z]
      BY <3>1 DEF Minus, Restrict
    <3>3. \A s \in Scopes : is(s) \in T => s \in DOMAIN q.bound /\ q.bound[s] = is(s)
      BY <1>1, <1>2, <2>2, <3>2
    <3>. QED  BY <1>1, <2>1, <3>1, <3>2, <3>3, <1>13
  <2>. QED  BY <2>3, <2>4
<1>. QED  BY <1>2, <1>7, <1>8, <1>9, <1>10, <1>11

\* ... and so after each.
LEMMA Replayed ==
  ASSUME NEW h \in Seq(Events), NEW st, Path(h, st)
  PROVE  \A i \in 0 .. Len(h) : SoFar(h, st[i], i)
<1>. DEFINE D == {i \in 0 .. Len(h) : ~SoFar(h, st[i], i)}
<1>. SUFFICES ASSUME D # {} PROVE FALSE
  OBVIOUS
<1>1. D \subseteq Nat /\ Len(h) \in Nat
  OBVIOUS
<1>2. PICK i \in D : \A k \in D : i <= k
  BY <1>1, LeastNat
<1>3. SoFar(h, st[0], 0)
  <2>1. st[0] = [pool |-> <<>>, bound |-> <<>>, from |-> <<>>]
    BY DEF Path, Empty
  <2>2. IsState(st[0]) /\ DOMAIN st[0].pool = {} /\ DOMAIN st[0].bound = {} /\ DOMAIN st[0].from = {}
    BY <2>1 DEF IsState
  <2>3. Dumped(h, 0) = {}
    BY DEF Dumped
  <2>4. \A s : Anchor(h, s, 0) \notin Tombs(h)
    BY AnchorNext, TombsAreLedgers
  <2>. QED  BY <2>2, <2>3, <2>4 DEF SoFar
<1>4. i # 0
  BY <1>2, <1>3
<1>5. i \in 1 .. Len(h) /\ i - 1 \in 0 .. Len(h) /\ i - 1 \notin D
  BY <1>1, <1>2, <1>4
<1>6. st[i] = ReplayStep(h, st[i - 1], i)
  BY <1>5 DEF Path
<1>. QED  BY <1>2, <1>5, <1>6, SoFarStep

-----------------------------------------------------------------------------
(* A deletion: all that was said of the ledger before is passed over from now on. *)

\* A scope is bound to a ledger outside D.
Live(f, s, D) == s \in DOMAIN f /\ f[s] \notin D

\* Two states of a replay, of which the second knows that l is deleted.
Alike(r, q, D, l) ==
    /\ DOMAIN q.pool = DOMAIN r.pool \ {l} /\ \A m \in DOMAIN q.pool : q.pool[m] = r.pool[m]
    /\ \A s \in Scopes :
          /\ Live(r.bound, s, D) <=> Live(q.bound, s, D)
          /\ Live(r.bound, s, D) => r.bound[s] = q.bound[s] /\ r.from[s] = q.from[s]

\* They stay so with the next event.
LEMMA AlikeStep ==
  ASSUME NEW h \in Seq(Events), NEW l \in Ledgers \ Tombs(h), NEW t \in Events,
         t.op = "tomb", t.ledger = l, NEW i \in 1 .. Len(h),
         NEW r, NEW q, SoFar(h, r, i - 1), SoFar(Append(h, t), q, i - 1),
         Alike(r, q, Tombs(h) \cup {l}, l)
  PROVE  Alike(ReplayStep(h, r, i), ReplayStep(Append(h, t), q, i), Tombs(h) \cup {l}, l)
<1>. DEFINE g == Append(h, t)
            T == Tombs(h)
            D == T \cup {l}
            e == h[i]
            m == e.ledger
            rr == ReplayStep(h, r, i)
            qq == ReplayStep(g, q, i)
<1>1. g \in Seq(Events) /\ Len(g) = Len(h) + 1 /\ g[i] = e /\ i \in 1 .. Len(g) /\ Len(h) \in Nat
  BY OneMore
<1>2. /\ Tombs(g) = D /\ \A x \in T : TombAt(g, x) = TombAt(h, x) /\ TombAt(h, x) \in 1 .. Len(h)
      /\ TombAt(g, l) = Len(h) + 1
  <2>1. /\ Tombs(g) = T \cup (IF t.op = "tomb" THEN {t.ledger} ELSE {})
        /\ \A x \in T : TombAt(g, x) = TombAt(h, x)
        /\ t.op = "tomb" /\ t.ledger \notin T => TombAt(g, t.ledger) = Len(h) + 1
        /\ \A x \in T : TombAt(h, x) \in 1 .. Len(h)
    BY TombsOneMore
  <2>. HIDE DEF g, T
  <2>. QED  BY <2>1 DEF T
<1>3. e \in Events /\ m \in Ledgers /\ e.op \in Dumps \cup {"switch", "close", "reopen", "tomb"}
      /\ (e.op = "switch" => e.scope \in Scopes) /\ T \subseteq Ledgers
  BY EventFacts, TombsAreLedgers
<1>4. IsState(r) /\ DOMAIN r.bound \subseteq DOMAIN r.from
      /\ \A s \in Scopes : Anchor(h, s, i - 1) \in T => s \in DOMAIN r.bound /\ r.bound[s] = Anchor(h, s, i - 1)
  BY DEF SoFar
<1>5. IsState(q) /\ DOMAIN q.bound \subseteq DOMAIN q.from
      /\ \A s \in Scopes : Anchor(g, s, i - 1) \in D => s \in DOMAIN q.bound /\ q.bound[s] = Anchor(g, s, i - 1)
  BY <1>2 DEF SoFar
<1>6. Steps(h, i, r, rr, e, m)
  BY <1>4, StepFields
<1>7. Steps(g, i, q, qq, e, m)
  <2>1. Steps(g, i, q, qq, g[i], g[i].ledger)
    BY <1>1, <1>5, StepFields
  <2>. QED  BY <1>1, <2>1
<1>8. Before(g, i) <=> Before(h, i)
  BY <1>1, <1>2 DEF Before
<1>9. DOMAIN r.pool \cap T = {} /\ DOMAIN q.pool \cap D = {}
  BY <1>2 DEF SoFar, Dumped
<1>10. Alike(r, q, D, l)
  OBVIOUS
<1>. SUFFICES Alike(rr, qq, D, l)
  OBVIOUS
<1>11. e.op = "tomb" => m \in T
  BY DEF Tombs
<1>12. D = T \cup {l} /\ l \notin T
  OBVIOUS
<1>. HIDE DEF g, T, D, e, m, rr, qq
<1>13. CASE e.op \in Dumps
  <2>1. CASE m \in T
    <3>1. rr = r /\ qq = q
      BY <1>2, <1>6, <1>7, <1>12, <1>13, <2>1 DEF Steps, T
    <3>. QED  BY <1>10, <3>1
  <2>2. CASE m = l
    <3>1. qq = q
      BY <1>2, <1>7, <1>12, <1>13, <2>2 DEF Steps
    <3>2. rr.pool = With(r.pool, l, e.led) /\ rr.bound = r.bound /\ rr.from = r.from
      BY <1>6, <1>12, <1>13, <2>2 DEF Steps, T
    <3>3. DOMAIN rr.pool = DOMAIN r.pool \cup {l} /\ \A x \in DOMAIN r.pool \ {l} : rr.pool[x] = r.pool[x]
      BY <3>2 DEF With
    <3>. QED  BY <1>10, <3>1, <3>2, <3>3 DEF Alike
  <2>3. CASE m \notin D
    <3>1. rr.pool = With(r.pool, m, e.led) /\ rr.bound = r.bound /\ rr.from = r.from
      BY <1>6, <1>12, <1>13, <2>3 DEF Steps, T
    <3>2. qq.pool = With(q.pool, m, e.led) /\ qq.bound = q.bound /\ qq.from = q.from
      BY <1>2, <1>7, <1>13, <2>3 DEF Steps
    <3>3. /\ DOMAIN rr.pool = DOMAIN r.pool \cup {m} /\ DOMAIN qq.pool = DOMAIN q.pool \cup {m}
          /\ \A x \in DOMAIN qq.pool : qq.pool[x] = IF x = m THEN e.led ELSE q.pool[x]
          /\ \A x \in DOMAIN rr.pool : rr.pool[x] = IF x = m THEN e.led ELSE r.pool[x]
      BY <3>1, <3>2 DEF With
    <3>. QED  BY <1>10, <1>12, <2>3, <3>1, <3>2, <3>3 DEF Alike
  <2>. QED  BY <1>12, <2>1, <2>2, <2>3
<1>14. CASE e.op = "switch"
  <2>1. CASE Before(h, i)
    <3>1. /\ rr.pool = r.pool /\ rr.bound = With(r.bound, e.scope, m) /\ rr.from = With(r.from, e.scope, e.sess)
          /\ qq.pool = q.pool /\ qq.bound = With(q.bound, e.scope, m) /\ qq.from = With(q.from, e.scope, e.sess)
      BY <1>6, <1>7, <1>8, <1>14, <2>1 DEF Steps
    <3>2. ASSUME NEW s \in Scopes
          PROVE  /\ Live(rr.bound, s, D) <=> Live(qq.bound, s, D)
                 /\ Live(rr.bound, s, D) => rr.bound[s] = qq.bound[s] /\ rr.from[s] = qq.from[s]
      <4>1. CASE s = e.scope
        BY <3>1, <4>1 DEF With, Live
      <4>2. CASE s # e.scope
        BY <1>4, <1>5, <1>10, <3>1, <4>2 DEF With, Live, Alike
      <4>. QED  BY <4>1, <4>2
    <3>. QED  BY <1>10, <3>1, <3>2 DEF Alike
  <2>2. CASE ~Before(h, i)
    <3>1. /\ rr.pool = r.pool /\ rr.bound = Minus(r.bound, {e.scope}) /\ rr.from = r.from
          /\ qq.pool = q.pool /\ qq.bound = Minus(q.bound, {e.scope}) /\ qq.from = q.from
      BY <1>6, <1>7, <1>8, <1>14, <2>2 DEF Steps
    <3>2. ASSUME NEW s \in Scopes
          PROVE  /\ Live(rr.bound, s, D) <=> Live(qq.bound, s, D)
                 /\ Live(rr.bound, s, D) => rr.bound[s] = qq.bound[s] /\ rr.from[s] = qq.from[s]
      BY <1>10, <3>1 DEF Minus, Restrict, Live, Alike
    <3>. QED  BY <1>10, <3>1, <3>2 DEF Alike
  <2>. QED  BY <2>1, <2>2
<1>15. CASE e.op = "close"
  <2>. DEFINE rs == {s \in DOMAIN r.bound : r.bound[s] = m}
              qs == {s \in DOMAIN q.bound : q.bound[s] = m}
  <2>1. m \in DOMAIN r.pool =>
            /\ rr.pool = [r.pool EXCEPT ![m] = Closed(@, e.succ)]
            /\ rr.bound = Minus(r.bound, rs) /\ rr.from = Minus(r.from, rs)
    BY <1>6, <1>15 DEF Steps
  <2>2. m \in DOMAIN q.pool =>
            /\ qq.pool = [q.pool EXCEPT ![m] = Closed(@, e.succ)]
            /\ qq.bound = Minus(q.bound, qs) /\ qq.from = Minus(q.from, qs)
    BY <1>7, <1>15 DEF Steps
  <2>3. (m \notin DOMAIN r.pool => rr = r) /\ (m \notin DOMAIN q.pool => qq = q)
    BY <1>6, <1>7, <1>15 DEF Steps
  <2>4. CASE m \notin DOMAIN r.pool
    BY <1>10, <2>3, <2>4 DEF Alike
  <2>5. CASE m \in DOMAIN r.pool /\ m = l
    <3>1. qq = q /\ DOMAIN rr.pool = DOMAIN r.pool /\ \A x \in DOMAIN r.pool \ {l} : rr.pool[x] = r.pool[x]
      BY <1>9, <1>12, <2>1, <2>3, <2>5
    <3>2. ASSUME NEW s \in Scopes
          PROVE  /\ Live(rr.bound, s, D) <=> Live(r.bound, s, D)
                 /\ Live(rr.bound, s, D) => rr.bound[s] = r.bound[s] /\ rr.from[s] = r.from[s]
      BY <1>4, <1>12, <2>1, <2>5 DEF Minus, Restrict, Live
    <3>. QED  BY <1>10, <3>1, <3>2 DEF Alike
  <2>6. CASE m \in DOMAIN r.pool /\ m # l
    <3>1. m \in DOMAIN q.pool
      BY <1>10, <2>6 DEF Alike
    <3>2. /\ DOMAIN qq.pool = DOMAIN q.pool /\ DOMAIN rr.pool = DOMAIN r.pool
          /\ \A x \in DOMAIN q.pool : qq.pool[x] = IF x = m THEN Closed(q.pool[x], e.succ) ELSE q.pool[x]
          /\ \A x \in DOMAIN r.pool : rr.pool[x] = IF x = m THEN Closed(r.pool[x], e.succ) ELSE r.pool[x]
      BY <2>1, <2>2, <2>6, <3>1
    <3>3. ASSUME NEW s \in Scopes
          PROVE  /\ Live(rr.bound, s, D) <=> Live(r.bound, s, D) /\ r.bound[s] # m
                 /\ Live(qq.bound, s, D) <=> Live(q.bound, s, D) /\ q.bound[s] # m
                 /\ Live(rr.bound, s, D) => rr.bound[s] = r.bound[s] /\ rr.from[s] = r.from[s]
                 /\ Live(qq.bound, s, D) => qq.bound[s] = q.bound[s] /\ qq.from[s] = q.from[s]
      BY <1>4, <1>5, <2>1, <2>2, <2>6, <3>1 DEF Minus, Restrict, Live
    <3>. QED  BY <1>10, <3>2, <3>3 DEF Alike
  <2>. QED  BY <2>4, <2>5, <2>6
<1>16. CASE e.op = "reopen"
  <2>1. m \in DOMAIN r.pool =>
            rr.pool = [r.pool EXCEPT ![m] = Reopened(@)] /\ rr.bound = r.bound /\ rr.from = r.from
    BY <1>6, <1>16 DEF Steps
  <2>2. m \in DOMAIN q.pool =>
            qq.pool = [q.pool EXCEPT ![m] = Reopened(@)] /\ qq.bound = q.bound /\ qq.from = q.from
    BY <1>7, <1>16 DEF Steps
  <2>3. (m \notin DOMAIN r.pool => rr = r) /\ (m \notin DOMAIN q.pool => qq = q)
    BY <1>6, <1>7, <1>16 DEF Steps
  <2>4. CASE m \notin DOMAIN r.pool
    BY <1>10, <2>3, <2>4 DEF Alike
  <2>5. CASE m \in DOMAIN r.pool /\ m = l
    BY <1>9, <1>10, <1>12, <2>1, <2>3, <2>5 DEF Alike
  <2>6. CASE m \in DOMAIN r.pool /\ m # l
    <3>1. m \in DOMAIN q.pool
      BY <1>10, <2>6 DEF Alike
    <3>2. /\ DOMAIN qq.pool = DOMAIN q.pool /\ DOMAIN rr.pool = DOMAIN r.pool
          /\ \A x \in DOMAIN q.pool : qq.pool[x] = IF x = m THEN Reopened(q.pool[x]) ELSE q.pool[x]
          /\ \A x \in DOMAIN r.pool : rr.pool[x] = IF x = m THEN Reopened(r.pool[x]) ELSE r.pool[x]
      BY <2>1, <2>2, <2>6, <3>1
    <3>. QED  BY <1>10, <2>1, <2>2, <2>6, <3>1, <3>2 DEF Alike
  <2>. QED  BY <2>4, <2>5, <2>6
<1>17. CASE e.op = "tomb"
  <2>1. m \in T /\ TombAt(g, m) = TombAt(h, m)
    BY <1>2, <1>11, <1>17
  <2>2. CASE i # TombAt(h, m)
    <3>1. rr = r /\ qq = q
      BY <1>6, <1>7, <1>17, <2>1, <2>2 DEF Steps
    <3>. QED  BY <1>10, <3>1
  <2>3. CASE i = TombAt(h, m)
    <3>. DEFINE rs == {s \in Scopes : Anchor(h, s, i - 1) = m}
                qs == {s \in Scopes : Anchor(g, s, i - 1) = m}
    <3>1. /\ rr.pool = r.pool /\ rr.from = r.from /\ rr.bound = Minus(r.bound, rs)
          /\ qq.pool = q.pool /\ qq.from = q.from /\ qq.bound = Minus(q.bound, qs)
      BY <1>6, <1>7, <1>17, <2>1, <2>3 DEF Steps
    <3>2. (\A s \in rs : r.bound[s] \in D) /\ (\A s \in qs : q.bound[s] \in D)
      BY <1>4, <1>5, <1>12, <2>1
    <3>. HIDE DEF rs, qs
    <3>3. ASSUME NEW s \in Scopes
          PROVE  /\ Live(rr.bound, s, D) <=> Live(r.bound, s, D)
                 /\ Live(qq.bound, s, D) <=> Live(q.bound, s, D)
                 /\ Live(rr.bound, s, D) => rr.bound[s] = r.bound[s]
                 /\ Live(qq.bound, s, D) => qq.bound[s] = q.bound[s]
      BY <3>1, <3>2 DEF Minus, Restrict, Live
    <3>. QED  BY <1>10, <3>1, <3>3 DEF Alike
  <2>. QED  BY <2>2, <2>3
<1>. QED  BY <1>3, <1>13, <1>14, <1>15, <1>16, <1>17

\* The replay with the deletion, and the one without it.
LEMMA Deleting ==
  ASSUME NEW h \in Seq(Events), NEW l \in Ledgers \ Tombs(h), NEW t \in Events,
         t.op = "tomb", t.ledger = l
  PROVE  Alike(Replay(h), Replay(Append(h, t)), Tombs(h) \cup {l}, l)
<1>. DEFINE g == Append(h, t)
            n == Len(h)
            T == Tombs(h)
            D == T \cup {l}
<1>1. g \in Seq(Events) /\ Len(g) = n + 1 /\ n \in Nat /\ g[n + 1] = t
  BY OneMore
<1>2. /\ Tombs(g) = D /\ TombAt(g, l) = n + 1
  <2>1. /\ Tombs(g) = T \cup (IF t.op = "tomb" THEN {t.ledger} ELSE {})
        /\ t.op = "tomb" /\ t.ledger \notin T => TombAt(g, t.ledger) = n + 1
    BY TombsOneMore
  <2>. HIDE DEF g, T
  <2>. QED  BY <2>1 DEF T
<1>3. PICK st : Path(h, st) /\ Replay(h) = st[n]
  BY <1>1, Replaying
<1>4. PICK so : Path(g, so) /\ Replay(g) = so[n + 1]
  <2>1. Len(g) \in Nat
    BY <1>1
  <2>. HIDE DEF g, n
  <2>2. PICK so : Path(g, so) /\ Replay(g) = so[Len(g)]
    BY <2>1, Replaying
  <2>. QED  BY <1>1, <2>2
<1>5. /\ st[0] = Empty /\ \A i \in 1 .. n : st[i] = ReplayStep(h, st[i-1], i)
      /\ \A i \in 0 .. n : SoFar(h, st[i], i)
  BY <1>3, Replayed DEF Path
<1>6. /\ so[0] = Empty /\ \A i \in 1 .. n + 1 : so[i] = ReplayStep(g, so[i-1], i)
      /\ \A i \in 0 .. n + 1 : SoFar(g, so[i], i)
  BY <1>1, <1>4, Replayed DEF Path
<1>. DEFINE B == {i \in 0 .. n : ~Alike(st[i], so[i], D, l)}
<1>7. B = {}
  <2>. SUFFICES ASSUME B # {} PROVE FALSE
    OBVIOUS
  <2>1. B \subseteq Nat
    BY <1>1
  <2>2. PICK i \in B : \A k \in B : i <= k
    BY <2>1, LeastNat
  <2>3. Alike(Empty, Empty, D, l)
    BY DEF Empty, Alike, Live
  <2>4. i # 0
    <3>1. Alike(st[0], so[0], D, l)
      BY <1>5, <1>6, <2>3
    <3>. QED  BY <2>2, <3>1
  <2>5. i \in 1 .. n /\ i \in 1 .. n + 1 /\ i - 1 \in 0 .. n /\ i - 1 \in 0 .. n + 1 /\ i - 1 \notin B
    <3>1. n \in Nat /\ i \in 0 .. n
      BY <1>1
    <3>2. i \in 1 .. n /\ i - 1 \in 0 .. n /\ ~(i <= i - 1)
      <4>. HIDE DEF n, B
      <4>. QED  BY <2>4, <3>1
    <3>3. i - 1 \notin B
      BY <2>2, <3>2
    <3>. HIDE DEF n, B
    <3>. QED  BY <3>1, <3>2, <3>3
  <2>6. SoFar(h, st[i-1], i - 1) /\ SoFar(g, so[i-1], i - 1) /\ Alike(st[i-1], so[i-1], D, l)
    BY <1>5, <1>6, <2>5
  <2>7. st[i] = ReplayStep(h, st[i-1], i) /\ so[i] = ReplayStep(g, so[i-1], i)
    BY <1>5, <1>6, <2>5
  <2>8. Alike(ReplayStep(h, st[i-1], i), ReplayStep(g, so[i-1], i), D, l)
    BY <2>5, <2>6, AlikeStep
  <2>. QED  BY <2>2, <2>7, <2>8
<1>8. n \in 0 .. n /\ n + 1 \in 1 .. n + 1 /\ (n + 1) - 1 = n /\ n \in 0 .. n + 1
  BY <1>1
<1>9. Alike(st[n], so[n], D, l) /\ SoFar(g, so[n], n) /\ so[n + 1] = ReplayStep(g, so[n], n + 1)
  BY <1>6, <1>7, <1>8
<1>10. Steps(g, n + 1, so[n], so[n + 1], t, l)
  <2>1. IsState(so[n]) /\ n + 1 \in 1 .. Len(g)
    BY <1>1, <1>8, <1>9 DEF SoFar
  <2>2. Steps(g, n + 1, so[n], ReplayStep(g, so[n], n + 1), g[n + 1], g[n + 1].ledger)
    BY <1>1, <2>1, StepFields
  <2>. QED  BY <1>1, <1>9, <2>2
<1>11. \A s \in Scopes : Anchor(g, s, n) = l => s \in DOMAIN so[n].bound /\ so[n].bound[s] = l
  BY <1>2, <1>9 DEF SoFar
<1>. HIDE DEF g, n, T, D
<1>12. /\ so[n + 1].pool = so[n].pool /\ so[n + 1].from = so[n].from
       /\ so[n + 1].bound = Minus(so[n].bound, {s \in Scopes : Anchor(g, s, n) = l})
  BY <1>2, <1>8, <1>10 DEF Steps
<1>13. ASSUME NEW s \in Scopes
       PROVE  /\ Live(so[n + 1].bound, s, D) <=> Live(so[n].bound, s, D)
              /\ Live(so[n].bound, s, D) => so[n + 1].bound[s] = so[n].bound[s]
  BY <1>11, <1>12 DEF Minus, Restrict, Live, D
<1>14. Alike(st[n], so[n + 1], D, l)
  BY <1>9, <1>12, <1>13 DEF Alike
<1>. QED  BY <1>3, <1>4, <1>14 DEF D, T, g, n

-----------------------------------------------------------------------------
(* The process and its events. *)

IsPool(p) == DOMAIN p \subseteq Ledgers /\ \A l \in DOMAIN p : p[l] \in Ledger
IsTable(a, o) ==
    DOMAIN a \subseteq Scopes /\ DOMAIN a \subseteq DOMAIN o /\ \A s \in DOMAIN a : a[s] \in Ledgers

\* A pool and a table are what the replay's state r says, but for what is in u and for
\* deleted ledgers.
Matches(r, T, p, a, o, u) ==
    /\ DOMAIN r.pool \subseteq DOMAIN p
    /\ \A l \in DOMAIN p \ (u \cup T) : l \in DOMAIN r.pool /\ r.pool[l] = p[l]
    /\ \A s \in Scopes \ u :
          /\ Live(a, s, T) <=> Live(r.bound, s, T)
          /\ Live(a, s, T) => r.bound[s] = a[s] /\ r.from[s] = o[s]

Agree(h, p, a, o, u) ==
    /\ h \in Seq(Events) /\ IsPool(p) /\ IsTable(a, o)
    /\ Matches(Replay(h), Tombs(h), p, a, o, u)

\* And so of what a restart loads.
LEMMA ReplayIs ==
  ASSUME NEW h \in Seq(Events)
  PROVE  SoFar(h, Replay(h), Len(h))
<1>1. Len(h) \in Nat /\ Len(h) \in 0 .. Len(h)
  OBVIOUS
<1>2. PICK st : Path(h, st) /\ Replay(h) = st[Len(h)]
  BY <1>1, Replaying
<1>. QED  BY <1>1, <1>2, Replayed

\* What a handler does, for each of the events it appends.
Enacts(e, p, a, o, pp, aa, oo) ==
    /\ e.op # "tomb"
    /\ e.op \in Dumps => pp = With(p, e.ledger, e.led) /\ aa = a /\ oo = o
    /\ e.op = "switch" =>
          pp = p /\ aa = With(a, e.scope, e.ledger) /\ oo = With(o, e.scope, e.sess)
    /\ e.op = "close" =>
          /\ e.ledger \in DOMAIN p /\ pp = [p EXCEPT ![e.ledger] = Closed(@, e.succ)]
          /\ aa = Minus(a, {s \in DOMAIN a : a[s] = e.ledger})
          /\ oo = Minus(o, {s \in DOMAIN a : a[s] = e.ledger})
    /\ e.op = "reopen" =>
          e.ledger \in DOMAIN p /\ pp = [p EXCEPT ![e.ledger] = Reopened(@)] /\ aa = a /\ oo = o

\* What an event that is not appended leaves behind.
Leftover(e, a) ==
    IF e.op = "switch" THEN {e.scope}
    ELSE IF e.op = "close" THEN {e.ledger} \cup {s \in DOMAIN a : a[s] = e.ledger}
    ELSE {e.ledger}

\* A handler leaves a pool and a table.
LEMMA Enacted ==
  ASSUME NEW e \in Events, NEW p, NEW a, NEW o, NEW pp, NEW aa, NEW oo,
         IsPool(p), IsTable(a, o), Enacts(e, p, a, o, pp, aa, oo)
  PROVE  IsPool(pp) /\ IsTable(aa, oo)
<1>1. /\ e.ledger \in Ledgers /\ e.op \in Dumps \cup {"switch", "close", "reopen", "tomb"}
      /\ (e.op = "switch" => e.scope \in Scopes) /\ (e.op \in Dumps => e.led \in Ledger)
  BY EventFacts
<1>2. CASE e.op \in Dumps
  BY <1>1, <1>2 DEF Enacts, IsPool, IsTable, With
<1>3. CASE e.op = "switch"
  BY <1>1, <1>3 DEF Enacts, IsPool, IsTable, With
<1>4. CASE e.op = "close"
  <2>1. e.succ \in Ledgers \cup {None}
    BY <1>4 DEF Events, Dumps
  <2>2. \A x \in Ledger : Closed(x, e.succ) \in Ledger
    BY <2>1 DEF Closed, Ledger
  <2>3. IsPool(pp)
    BY <1>1, <1>4, <2>2 DEF Enacts, IsPool
  <2>4. IsTable(aa, oo)
    BY <1>4 DEF Enacts, IsTable, Minus, Restrict
  <2>. QED  BY <2>3, <2>4
<1>5. CASE e.op = "reopen"
  <2>1. \A x \in Ledger : Reopened(x) \in Ledger
    BY DEF Reopened, Ledger
  <2>. QED  BY <1>1, <1>5, <2>1 DEF Enacts, IsPool
<1>. QED  BY <1>1, <1>2, <1>3, <1>4, <1>5 DEF Enacts

\* The event is appended.
LEMMA Hearing ==
  ASSUME NEW h, NEW e \in Events, NEW p, NEW a, NEW o, NEW u, NEW pp, NEW aa, NEW oo, NEW uu,
         Agree(h, p, a, o, u), Enacts(e, p, a, o, pp, aa, oo), u \ Heals(e) \subseteq uu,
         e.op = "close" /\ NeverCreated(h, e.ledger) => Leftover(e, a) \subseteq uu
  PROVE  Agree(Append(h, e), pp, aa, oo, uu) /\ Tombs(Append(h, e)) = Tombs(h)
<1>. DEFINE g == Append(h, e)
            n == Len(h)
            m == e.ledger
            T == Tombs(h)
            r == Replay(h)
            q == Replay(g)
<1>1. /\ m \in Ledgers /\ e.op \in Dumps \cup {"switch", "close", "reopen", "tomb"}
      /\ (e.op = "switch" => e.scope \in Scopes) /\ (e.op \in Dumps => e.led \in Ledger)
      /\ m \notin Scopes
  BY EventFacts, LedgerAssumption DEF LedgerAssumption
<1>2. h \in Seq(Events) /\ IsPool(p) /\ IsTable(a, o) /\ Matches(r, T, p, a, o, u)
  BY DEF Agree
<1>3. IsPool(pp) /\ IsTable(aa, oo)
  BY <1>2, Enacted
<1>4. g \in Seq(Events) /\ Len(g) = n + 1 /\ n \in Nat /\ g[n + 1] = e
  BY <1>2, OneMore
<1>5. e.op # "tomb"
  BY DEF Enacts
<1>6. Tombs(g) = T /\ q = ReplayStep(g, r, n + 1) /\ (Before(g, n + 1) <=> m \notin T)
  BY <1>2, <1>5, OneMoreEvent
<1>7. IsState(r) /\ DOMAIN r.pool = Dumped(h, n) /\ DOMAIN r.bound \subseteq DOMAIN r.from
  BY <1>2, ReplayIs DEF SoFar
<1>8. Steps(g, n + 1, r, q, e, m)
  <2>1. n + 1 \in 1 .. Len(g)
    BY <1>4
  <2>2. Steps(g, n + 1, r, ReplayStep(g, r, n + 1), g[n + 1], g[n + 1].ledger)
    BY <1>4, <1>7, <2>1, StepFields
  <2>. QED  BY <1>4, <1>6, <2>2
<1>9. m \in DOMAIN r.pool <=> m \notin T /\ ~NeverCreated(h, m)
  <2>1. DOMAIN h = 1 .. n
    BY <1>2
  <2>. QED  BY <1>1, <1>7, <2>1 DEF Dumped, NeverCreated
<1>10. DOMAIN r.pool \cap T = {}
  BY <1>7 DEF Dumped
<1>. SUFFICES Matches(q, T, pp, aa, oo, uu)
  BY <1>3, <1>4, <1>6 DEF Agree
<1>. HIDE DEF g, n, T, r, q
<1>11. CASE e.op \in Dumps
  <2>1. pp = With(p, m, e.led) /\ aa = a /\ oo = o
    BY <1>11 DEF Enacts
  <2>2. u \ {m} \subseteq uu
    BY <1>11 DEF Heals, Dumps
  <2>3. Scopes \ uu \subseteq Scopes \ u
    BY <1>1, <2>2
  <2>4. DOMAIN pp = DOMAIN p \cup {m} /\ \A l \in DOMAIN pp : pp[l] = IF l = m THEN e.led ELSE p[l]
    BY <2>1 DEF With
  <2>5. CASE m \in T
    <3>1. q = r
      BY <1>6, <1>8, <1>11, <2>5 DEF Steps
    <3>. QED  BY <1>2, <2>1, <2>2, <2>3, <2>4, <2>5, <3>1 DEF Matches
  <2>6. CASE m \notin T
    <3>1. q.pool = With(r.pool, m, e.led) /\ q.bound = r.bound /\ q.from = r.from
      BY <1>6, <1>8, <1>11, <2>6 DEF Steps
    <3>2. DOMAIN q.pool = DOMAIN r.pool \cup {m} /\ \A l \in DOMAIN q.pool : q.pool[l] = IF l = m THEN e.led ELSE r.pool[l]
      BY <3>1 DEF With
    <3>. QED  BY <1>2, <2>1, <2>2, <2>3, <2>4, <2>6, <3>1, <3>2 DEF Matches
  <2>. QED  BY <2>5, <2>6
<1>12. CASE e.op = "switch"
  <2>1. pp = p /\ aa = With(a, e.scope, m) /\ oo = With(o, e.scope, e.sess)
    BY <1>12 DEF Enacts
  <2>2. u \ {e.scope} \subseteq uu /\ e.scope \in Scopes
    BY <1>1, <1>12 DEF Heals, Dumps
  <2>3. /\ DOMAIN aa = DOMAIN a \cup {e.scope} /\ aa[e.scope] = m /\ oo[e.scope] = e.sess
        /\ \A s \in DOMAIN a \ {e.scope} : aa[s] = a[s] /\ oo[s] = o[s]
    BY <1>2, <2>1 DEF With, IsTable
  <2>4. q.pool = r.pool
    BY <1>8, <1>12 DEF Steps
  <2>5. \A l \in DOMAIN pp \ (uu \cup T) : l \notin u
    BY <1>2, <2>1, <2>2, LedgerAssumption DEF IsPool, LedgerAssumption
  <2>6. ASSUME NEW s \in Scopes \ uu
        PROVE  /\ Live(aa, s, T) <=> Live(q.bound, s, T)
               /\ Live(aa, s, T) => q.bound[s] = aa[s] /\ q.from[s] = oo[s]
    <3>1. CASE m \notin T
      <4>1. q.bound = With(r.bound, e.scope, m) /\ q.from = With(r.from, e.scope, e.sess)
        BY <1>6, <1>8, <1>12, <3>1 DEF Steps
      <4>2. /\ DOMAIN q.bound = DOMAIN r.bound \cup {e.scope} /\ q.bound[e.scope] = m /\ q.from[e.scope] = e.sess
            /\ \A x \in DOMAIN r.bound \ {e.scope} : q.bound[x] = r.bound[x] /\ q.from[x] = r.from[x]
        BY <1>7, <4>1 DEF With
      <4>3. CASE s = e.scope
        BY <2>3, <4>2, <4>3 DEF Live
      <4>4. CASE s # e.scope
        <5>1. s \in Scopes \ u
          BY <2>2, <4>4
        <5>. QED  BY <1>2, <2>3, <4>2, <4>4, <5>1 DEF Live, Matches
      <4>. QED  BY <4>3, <4>4
    <3>2. CASE m \in T
      <4>1. q.bound = Minus(r.bound, {e.scope}) /\ q.from = r.from
        BY <1>6, <1>8, <1>12, <3>2 DEF Steps
      <4>2. /\ DOMAIN q.bound = DOMAIN r.bound \ {e.scope}
            /\ \A x \in DOMAIN r.bound \ {e.scope} : q.bound[x] = r.bound[x]
        BY <4>1 DEF Minus, Restrict
      <4>3. CASE s = e.scope
        BY <2>3, <3>2, <4>2, <4>3 DEF Live
      <4>4. CASE s # e.scope
        <5>1. s \in Scopes \ u
          BY <2>2, <4>4
        <5>. QED  BY <1>2, <2>3, <4>1, <4>2, <4>4, <5>1 DEF Live, Matches
      <4>. QED  BY <4>3, <4>4
    <3>. QED  BY <3>1, <3>2
  <2>7. DOMAIN q.pool \subseteq DOMAIN pp
    BY <1>2, <2>1, <2>4 DEF Matches
  <2>8. \A l \in DOMAIN pp \ (uu \cup T) : l \in DOMAIN q.pool /\ q.pool[l] = pp[l]
    BY <1>2, <2>1, <2>4, <2>5 DEF Matches
  <2>. QED  BY <2>6, <2>7, <2>8 DEF Matches
<1>13. CASE e.op = "close"
  <2>. DEFINE as == {s \in DOMAIN a : a[s] = m}
              rs == {s \in DOMAIN r.bound : r.bound[s] = m}
  <2>1. m \in DOMAIN p /\ pp = [p EXCEPT ![m] = Closed(@, e.succ)] /\ aa = Minus(a, as) /\ oo = Minus(o, as)
    BY <1>13 DEF Enacts
  <2>2. u \subseteq uu
    BY <1>13 DEF Heals, Dumps
  <2>3. DOMAIN pp = DOMAIN p /\ \A l \in DOMAIN pp : pp[l] = IF l = m THEN Closed(p[l], e.succ) ELSE p[l]
    BY <2>1
  <2>4. /\ DOMAIN aa = DOMAIN a \ as
        /\ \A s \in DOMAIN a \ as : aa[s] = a[s] /\ oo[s] = o[s]
    BY <1>2, <2>1 DEF Minus, Restrict, IsTable
  <2>5. CASE m \in DOMAIN r.pool
    <3>1. q.pool = [r.pool EXCEPT ![m] = Closed(@, e.succ)] /\ q.bound = Minus(r.bound, rs) /\ q.from = Minus(r.from, rs)
      BY <1>8, <1>13, <2>5 DEF Steps
    <3>2. /\ DOMAIN q.pool = DOMAIN r.pool
          /\ \A l \in DOMAIN q.pool : q.pool[l] = IF l = m THEN Closed(r.pool[l], e.succ) ELSE r.pool[l]
      BY <3>1
    <3>3. /\ DOMAIN q.bound = DOMAIN r.bound \ rs
          /\ \A s \in DOMAIN r.bound \ rs : q.bound[s] = r.bound[s] /\ q.from[s] = r.from[s]
      BY <1>7, <3>1 DEF Minus, Restrict
    <3>4. m \notin T
      BY <1>10, <2>5
    <3>5. ASSUME NEW s \in Scopes \ uu
          PROVE  /\ Live(aa, s, T) <=> Live(q.bound, s, T)
                 /\ Live(aa, s, T) => q.bound[s] = aa[s] /\ q.from[s] = oo[s]
      <4>1. s \in Scopes \ u
        BY <2>2
      <4>. QED  BY <1>2, <2>4, <3>3, <3>4, <4>1 DEF Live, Matches
    <3>6. DOMAIN q.pool \subseteq DOMAIN pp
      BY <1>2, <2>3, <3>2 DEF Matches
    <3>7. \A l \in DOMAIN pp \ (uu \cup T) : l \in DOMAIN q.pool /\ q.pool[l] = pp[l]
      BY <1>2, <2>2, <2>3, <3>2 DEF Matches
    <3>. QED  BY <3>5, <3>6, <3>7 DEF Matches
  <2>6. CASE m \notin DOMAIN r.pool
    <3>1. q = r
      BY <1>8, <1>13, <2>6 DEF Steps
    <3>2. m \in T \/ ({m} \cup as) \subseteq uu
      BY <1>9, <1>13, <2>6 DEF Leftover, T
    <3>3. ASSUME NEW s \in Scopes \ uu
          PROVE  /\ Live(aa, s, T) <=> Live(q.bound, s, T)
                 /\ Live(aa, s, T) => q.bound[s] = aa[s] /\ q.from[s] = oo[s]
      <4>1. s \in Scopes \ u
        BY <2>2
      <4>2. Live(a, s, T) => s \notin as
        BY <3>2 DEF Live
      <4>. QED  BY <1>2, <2>4, <3>1, <4>1, <4>2 DEF Live, Matches
    <3>4. DOMAIN q.pool \subseteq DOMAIN pp
      BY <1>2, <2>3, <3>1 DEF Matches
    <3>5. \A l \in DOMAIN pp \ (uu \cup T) : l \in DOMAIN q.pool /\ q.pool[l] = pp[l]
      BY <1>2, <2>2, <2>3, <3>1, <3>2 DEF Matches
    <3>. QED  BY <3>3, <3>4, <3>5 DEF Matches
  <2>. QED  BY <2>5, <2>6
<1>14. CASE e.op = "reopen"
  <2>1. m \in DOMAIN p /\ pp = [p EXCEPT ![m] = Reopened(@)] /\ aa = a /\ oo = o
    BY <1>14 DEF Enacts
  <2>2. u \subseteq uu
    BY <1>14 DEF Heals, Dumps
  <2>3. DOMAIN pp = DOMAIN p /\ \A l \in DOMAIN pp : pp[l] = IF l = m THEN Reopened(p[l]) ELSE p[l]
    BY <2>1
  <2>4. CASE m \in DOMAIN r.pool
    <3>1. q.pool = [r.pool EXCEPT ![m] = Reopened(@)] /\ q.bound = r.bound /\ q.from = r.from
      BY <1>8, <1>14, <2>4 DEF Steps
    <3>2. /\ DOMAIN q.pool = DOMAIN r.pool
          /\ \A l \in DOMAIN q.pool : q.pool[l] = IF l = m THEN Reopened(r.pool[l]) ELSE r.pool[l]
      BY <3>1
    <3>. QED  BY <1>2, <2>1, <2>2, <2>3, <3>1, <3>2 DEF Matches
  <2>5. CASE m \notin DOMAIN r.pool
    <3>1. q = r
      BY <1>8, <1>14, <2>5 DEF Steps
    <3>2. m \in u \cup T
      BY <1>2, <2>1, <2>5 DEF Matches
    <3>. QED  BY <1>2, <2>1, <2>2, <2>3, <3>1, <3>2 DEF Matches
  <2>. QED  BY <2>4, <2>5
<1>. QED  BY <1>1, <1>5, <1>11, <1>12, <1>13, <1>14

\* The append fails.
LEMMA Missing ==
  ASSUME NEW h, NEW e \in Events, NEW p, NEW a, NEW o, NEW u, NEW pp, NEW aa, NEW oo, NEW uu,
         Agree(h, p, a, o, u), Enacts(e, p, a, o, pp, aa, oo), u \cup Leftover(e, a) \subseteq uu
  PROVE  Agree(h, pp, aa, oo, uu)
<1>. DEFINE m == e.ledger
            T == Tombs(h)
            r == Replay(h)
<1>1. e.op \in Dumps \cup {"switch", "close", "reopen", "tomb"}
  BY EventFacts
<1>2. h \in Seq(Events) /\ IsPool(p) /\ IsTable(a, o) /\ Matches(r, T, p, a, o, u)
  BY DEF Agree
<1>3. IsPool(pp) /\ IsTable(aa, oo)
  BY <1>2, Enacted
<1>. SUFFICES Matches(r, T, pp, aa, oo, uu)
  BY <1>2, <1>3 DEF Agree
<1>. HIDE DEF T, r
<1>4. CASE e.op \in Dumps
  <2>1. pp = With(p, m, e.led) /\ aa = a /\ oo = o /\ u \cup {m} \subseteq uu
    BY <1>4 DEF Enacts, Leftover, Dumps
  <2>2. DOMAIN pp = DOMAIN p \cup {m} /\ \A l \in DOMAIN pp : pp[l] = IF l = m THEN e.led ELSE p[l]
    BY <2>1 DEF With
  <2>. QED  BY <1>2, <2>1, <2>2 DEF Matches
<1>5. CASE e.op = "switch"
  <2>1. pp = p /\ aa = With(a, e.scope, m) /\ oo = With(o, e.scope, e.sess) /\ u \cup {e.scope} \subseteq uu
    BY <1>5 DEF Enacts, Leftover
  <2>2. /\ DOMAIN aa = DOMAIN a \cup {e.scope}
        /\ \A s \in DOMAIN a \ {e.scope} : aa[s] = a[s] /\ oo[s] = o[s]
    BY <1>2, <2>1 DEF With, IsTable
  <2>3. ASSUME NEW s \in Scopes \ uu
        PROVE  /\ Live(aa, s, T) <=> Live(r.bound, s, T)
               /\ Live(aa, s, T) => r.bound[s] = aa[s] /\ r.from[s] = oo[s]
    <3>1. s \in Scopes \ u /\ s # e.scope
      BY <2>1
    <3>. QED  BY <1>2, <2>2, <3>1 DEF Live, Matches
  <2>. QED  BY <1>2, <2>1, <2>3 DEF Matches
<1>6. CASE e.op = "close"
  <2>. DEFINE as == {s \in DOMAIN a : a[s] = m}
  <2>1. /\ m \in DOMAIN p /\ pp = [p EXCEPT ![m] = Closed(@, e.succ)]
        /\ aa = Minus(a, as) /\ oo = Minus(o, as) /\ u \cup {m} \cup as \subseteq uu
    BY <1>6 DEF Enacts, Leftover
  <2>2. DOMAIN pp = DOMAIN p /\ \A l \in DOMAIN pp \ {m} : pp[l] = p[l]
    BY <2>1
  <2>3. /\ DOMAIN aa = DOMAIN a \ as
        /\ \A s \in DOMAIN a \ as : aa[s] = a[s] /\ oo[s] = o[s]
    BY <1>2, <2>1 DEF Minus, Restrict, IsTable
  <2>. HIDE DEF as
  <2>4. ASSUME NEW s \in Scopes \ uu
        PROVE  /\ Live(aa, s, T) <=> Live(r.bound, s, T)
               /\ Live(aa, s, T) => r.bound[s] = aa[s] /\ r.from[s] = oo[s]
    <3>1. s \in Scopes \ u /\ s \notin as
      BY <2>1
    <3>. QED  BY <1>2, <2>3, <3>1 DEF Live, Matches
  <2>5. \A l \in DOMAIN pp \ (uu \cup T) : l \in DOMAIN r.pool /\ r.pool[l] = pp[l]
    BY <1>2, <2>1, <2>2 DEF Matches
  <2>. QED  BY <1>2, <2>2, <2>4, <2>5 DEF Matches
<1>7. CASE e.op = "reopen"
  <2>1. m \in DOMAIN p /\ pp = [p EXCEPT ![m] = Reopened(@)] /\ aa = a /\ oo = o /\ u \cup {m} \subseteq uu
    BY <1>7 DEF Enacts, Leftover
  <2>2. DOMAIN pp = DOMAIN p /\ \A l \in DOMAIN pp \ {m} : pp[l] = p[l]
    BY <2>1
  <2>. QED  BY <1>2, <2>1, <2>2 DEF Matches
<1>. QED  BY <1>1, <1>4, <1>5, <1>6, <1>7 DEF Enacts

\* What a restart loads is what the Hub says.
LEMMA Loading ==
  ASSUME NEW h \in Seq(Events)
  PROVE  Agree(h, Replay(h).pool, Replay(h).bound, Replay(h).from, {})
<1>1. SoFar(h, Replay(h), Len(h))
  BY ReplayIs
<1>. DEFINE r == Replay(h)
<1>. HIDE DEF r
<1>2. IsPool(r.pool) /\ IsTable(r.bound, r.from)
  BY <1>1 DEF SoFar, Dumped, IsPool, IsTable, r
<1>3. Matches(r, Tombs(h), r.pool, r.bound, r.from, {})
  BY DEF Matches
<1>. QED  BY <1>2, <1>3 DEF Agree, r

\* A deletion leaves the pool and the table, and is heard.
LEMMA DeletingAgrees ==
  ASSUME NEW h, NEW p, NEW a, NEW o, NEW u, NEW l \in Ledgers, NEW t \in Events,
         t.op = "tomb", t.ledger = l, Agree(h, p, a, o, u)
  PROVE  /\ Agree(Append(h, t), Minus(p, {l}), Minus(a, {s \in DOMAIN a : a[s] = l}),
                  Minus(o, {s \in DOMAIN a : a[s] = l}), u)
         /\ Tombs(Append(h, t)) = Tombs(h) \cup {l}
<1>. DEFINE g == Append(h, t)
            T == Tombs(h)
            D == T \cup {l}
            r == Replay(h)
            q == Replay(g)
            as == {s \in DOMAIN a : a[s] = l}
            pp == Minus(p, {l})
            aa == Minus(a, as)
            oo == Minus(o, as)
<1>1. h \in Seq(Events) /\ IsPool(p) /\ IsTable(a, o) /\ Matches(r, T, p, a, o, u)
  BY DEF Agree
<1>2. g \in Seq(Events) /\ Len(g) = Len(h) + 1 /\ Len(h) \in Nat /\ g[Len(h) + 1] = t
  BY <1>1, OneMore
<1>3. Tombs(g) = D
  <2>1. Tombs(g) = T \cup (IF t.op = "tomb" THEN {t.ledger} ELSE {})
    BY <1>1, TombsOneMore
  <2>. QED  BY <2>1
<1>4. DOMAIN pp = DOMAIN p \ {l} /\ \A m \in DOMAIN pp : pp[m] = p[m]
  BY DEF Minus, Restrict
<1>5. DOMAIN aa = DOMAIN a \ as /\ \A s \in DOMAIN a \ as : aa[s] = a[s] /\ oo[s] = o[s]
  BY <1>1 DEF Minus, Restrict, IsTable
<1>6. IsPool(pp)
  BY <1>1, <1>4 DEF IsPool
<1>7. IsTable(aa, oo)
  BY <1>1 DEF Minus, Restrict, IsTable
<1>8. SoFar(h, r, Len(h))
  BY <1>1, ReplayIs
<1>9. DOMAIN r.pool \cap T = {} /\ IsState(r)
  BY <1>8 DEF SoFar, Dumped
<1>. HIDE DEF g, T, D, r, q, pp, aa, oo
<1>10. CASE l \notin T
  <2>1. Alike(r, q, D, l)
    BY <1>1, <1>10, Deleting DEF D, T, r, q, g
  <2>2. ASSUME NEW s \in Scopes \ u
        PROVE  /\ Live(aa, s, D) <=> Live(q.bound, s, D)
               /\ Live(aa, s, D) => q.bound[s] = aa[s] /\ q.from[s] = oo[s]
    <3>1. /\ Live(a, s, T) <=> Live(r.bound, s, T)
          /\ Live(a, s, T) => r.bound[s] = a[s] /\ r.from[s] = o[s]
      BY <1>1 DEF Matches
    <3>2. /\ Live(a, s, D) <=> Live(r.bound, s, D)
          /\ Live(a, s, D) => r.bound[s] = a[s] /\ r.from[s] = o[s]
      BY <3>1 DEF Live, D
    <3>3. /\ Live(aa, s, D) <=> Live(a, s, D)
          /\ Live(aa, s, D) => aa[s] = a[s] /\ oo[s] = o[s]
      BY <1>5 DEF Live, D
    <3>. QED  BY <2>1, <3>2, <3>3 DEF Alike
  <2>3. DOMAIN q.pool \subseteq DOMAIN pp
    BY <1>1, <1>4, <2>1 DEF Matches, Alike
  <2>4. \A m \in DOMAIN pp \ (u \cup D) : m \in DOMAIN q.pool /\ q.pool[m] = pp[m]
    BY <1>1, <1>4, <2>1 DEF Matches, Alike, D
  <2>5. Matches(q, D, pp, aa, oo, u)
    BY <2>2, <2>3, <2>4 DEF Matches
  <2>. QED  BY <1>2, <1>3, <1>6, <1>7, <2>5 DEF Agree, D, T, g, q, pp, aa, oo
<1>11. CASE l \in T
  <2>1. Tombs(g) = T /\ q = ReplayStep(g, r, Len(h) + 1) /\ TombAt(g, l) # Len(h) + 1
    <3>1. Tombs(g) = T /\ q = ReplayStep(g, r, Len(h) + 1)
      BY <1>1, <1>11, OneMoreEvent DEF T, g, q, r
    <3>2. TombAt(g, l) = TombAt(h, l) /\ TombAt(h, l) \in 1 .. Len(h)
      BY <1>1, <1>11, TombsOneMore DEF T, g
    <3>. QED  BY <1>2, <3>1, <3>2
  <2>2. q = r
    <3>1. Len(h) + 1 \in 1 .. Len(g)
      BY <1>2
    <3>2. Steps(g, Len(h) + 1, r, ReplayStep(g, r, Len(h) + 1), g[Len(h) + 1], g[Len(h) + 1].ledger)
      BY <1>2, <1>9, <3>1, StepFields
    <3>. QED  BY <1>2, <2>1, <3>2 DEF Steps
  <2>3. D = T
    BY <1>11 DEF D
  <2>4. ASSUME NEW s \in Scopes \ u
        PROVE  /\ Live(aa, s, T) <=> Live(r.bound, s, T)
               /\ Live(aa, s, T) => r.bound[s] = aa[s] /\ r.from[s] = oo[s]
    <3>1. /\ Live(aa, s, T) <=> Live(a, s, T)
          /\ Live(aa, s, T) => aa[s] = a[s] /\ oo[s] = o[s]
      BY <1>5, <1>11 DEF Live
    <3>. QED  BY <1>1, <3>1 DEF Matches
  <2>5. DOMAIN r.pool \subseteq DOMAIN pp
    BY <1>1, <1>4, <1>9, <1>11 DEF Matches
  <2>6. \A m \in DOMAIN pp \ (u \cup T) : m \in DOMAIN r.pool /\ r.pool[m] = pp[m]
    BY <1>1, <1>4 DEF Matches
  <2>7. Matches(q, D, pp, aa, oo, u)
    BY <2>2, <2>3, <2>4, <2>5, <2>6 DEF Matches
  <2>. QED  BY <1>2, <1>3, <1>6, <1>7, <2>7 DEF Agree, D, T, g, q, pp, aa, oo
<1>. QED  BY <1>10, <1>11

-----------------------------------------------------------------------------
(* What is appended of one, two or three events. *)

\* Parts of a sequence of events.
LEMMA Pieces ==
  ASSUME NEW s \in Seq(Events), NEW m \in 1 .. Len(s), NEW n \in 1 .. Len(s)
  PROVE  /\ SubSeq(s, m, m) = <<s[m]>>
         /\ n = m + 1 => SubSeq(s, m, n) = <<s[m], s[n]>>
         /\ SubSeq(s, 1, 0) = <<>> /\ SubSeq(s, Len(s) + 1, Len(s)) = <<>>
<1>1. m \in Nat /\ Len(s) \in Nat /\ m <= Len(s) /\ s[m] \in Events
  OBVIOUS
<1>2. SubSeq(s, m, m) = <<s[m]>>
  <2>. DEFINE t == SubSeq(s, m, m)
  <2>1. /\ SubSeq(s, m, m) \in Seq(Events) /\ Len(SubSeq(s, m, m)) = 1
        /\ SubSeq(s, m, m)[1] = s[m]
    <3>1. /\ SubSeq(s, m, m) \in Seq(Events)
          /\ Len(SubSeq(s, m, m)) = IF m <= m THEN m - m + 1 ELSE 0
          /\ \A i \in 1 .. m - m + 1 : SubSeq(s, m, m)[i] = s[m + i - 1]
      BY <1>1, SubSeqProperties
    <3>2. m - m + 1 = 1 /\ 1 \in 1 .. m - m + 1 /\ m + 1 - 1 = m
      BY <1>1
    <3>. QED  BY <1>1, <3>1, <3>2
  <2>2. t \in Seq(Events) /\ Len(t) = 1 /\ t[1] = s[m]
    BY <2>1
  <2>. HIDE DEF t
  <2>3. /\ <<s[m]>> \in Seq(Events) /\ Len(<<s[m]>>) = 1
        /\ \A i \in 1 .. Len(t) : t[i] = <<s[m]>>[i]
    BY <1>1, <2>2
  <2>4. t = <<s[m]>>
    BY <2>2, <2>3, SeqEqual
  <2>. QED  BY <2>4 DEF t
<1>3. ASSUME n = m + 1 PROVE SubSeq(s, m, n) = <<s[m], s[n]>>
  <2>. DEFINE t == SubSeq(s, m, n)
  <2>1. n \in 1 .. Len(s) /\ s[n] \in Events
    BY <1>1, <1>3
  <2>2. t \in Seq(Events) /\ Len(t) = 2 /\ t[1] = s[m] /\ t[2] = s[n]
    <3>1. /\ t \in Seq(Events)
          /\ Len(t) = IF m <= n THEN n - m + 1 ELSE 0
          /\ \A i \in 1 .. n - m + 1 : t[i] = s[m + i - 1]
      BY <1>1, <1>3, <2>1, SubSeqProperties
    <3>2. n - m + 1 = 2 /\ 1 \in 1 .. n - m + 1 /\ 2 \in 1 .. n - m + 1 /\ m + 1 - 1 = m /\ m + 2 - 1 = n
      BY <1>1, <1>3
    <3>. HIDE DEF t
    <3>. QED  BY <1>1, <1>3, <3>1, <3>2
  <2>. HIDE DEF t
  <2>3. t = <<s[m], s[n]>>
    <3>1. /\ <<s[m], s[n]>> \in Seq(Events) /\ Len(<<s[m], s[n]>>) = 2
          /\ \A i \in 1 .. Len(t) : i = 1 \/ i = 2
      BY <1>1, <2>1, <2>2
    <3>2. \A i \in 1 .. Len(t) : t[i] = <<s[m], s[n]>>[i]
      BY <2>2, <3>1
    <3>. QED  BY <2>2, <3>1, <3>2, SeqEqual
  <2>. QED  BY <2>3 DEF t
<1>4. SubSeq(s, 1, 0) = <<>> /\ SubSeq(s, Len(s) + 1, Len(s)) = <<>>
  BY <1>1, SubSeqEmpty
<1>. QED  BY <1>2, <1>3, <1>4

LEMMA OneEvent ==
  ASSUME NEW h \in Seq(Events), NEW a \in Events
  PROVE  /\ h \o <<a>> = Append(h, a) /\ h \o <<>> = h
         /\ RemoveAt(<<a>>, 1) = <<>> /\ DOMAIN <<a>> = {1} /\ <<a>>[1] = a
         /\ <<>> \in Seq(Events) /\ <<a>> \in Seq(Events)
<1>1. h \o <<a>> = Append(h, a) /\ h \o <<>> = h
  OBVIOUS
<1>2. RemoveAt(<<a>>, 1) = <<>>
  BY DEF RemoveAt
<1>. QED  BY <1>1, <1>2

LEMMA TwoEvents ==
  ASSUME NEW h \in Seq(Events), NEW a \in Events, NEW b \in Events
  PROVE  /\ h \o <<a, b>> = Append(Append(h, a), b)
         /\ RemoveAt(<<a, b>>, 1) = <<b>> /\ RemoveAt(<<a, b>>, 2) = <<a>>
         /\ SubSeq(<<a, b>>, 1, 1) = <<a>>
         /\ DOMAIN <<a, b>> = {1, 2} /\ <<a, b>>[1] = a /\ <<a, b>>[2] = b
         /\ <<a, b>> \in Seq(Events) /\ Len(<<a, b>>) = 2
<1>1. h \o <<a, b>> = Append(Append(h, a), b)
  OBVIOUS
<1>2. /\ SubSeq(<<a, b>>, 1, 0) = <<>> /\ SubSeq(<<a, b>>, 3, 2) = <<>>
      /\ SubSeq(<<a, b>>, 1, 1) = <<a>> /\ SubSeq(<<a, b>>, 2, 2) = <<b>>
  <2>. DEFINE s == <<a, b>>
  <2>1. s \in Seq(Events) /\ Len(s) = 2 /\ s[1] = a /\ s[2] = b /\ 1 \in 1 .. Len(s) /\ 2 \in 1 .. Len(s)
    OBVIOUS
  <2>. HIDE DEF s
  <2>2. SubSeq(s, 1, 0) = <<>> /\ SubSeq(s, Len(s) + 1, Len(s)) = <<>>
        /\ SubSeq(s, 1, 1) = <<s[1]>> /\ SubSeq(s, 2, 2) = <<s[2]>>
    BY <2>1, Pieces
  <2>. QED  BY <2>1, <2>2 DEF s
<1>3. RemoveAt(<<a, b>>, 1) = <<b>> /\ RemoveAt(<<a, b>>, 2) = <<a>>
  <2>1. /\ RemoveAt(<<a, b>>, 1) = SubSeq(<<a, b>>, 1, 0) \o SubSeq(<<a, b>>, 2, 2)
        /\ RemoveAt(<<a, b>>, 2) = SubSeq(<<a, b>>, 1, 1) \o SubSeq(<<a, b>>, 3, 2)
    BY DEF RemoveAt
  <2>2. <<>> \o <<b>> = <<b>> /\ <<a>> \o <<>> = <<a>>
    OBVIOUS
  <2>. QED  BY <1>2, <2>1, <2>2
<1>. QED  BY <1>1, <1>2, <1>3

LEMMA ThreeEvents ==
  ASSUME NEW h \in Seq(Events), NEW a \in Events, NEW b \in Events, NEW c \in Events
  PROVE  /\ h \o <<a, b, c>> = Append(Append(Append(h, a), b), c)
         /\ RemoveAt(<<a, b, c>>, 1) = <<b, c>> /\ RemoveAt(<<a, b, c>>, 2) = <<a, c>>
         /\ RemoveAt(<<a, b, c>>, 3) = <<a, b>>
         /\ SubSeq(<<a, b, c>>, 1, 1) = <<a>> /\ SubSeq(<<a, b, c>>, 1, 2) = <<a, b>>
         /\ DOMAIN <<a, b, c>> = {1, 2, 3}
         /\ <<a, b, c>>[1] = a /\ <<a, b, c>>[2] = b /\ <<a, b, c>>[3] = c
         /\ <<a, b, c>> \in Seq(Events) /\ Len(<<a, b, c>>) = 3
<1>1. h \o <<a, b, c>> = Append(Append(Append(h, a), b), c)
  OBVIOUS
<1>2. /\ SubSeq(<<a, b, c>>, 1, 0) = <<>> /\ SubSeq(<<a, b, c>>, 4, 3) = <<>>
      /\ SubSeq(<<a, b, c>>, 1, 1) = <<a>> /\ SubSeq(<<a, b, c>>, 3, 3) = <<c>>
      /\ SubSeq(<<a, b, c>>, 1, 2) = <<a, b>> /\ SubSeq(<<a, b, c>>, 2, 3) = <<b, c>>
  <2>. DEFINE s == <<a, b, c>>
  <2>1. /\ s \in Seq(Events) /\ Len(s) = 3 /\ s[1] = a /\ s[2] = b /\ s[3] = c
        /\ 1 \in 1 .. Len(s) /\ 2 \in 1 .. Len(s) /\ 3 \in 1 .. Len(s)
    OBVIOUS
  <2>. HIDE DEF s
  <2>2. SubSeq(s, 1, 0) = <<>> /\ SubSeq(s, Len(s) + 1, Len(s)) = <<>>
        /\ SubSeq(s, 1, 1) = <<s[1]>> /\ SubSeq(s, 3, 3) = <<s[3]>>
    BY <2>1, Pieces
  <2>3. SubSeq(s, 1, 2) = <<s[1], s[2]>> /\ SubSeq(s, 2, 3) = <<s[2], s[3]>>
    BY <2>1, Pieces
  <2>. QED  BY <2>1, <2>2, <2>3 DEF s
<1>3. /\ RemoveAt(<<a, b, c>>, 1) = <<b, c>> /\ RemoveAt(<<a, b, c>>, 2) = <<a, c>>
      /\ RemoveAt(<<a, b, c>>, 3) = <<a, b>>
  <2>1. /\ RemoveAt(<<a, b, c>>, 1) = SubSeq(<<a, b, c>>, 1, 0) \o SubSeq(<<a, b, c>>, 2, 3)
        /\ RemoveAt(<<a, b, c>>, 2) = SubSeq(<<a, b, c>>, 1, 1) \o SubSeq(<<a, b, c>>, 3, 3)
        /\ RemoveAt(<<a, b, c>>, 3) = SubSeq(<<a, b, c>>, 1, 2) \o SubSeq(<<a, b, c>>, 4, 3)
    BY DEF RemoveAt
  <2>2. <<>> \o <<b, c>> = <<b, c>>
    OBVIOUS
  <2>3. <<a>> \o <<c>> = <<a, c>>
    <3>1. <<a>> \in Seq(Events)
      OBVIOUS
    <3>2. <<a>> \o <<c>> = Append(<<a>>, c)
      BY <3>1, OneEvent
    <3>3. Append(<<a>>, c) = <<a, c>>
      <4>. DEFINE t == Append(<<a>>, c)
      <4>1. t \in Seq(Events) /\ Len(t) = 2 /\ t[1] = a /\ t[2] = c
        BY <3>1, OneMore
      <4>2. <<a, c>> \in Seq(Events) /\ Len(<<a, c>>) = 2 /\ <<a, c>>[1] = a /\ <<a, c>>[2] = c
        OBVIOUS
      <4>. HIDE DEF t
      <4>3. \A i \in 1 .. Len(t) : t[i] = <<a, c>>[i]
        BY <4>1, <4>2
      <4>4. t = <<a, c>>
        BY <4>1, <4>2, <4>3, SeqEqual
      <4>. QED  BY <4>4 DEF t
    <3>. QED  BY <3>2, <3>3
  <2>4. <<a, b>> \o <<>> = <<a, b>>
    OBVIOUS
  <2>. QED  BY <1>2, <2>1, <2>2, <2>3, <2>4
<1>. QED  BY <1>1, <1>2, <1>3

-----------------------------------------------------------------------------
(* A handler and its events. *)

Agrees == Agree(hub, pool, active, owner, unsaved)

\* What differs from the Hub is a ledger that lost an event, or one that is deleted.
Listed == unsaved \cap Ledgers \subseteq reissued \cup Tombs(hub)

\* The pool that is loaded after a crash has what q has.
LoadedFrom(q) ==
    \A l \in DOMAIN q \ (unsaved \cup Tombs(hub)) : l \in DOMAIN pool' /\ pool'[l] = q[l]

\* What a handler leaves, whatever fails of it: the invariants, ...
Leaves ==
    /\ Agree(hub', pool', active', owner', unsaved') /\ Tombs(hub') = Tombs(hub)
    /\ unsaved' \cap Ledgers \subseteq reissued' \cup Tombs(hub) /\ reissued \subseteq reissued'

\* ... and the pool p, or, if the process dies, what it loads again.
Finishes(p) == pool' = p /\ dropped' = dropped
Dies(p) == dropped' = dropped \cup (AtRisk(p) \ EntriesOf(pool', Ledgers))

LEMMA StraysAre ==
  ASSUME NEW e \in Events
  PROVE  Strays(e) = Leftover(e, active)
<1>1. e.op \in Dumps \cup {"switch", "close", "reopen", "tomb"}
  BY EventFacts
<1>2. CASE e.op = "switch"
  BY <1>2 DEF Strays, Leftover
<1>3. CASE e.op = "close"
  BY <1>3 DEF Strays, Leftover
<1>4. CASE e.op \notin {"switch", "close"}
  BY <1>4 DEF Strays, Leftover
<1>. QED  BY <1>2, <1>3, <1>4

\* What is unsaved once evs are appended.
LEMMA UnsavedIs ==
  ASSUME NEW evs \in Seq(Events)
  PROVE  /\ \A x \in unsaved : (\A i \in DOMAIN evs : x \notin Heals(evs[i])) => x \in Unsaved(evs)
         /\ \A i \in DOMAIN evs : evs[i].op = "close" /\ NeverCreated(hub, evs[i].ledger) =>
                Strays(evs[i]) \subseteq Unsaved(evs)
         /\ \A x \in Unsaved(evs) :
                \/ x \in unsaved
                \/ \E i \in DOMAIN evs : /\ evs[i].op = "close" /\ NeverCreated(hub, evs[i].ledger)
                                         /\ x \in Strays(evs[i])
BY DEF Unsaved

\* What an event leaves behind, of the ledgers, is its own.
LEMMA LeftoverLedger ==
  ASSUME NEW e \in Events, NEW a, DOMAIN a \subseteq Scopes
  PROVE  Leftover(e, a) \cap Ledgers \subseteq {e.ledger}
<1>1. e.op = "switch" => e.scope \in Scopes
  BY EventFacts
<1>2. Ledgers \cap Scopes = {}
  BY LedgerAssumption DEF LedgerAssumption
<1>. QED  BY <1>1, <1>2 DEF Leftover

\* A ledger of the pool that was never written to the Hub is unsaved, or deleted.
LEMMA NeverWritten ==
  ASSUME NEW h, NEW p, NEW a, NEW o, NEW u, Agree(h, p, a, o, u),
         NEW l \in DOMAIN p, NeverCreated(h, l)
  PROVE  l \in u \cup Tombs(h)
<1>1. h \in Seq(Events) /\ Matches(Replay(h), Tombs(h), p, a, o, u)
  BY DEF Agree
<1>2. DOMAIN Replay(h).pool = Dumped(h, Len(h)) /\ DOMAIN h = 1 .. Len(h)
  BY <1>1, ReplayIs DEF SoFar
<1>3. l \notin DOMAIN Replay(h).pool
  BY <1>2 DEF Dumped, NeverCreated
<1>. QED  BY <1>1, <1>3 DEF Matches

\* A handler of one event.
LEMMA PerformOne ==
  ASSUME Agrees, Listed, NEW e \in Events, NEW p, NEW a, NEW o,
         Enacts(e, pool, active, owner, p, a, o), Perform(<<e>>, p, a, o)
  PROVE  Leaves /\ Finishes(p)
<1>1. /\ Agree(hub, pool, active, owner, unsaved)
      /\ hub \in Seq(Events) /\ DOMAIN active \subseteq Scopes
  BY DEF Agrees, Agree, IsTable
<1>2. /\ hub \o <<e>> = Append(hub, e) /\ hub \o <<>> = hub
      /\ RemoveAt(<<e>>, 1) = <<>> /\ DOMAIN <<e>> = {1} /\ <<e>>[1] = e
      /\ <<>> \in Seq(Events) /\ <<e>> \in Seq(Events)
  BY <1>1, OneEvent
<1>3. Strays(e) = Leftover(e, active) /\ Leftover(e, active) \cap Ledgers \subseteq {e.ledger}
  BY <1>1, StraysAre, LeftoverLedger
<1>4. CASE hub' = hub \o <<e>> /\ pool' = p /\ active' = a /\ owner' = o
           /\ unsaved' = Unsaved(<<e>>) /\ reissued' = reissued /\ dropped' = dropped
  <2>1. unsaved \ Heals(e) \subseteq Unsaved(<<e>>)
    BY <1>2, UnsavedIs
  <2>2. e.op = "close" /\ NeverCreated(hub, e.ledger) => Leftover(e, active) \subseteq Unsaved(<<e>>)
    BY <1>2, <1>3, UnsavedIs
  <2>3. Agree(Append(hub, e), p, a, o, Unsaved(<<e>>)) /\ Tombs(Append(hub, e)) = Tombs(hub)
    BY <1>1, <2>1, <2>2, Hearing
  <2>4. ASSUME NEW x \in Unsaved(<<e>>) \cap Ledgers PROVE x \in reissued \cup Tombs(hub)
    <3>1. CASE x \in unsaved
      BY <3>1 DEF Listed
    <3>2. CASE x \notin unsaved
      <4>1. e.op = "close" /\ NeverCreated(hub, e.ledger) /\ x \in Strays(e)
        BY <1>2, <3>2, UnsavedIs
      <4>2. x = e.ledger /\ e.ledger \in DOMAIN pool
        BY <1>3, <4>1 DEF Enacts
      <4>3. x \in unsaved \cup Tombs(hub)
        BY <1>1, <4>1, <4>2, NeverWritten
      <4>. QED  BY <3>2, <4>3
    <3>. QED  BY <3>1, <3>2
  <2>. QED  BY <1>2, <1>4, <2>3, <2>4 DEF Leaves, Finishes
<1>5. CASE hub' = hub \o <<>> /\ pool' = p /\ active' = a /\ owner' = o
           /\ unsaved' = Unsaved(<<>>) \cup Strays(e) /\ reissued' = reissued \cup {e.ledger}
           /\ dropped' = dropped
  <2>1. unsaved \subseteq Unsaved(<<>>) /\ Unsaved(<<>>) \subseteq unsaved
    <3>. DEFINE none == <<>>
    <3>1. none \in Seq(Events) /\ DOMAIN none = {}
      OBVIOUS
    <3>. HIDE DEF none
    <3>2. unsaved \subseteq Unsaved(none) /\ Unsaved(none) \subseteq unsaved
      BY <3>1, UnsavedIs
    <3>. QED  BY <3>2 DEF none
  <2>2. Agree(hub, p, a, o, Unsaved(<<>>) \cup Strays(e))
    BY <1>1, <1>3, <2>1, Missing
  <2>3. (Unsaved(<<>>) \cup Strays(e)) \cap Ledgers \subseteq reissued \cup {e.ledger} \cup Tombs(hub)
    BY <1>3, <2>1 DEF Listed
  <2>. QED  BY <1>2, <1>5, <2>2, <2>3 DEF Leaves, Finishes
<1>6. 1 .. Len(<<e>>) - 1 = {}
  OBVIOUS
<1>7. CASE \E i \in DOMAIN <<e>> :
              /\ hub' = hub \o RemoveAt(<<e>>, i)
              /\ unsaved' = Unsaved(RemoveAt(<<e>>, i)) \cup Strays(<<e>>[i])
              /\ reissued' = reissued \cup {<<e>>[i].ledger}
              /\ pool' = p /\ active' = a /\ owner' = o /\ dropped' = dropped
  BY <1>2, <1>5, <1>7
<1>. QED  BY <1>4, <1>6, <1>7 DEF Perform

\* Every handler of two or three events closes nothing.
LEMMA PerformTwo ==
  ASSUME Agrees, Listed, NEW e \in Events, NEW f \in Events, e.op # "close", f.op # "close",
         NEW p1, NEW a1, NEW o1, Enacts(e, pool, active, owner, p1, a1, o1),
         NEW p, NEW a, NEW o, Enacts(f, p1, a1, o1, p, a, o),
         Perform(<<e, f>>, p, a, o)
  PROVE  Leaves /\ (Finishes(p) \/ (Dies(p) /\ LoadedFrom(p1)))
<1>1. /\ Agree(hub, pool, active, owner, unsaved)
      /\ hub \in Seq(Events) /\ DOMAIN active \subseteq Scopes
  BY DEF Agrees, Agree, IsTable
<1>2. /\ hub \o <<e, f>> = Append(Append(hub, e), f)
      /\ RemoveAt(<<e, f>>, 1) = <<f>> /\ RemoveAt(<<e, f>>, 2) = <<e>>
      /\ SubSeq(<<e, f>>, 1, 1) = <<e>>
      /\ DOMAIN <<e, f>> = {1, 2} /\ <<e, f>>[1] = e /\ <<e, f>>[2] = f
      /\ <<e, f>> \in Seq(Events) /\ Len(<<e, f>>) = 2
  BY <1>1, TwoEvents
<1>3. /\ hub \o <<e>> = Append(hub, e) /\ DOMAIN <<e>> = {1} /\ <<e>>[1] = e /\ <<e>> \in Seq(Events)
      /\ hub \o <<f>> = Append(hub, f) /\ DOMAIN <<f>> = {1} /\ <<f>>[1] = f /\ <<f>> \in Seq(Events)
  BY <1>1, OneEvent
<1>4. /\ Strays(e) = Leftover(e, active) /\ Leftover(e, active) \cap Ledgers \subseteq {e.ledger}
      /\ Strays(f) = Leftover(f, active) /\ Leftover(f, active) \cap Ledgers \subseteq {f.ledger}
  BY <1>1, StraysAre, LeftoverLedger
<1>5. Leftover(f, a1) = Leftover(f, active)
  BY DEF Leftover
<1>6. /\ Unsaved(<<e, f>>) \subseteq unsaved /\ (unsaved \ Heals(e)) \ Heals(f) \subseteq Unsaved(<<e, f>>)
      /\ Unsaved(<<e>>) \subseteq unsaved /\ unsaved \ Heals(e) \subseteq Unsaved(<<e>>)
      /\ Unsaved(<<f>>) \subseteq unsaved /\ unsaved \ Heals(f) \subseteq Unsaved(<<f>>)
  <2>1. Unsaved(<<e, f>>) \subseteq unsaved /\ (unsaved \ Heals(e)) \ Heals(f) \subseteq Unsaved(<<e, f>>)
    BY <1>2, UnsavedIs
  <2>2. /\ Unsaved(<<e>>) \subseteq unsaved /\ unsaved \ Heals(e) \subseteq Unsaved(<<e>>)
        /\ Unsaved(<<f>>) \subseteq unsaved /\ unsaved \ Heals(f) \subseteq Unsaved(<<f>>)
    BY <1>3, UnsavedIs
  <2>. QED  BY <2>1, <2>2
<1>7. /\ Agree(Append(hub, e), p1, a1, o1, unsaved \ Heals(e)) /\ Tombs(Append(hub, e)) = Tombs(hub)
  BY <1>1, Hearing
<1>8. CASE hub' = hub \o <<e, f>> /\ pool' = p /\ active' = a /\ owner' = o
           /\ unsaved' = Unsaved(<<e, f>>) /\ reissued' = reissued /\ dropped' = dropped
  <2>1. Agree(Append(Append(hub, e), f), p, a, o, Unsaved(<<e, f>>))
        /\ Tombs(Append(Append(hub, e), f)) = Tombs(Append(hub, e))
    BY <1>6, <1>7, Hearing
  <2>2. Unsaved(<<e, f>>) \cap Ledgers \subseteq reissued \cup Tombs(hub)
    BY <1>6 DEF Listed
  <2>. QED  BY <1>2, <1>7, <1>8, <2>1, <2>2 DEF Leaves, Finishes
<1>9. CASE hub' = hub \o <<f>> /\ pool' = p /\ active' = a /\ owner' = o
           /\ unsaved' = Unsaved(<<f>>) \cup Strays(e) /\ reissued' = reissued \cup {e.ledger}
           /\ dropped' = dropped
  <2>1. Agree(hub, p1, a1, o1, unsaved \cup Strays(e))
    BY <1>1, <1>4, Missing
  <2>2. Agree(Append(hub, f), p, a, o, Unsaved(<<f>>) \cup Strays(e)) /\ Tombs(Append(hub, f)) = Tombs(hub)
    <3>1. (unsaved \cup Strays(e)) \ Heals(f) \subseteq Unsaved(<<f>>) \cup Strays(e)
      BY <1>6
    <3>. QED  BY <2>1, <3>1, Hearing
  <2>3. (Unsaved(<<f>>) \cup Strays(e)) \cap Ledgers \subseteq reissued \cup {e.ledger} \cup Tombs(hub)
    BY <1>4, <1>6 DEF Listed
  <2>. QED  BY <1>3, <1>9, <2>2, <2>3 DEF Leaves, Finishes
<1>10. CASE hub' = hub \o <<e>> /\ pool' = p /\ active' = a /\ owner' = o
            /\ unsaved' = Unsaved(<<e>>) \cup Strays(f) /\ reissued' = reissued \cup {f.ledger}
            /\ dropped' = dropped
  <2>1. (unsaved \ Heals(e)) \cup Leftover(f, a1) \subseteq Unsaved(<<e>>) \cup Strays(f)
    BY <1>4, <1>5, <1>6
  <2>2. Agree(Append(hub, e), p, a, o, Unsaved(<<e>>) \cup Strays(f))
    BY <1>7, <2>1, Missing
  <2>3. (Unsaved(<<e>>) \cup Strays(f)) \cap Ledgers \subseteq reissued \cup {f.ledger} \cup Tombs(hub)
    BY <1>4, <1>6 DEF Listed
  <2>. QED  BY <1>3, <1>7, <1>10, <2>2, <2>3 DEF Leaves, Finishes
<1>11. CASE hub' = hub \o <<e>> /\ Load(hub') /\ Dies(p) /\ unsaved' = {} /\ reissued' = reissued
  <2>1. hub' = Append(hub, e) /\ hub' \in Seq(Events)
    BY <1>3, <1>7, <1>11 DEF Agree
  <2>2. Agree(hub', pool', active', owner', {})
    BY <1>11, <2>1, Loading DEF Load
  <2>3. LoadedFrom(p1)
    <3>1. Matches(Replay(hub'), Tombs(hub), p1, a1, o1, unsaved \ Heals(e))
      BY <1>7, <2>1 DEF Agree
    <3>. QED  BY <1>11, <3>1 DEF Matches, LoadedFrom, Load
  <2>. QED  BY <1>7, <1>11, <2>1, <2>2, <2>3 DEF Leaves
<1>12. 1 .. Len(<<e, f>>) - 1 = {1}
  BY <1>2
<1>. QED  BY <1>2, <1>8, <1>9, <1>10, <1>11, <1>12 DEF Perform, Dies

\* A handler of three events.
LEMMA PerformThree ==
  ASSUME Agrees, Listed, NEW e \in Events, NEW f \in Events, NEW g \in Events,
         e.op # "close", f.op # "close", g.op # "close",
         NEW p1, NEW a1, NEW o1, Enacts(e, pool, active, owner, p1, a1, o1),
         NEW p2, NEW a2, NEW o2, Enacts(f, p1, a1, o1, p2, a2, o2),
         NEW p, NEW a, NEW o, Enacts(g, p2, a2, o2, p, a, o),
         Perform(<<e, f, g>>, p, a, o)
  PROVE  Leaves /\ (Finishes(p) \/ (Dies(p) /\ (LoadedFrom(p1) \/ LoadedFrom(p2))))
<1>. DEFINE H == Append(hub, e)
            L(x) == Leftover(x, active)
            U(evs) == Unsaved(evs)
<1>1. /\ Agree(hub, pool, active, owner, unsaved)
      /\ hub \in Seq(Events) /\ DOMAIN active \subseteq Scopes
  BY DEF Agrees, Agree, IsTable
<1>2. /\ hub \o <<e, f, g>> = Append(Append(H, f), g)
      /\ RemoveAt(<<e, f, g>>, 1) = <<f, g>> /\ RemoveAt(<<e, f, g>>, 2) = <<e, g>>
      /\ RemoveAt(<<e, f, g>>, 3) = <<e, f>>
      /\ SubSeq(<<e, f, g>>, 1, 1) = <<e>> /\ SubSeq(<<e, f, g>>, 1, 2) = <<e, f>>
      /\ DOMAIN <<e, f, g>> = {1, 2, 3}
      /\ <<e, f, g>>[1] = e /\ <<e, f, g>>[2] = f /\ <<e, f, g>>[3] = g
      /\ <<e, f, g>> \in Seq(Events) /\ Len(<<e, f, g>>) = 3
  BY <1>1, ThreeEvents
<1>3. /\ hub \o <<f, g>> = Append(Append(hub, f), g)
      /\ hub \o <<e, g>> = Append(H, g) /\ hub \o <<e, f>> = Append(H, f)
      /\ hub \o <<e>> = H
  BY <1>1, TwoEvents, OneEvent
<1>4. \A x \in {e, f, g} : Strays(x) = L(x) /\ L(x) \cap Ledgers \subseteq {x.ledger}
  BY <1>1, StraysAre, LeftoverLedger
<1>5. Leftover(f, a1) = L(f) /\ Leftover(g, a2) = L(g)
  BY DEF Leftover
<1>6. \A x, y \in {e, f, g} :
          U(<<x, y>>) \subseteq unsaved /\ (unsaved \ Heals(x)) \ Heals(y) \subseteq U(<<x, y>>)
  <2>. TAKE x, y \in {e, f, g}
  <2>1. x \in Events /\ y \in Events /\ x.op # "close" /\ y.op # "close"
    OBVIOUS
  <2>2. DOMAIN <<x, y>> = {1, 2} /\ <<x, y>>[1] = x /\ <<x, y>>[2] = y /\ <<x, y>> \in Seq(Events)
    BY <2>1
  <2>. QED  BY <2>1, <2>2, UnsavedIs
<1>7. /\ U(<<e, f, g>>) \subseteq unsaved
      /\ ((unsaved \ Heals(e)) \ Heals(f)) \ Heals(g) \subseteq U(<<e, f, g>>)
  BY <1>2, UnsavedIs
<1>8. Agree(H, p1, a1, o1, unsaved \ Heals(e)) /\ Tombs(H) = Tombs(hub)
  BY <1>1, Hearing
<1>9. /\ Agree(Append(H, f), p2, a2, o2, (unsaved \ Heals(e)) \ Heals(f))
      /\ Tombs(Append(H, f)) = Tombs(hub)
  BY <1>8, Hearing
<1>. HIDE DEF H, L, U
<1>10. CASE hub' = Append(Append(H, f), g) /\ pool' = p /\ active' = a /\ owner' = o
            /\ unsaved' = U(<<e, f, g>>) /\ reissued' = reissued /\ dropped' = dropped
  <2>1. Agree(Append(Append(H, f), g), p, a, o, U(<<e, f, g>>))
        /\ Tombs(Append(Append(H, f), g)) = Tombs(Append(H, f))
    BY <1>7, <1>9, Hearing
  <2>2. U(<<e, f, g>>) \cap Ledgers \subseteq reissued \cup Tombs(hub)
    BY <1>7 DEF Listed
  <2>. QED  BY <1>9, <1>10, <2>1, <2>2 DEF Leaves, Finishes
<1>11. CASE hub' = Append(Append(hub, f), g) /\ pool' = p /\ active' = a /\ owner' = o
            /\ unsaved' = U(<<f, g>>) \cup L(e) /\ reissued' = reissued \cup {e.ledger}
            /\ dropped' = dropped
  <2>1. Agree(hub, p1, a1, o1, unsaved \cup L(e))
    BY <1>1, Missing DEF L
  <2>. DEFINE u1 == (unsaved \cup L(e)) \ Heals(f)
  <2>2. Agree(Append(hub, f), p2, a2, o2, u1) /\ Tombs(Append(hub, f)) = Tombs(hub)
    BY <2>1, Hearing
  <2>3. u1 \ Heals(g) \subseteq U(<<f, g>>) \cup L(e)
    BY <1>6
  <2>. HIDE DEF u1
  <2>4. /\ Agree(Append(Append(hub, f), g), p, a, o, U(<<f, g>>) \cup L(e))
        /\ Tombs(Append(Append(hub, f), g)) = Tombs(Append(hub, f))
    BY <2>2, <2>3, Hearing
  <2>5. (U(<<f, g>>) \cup L(e)) \cap Ledgers \subseteq reissued \cup {e.ledger} \cup Tombs(hub)
    BY <1>4, <1>6 DEF Listed
  <2>. QED  BY <1>11, <2>2, <2>4, <2>5 DEF Leaves, Finishes
<1>12. CASE hub' = Append(H, g) /\ pool' = p /\ active' = a /\ owner' = o
            /\ unsaved' = U(<<e, g>>) \cup L(f) /\ reissued' = reissued \cup {f.ledger}
            /\ dropped' = dropped
  <2>. DEFINE u1 == (unsaved \ Heals(e)) \cup L(f)
  <2>1. Agree(H, p2, a2, o2, u1)
    BY <1>5, <1>8, Missing
  <2>2. u1 \ Heals(g) \subseteq U(<<e, g>>) \cup L(f)
    BY <1>6
  <2>. HIDE DEF u1
  <2>3. Agree(Append(H, g), p, a, o, U(<<e, g>>) \cup L(f)) /\ Tombs(Append(H, g)) = Tombs(H)
    BY <2>1, <2>2, Hearing
  <2>4. (U(<<e, g>>) \cup L(f)) \cap Ledgers \subseteq reissued \cup {f.ledger} \cup Tombs(hub)
    BY <1>4, <1>6 DEF Listed
  <2>. QED  BY <1>8, <1>12, <2>3, <2>4 DEF Leaves, Finishes
<1>13. CASE hub' = Append(H, f) /\ pool' = p /\ active' = a /\ owner' = o
            /\ unsaved' = U(<<e, f>>) \cup L(g) /\ reissued' = reissued \cup {g.ledger}
            /\ dropped' = dropped
  <2>1. ((unsaved \ Heals(e)) \ Heals(f)) \cup Leftover(g, a2) \subseteq U(<<e, f>>) \cup L(g)
    BY <1>5, <1>6
  <2>2. Agree(Append(H, f), p, a, o, U(<<e, f>>) \cup L(g))
    BY <1>9, <2>1, Missing
  <2>3. (U(<<e, f>>) \cup L(g)) \cap Ledgers \subseteq reissued \cup {g.ledger} \cup Tombs(hub)
    BY <1>4, <1>6 DEF Listed
  <2>. QED  BY <1>9, <1>13, <2>2, <2>3 DEF Leaves, Finishes
<1>14. CASE hub' = H /\ Load(hub') /\ Dies(p) /\ unsaved' = {} /\ reissued' = reissued
  <2>1. hub' \in Seq(Events)
    BY <1>8, <1>14 DEF Agree
  <2>2. Agree(hub', pool', active', owner', {})
    BY <1>14, <2>1, Loading DEF Load
  <2>3. LoadedFrom(p1)
    <3>1. Matches(Replay(hub'), Tombs(hub), p1, a1, o1, unsaved \ Heals(e))
      BY <1>8, <1>14 DEF Agree
    <3>. QED  BY <1>14, <3>1 DEF Matches, LoadedFrom, Load
  <2>. QED  BY <1>8, <1>14, <2>2, <2>3 DEF Leaves
<1>15. CASE hub' = Append(H, f) /\ Load(hub') /\ Dies(p) /\ unsaved' = {} /\ reissued' = reissued
  <2>1. hub' \in Seq(Events)
    BY <1>9, <1>15 DEF Agree
  <2>2. Agree(hub', pool', active', owner', {})
    BY <1>15, <2>1, Loading DEF Load
  <2>3. LoadedFrom(p2)
    <3>1. Matches(Replay(hub'), Tombs(hub), p2, a2, o2, (unsaved \ Heals(e)) \ Heals(f))
      BY <1>9, <1>15 DEF Agree
    <3>. QED  BY <1>15, <3>1 DEF Matches, LoadedFrom, Load
  <2>. QED  BY <1>9, <1>15, <2>2, <2>3 DEF Leaves
<1>16. 1 .. Len(<<e, f, g>>) - 1 = {1, 2}
  BY <1>2
<1>17. CASE \E i \in DOMAIN <<e, f, g>> :
               /\ hub' = hub \o RemoveAt(<<e, f, g>>, i)
               /\ unsaved' = Unsaved(RemoveAt(<<e, f, g>>, i)) \cup Strays(<<e, f, g>>[i])
               /\ reissued' = reissued \cup {<<e, f, g>>[i].ledger}
               /\ pool' = p /\ active' = a /\ owner' = o /\ dropped' = dropped
  <2>1. PICK i \in {1, 2, 3} :
               /\ hub' = hub \o RemoveAt(<<e, f, g>>, i)
               /\ unsaved' = Unsaved(RemoveAt(<<e, f, g>>, i)) \cup Strays(<<e, f, g>>[i])
               /\ reissued' = reissued \cup {<<e, f, g>>[i].ledger}
               /\ pool' = p /\ active' = a /\ owner' = o /\ dropped' = dropped
    BY <1>2, <1>17
  <2>2. CASE i = 1
    BY <1>2, <1>3, <1>4, <1>11, <2>1, <2>2 DEF U
  <2>3. CASE i = 2
    BY <1>2, <1>3, <1>4, <1>12, <2>1, <2>3 DEF U
  <2>4. CASE i = 3
    BY <1>2, <1>3, <1>4, <1>13, <2>1, <2>4 DEF U
  <2>. QED  BY <2>1, <2>2, <2>3, <2>4
<1>18. CASE \E n \in 1 .. Len(<<e, f, g>>) - 1 :
               /\ hub' = hub \o SubSeq(<<e, f, g>>, 1, n)
               /\ Load(hub') /\ Dies(p) /\ unsaved' = {} /\ reissued' = reissued
  <2>1. PICK n \in {1, 2} :
               /\ hub' = hub \o SubSeq(<<e, f, g>>, 1, n)
               /\ Load(hub') /\ Dies(p) /\ unsaved' = {} /\ reissued' = reissued
    BY <1>16, <1>18
  <2>2. CASE n = 1
    BY <1>2, <1>3, <1>14, <2>1, <2>2
  <2>3. CASE n = 2
    BY <1>2, <1>3, <1>15, <2>1, <2>3
  <2>. QED  BY <2>1, <2>2, <2>3
<1>19. CASE hub' = hub \o <<e, f, g>> /\ pool' = p /\ active' = a /\ owner' = o
            /\ unsaved' = Unsaved(<<e, f, g>>) /\ reissued' = reissued /\ dropped' = dropped
  BY <1>2, <1>10, <1>19 DEF U
<1>. QED  BY <1>17, <1>18, <1>19 DEF Perform, Dies

-----------------------------------------------------------------------------
(* What agents have read, and what was entered. *)

Lines == [n : Nat, ref : Ledgers \cup {None}]

PoolTyped ==
    /\ entered \in Nat
    /\ view \in [Scopes -> [ledger : Ledgers \cup {None}, rev : Nat, entries : Seq(Lines)]]

\* What an agent has read of a ledger which exists under that rev is what is there.
ViewsHold ==
    \A s \in Scopes :
        view[s].ledger # None /\ view[s].ledger \notin reissued \cup Tombs(hub) =>
           LET l == view[s].ledger
           IN  /\ l \in DOMAIN pool /\ view[s].rev <= pool[l].rev
               /\ view[s].rev = pool[l].rev => view[s].entries = pool[l].entries

\* The ledgers of the pool p are in q, later or the same; and with all of their entries.
Newer(p, q) ==
    \A l \in DOMAIN p :
        /\ l \in DOMAIN q /\ p[l].rev <= q[l].rev
        /\ p[l].rev = q[l].rev => p[l].entries = q[l].entries

Fuller(p, q) ==
    \A l \in DOMAIN p : l \in DOMAIN q /\ Numbers(p[l].entries) \subseteq Numbers(q[l].entries)

\* What is in a ledger.
LEMMA LedgerFields ==
  ASSUME NEW led \in Ledger
  PROVE  /\ led.rev \in Nat /\ led.entries \in Seq(Lines) /\ led.status \in {"active", "closed"}
         /\ led.parent \in Ledgers \cup {None} /\ led.succ \in Ledgers \cup {None}
BY DEF Ledger, Lines

\* An entry at the end of the others.
LEMMA Appended ==
  ASSUME NEW es \in Seq(Lines), NEW e \in Lines
  PROVE  /\ Append(es, e) \in Seq(Lines)
         /\ Numbers(Append(es, e)) = Numbers(es) \cup {e.n}
<1>1. /\ Append(es, e) \in Seq(Lines) /\ DOMAIN Append(es, e) = 1 .. Len(es) + 1
      /\ Len(es) \in Nat /\ DOMAIN es = 1 .. Len(es)
      /\ \A i \in 1 .. Len(es) : Append(es, e)[i] = es[i]
      /\ Append(es, e)[Len(es) + 1] = e
  OBVIOUS
<1>. DEFINE t == Append(es, e)
            n == Len(es)
<1>. HIDE DEF t, n
<1>2. Range(t) = Range(es) \cup {e}
  <2>1. \A i \in 1 .. n + 1 : i \in 1 .. n \/ i = n + 1
    BY <1>1 DEF n
  <2>2. \A i \in 1 .. n : i \in 1 .. n + 1
    BY <1>1 DEF n
  <2>3. n + 1 \in 1 .. n + 1
    BY <1>1 DEF n
  <2>. QED  BY <1>1, <2>1, <2>2, <2>3 DEF Range, t, n
<1>. QED  BY <1>1, <1>2 DEF Numbers, t

\* One entry less.
LEMMA Removed ==
  ASSUME NEW es \in Seq(Lines), NEW i \in DOMAIN es
  PROVE  /\ RemoveAt(es, i) \in Seq(Lines)
         /\ Numbers(es) \subseteq Numbers(RemoveAt(es, i)) \cup {es[i].n}
<1>. DEFINE a == SubSeq(es, 1, i - 1)
            b == SubSeq(es, i + 1, Len(es))
            n == Len(es)
            t == RemoveAt(es, i)
<1>1. n \in Nat /\ i \in 1 .. n
  OBVIOUS
<1>2. /\ a \in Seq(Lines) /\ Len(a) = i - 1 /\ \A k \in 1 .. i - 1 : a[k] = es[k]
  <2>1. /\ a \in Seq(Lines)
        /\ Len(a) = IF 1 <= i - 1 THEN (i - 1) - 1 + 1 ELSE 0
        /\ \A k \in 1 .. (i - 1) - 1 + 1 : a[k] = es[1 + k - 1]
    BY SubSeqProperties
  <2>2. (i - 1) - 1 + 1 = i - 1 /\ (~(1 <= i - 1) => i - 1 = 0)
    BY <1>1
  <2>3. \A k \in 1 .. i - 1 : 1 + k - 1 = k
    BY <1>1
  <2>. HIDE DEF a
  <2>. QED  BY <2>1, <2>2, <2>3
<1>3. /\ b \in Seq(Lines) /\ Len(b) = n - i /\ \A k \in 1 .. n - i : b[k] = es[i + k]
  <2>1. /\ b \in Seq(Lines)
        /\ Len(b) = IF i + 1 <= n THEN n - (i + 1) + 1 ELSE 0
        /\ \A k \in 1 .. n - (i + 1) + 1 : b[k] = es[(i + 1) + k - 1]
    BY SubSeqProperties
  <2>2. n - (i + 1) + 1 = n - i /\ (~(i + 1 <= n) => n - i = 0)
    BY <1>1
  <2>3. \A k \in 1 .. n - i : (i + 1) + k - 1 = i + k
    BY <1>1
  <2>. HIDE DEF b, n
  <2>. QED  BY <2>1, <2>2, <2>3
<1>4. t = a \o b
  BY DEF RemoveAt
<1>. HIDE DEF a, b, t
<1>5. /\ t \in Seq(Lines) /\ DOMAIN t = 1 .. Len(a) + Len(b)
      /\ \A k \in 1 .. Len(a) + Len(b) : t[k] = IF k <= Len(a) THEN a[k] ELSE b[k - Len(a)]
  BY <1>2, <1>3, <1>4
<1>6. ASSUME NEW k \in 1 .. n, k # i PROVE es[k] \in Range(t)
  <2>1. CASE k < i
    <3>1. k \in 1 .. i - 1 /\ k \in 1 .. (i - 1) + (n - i) /\ k <= i - 1
      BY <1>1, <2>1
    <3>. QED  BY <1>2, <1>3, <1>5, <3>1 DEF Range
  <2>2. CASE k > i
    <3>1. /\ k - 1 \in 1 .. (i - 1) + (n - i) /\ ~(k - 1 <= i - 1) /\ (k - 1) - (i - 1) = k - i
          /\ k - i \in 1 .. n - i /\ i + (k - i) = k
      BY <1>1, <2>2
    <3>2. t[k - 1] = b[k - i] /\ b[k - i] = es[k]
      BY <1>2, <1>3, <1>5, <3>1
    <3>. QED  BY <1>2, <1>3, <1>5, <3>1, <3>2 DEF Range
  <2>. QED  BY <1>1, <1>6, <2>1, <2>2
<1>7. DOMAIN es = 1 .. n
  OBVIOUS
<1>8. Range(es) \subseteq Range(t) \cup {es[i]}
  BY <1>6, <1>7 DEF Range
<1>. QED  BY <1>5, <1>8 DEF Numbers, t

LEMMA EntriesIn ==
  ASSUME NEW p, NEW ls
  PROVE  \A n : n \in EntriesOf(p, ls) <=> \E l \in DOMAIN p \cap ls : n \in Numbers(p[l].entries)
BY DEF EntriesOf

\* Nothing is forgotten by a handler that writes no entry over, whatever fails of it.
LEMMA Survive ==
  ASSUME Agrees, Listed, PoolTyped, ViewsHold, EntriesAreKept, Leaves, UNCHANGED <<view, gone>>,
         NEW p, IsPool(p), NEW q, IsPool(q), entered' \in Nat,
         Finishes(p) \/ (Dies(p) /\ LoadedFrom(q)),
         Newer(pool, p), Fuller(pool, p), Newer(pool, q), Fuller(pool, q),
         \A n \in 1 .. entered' : n \in 1 .. entered \/ n \in EntriesOf(p, Ledgers)
  PROVE  ViewsHold' /\ EntriesAreKept'
<1>1. IsPool(pool) /\ Tombs(hub') = Tombs(hub) /\ reissued \subseteq reissued' /\ IsPool(pool')
  BY DEF Agrees, Agree, Leaves
<1>2. \A l \in DOMAIN pool : l \in Ledgers /\ pool[l].rev \in Nat
  BY <1>1, LedgerFields DEF IsPool
<1>3. \A l \in DOMAIN p : l \in Ledgers /\ p[l].rev \in Nat
  BY LedgerFields DEF IsPool
<1>4. \A l \in DOMAIN q : l \in Ledgers /\ q[l].rev \in Nat
  BY LedgerFields DEF IsPool
<1>5. \A s \in Scopes : view[s].rev \in Nat
  BY DEF PoolTyped
<1>6. ASSUME NEW s \in Scopes, view[s].ledger # None, view[s].ledger \notin reissued' \cup Tombs(hub')
      PROVE  LET l == view[s].ledger
             IN  /\ l \in DOMAIN pool' /\ view[s].rev <= pool'[l].rev
                 /\ view[s].rev = pool'[l].rev => view[s].entries = pool'[l].entries
  <2>. DEFINE l == view[s].ledger
  <2>1. /\ l \in DOMAIN pool /\ view[s].rev <= pool[l].rev
        /\ view[s].rev = pool[l].rev => view[s].entries = pool[l].entries
    BY <1>1, <1>6 DEF ViewsHold
  <2>2. l \notin unsaved \cup Tombs(hub)
    BY <1>1, <1>2, <1>6, <2>1 DEF Listed
  <2>3. \E x \in {p, q} : l \in DOMAIN x /\ l \in DOMAIN pool' /\ pool'[l] = x[l]
    BY <2>1, <2>2 DEF Finishes, LoadedFrom, Newer
  <2>4. PICK x \in {p, q} : l \in DOMAIN x /\ l \in DOMAIN pool' /\ pool'[l] = x[l]
    BY <2>3
  <2>5. Newer(pool, x) /\ x[l].rev \in Nat
    BY <1>3, <1>4, <2>4
  <2>6. /\ pool[l].rev <= pool'[l].rev
        /\ pool[l].rev = pool'[l].rev => pool[l].entries = pool'[l].entries
    BY <2>1, <2>4, <2>5 DEF Newer
  <2>7. pool[l].rev \in Nat /\ pool'[l].rev \in Nat /\ view[s].rev \in Nat
    BY <1>2, <1>5, <2>1, <2>4, <2>5
  <2>. HIDE DEF l
  <2>8. view[s].rev <= pool'[l].rev
    BY <2>1, <2>6, <2>7
  <2>9. view[s].rev = pool'[l].rev => view[s].rev = pool[l].rev /\ pool[l].rev = pool'[l].rev
    BY <2>1, <2>6, <2>7
  <2>. QED  BY <2>1, <2>4, <2>6, <2>8, <2>9 DEF l
<1>7. ViewsHold'
  BY <1>6 DEF ViewsHold, gone
<1>8. ASSUME NEW n \in 1 .. entered' PROVE n \in EntriesOf(pool', Ledgers) \cup Gone'
  <2>. DEFINE was == EntriesOf(pool, Ledgers)
              is == EntriesOf(p, Ledgers)
              now == EntriesOf(pool', Ledgers)
  <2>1. dropped \subseteq dropped' /\ removed' = removed /\ replaced' = replaced
    BY DEF Finishes, Dies, gone
  <2>2. Gone \subseteq Gone'
    BY <2>1 DEF Gone
  <2>3. was \subseteq is
    BY <1>1, EntriesIn DEF Fuller, IsPool
  <2>4. n \in is \/ n \in Gone
    BY <2>3 DEF EntriesAreKept
  <2>5. CASE n \in Gone
    BY <2>2, <2>5
  <2>6. CASE n \in is /\ Finishes(p)
    BY <2>6 DEF Finishes
  <2>7. CASE n \in is /\ Dies(p) /\ LoadedFrom(q)
    <3>1. n \in now => n \in EntriesOf(pool', Ledgers) \cup Gone'
      OBVIOUS
    <3>2. AtRisk(p) \ now \subseteq Gone'
      BY <2>7 DEF Dies, Gone
    <3>3. n \notin was => n \in AtRisk(p)
      BY <2>7 DEF AtRisk
    <3>4. ASSUME n \in was PROVE n \in AtRisk(p) \cup now
      <4>1. PICK l \in DOMAIN pool \cap Ledgers : n \in Numbers(pool[l].entries)
        BY <3>4, EntriesIn
      <4>2. CASE l \in unsaved \cup Revived
        <5>1. n \in EntriesOf(pool, unsaved \cup Revived)
          BY <4>1, <4>2, EntriesIn
        <5>. QED  BY <5>1 DEF AtRisk
      <4>3. CASE l \notin unsaved \cup Revived
        <5>1. l \notin unsaved \cup Tombs(hub)
          BY <4>1, <4>3 DEF Revived
        <5>2. l \in DOMAIN q /\ l \in DOMAIN pool' /\ pool'[l] = q[l]
          BY <2>7, <4>1, <5>1 DEF LoadedFrom, Fuller
        <5>3. n \in Numbers(pool'[l].entries)
          BY <4>1, <5>2 DEF Fuller
        <5>. QED  BY <4>1, <5>2, <5>3, EntriesIn
      <4>. QED  BY <4>2, <4>3
    <3>. QED  BY <3>1, <3>2, <3>3, <3>4
  <2>. QED  BY <2>4, <2>5, <2>6, <2>7
<1>9. EntriesAreKept'
  BY <1>8 DEF EntriesAreKept
<1>. QED  BY <1>7, <1>9

-----------------------------------------------------------------------------
(* The invariant, action by action. *)

\* The invariant.  EditsKeepEntries alone is not inductive: that an entry survives a crash
\* rests on Agrees, and that the entry read is the one removed rests on ViewsHold, which
\* needs in turn that only ledgers which have lost an event are unsaved (Listed).
LedgerInv ==
    /\ Agrees /\ Listed /\ PoolTyped /\ ViewsHold
    /\ RemovesWhatWasRead /\ EntriesAreKept

\* What a handler leaves is what the invariant says of the Hub.
LEMMA Left ==
  ASSUME Leaves, RemovesWhatWasRead, removed' = removed
  PROVE  Agrees' /\ Listed' /\ RemovesWhatWasRead'
<1>1. Agrees' /\ Listed'
  BY DEF Leaves, Agrees, Listed
<1>2. reissued \cup Tombs(hub) \subseteq reissued' \cup Tombs(hub')
  BY DEF Leaves
<1>3. RemovesWhatWasRead'
  BY <1>2 DEF RemovesWhatWasRead
<1>. QED  BY <1>1, <1>3

LEMMA Same ==
  ASSUME NEW p, IsPool(p)
  PROVE  Newer(p, p) /\ Fuller(p, p)
<1>1. \A l \in DOMAIN p : p[l].rev \in Nat
  BY LedgerFields DEF IsPool
<1>. QED  BY <1>1 DEF Newer, Fuller

LEMMA Later ==
  ASSUME NEW p, IsPool(p), NEW q, IsPool(q), NEW r, IsPool(r), Newer(p, q), Newer(q, r)
  PROVE  Newer(p, r)
<1>. SUFFICES ASSUME NEW l \in DOMAIN p
              PROVE  /\ l \in DOMAIN r /\ p[l].rev <= r[l].rev
                     /\ p[l].rev = r[l].rev => p[l].entries = r[l].entries
  BY DEF Newer
<1>1. l \in DOMAIN q /\ p[l].rev <= q[l].rev /\ (p[l].rev = q[l].rev => p[l].entries = q[l].entries)
  BY DEF Newer
<1>2. l \in DOMAIN r /\ q[l].rev <= r[l].rev /\ (q[l].rev = r[l].rev => q[l].entries = r[l].entries)
  BY <1>1 DEF Newer
<1>3. p[l].rev \in Nat /\ q[l].rev \in Nat /\ r[l].rev \in Nat
  BY <1>1, <1>2, LedgerFields DEF IsPool
<1>4. p[l].rev <= r[l].rev /\ (p[l].rev = r[l].rev => p[l].rev = q[l].rev /\ q[l].rev = r[l].rev)
  BY <1>1, <1>2, <1>3
<1>. QED  BY <1>1, <1>2, <1>4

\* A pool of which one ledger is written.
LEMMA Writing ==
  ASSUME NEW p, IsPool(p), NEW l \in Ledgers, NEW led \in Ledger,
         l \in DOMAIN p => p[l].rev < led.rev \/ (p[l].rev = led.rev /\ p[l].entries = led.entries)
  PROVE  /\ IsPool(With(p, l, led)) /\ Newer(p, With(p, l, led))
         /\ (l \in DOMAIN p => Numbers(p[l].entries) \subseteq Numbers(led.entries)) =>
               Fuller(p, With(p, l, led))
<1>. DEFINE q == With(p, l, led)
<1>1. DOMAIN q = DOMAIN p \cup {l} /\ \A m \in DOMAIN q : q[m] = IF m = l THEN led ELSE p[m]
  BY DEF With
<1>2. led.rev \in Nat /\ \A m \in DOMAIN p : p[m].rev \in Nat
  BY LedgerFields DEF IsPool
<1>. HIDE DEF q
<1>3. IsPool(q)
  BY <1>1 DEF IsPool
<1>4. Newer(p, q)
  <2>. SUFFICES ASSUME NEW m \in DOMAIN p
                PROVE  /\ m \in DOMAIN q /\ p[m].rev <= q[m].rev
                       /\ p[m].rev = q[m].rev => p[m].entries = q[m].entries
    BY DEF Newer
  <2>1. CASE m = l
    BY <1>1, <1>2, <2>1
  <2>2. CASE m # l
    BY <1>1, <1>2, <2>2
  <2>. QED  BY <2>1, <2>2
<1>5. (l \in DOMAIN p => Numbers(p[l].entries) \subseteq Numbers(led.entries)) => Fuller(p, q)
  BY <1>1 DEF Fuller
<1>. QED  BY <1>3, <1>4, <1>5 DEF q

\* A ledger of the pool keeps its rev and its entries.
LEMMA Setting ==
  ASSUME NEW p, IsPool(p), NEW l \in DOMAIN p, NEW led \in Ledger,
         p[l].rev = led.rev, p[l].entries = led.entries
  PROVE  /\ IsPool([p EXCEPT ![l] = led])
         /\ Newer(p, [p EXCEPT ![l] = led]) /\ Fuller(p, [p EXCEPT ![l] = led])
<1>. DEFINE q == [p EXCEPT ![l] = led]
<1>1. DOMAIN q = DOMAIN p /\ \A m \in DOMAIN q : q[m] = IF m = l THEN led ELSE p[m]
  OBVIOUS
<1>2. \A m \in DOMAIN p : p[m].rev \in Nat
  BY LedgerFields DEF IsPool
<1>. HIDE DEF q
<1>3. IsPool(q) /\ Newer(p, q) /\ Fuller(p, q)
  BY <1>1, <1>2 DEF IsPool, Newer, Fuller
<1>. QED  BY <1>3 DEF q

\* Closing and reopening touch no entry.
LEMMA Reopening ==
  ASSUME NEW led \in Ledger
  PROVE  /\ Reopened(led) \in Ledger /\ Reopened(led).rev = led.rev /\ Reopened(led).entries = led.entries
         /\ \A succ \in Ledgers \cup {None} :
               /\ Closed(led, succ) \in Ledger /\ Closed(led, succ).rev = led.rev
               /\ Closed(led, succ).entries = led.entries
<1>1. Reopened(led) \in Ledger /\ Reopened(led).rev = led.rev /\ Reopened(led).entries = led.entries
  BY DEF Reopened, Ledger
<1>2. ASSUME NEW succ \in Ledgers \cup {None}
      PROVE /\ Closed(led, succ) \in Ledger /\ Closed(led, succ).rev = led.rev
            /\ Closed(led, succ).entries = led.entries
  BY DEF Closed, Ledger
<1>. QED  BY <1>1, <1>2

\* The numbers of the next entries.
LEMMA Numbered ==
  ASSUME PoolTyped
  PROVE  /\ \A k \in {1, 2} : \A ref \in Ledgers \cup {None} :
               Entry(entered + k, ref) \in Lines /\ Entry(entered + k, ref).n = entered + k
         /\ entered + 1 \in Nat /\ entered + 2 \in Nat
         /\ \A n \in 1 .. entered + 1 : n \in 1 .. entered \/ n = entered + 1
         /\ \A n \in 1 .. entered + 2 : n \in 1 .. entered \/ n = entered + 1 \/ n = entered + 2
<1>1. entered \in Nat
  BY DEF PoolTyped
<1>. QED  BY <1>1 DEF Entry, Lines

\* The events of Create and SwitchTo, put together.
LEMMA Joined ==
  ASSUME NEW a \in Events, NEW b \in Events, NEW c \in Events
  PROVE  <<a>> \o <<b, c>> = <<a, b, c>> /\ <<a>> \o <<b>> = <<a, b>>
<1>1. /\ <<a, b, c>> \in Seq(Events) /\ Len(<<a, b, c>>) = 3
      /\ <<a, b, c>>[1] = a /\ <<a, b, c>>[2] = b /\ <<a, b, c>>[3] = c
      /\ <<a, b>> \in Seq(Events) /\ Len(<<a, b>>) = 2 /\ <<a, b>>[1] = a /\ <<a, b>>[2] = b
      /\ <<a>> \in Seq(Events) /\ Len(<<a>>) = 1 /\ <<a>>[1] = a
  OBVIOUS
<1>2. /\ <<a>> \o <<b>> = Append(<<a>>, b)
      /\ <<a>> \o <<b, c>> = Append(Append(<<a>>, b), c)
  BY <1>1, OneEvent, TwoEvents
<1>3. Append(<<a>>, b) = <<a, b>>
  <2>. DEFINE t == Append(<<a>>, b)
  <2>1. t \in Seq(Events) /\ Len(t) = 2 /\ t[1] = a /\ t[2] = b
    BY <1>1, OneMore
  <2>. HIDE DEF t
  <2>2. \A i \in 1 .. Len(t) : t[i] = <<a, b>>[i]
    BY <1>1, <2>1
  <2>3. t = <<a, b>>
    BY <1>1, <2>1, <2>2, SeqEqual
  <2>. QED  BY <2>3 DEF t
<1>4. Append(<<a, b>>, c) = <<a, b, c>>
  <2>. DEFINE t == Append(<<a, b>>, c)
  <2>1. t \in Seq(Events) /\ Len(t) = 3 /\ t[1] = a /\ t[2] = b /\ t[3] = c
    BY <1>1, OneMore
  <2>. HIDE DEF t
  <2>2. \A i \in 1 .. Len(t) : i = 1 \/ i = 2 \/ i = 3
    BY <2>1
  <2>3. \A i \in 1 .. Len(t) : t[i] = <<a, b, c>>[i]
    BY <1>1, <2>1, <2>2
  <2>4. t = <<a, b, c>>
    BY <1>1, <2>1, <2>3, SeqEqual
  <2>. QED  BY <2>4 DEF t
<1>. QED  BY <1>2, <1>3, <1>4

\* A creation, with the mark on the parent when it is a sub-task.
LEMMA CreateInv ==
  ASSUME LedgerInv, NEW s \in Scopes, NEW k \in SessionIds, NEW parent \in {None} \cup Ledgers,
         Create(s, k, parent)
  PROVE  LedgerInv'
<1>1. PICK l \in Fresh :
        LET led == New(parent)
            marked == parent # None /\ pool[parent].status = "active"
            evs == (IF marked THEN <<Dump("update", s, parent, Awaiting(parent, l, s))>>
                              ELSE <<>>)
                   \o <<Dump("create", s, l, led), Switched(s, k, l)>>
            p == With(IF marked THEN With(pool, parent, Awaiting(parent, l, s)) ELSE pool, l, led)
        IN  /\ parent \in {None} \cup DOMAIN pool
            /\ entered' = IF marked THEN entered + 2 ELSE entered + 1
            /\ Perform(evs, p, Bind(s, l), Own(s, k))
            /\ UNCHANGED <<view, gone>>
  BY DEF Create
<1>. DEFINE led == New(parent)
            marked == parent # None /\ pool[parent].status = "active"
            e == Dump("update", s, parent, Awaiting(parent, l, s))
            f == Dump("create", s, l, led)
            g == Switched(s, k, l)
            p1 == With(pool, parent, Awaiting(parent, l, s))
<1>2. /\ IsPool(pool) /\ Agrees /\ Listed /\ PoolTyped /\ ViewsHold /\ EntriesAreKept /\ RemovesWhatWasRead
      /\ l \in Ledgers /\ l \notin DOMAIN pool
      /\ UNCHANGED <<view, gone>> /\ removed' = removed
  BY <1>1 DEF LedgerInv, Agrees, Agree, Fresh, gone
<1>3. /\ \A i \in {1, 2} : \A ref \in Ledgers \cup {None} :
            Entry(entered + i, ref) \in Lines /\ Entry(entered + i, ref).n = entered + i
      /\ entered + 1 \in Nat /\ entered + 2 \in Nat
      /\ \A n \in 1 .. entered + 1 : n \in 1 .. entered \/ n = entered + 1
      /\ \A n \in 1 .. entered + 2 : n \in 1 .. entered \/ n = entered + 1 \/ n = entered + 2
  BY <1>2, Numbered
<1>4. led \in Ledger /\ entered + 1 \in Numbers(led.entries)
  <2>1. Entry(entered + 1, parent) \in Lines /\ Entry(entered + 1, parent).n = entered + 1
    BY <1>3
  <2>2. led \in Ledger /\ led.entries = <<Entry(entered + 1, parent)>>
    BY <2>1 DEF New, Ledger, Lines
  <2>3. Entry(entered + 1, parent) \in Range(<<Entry(entered + 1, parent)>>)
    BY DEF Range
  <2>. QED  BY <2>1, <2>2, <2>3 DEF Numbers
<1>5. f \in Events /\ g \in Events /\ f.op = "create" /\ g.op = "switch"
      /\ f.ledger = l /\ f.led = led /\ g.ledger = l /\ g.scope = s /\ g.sess = k
  BY <1>2, <1>4 DEF Dump, Switched, Events, Dumps
<1>6. ViewsHold' /\ EntriesAreKept' /\ Leaves /\ entered' \in Nat
  <2>1. CASE marked
    <3>. DEFINE aw == Awaiting(parent, l, s)
    <3>1. parent \in DOMAIN pool /\ parent \in Ledgers /\ parent # l /\ pool[parent] \in Ledger
      BY <1>1, <1>2, <2>1 DEF IsPool
    <3>2. /\ aw \in Ledger /\ pool[parent].rev < aw.rev /\ pool[parent].rev \in Nat
          /\ Numbers(aw.entries) = Numbers(pool[parent].entries) \cup {entered + 2}
      <4>1. /\ pool[parent].rev \in Nat /\ pool[parent].entries \in Seq(Lines)
        BY <3>1, LedgerFields
      <4>2. Entry(entered + 2, l) \in Lines /\ Entry(entered + 2, l).n = entered + 2
        BY <1>2, <1>3
      <4>3. /\ Append(pool[parent].entries, Entry(entered + 2, l)) \in Seq(Lines)
            /\ Numbers(Append(pool[parent].entries, Entry(entered + 2, l)))
                 = Numbers(pool[parent].entries) \cup {entered + 2}
        BY <4>1, <4>2, Appended
      <4>4. /\ aw = [pool[parent] EXCEPT !.entries = Append(@, Entry(entered + 2, l)), !.rev = @ + 1, !.by = s]
            /\ pool[parent].rev + 1 \in Nat
        BY <4>1 DEF Awaiting
      <4>5. /\ aw \in Ledger /\ aw.rev = pool[parent].rev + 1
            /\ aw.entries = Append(pool[parent].entries, Entry(entered + 2, l))
        BY <3>1, <4>3, <4>4 DEF Ledger, Lines
      <4>. QED  BY <4>1, <4>3, <4>5
    <3>3. e \in Events /\ e.op = "update" /\ e.ledger = parent /\ e.led = aw
      BY <3>1, <3>2 DEF Dump, Events, Dumps
    <3>4. IsPool(p1) /\ Newer(pool, p1) /\ Fuller(pool, p1)
      BY <1>2, <3>1, <3>2, Writing
    <3>. DEFINE p == With(p1, l, led)
    <3>5. l \notin DOMAIN p1 /\ parent \in DOMAIN p1 /\ p1[parent] = aw
      BY <1>2, <3>1 DEF With
    <3>. HIDE DEF p1, aw, e, f, g, led
    <3>6. IsPool(p) /\ Newer(p1, p) /\ Fuller(p1, p)
      BY <1>2, <1>4, <3>4, <3>5, Writing
    <3>7. Newer(pool, p) /\ Fuller(pool, p)
      <4>1. Newer(pool, p)
        BY <1>2, <3>4, <3>6, Later
      <4>. QED  BY <3>4, <3>6, <4>1 DEF Fuller
    <3>8. entered' = entered + 2 /\ Perform(<<e>> \o <<f, g>>, p, Bind(s, l), Own(s, k))
      BY <1>1, <2>1 DEF p1, e, f, g, led
    <3>9. <<e>> \o <<f, g>> = <<e, f, g>>
      BY <1>5, <3>3, Joined
    <3>10. /\ Enacts(e, pool, active, owner, p1, active, owner)
           /\ Enacts(f, p1, active, owner, p, active, owner)
           /\ Enacts(g, p, active, owner, p, Bind(s, l), Own(s, k))
      BY <1>5, <3>3 DEF Enacts, Dumps, Bind, Own, p1, aw
    <3>. HIDE DEF p
    <3>11. Leaves /\ (Finishes(p) \/ (Dies(p) /\ (LoadedFrom(p1) \/ LoadedFrom(p))))
      <4>1. e.op # "close" /\ f.op # "close" /\ g.op # "close"
        BY <1>5, <3>3
      <4>. QED  BY <1>2, <1>5, <3>3, <3>8, <3>9, <3>10, <4>1, PerformThree
    <3>12. entered + 1 \in EntriesOf(p, Ledgers) /\ entered + 2 \in EntriesOf(p, Ledgers)
      <4>1. l \in DOMAIN p /\ p[l] = led /\ parent \in DOMAIN p /\ p[parent] = aw
        BY <3>1, <3>5 DEF p, With
      <4>. QED  BY <1>2, <1>4, <3>1, <3>2, <4>1, EntriesIn DEF aw
    <3>13. entered' \in Nat /\ \A n \in 1 .. entered' : n \in 1 .. entered \/ n \in EntriesOf(p, Ledgers)
      BY <1>3, <3>8, <3>12
    <3>14. CASE Finishes(p) \/ (Dies(p) /\ LoadedFrom(p1))
      BY <1>2, <3>4, <3>6, <3>7, <3>11, <3>13, <3>14, Survive
    <3>15. CASE Finishes(p) \/ (Dies(p) /\ LoadedFrom(p))
      BY <1>2, <3>4, <3>6, <3>7, <3>11, <3>13, <3>15, Survive
    <3>. QED  BY <3>11, <3>13, <3>14, <3>15
  <2>2. CASE ~marked
    <3>. DEFINE p == With(pool, l, led)
    <3>1. entered' = entered + 1 /\ Perform(<<>> \o <<f, g>>, p, Bind(s, l), Own(s, k))
      BY <1>1, <2>2
    <3>. HIDE DEF f, g, led
    <3>2. <<>> \o <<f, g>> = <<f, g>>
      OBVIOUS
    <3>3. IsPool(p) /\ Newer(pool, p) /\ Fuller(pool, p)
      BY <1>2, <1>4, Writing
    <3>4. /\ Enacts(f, pool, active, owner, p, active, owner)
          /\ Enacts(g, p, active, owner, p, Bind(s, l), Own(s, k))
      BY <1>5 DEF Enacts, Dumps, Bind, Own
    <3>5. l \in DOMAIN p /\ p[l] = led
      BY DEF With
    <3>. HIDE DEF p
    <3>6. Leaves /\ (Finishes(p) \/ (Dies(p) /\ LoadedFrom(p)))
      <4>1. f.op # "close" /\ g.op # "close"
        BY <1>5
      <4>. QED  BY <1>2, <1>5, <3>1, <3>2, <3>4, <4>1, PerformTwo
    <3>7. entered' \in Nat /\ \A n \in 1 .. entered' : n \in 1 .. entered \/ n \in EntriesOf(p, Ledgers)
      BY <1>2, <1>3, <1>4, <3>1, <3>5, EntriesIn
    <3>. QED  BY <1>2, <3>3, <3>6, <3>7, Survive
  <2>. QED  BY <2>1, <2>2
<1>7. Agrees' /\ Listed' /\ RemovesWhatWasRead'
  BY <1>2, <1>6, Left
<1>8. PoolTyped'
  BY <1>2, <1>6 DEF PoolTyped
<1>. QED  BY <1>6, <1>7, <1>8 DEF LedgerInv

\* What the invariant says, at hand.
LEMMA Known ==
  ASSUME LedgerInv
  PROVE  /\ Agrees /\ Listed /\ PoolTyped /\ ViewsHold /\ RemovesWhatWasRead /\ EntriesAreKept
         /\ hub \in Seq(Events) /\ IsPool(pool) /\ IsTable(active, owner)
         /\ \A l \in DOMAIN pool : l \in Ledgers /\ pool[l] \in Ledger
BY DEF LedgerInv, Agrees, Agree, IsPool

\* A handler that enters nothing, and writes no entries.
LEMMA WritesNothing ==
  ASSUME LedgerInv, NEW p, IsPool(p), Newer(pool, p), Fuller(pool, p), Leaves,
         Finishes(p) \/ (Dies(p) /\ LoadedFrom(p)), UNCHANGED <<view, entered, gone>>
  PROVE  LedgerInv'
<1>1. entered' = entered /\ entered \in Nat /\ removed' = removed
  BY Known DEF PoolTyped, gone
<1>2. ViewsHold' /\ EntriesAreKept'
  <2>1. \A n \in 1 .. entered' : n \in 1 .. entered \/ n \in EntriesOf(p, Ledgers)
    BY <1>1
  <2>. QED  BY <1>1, <2>1, Known, Survive
<1>3. Agrees' /\ Listed' /\ RemovesWhatWasRead'
  BY <1>1, Known, Left
<1>4. PoolTyped'
  BY <1>1, Known DEF PoolTyped
<1>. QED  BY <1>2, <1>3, <1>4 DEF LedgerInv

LEMMA SwitchToInv ==
  ASSUME LedgerInv, NEW s \in Scopes, NEW k \in SessionIds, NEW l \in Ledgers, SwitchTo(s, k, l)
  PROVE  LedgerInv'
<1>. DEFINE same == s \in DOMAIN active /\ active[s] = l
            b == Begun(l)
            w == Switched(s, k, l)
            p == [pool EXCEPT ![l] = Reopened(@)]
<1>1. l \in DOMAIN pool /\ UNCHANGED <<view, entered, gone>>
  BY DEF SwitchTo
<1>2. /\ Agrees /\ Listed /\ IsPool(pool) /\ pool[l] \in Ledger
  BY <1>1, Known
<1>3. b \in Events /\ w \in Events /\ b.op = "reopen" /\ w.op = "switch" /\ b.ledger = l
      /\ w.ledger = l /\ w.scope = s /\ w.sess = k
  BY DEF Begun, Switched, Events
<1>4. IsPool(p) /\ Newer(pool, p) /\ Fuller(pool, p)
  <2>1. Reopened(pool[l]) \in Ledger /\ Reopened(pool[l]).rev = pool[l].rev
        /\ Reopened(pool[l]).entries = pool[l].entries
    BY <1>2, Reopening
  <2>. QED  BY <1>1, <1>2, <2>1, Setting
<1>5. Newer(pool, pool) /\ Fuller(pool, pool)
  BY <1>2, Same
<1>6. /\ Enacts(b, pool, active, owner, p, active, owner)
      /\ Enacts(w, pool, active, owner, pool, Bind(s, l), Own(s, k))
      /\ Enacts(w, p, active, owner, p, Bind(s, l), Own(s, k))
  BY <1>1, <1>3 DEF Enacts, Dumps, Bind, Own
<1>7. CASE Reopens(s, l) /\ same
  <2>1. Perform(<<b>> \o <<>>, p, active, owner)
    BY <1>7 DEF SwitchTo
  <2>. HIDE DEF b, w, p
  <2>2. <<b>> \o <<>> = <<b>>
    BY <1>3
  <2>3. Leaves /\ Finishes(p)
    BY <1>2, <1>3, <1>6, <2>1, <2>2, PerformOne
  <2>. QED  BY <1>1, <1>4, <2>3, WritesNothing
<1>8. CASE Reopens(s, l) /\ ~same
  <2>1. Perform(<<b>> \o <<w>>, p, Bind(s, l), Own(s, k))
    BY <1>8 DEF SwitchTo
  <2>. HIDE DEF b, w, p
  <2>2. <<b>> \o <<w>> = <<b, w>>
    BY <1>3, Joined
  <2>3. Leaves /\ (Finishes(p) \/ (Dies(p) /\ LoadedFrom(p)))
    <3>1. b.op # "close" /\ w.op # "close"
      BY <1>3
    <3>. QED  BY <1>2, <1>3, <1>6, <2>1, <2>2, <3>1, PerformTwo
  <2>. QED  BY <1>1, <1>4, <2>3, WritesNothing
<1>9. CASE ~Reopens(s, l) /\ ~same
  <2>1. Perform(<<>> \o <<w>>, pool, Bind(s, l), Own(s, k))
    BY <1>9 DEF SwitchTo
  <2>. HIDE DEF b, w, p
  <2>2. <<>> \o <<w>> = <<w>>
    BY <1>3
  <2>3. Leaves /\ Finishes(pool)
    BY <1>2, <1>3, <1>6, <2>1, <2>2, PerformOne
  <2>. QED  BY <1>1, <1>2, <1>5, <2>3, WritesNothing
<1>10. CASE ~Reopens(s, l) /\ same
  BY <1>10 DEF SwitchTo
<1>. QED  BY <1>7, <1>8, <1>9, <1>10

LEMMA ReopenInv ==
  ASSUME LedgerInv, NEW l \in Ledgers, Reopen(l)
  PROVE  LedgerInv'
<1>. DEFINE b == Begun(l)
            p == [pool EXCEPT ![l] = Reopened(@)]
<1>1. l \in DOMAIN pool /\ UNCHANGED <<view, entered, gone>> /\ Perform(<<b>>, p, active, owner)
  BY DEF Reopen
<1>2. Agrees /\ Listed /\ IsPool(pool) /\ pool[l] \in Ledger
  BY <1>1, Known
<1>3. b \in Events /\ b.op = "reopen" /\ b.ledger = l
  BY DEF Begun, Events
<1>4. IsPool(p) /\ Newer(pool, p) /\ Fuller(pool, p)
  <2>1. Reopened(pool[l]) \in Ledger /\ Reopened(pool[l]).rev = pool[l].rev
        /\ Reopened(pool[l]).entries = pool[l].entries
    BY <1>2, Reopening
  <2>. QED  BY <1>1, <1>2, <2>1, Setting
<1>5. Enacts(b, pool, active, owner, p, active, owner)
  BY <1>1, <1>3 DEF Enacts, Dumps
<1>. HIDE DEF b, p
<1>6. Leaves /\ Finishes(p)
  BY <1>1, <1>2, <1>3, <1>5, PerformOne
<1>. QED  BY <1>1, <1>4, <1>6, WritesNothing

LEMMA CloseInv ==
  ASSUME LedgerInv, NEW l \in Ledgers, NEW succ \in {None} \cup Ledgers, Close(l, succ)
  PROVE  LedgerInv'
<1>. DEFINE e == Ended(l, succ)
            p == [pool EXCEPT ![l] = Closed(@, succ)]
<1>1. /\ l \in DOMAIN pool /\ UNCHANGED <<view, entered, gone>>
      /\ Perform(<<e>>, p, ForgetActive(l), ForgetOwner(l))
  BY DEF Close
<1>2. Agrees /\ Listed /\ IsPool(pool) /\ pool[l] \in Ledger
  BY <1>1, Known
<1>3. e \in Events /\ e.op = "close" /\ e.ledger = l /\ e.succ = succ
  BY DEF Ended, Events
<1>4. IsPool(p) /\ Newer(pool, p) /\ Fuller(pool, p)
  <2>1. Closed(pool[l], succ) \in Ledger /\ Closed(pool[l], succ).rev = pool[l].rev
        /\ Closed(pool[l], succ).entries = pool[l].entries
    BY <1>2, Reopening
  <2>. QED  BY <1>1, <1>2, <2>1, Setting
<1>5. Enacts(e, pool, active, owner, p, ForgetActive(l), ForgetOwner(l))
  BY <1>1, <1>3 DEF Enacts, Dumps, ForgetActive, ForgetOwner
<1>. HIDE DEF e, p
<1>6. Leaves /\ Finishes(p)
  BY <1>1, <1>2, <1>3, <1>5, PerformOne
<1>. QED  BY <1>1, <1>4, <1>6, WritesNothing

\* What was read stays what is there.
LEMMA Seen ==
  ASSUME PoolTyped, ViewsHold, view' = view, Newer(pool, pool'), IsPool(pool), IsPool(pool'),
         reissued \cup Tombs(hub) \subseteq reissued' \cup Tombs(hub')
  PROVE  ViewsHold'
<1>. SUFFICES ASSUME NEW s \in Scopes, view[s].ledger # None,
                     view[s].ledger \notin reissued' \cup Tombs(hub')
              PROVE  LET l == view[s].ledger
                     IN  /\ l \in DOMAIN pool' /\ view[s].rev <= pool'[l].rev
                         /\ view[s].rev = pool'[l].rev => view[s].entries = pool'[l].entries
  BY DEF ViewsHold
<1>. DEFINE l == view[s].ledger
<1>1. /\ l \in DOMAIN pool /\ view[s].rev <= pool[l].rev
      /\ view[s].rev = pool[l].rev => view[s].entries = pool[l].entries
  BY DEF ViewsHold
<1>2. /\ l \in DOMAIN pool' /\ pool[l].rev <= pool'[l].rev
      /\ pool[l].rev = pool'[l].rev => pool[l].entries = pool'[l].entries
  BY <1>1 DEF Newer
<1>3. view[s].rev \in Nat /\ pool[l].rev \in Nat /\ pool'[l].rev \in Nat
  BY <1>1, <1>2, LedgerFields DEF PoolTyped, IsPool
<1>. HIDE DEF l
<1>4. /\ view[s].rev <= pool'[l].rev
      /\ view[s].rev = pool'[l].rev => view[s].rev = pool[l].rev /\ pool[l].rev = pool'[l].rev
  BY <1>1, <1>2, <1>3
<1>. QED  BY <1>1, <1>2, <1>4 DEF l

\* What is entered is in a ledger, or it is known where it went.
LEMMA StillThere ==
  ASSUME EntriesAreKept, dropped \subseteq dropped', removed \subseteq removed', replaced \subseteq replaced',
         \A n \in 1 .. entered' : n \in 1 .. entered \/ n \in EntriesOf(pool', Ledgers),
         \A n \in EntriesOf(pool, Ledgers) : n \in EntriesOf(pool', Ledgers) \cup Gone'
  PROVE  EntriesAreKept'
<1>1. Gone \subseteq Gone'
  BY DEF Gone
<1>. QED  BY <1>1 DEF EntriesAreKept

\* What an update does, whether its event is appended or not.
LEMMA Updating ==
  ASSUME LedgerInv, NEW s \in Scopes, NEW l \in DOMAIN pool, NEW es \in Seq(Lines), Update(s, l, es)
  PROVE  /\ Leaves /\ pool' = With(pool, l, Written(l, s, es)) /\ dropped' = dropped
         /\ IsPool(pool') /\ Newer(pool, pool')
         /\ reissued \cup Tombs(hub) \subseteq reissued' \cup Tombs(hub')
         /\ Written(l, s, es).entries = es
<1>. DEFINE led == Written(l, s, es)
            e == Dump("update", s, l, led)
            p == [pool EXCEPT ![l] = led]
<1>1. Agrees /\ Listed /\ IsPool(pool) /\ pool[l] \in Ledger /\ l \in Ledgers
  BY Known
<1>2. led \in Ledger /\ pool[l].rev < led.rev /\ led.entries = es
  <2>1. pool[l].rev \in Nat
    BY <1>1, LedgerFields
  <2>2. led = [pool[l] EXCEPT !.entries = es, !.rev = @ + 1, !.by = s] /\ pool[l].rev + 1 \in Nat
    BY <2>1 DEF Written
  <2>3. led \in Ledger /\ led.rev = pool[l].rev + 1 /\ led.entries = es
    BY <1>1, <2>2 DEF Ledger, Lines
  <2>. QED  BY <2>1, <2>3
<1>3. e \in Events /\ e.op = "update" /\ e.ledger = l /\ e.led = led
  BY <1>1, <1>2 DEF Dump, Events, Dumps
<1>4. p = With(pool, l, led)
  BY DEF With
<1>5. Perform(<<e>>, p, active, owner)
  BY DEF Update
<1>. HIDE DEF led, e, p
<1>6. Enacts(e, pool, active, owner, p, active, owner)
  BY <1>3, <1>4 DEF Enacts, Dumps
<1>7. Leaves /\ Finishes(p)
  BY <1>1, <1>3, <1>5, <1>6, PerformOne
<1>8. IsPool(p) /\ Newer(pool, p)
  BY <1>1, <1>2, <1>4, Writing
<1>9. reissued \cup Tombs(hub) \subseteq reissued' \cup Tombs(hub')
  BY <1>7 DEF Leaves
<1>. QED  BY <1>2, <1>4, <1>7, <1>8, <1>9 DEF Finishes, led

LEMMA ReadInv ==
  ASSUME LedgerInv, NEW s \in Scopes, Read(s)
  PROVE  LedgerInv'
<1>1. /\ UNCHANGED <<process, hub, poolHistory>> /\ Active(s) # None
      /\ view' = [view EXCEPT ![s] = [ledger |-> Active(s), rev |-> pool[Active(s)].rev,
                                      entries |-> pool[Active(s)].entries]]
  BY DEF Read
<1>. DEFINE m == Active(s)
<1>2. m \in DOMAIN pool /\ m \in Ledgers /\ pool[m] \in Ledger
  <2>1. m \in DOMAIN pool
    BY <1>1 DEF Active
  <2>. QED  BY <2>1, Known
<1>3. pool[m].rev \in Nat /\ pool[m].entries \in Seq(Lines)
  BY <1>2, LedgerFields
<1>. HIDE DEF m
<1>4. /\ pool' = pool /\ active' = active /\ owner' = owner /\ hub' = hub /\ entered' = entered
      /\ unsaved' = unsaved /\ reissued' = reissued /\ removed' = removed /\ replaced' = replaced
      /\ dropped' = dropped
  BY <1>1 DEF process, poolHistory, gone
<1>5. view' = [view EXCEPT ![s] = [ledger |-> m, rev |-> pool[m].rev, entries |-> pool[m].entries]]
  BY <1>1 DEF m
<1>6. PoolTyped'
  BY <1>2, <1>3, <1>4, <1>5, Known DEF PoolTyped
<1>7. ViewsHold'
  <2>. SUFFICES ASSUME NEW x \in Scopes, view'[x].ledger # None,
                       view'[x].ledger \notin reissued \cup Tombs(hub)
                PROVE  LET l == view'[x].ledger
                       IN  /\ l \in DOMAIN pool /\ view'[x].rev <= pool[l].rev
                           /\ view'[x].rev = pool[l].rev => view'[x].entries = pool[l].entries
    BY <1>4 DEF ViewsHold
  <2>1. view \in [Scopes -> [ledger : Ledgers \cup {None}, rev : Nat, entries : Seq(Lines)]]
    BY Known DEF PoolTyped
  <2>2. CASE x = s
    BY <1>2, <1>3, <1>5, <2>1, <2>2
  <2>3. CASE x # s
    <3>1. view'[x] = view[x]
      BY <1>5, <2>1, <2>3
    <3>. QED  BY <3>1, Known DEF ViewsHold
  <2>. QED  BY <2>2, <2>3
<1>8. Agrees' /\ Listed' /\ RemovesWhatWasRead' /\ EntriesAreKept'
  BY <1>4, Known DEF Agrees, Listed, RemovesWhatWasRead, EntriesAreKept, Gone, EntriesOf
<1>. QED  BY <1>6, <1>7, <1>8 DEF LedgerInv

LEMMA AddInv ==
  ASSUME LedgerInv, NEW s \in Scopes, Add(s)
  PROVE  LedgerInv'
<1>. DEFINE l == Active(s)
            es == Added(l, s)
            led == Written(l, s, es)
<1>1. /\ l # None /\ Update(s, l, es) /\ entered' = entered + 1 /\ UNCHANGED <<view, gone>>
  BY DEF Add
<1>2. l \in DOMAIN pool /\ l \in Ledgers /\ pool[l] \in Ledger
  <2>1. l \in DOMAIN pool
    BY <1>1 DEF Active
  <2>. QED  BY <2>1, Known
<1>3. /\ Entry(entered + 1, None) \in Lines /\ Entry(entered + 1, None).n = entered + 1
      /\ entered + 1 \in Nat /\ \A n \in 1 .. entered + 1 : n \in 1 .. entered \/ n = entered + 1
  BY Known, Numbered
<1>4. es \in Seq(Lines) /\ Numbers(es) = Numbers(pool[l].entries) \cup {entered + 1}
  BY <1>2, <1>3, LedgerFields, Appended DEF Added
<1>. HIDE DEF l, es
<1>5. /\ Leaves /\ pool' = With(pool, l, led) /\ dropped' = dropped
      /\ IsPool(pool') /\ Newer(pool, pool')
      /\ reissued \cup Tombs(hub) \subseteq reissued' \cup Tombs(hub')
      /\ led.entries = es
  BY <1>1, <1>2, <1>4, Updating
<1>. HIDE DEF led
<1>6. view' = view /\ removed' = removed /\ replaced' = replaced
  BY <1>1 DEF gone
<1>7. ViewsHold'
  BY <1>5, <1>6, Known, Seen
<1>8. /\ \A m \in DOMAIN pool : m \in DOMAIN pool' /\ Numbers(pool[m].entries) \subseteq Numbers(pool'[m].entries)
      /\ l \in DOMAIN pool' /\ entered + 1 \in Numbers(pool'[l].entries)
  BY <1>4, <1>5 DEF With
<1>9. EntriesAreKept'
  <2>1. \A n \in EntriesOf(pool, Ledgers) : n \in EntriesOf(pool', Ledgers)
    BY <1>8, EntriesIn
  <2>2. \A n \in 1 .. entered' : n \in 1 .. entered \/ n \in EntriesOf(pool', Ledgers)
    BY <1>1, <1>2, <1>3, <1>8, EntriesIn
  <2>. QED  BY <1>5, <1>6, <2>1, <2>2, Known, StillThere
<1>10. Agrees' /\ Listed' /\ RemovesWhatWasRead'
  BY <1>5, <1>6, Known, Left
<1>11. PoolTyped'
  BY <1>1, <1>3, <1>6, Known DEF PoolTyped
<1>. QED  BY <1>7, <1>9, <1>10, <1>11 DEF LedgerInv

LEMMA RetractInv ==
  ASSUME LedgerInv, NEW s \in Scopes, NEW i, NEW locked \in BOOLEAN, Retract(s, i, locked)
  PROVE  LedgerInv'
<1>. DEFINE l == Active(s)
            es == RemoveAt(pool[l].entries, i)
            led == Written(l, s, es)
            x == [ledger |-> l, read |-> view[s].ledger, locked |-> locked,
                  meant |-> view[s].entries[i], got |-> pool[l].entries[i]]
<1>1. /\ l # None /\ (locked => view[s].rev = pool[l].rev)
      /\ i \in DOMAIN pool[l].entries
      /\ Update(s, l, es) /\ removed' = removed \cup {x}
      /\ UNCHANGED <<view, entered, replaced>>
  BY DEF Retract
<1>2. l \in DOMAIN pool /\ l \in Ledgers /\ pool[l] \in Ledger
  <2>1. l \in DOMAIN pool
    BY <1>1 DEF Active
  <2>. QED  BY <2>1, Known
<1>3. es \in Seq(Lines) /\ Numbers(pool[l].entries) \subseteq Numbers(es) \cup {pool[l].entries[i].n}
  BY <1>1, <1>2, LedgerFields, Removed
<1>4. x.locked /\ x.read = x.ledger => x.meant = x.got \/ x.ledger \in reissued \cup Tombs(hub)
  BY <1>1, <1>2, Known DEF ViewsHold
<1>5. x.got.n = pool[l].entries[i].n
  OBVIOUS
<1>. HIDE DEF l, es, x
<1>6. /\ Leaves /\ pool' = With(pool, l, led) /\ dropped' = dropped
      /\ IsPool(pool') /\ Newer(pool, pool')
      /\ reissued \cup Tombs(hub) \subseteq reissued' \cup Tombs(hub')
      /\ led.entries = es
  BY <1>1, <1>2, <1>3, Updating
<1>. HIDE DEF led
<1>7. ViewsHold'
  BY <1>1, <1>6, Known, Seen
<1>8. RemovesWhatWasRead'
  BY <1>1, <1>4, <1>6, Known DEF RemovesWhatWasRead
<1>9. x.got.n \in Gone'
  BY <1>1 DEF Gone
<1>10. EntriesAreKept'
  <2>1. ASSUME NEW n \in EntriesOf(pool, Ledgers) PROVE n \in EntriesOf(pool', Ledgers) \cup Gone'
    <3>1. PICK m \in DOMAIN pool \cap Ledgers : n \in Numbers(pool[m].entries)
      BY EntriesIn
    <3>2. m \in DOMAIN pool' /\ pool'[m] = IF m = l THEN led ELSE pool[m]
      BY <1>6, <3>1 DEF With
    <3>3. n \in Numbers(pool'[m].entries) \/ n = x.got.n
      BY <1>3, <1>5, <1>6, <3>1, <3>2
    <3>. QED  BY <1>9, <3>1, <3>2, <3>3, EntriesIn
  <2>. QED  BY <1>1, <1>6, <2>1, Known, StillThere
<1>11. Agrees' /\ Listed'
  BY <1>6 DEF Leaves, Agrees, Listed
<1>12. PoolTyped'
  BY <1>1, Known DEF PoolTyped
<1>. QED  BY <1>7, <1>8, <1>10, <1>11, <1>12 DEF LedgerInv

LEMMA UserEditInv ==
  ASSUME LedgerInv, NEW l \in Ledgers, NEW n \in DOMAIN hub, UserEdit(l, n)
  PROVE  LedgerInv'
<1>. DEFINE base == Replay(SubSeq(hub, 1, n)).pool
            es == Append(base[l].entries, Entry(entered + 1, None))
            draft == [base[l] EXCEPT !.entries = Append(@, Entry(entered + 1, None))]
            led == Adopted(l, draft)
            e == Dump("edit", None, l, led)
            p == With(pool, l, led)
<1>1. /\ l \in DOMAIN base /\ Perform(<<e>>, p, active, owner)
      /\ entered' = entered + 1 /\ replaced' = replaced \cup EntriesOf(pool, {l})
      /\ view' = view /\ removed' = removed
  BY DEF UserEdit
<1>2. Agrees /\ Listed /\ IsPool(pool) /\ hub \in Seq(Events)
  BY Known
<1>3. SubSeq(hub, 1, n) \in Seq(Events)
  <2>1. n \in Nat /\ n <= Len(hub) /\ Len(hub) \in Nat
    BY <1>2
  <2>. QED  BY <1>2, <2>1, SubSeqProperties
<1>4. base[l] \in Ledger
  BY <1>1, <1>3, ReplayIs DEF SoFar
<1>5. /\ Entry(entered + 1, None) \in Lines /\ Entry(entered + 1, None).n = entered + 1
      /\ entered + 1 \in Nat /\ \A k \in 1 .. entered + 1 : k \in 1 .. entered \/ k = entered + 1
  BY Known, Numbered
<1>. HIDE DEF base
<1>6. es \in Seq(Lines) /\ entered + 1 \in Numbers(es)
  BY <1>4, <1>5, LedgerFields, Appended
<1>7. draft \in Ledger /\ draft.entries = es
  BY <1>4, <1>6 DEF Ledger, Lines
<1>. HIDE DEF draft, es
<1>8. led \in Ledger /\ led.entries = es /\ (l \in DOMAIN pool => pool[l].rev < led.rev)
  <2>1. CASE l \in DOMAIN pool
    <3>1. pool[l].rev \in Nat /\ pool[l].rev + 1 \in Nat
      BY <1>2, <2>1, LedgerFields DEF IsPool
    <3>2. led = [draft EXCEPT !.rev = pool[l].rev + 1, !.by = "user"]
      BY <2>1 DEF Adopted
    <3>3. led \in Ledger /\ led.entries = es /\ led.rev = pool[l].rev + 1
      BY <1>7, <3>1, <3>2 DEF Ledger
    <3>. QED  BY <3>1, <3>3
  <2>2. CASE l \notin DOMAIN pool
    <3>1. led = [draft EXCEPT !.rev = 0, !.by = None]
      BY <2>2 DEF Adopted
    <3>2. led \in Ledger /\ led.entries = es
      <4>. DEFINE x == [draft EXCEPT !.rev = 0, !.by = None]
      <4>1. x \in Ledger /\ x.entries = draft.entries
        BY <1>7 DEF Ledger
      <4>. QED  BY <1>7, <3>1, <4>1
    <3>. QED  BY <2>2, <3>2
  <2>. QED  BY <2>1, <2>2
<1>9. e \in Events /\ e.op = "edit" /\ e.ledger = l /\ e.led = led
  BY <1>8 DEF Dump, Events, Dumps
<1>. HIDE DEF led, e
<1>10. Enacts(e, pool, active, owner, p, active, owner)
  BY <1>9 DEF Enacts, Dumps
<1>11. Leaves /\ Finishes(p)
  BY <1>1, <1>2, <1>9, <1>10, PerformOne
<1>12. IsPool(p) /\ Newer(pool, p)
  BY <1>2, <1>8, Writing
<1>13. reissued \cup Tombs(hub) \subseteq reissued' \cup Tombs(hub')
  BY <1>11 DEF Leaves
<1>14. DOMAIN p = DOMAIN pool \cup {l} /\ \A m \in DOMAIN p : p[m] = IF m = l THEN led ELSE pool[m]
  BY DEF With
<1>. HIDE DEF p
<1>15. pool' = p /\ dropped' = dropped
  BY <1>11 DEF Finishes
<1>16. ViewsHold'
  BY <1>1, <1>2, <1>12, <1>13, <1>15, Known, Seen
<1>17. EntriesAreKept'
  <2>1. ASSUME NEW k \in EntriesOf(pool, Ledgers) PROVE k \in EntriesOf(pool', Ledgers) \cup Gone'
    <3>1. PICK m \in DOMAIN pool \cap Ledgers : k \in Numbers(pool[m].entries)
      BY EntriesIn
    <3>2. CASE m = l
      <4>1. k \in EntriesOf(pool, {l})
        BY <3>1, <3>2, EntriesIn
      <4>. QED  BY <1>1, <4>1 DEF Gone
    <3>3. CASE m # l
      <4>1. m \in DOMAIN pool' \cap Ledgers /\ k \in Numbers(pool'[m].entries)
        BY <1>14, <1>15, <3>1, <3>3
      <4>. QED  BY <4>1, EntriesIn
    <3>. QED  BY <3>2, <3>3
  <2>2. entered + 1 \in EntriesOf(pool', Ledgers)
    <3>1. l \in DOMAIN pool' \cap Ledgers /\ entered + 1 \in Numbers(pool'[l].entries)
      BY <1>6, <1>8, <1>14, <1>15
    <3>. QED  BY <3>1, EntriesIn
  <2>3. \A k \in 1 .. entered' : k \in 1 .. entered \/ k \in EntriesOf(pool', Ledgers)
    BY <1>1, <1>5, <2>2
  <2>. QED  BY <1>1, <1>15, <2>1, <2>3, Known, StillThere
<1>18. Agrees' /\ Listed' /\ RemovesWhatWasRead'
  BY <1>1, <1>11, Known, Left
<1>19. PoolTyped'
  BY <1>1, <1>5, Known DEF PoolTyped
<1>. QED  BY <1>16, <1>17, <1>18, <1>19 DEF LedgerInv

LEMMA TombstoneInv ==
  ASSUME LedgerInv, NEW l \in Ledgers, Tombstone(l)
  PROVE  LedgerInv'
<1>. DEFINE t == [op |-> "tomb", ledger |-> l]
<1>1. /\ hub' = Append(hub, t) /\ pool' = Minus(pool, {l})
      /\ active' = ForgetActive(l) /\ owner' = ForgetOwner(l)
      /\ replaced' = replaced \cup EntriesOf(pool, {l})
      /\ view' = view /\ entered' = entered /\ unsaved' = unsaved /\ reissued' = reissued
      /\ removed' = removed /\ dropped' = dropped
  BY DEF Tombstone
<1>2. t \in Events /\ t.op = "tomb" /\ t.ledger = l
  BY DEF Events
<1>. HIDE DEF t
<1>3. Agree(hub', pool', active', owner', unsaved) /\ Tombs(hub') = Tombs(hub) \cup {l}
  <2>1. Agree(hub, pool, active, owner, unsaved)
    BY Known DEF Agrees
  <2>. QED  BY <1>1, <1>2, <2>1, DeletingAgrees DEF ForgetActive, ForgetOwner
<1>4. DOMAIN pool' = DOMAIN pool \ {l} /\ \A m \in DOMAIN pool' : pool'[m] = pool[m]
  BY <1>1 DEF Minus, Restrict
<1>5. Agrees' /\ Listed'
  BY <1>1, <1>3, Known DEF Agrees, Listed
<1>6. PoolTyped'
  BY <1>1, Known DEF PoolTyped
<1>7. ViewsHold'
  BY <1>1, <1>3, <1>4, Known DEF ViewsHold
<1>8. RemovesWhatWasRead'
  BY <1>1, <1>3, Known DEF RemovesWhatWasRead
<1>9. EntriesAreKept'
  <2>1. ASSUME NEW k \in EntriesOf(pool, Ledgers) PROVE k \in EntriesOf(pool', Ledgers) \cup Gone'
    <3>1. PICK m \in DOMAIN pool \cap Ledgers : k \in Numbers(pool[m].entries)
      BY EntriesIn
    <3>2. CASE m = l
      <4>1. k \in EntriesOf(pool, {l})
        BY <3>1, <3>2, EntriesIn
      <4>. QED  BY <1>1, <4>1 DEF Gone
    <3>3. CASE m # l
      <4>1. m \in DOMAIN pool' \cap Ledgers /\ k \in Numbers(pool'[m].entries)
        BY <1>4, <3>1, <3>3
      <4>. QED  BY <4>1, EntriesIn
    <3>. QED  BY <3>2, <3>3
  <2>. QED  BY <1>1, <2>1, Known, StillThere
<1>. QED  BY <1>5, <1>6, <1>7, <1>8, <1>9 DEF LedgerInv

LEMMA ReloadInv ==
  ASSUME LedgerInv, Reload
  PROVE  LedgerInv'
<1>1. /\ Load(hub) /\ Dies(pool) /\ unsaved' = {} /\ hub' = hub /\ reissued' = reissued
      /\ UNCHANGED <<view, entered, gone>>
  BY DEF Reload, Dies
<1>2. hub \in Seq(Events) /\ IsPool(pool) /\ Matches(Replay(hub), Tombs(hub), pool, active, owner, unsaved)
  BY Known DEF Agrees, Agree
<1>3. Agree(hub', pool', active', owner', {})
  BY <1>1, <1>2, Loading DEF Load
<1>4. LoadedFrom(pool)
  BY <1>1, <1>2 DEF Load, LoadedFrom, Matches
<1>5. Leaves
  BY <1>1, <1>3 DEF Leaves
<1>6. Newer(pool, pool) /\ Fuller(pool, pool)
  BY <1>2, Same
<1>. QED  BY <1>1, <1>2, <1>4, <1>5, <1>6, WritesNothing

\* What replay_ledger_events makes of the Hub is what AgencyRuntime holds, what agents
\* have read of a ledger under a rev is what is there, and no entry is lost unseen: after
\* every handler, whichever of its appends fails and wherever the process dies in it.
THEOREM LedgersHold == PoolSpec => []LedgerInv
<1>1. PoolInit => LedgerInv
  <2>. SUFFICES ASSUME PoolInit PROVE LedgerInv
    OBVIOUS
  <2>1. /\ pool = <<>> /\ active = <<>> /\ owner = <<>> /\ hub = <<>>
        /\ view = [s \in Scopes |-> NoView]
        /\ entered = 0 /\ unsaved = {} /\ reissued = {}
        /\ removed = {} /\ replaced = {} /\ dropped = {}
    BY DEF PoolInit
  <2>2. hub \in Seq(Events) /\ Len(hub) = 0
    BY <2>1
  <2>3. Replay(hub) = Empty
    <3>1. PICK st : Path(hub, st) /\ Replay(hub) = st[Len(hub)]
      BY <2>2, Replaying
    <3>. QED  BY <2>2, <3>1 DEF Path
  <2>4. Agrees
    <3>1. Agree(hub, Empty.pool, Empty.bound, Empty.from, {})
      BY <2>2, <2>3, Loading
    <3>. QED  BY <2>1, <3>1 DEF Agrees, Empty
  <2>5. PoolTyped
    <3>1. NoView \in [ledger : Ledgers \cup {None}, rev : Nat, entries : Seq(Lines)]
      BY DEF NoView
    <3>. QED  BY <2>1, <3>1 DEF PoolTyped
  <2>6. Listed /\ ViewsHold /\ RemovesWhatWasRead
    BY <2>1 DEF Listed, ViewsHold, NoView, RemovesWhatWasRead
  <2>7. EntriesAreKept
    BY <2>1 DEF EntriesAreKept
  <2>. QED  BY <2>4, <2>5, <2>6, <2>7 DEF LedgerInv
<1>2. LedgerInv /\ [PoolNext]_poolVars => LedgerInv'
  <2>. SUFFICES ASSUME LedgerInv, [PoolNext]_poolVars PROVE LedgerInv'
    OBVIOUS
  <2>1. ASSUME NEW s \in Scopes, NEW k \in SessionIds, NEW parent \in {None} \cup Ledgers,
               Create(s, k, parent)
        PROVE  LedgerInv'
    BY <2>1, CreateInv
  <2>2. ASSUME NEW s \in Scopes, NEW k \in SessionIds, NEW l \in Ledgers, SwitchTo(s, k, l)
        PROVE  LedgerInv'
    BY <2>2, SwitchToInv
  <2>3. ASSUME NEW s \in Scopes, Read(s) PROVE LedgerInv'
    BY <2>3, ReadInv
  <2>4. ASSUME NEW s \in Scopes, Add(s) PROVE LedgerInv'
    BY <2>4, AddInv
  <2>5. ASSUME NEW s \in Scopes, NEW i \in DOMAIN view[s].entries, NEW locked \in BOOLEAN, Retract(s, i, locked)
        PROVE  LedgerInv'
    BY <2>5, RetractInv
  <2>6. ASSUME NEW l \in Ledgers, NEW succ \in {None} \cup Ledgers, Close(l, succ) PROVE LedgerInv'
    BY <2>6, CloseInv
  <2>7. ASSUME NEW l \in Ledgers, NEW n \in DOMAIN hub, UserEdit(l, n) PROVE LedgerInv'
    BY <2>7, UserEditInv
  <2>8. ASSUME NEW l \in Ledgers, Reopen(l) PROVE LedgerInv'
    BY <2>8, ReopenInv
  <2>9. ASSUME NEW l \in Ledgers, Tombstone(l) PROVE LedgerInv'
    BY <2>9, TombstoneInv
  <2>10. CASE Reload
    BY <2>10, ReloadInv
  <2>11. CASE UNCHANGED poolVars
    <3>1. /\ pool' = pool /\ active' = active /\ owner' = owner /\ hub' = hub /\ view' = view
          /\ entered' = entered /\ unsaved' = unsaved /\ reissued' = reissued /\ removed' = removed
          /\ replaced' = replaced /\ dropped' = dropped
      BY <2>11 DEF poolVars, process, poolHistory, gone
    <3>. QED  BY <3>1 DEF LedgerInv, Agrees, Listed, PoolTyped, ViewsHold, RemovesWhatWasRead,
                          EntriesAreKept, Gone, EntriesOf
  <2>. QED  BY <2>1, <2>2, <2>3, <2>4, <2>5, <2>6, <2>7, <2>8, <2>9, <2>10, <2>11
            DEF PoolNext, Agents, Admin
<1>. QED  BY <1>1, <1>2, PTL DEF PoolSpec

\* An agent's edit removes the entry that it has read, and no edit, crash or restart loses
\* one but as EditsKeepEntries says, for any number of agents, ledgers and users' edits.
THEOREM EditsStay == PoolSpec => []EditsKeepEntries
<1>1. LedgerInv => EditsKeepEntries
  BY DEF LedgerInv, EditsKeepEntries
<1>. QED  BY <1>1, LedgersHold, PTL

\* A restart loads the pool, the active ledgers and the sessions that activated them as
\* the process has them (ReplayAgrees), however long the history of events, of lost
\* appends, deletions and restarts is.
THEOREM LedgersAreReplayed == PoolSpec => []ReplayAgrees
<1>1. LedgerInv => ReplayAgrees
  <2>. SUFFICES ASSUME LedgerInv PROVE ReplayAgrees
    OBVIOUS
  <2>. DEFINE r == Replay(hub)
              T == Tombs(hub)
              apart == unsaved \cup Revived
  <2>1. /\ hub \in Seq(Events) /\ IsPool(pool) /\ IsTable(active, owner)
        /\ Matches(r, T, pool, active, owner, unsaved) /\ SoFar(hub, r, Len(hub))
    BY Known, ReplayIs DEF Agrees, Agree
  <2>2. DOMAIN r.pool \cap T = {}
    BY <2>1 DEF SoFar, Dumped
  <2>3. Revived = DOMAIN pool \cap T
    BY DEF Revived
  <2>. HIDE DEF r, T, apart
  <2>4. ASSUME NEW l \in Ledgers \ apart
        PROVE  /\ l \in DOMAIN pool <=> l \in DOMAIN r.pool
               /\ l \in DOMAIN pool => pool[l] = r.pool[l]
    BY <2>1, <2>2, <2>3 DEF Matches, apart
  <2>5. ASSUME NEW s \in Scopes \ unsaved, Active(s) \notin apart
        PROVE  /\ Bound(r, s) = Active(s)
               /\ Active(s) # None => owner[s] = r.from[s]
    <3>1. /\ Live(active, s, T) <=> Live(r.bound, s, T)
          /\ Live(active, s, T) => r.bound[s] = active[s] /\ r.from[s] = owner[s]
          /\ DOMAIN r.pool \subseteq DOMAIN pool /\ DOMAIN pool \subseteq Ledgers /\ None \notin Ledgers
      BY <2>1, LedgerAssumption DEF Matches, IsPool, LedgerAssumption
    <3>2. CASE Active(s) = None
      <4>1. ASSUME s \in DOMAIN r.bound, r.bound[s] \in DOMAIN r.pool PROVE FALSE
        <5>1. Live(active, s, T) /\ active[s] \in DOMAIN pool
          BY <2>2, <3>1, <4>1 DEF Live
        <5>2. Active(s) = active[s]
          BY <5>1 DEF Live, Active
        <5>. QED  BY <3>1, <3>2, <5>1, <5>2
      <4>. QED  BY <3>2, <4>1 DEF Bound
    <3>3. CASE Active(s) # None
      <4>1. s \in DOMAIN active /\ active[s] = Active(s) /\ Active(s) \in DOMAIN pool
        BY <3>3 DEF Active
      <4>2. Active(s) \notin T /\ Active(s) \notin unsaved
        BY <2>3, <2>5, <4>1 DEF apart
      <4>3. Live(active, s, T)
        BY <4>1, <4>2 DEF Live
      <4>4. s \in DOMAIN r.bound /\ r.bound[s] = Active(s) /\ Active(s) \in DOMAIN r.pool
        BY <2>1, <3>1, <4>1, <4>2, <4>3 DEF Live, Matches
      <4>. QED  BY <3>1, <4>3, <4>4 DEF Bound
    <3>. QED  BY <3>2, <3>3
  <2>. QED  BY <2>4, <2>5 DEF ReplayAgrees, r, apart
<1>. QED  BY <1>1, LedgersHold, PTL

-----------------------------------------------------------------------------
(* The two readings of the history agree on the active ledger of a scope. *)

\* A ledger that is known at i was written before.
LEMMA HeardBefore ==
  ASSUME NEW h \in Seq(Events), NEW i \in 1 .. Len(h), NEW l, ~NeverCreated(SubSeq(h, 1, i), l)
  PROVE  \E j \in 1 .. i : h[j].op \in Dumps /\ h[j].ledger = l
<1>1. /\ Len(SubSeq(h, 1, i)) = i /\ DOMAIN SubSeq(h, 1, i) = 1 .. Len(SubSeq(h, 1, i))
      /\ \A j \in 1 .. i : SubSeq(h, 1, i)[j] = h[j]
  <2>1. i \in Nat /\ 1 <= i /\ i <= Len(h) /\ Len(h) \in Nat
    OBVIOUS
  <2>2. /\ SubSeq(h, 1, i) \in Seq(Events)
        /\ Len(SubSeq(h, 1, i)) = IF 1 <= i THEN i - 1 + 1 ELSE 0
        /\ \A j \in 1 .. i - 1 + 1 : SubSeq(h, 1, i)[j] = h[1 + j - 1]
    <3>1. \A x, y \in 1 .. Len(h) :
            /\ SubSeq(h, x, y) \in Seq(Events)
            /\ Len(SubSeq(h, x, y)) = IF x <= y THEN y - x + 1 ELSE 0
            /\ \A j \in 1 .. y - x + 1 : SubSeq(h, x, y)[j] = h[x + j - 1]
      BY SubSeqProperties
    <3>2. 1 \in 1 .. Len(h)
      BY <2>1
    <3>. QED  BY <3>1, <3>2
  <2>3. i - 1 + 1 = i /\ \A j \in 1 .. i : 1 + j - 1 = j
    BY <2>1
  <2>. QED  BY <2>1, <2>2, <2>3
<1>. QED  BY <1>1 DEF NeverCreated

\* After the last switch of s, to m: its anchor c, and what the replay binds to it.
Tied(h, s, m, i, c, b) ==
    /\ c \in {m, None} /\ (s \in DOMAIN b => b[s] = m)
    /\ m \notin Tombs(h) \cup Orphans(h) => (c = m <=> s \in DOMAIN b)
    /\ m \in Tombs(h) /\ TombAt(h, m) <= i => c = None

\* It stays so, as long as the scope is not switched.
LEMMA TiedStep ==
  ASSUME NEW h \in Seq(Events), NEW s \in Scopes, NEW m \in Ledgers, NEW i \in 1 .. Len(h),
         NEW r, SoFar(h, r, i - 1), Tied(h, s, m, i - 1, Anchor(h, s, i - 1), r.bound),
         ~(h[i].op \in {"switch", "create"} /\ h[i].scope = s)
  PROVE  Tied(h, s, m, i, Anchor(h, s, i), ReplayStep(h, r, i).bound)
<1>. DEFINE e == h[i]
            l == e.ledger
            q == ReplayStep(h, r, i)
            c == Anchor(h, s, i - 1)
            x == Anchor(h, s, i)
            T == Tombs(h)
<1>1. /\ e.op \in Dumps \cup {"switch", "close", "reopen", "tomb"} /\ l \in Ledgers
      /\ m # None /\ l # None
  BY EventFacts, LedgerAssumption DEF LedgerAssumption
<1>2. i \in Nat /\ i - 1 \in Nat /\ (i - 1) + 1 = i
  OBVIOUS
<1>3. Steps(h, i, r, q, e, l)
  BY StepFields DEF SoFar
<1>4. Leads(h, i, s, c, x, e, l)
  <2>1. x = AnchorStep(h, s, c, i)
    BY <1>2, AnchorNext
  <2>. QED  BY <2>1, AnchorFields
<1>5. /\ c \in {m, None} /\ (s \in DOMAIN r.bound => r.bound[s] = m)
      /\ m \notin T \cup Orphans(h) => (c = m <=> s \in DOMAIN r.bound)
      /\ m \in T /\ TombAt(h, m) <= i - 1 => c = None
  BY DEF Tied
<1>6. DOMAIN r.pool = Dumped(h, i - 1)
  BY DEF SoFar
<1>7. ASSUME NEW t \in T
      PROVE  /\ TombAt(h, t) \in Nat /\ (TombAt(h, t) <= i => TombAt(h, t) <= i - 1 \/ TombAt(h, t) = i)
             /\ h[TombAt(h, t)].op = "tomb" /\ h[TombAt(h, t)].ledger = t
  <2>1. TombAt(h, t) \in 1 .. Len(h) /\ h[TombAt(h, t)].op = "tomb" /\ h[TombAt(h, t)].ledger = t
    BY <1>7, FirstTomb
  <2>. QED  BY <1>2, <2>1
<1>8. ASSUME e.op # "tomb" \/ l # m, m \in T, TombAt(h, m) <= i PROVE c = None
  BY <1>5, <1>7, <1>8
<1>9. i \in DOMAIN h
  OBVIOUS
<1>10. ~(e.op \in {"switch", "create"} /\ e.scope = s)
  OBVIOUS
<1>. SUFFICES Tied(h, s, m, i, x, q.bound)
  OBVIOUS
<1>. HIDE DEF e, l, q, c, x, T
<1>11. ASSUME x = c, s \in DOMAIN r.bound <=> s \in DOMAIN q.bound,
              s \in DOMAIN r.bound => q.bound[s] = r.bound[s], e.op # "tomb" \/ l # m
       PROVE  Tied(h, s, m, i, x, q.bound)
  BY <1>5, <1>8, <1>11 DEF Tied, T
<1>12. CASE e.op \in Dumps
  <2>1. x = c
    BY <1>4, <1>10, <1>12 DEF Leads
  <2>2. q.bound = r.bound
    BY <1>3, <1>12 DEF Steps, T
  <2>3. e.op # "tomb"
    BY <1>12 DEF Dumps
  <2>. QED  BY <1>11, <2>1, <2>2, <2>3
<1>13. CASE e.op = "switch"
  <2>1. e.scope # s /\ x = c
    BY <1>4, <1>10, <1>13 DEF Leads
  <2>2. q.bound = With(r.bound, e.scope, l) \/ q.bound = Minus(r.bound, {e.scope})
    BY <1>3, <1>13 DEF Steps
  <2>3. /\ s \in DOMAIN r.bound <=> s \in DOMAIN q.bound
        /\ s \in DOMAIN r.bound => q.bound[s] = r.bound[s]
    BY <2>1, <2>2 DEF With, Minus, Restrict
  <2>. QED  BY <1>11, <1>13, <2>1, <2>3
<1>14. CASE e.op = "reopen"
  <2>1. x = c /\ q.bound = r.bound
    BY <1>3, <1>4, <1>14 DEF Steps, Leads
  <2>. QED  BY <1>11, <1>14, <2>1
<1>15. CASE e.op = "close"
  <2>1. x = IF l = c /\ Before(h, i) THEN None ELSE c
    BY <1>4, <1>15 DEF Leads
  <2>2. /\ l \in DOMAIN r.pool => q.bound = Minus(r.bound, {z \in DOMAIN r.bound : r.bound[z] = l})
        /\ l \notin DOMAIN r.pool => q = r
    BY <1>3, <1>15 DEF Steps
  <2>3. CASE l # m
    <3>1. x = c
      BY <1>1, <1>5, <2>1, <2>3
    <3>2. /\ s \in DOMAIN r.bound <=> s \in DOMAIN q.bound
          /\ s \in DOMAIN r.bound => q.bound[s] = r.bound[s]
      BY <1>5, <2>2, <2>3 DEF Minus, Restrict
    <3>. QED  BY <1>11, <2>3, <3>1, <3>2
  <2>4. CASE l = m
    <3>1. x \in {m, None} /\ (c = None => x = None)
      BY <1>5, <2>1
    <3>2. s \in DOMAIN q.bound => s \in DOMAIN r.bound /\ q.bound[s] = r.bound[s]
      BY <2>2 DEF Minus, Restrict
    <3>3. ASSUME m \notin T \cup Orphans(h) PROVE x # m /\ s \notin DOMAIN q.bound
      <4>1. Before(h, i)
        BY <2>4, <3>3 DEF Before, T, l, e
      <4>2. x # m
        BY <1>1, <1>5, <2>1, <2>4, <4>1
      <4>3. ~NeverCreated(SubSeq(h, 1, i), m)
        BY <1>9, <1>15, <2>4, <3>3 DEF Orphans, Dumps, l, e
      <4>4. PICK j \in 1 .. i : h[j].op \in Dumps /\ h[j].ledger = m
        BY <4>3, HeardBefore
      <4>5. j # i
        BY <1>15, <4>4 DEF Dumps, e
      <4>6. j \in 1 .. i - 1
        BY <1>2, <4>5
      <4>7. m \in DOMAIN r.pool
        BY <1>6, <3>3, <4>4, <4>6 DEF Dumped, T
      <4>. QED  BY <1>5, <2>2, <2>4, <4>2, <4>7 DEF Minus, Restrict
    <3>4. m \in T /\ TombAt(h, m) <= i => x = None
      BY <1>8, <1>15, <3>1
    <3>. QED  BY <1>5, <3>1, <3>2, <3>3, <3>4 DEF Tied, T
  <2>. QED  BY <2>3, <2>4
<1>16. CASE e.op = "tomb"
  <2>1. x = IF l = c THEN None ELSE c
    BY <1>4, <1>16 DEF Leads
  <2>2. /\ i # TombAt(h, l) => q = r
        /\ i = TombAt(h, l) => q.bound = Minus(r.bound, {z \in Scopes : Anchor(h, z, i - 1) = l})
    BY <1>3, <1>16 DEF Steps
  <2>3. l \in T
    BY <1>9, <1>16 DEF Tombs, T, l, e
  <2>4. s \in DOMAIN q.bound => s \in DOMAIN r.bound /\ q.bound[s] = r.bound[s]
    BY <2>2 DEF Minus, Restrict
  <2>5. CASE l # m
    <3>1. x = c /\ c # l
      BY <1>1, <1>5, <2>1, <2>5
    <3>2. s \in DOMAIN r.bound => s \in DOMAIN q.bound
      BY <2>2, <3>1 DEF Minus, Restrict, c
    <3>. QED  BY <1>11, <2>4, <2>5, <3>1, <3>2
  <2>6. CASE l = m
    <3>1. x = None
      BY <1>5, <2>1, <2>6
    <3>. QED  BY <1>5, <2>3, <2>4, <2>6, <3>1 DEF Tied, T
  <2>. QED  BY <2>5, <2>6
<1>. QED  BY <1>1, <1>12, <1>13, <1>14, <1>15, <1>16

\* A scope without a switch and without a creation is not active anywhere.
LEMMA NeverSwitched ==
  ASSUME NEW h \in Seq(Events), NEW s \in Scopes,
         \A i \in 1 .. Len(h) : ~(h[i].op \in {"switch", "create"} /\ h[i].scope = s)
  PROVE  Anchor(h, s, Len(h)) = None /\ s \notin DOMAIN Replay(h).bound
<1>. DEFINE n == Len(h)
<1>1. n \in Nat /\ n \in 0 .. n
  OBVIOUS
<1>2. PICK st : Path(h, st) /\ Replay(h) = st[n]
  BY <1>1, Replaying
<1>3. /\ st[0] = Empty /\ \A i \in 1 .. n : st[i] = ReplayStep(h, st[i-1], i)
      /\ \A i \in 0 .. n : SoFar(h, st[i], i)
  BY <1>2, Replayed DEF Path
<1>. DEFINE B == {i \in 0 .. n : Anchor(h, s, i) # None \/ s \in DOMAIN st[i].bound}
<1>4. B = {}
  <2>. SUFFICES ASSUME B # {} PROVE FALSE
    OBVIOUS
  <2>1. B \subseteq Nat
    BY <1>1
  <2>2. PICK i \in B : \A k \in B : i <= k
    BY <2>1, LeastNat
  <2>3. i # 0
    <3>1. Anchor(h, s, 0) = None /\ DOMAIN st[0].bound = {}
      BY <1>3, AnchorNext DEF Empty
    <3>. QED  BY <2>2, <3>1
  <2>4. i \in 1 .. n /\ i - 1 \in 0 .. n /\ ~(i <= i - 1)
    <3>1. i \in 0 .. n
      OBVIOUS
    <3>. HIDE DEF n, B
    <3>. QED  BY <1>1, <2>3, <3>1
  <2>5. Anchor(h, s, i - 1) = None /\ s \notin DOMAIN st[i - 1].bound
    BY <2>2, <2>4
  <2>. DEFINE e == h[i]
              l == e.ledger
              r == st[i - 1]
              q == st[i]
  <2>6. /\ e.op \in Dumps \cup {"switch", "close", "reopen", "tomb"} /\ l # None
        /\ ~(e.op \in {"switch", "create"} /\ e.scope = s)
    BY <2>4, EventFacts, LedgerAssumption DEF LedgerAssumption
  <2>7. Steps(h, i, r, q, e, l)
    BY <1>3, <2>4, StepFields DEF SoFar
  <2>8. Leads(h, i, s, None, Anchor(h, s, i), e, l)
    <3>1. i - 1 \in Nat /\ (i - 1) + 1 = i
      BY <2>4
    <3>2. Anchor(h, s, i) = AnchorStep(h, s, None, i)
      BY <2>5, <3>1, AnchorNext
    <3>. QED  BY <2>4, <3>2, AnchorFields
  <2>9. s \notin DOMAIN r.bound
    BY <2>5
  <2>. HIDE DEF e, l, r, q, n, B
  <2>10. Anchor(h, s, i) = None
    BY <2>6, <2>8 DEF Leads
  <2>11. \/ q.bound = r.bound
         \/ e.op = "switch" /\ q.bound = With(r.bound, e.scope, l)
         \/ \E xs : q.bound = Minus(r.bound, xs)
    BY <2>6, <2>7 DEF Steps
  <2>12. s \notin DOMAIN q.bound
    BY <2>6, <2>9, <2>11 DEF With, Minus, Restrict
  <2>. QED  BY <2>2, <2>10, <2>12 DEF B, q
<1>. QED  BY <1>1, <1>2, <1>4

\* The anchor is what the replay has bound, when no switch is missing.
LEMMA Anchoring ==
  ASSUME NEW h \in Seq(Events), NEW s \in Scopes, ~HalfCreated(h, s)
  PROVE  \/ Anchor(h, s, Len(h)) = Bound(Replay(h), s)
         \/ {Bound(Replay(h), s), Anchor(h, s, Len(h))} \cap Orphans(h) # {}
<1>. DEFINE n == Len(h)
            K == {i \in 1 .. n : h[i].op = "switch" /\ h[i].scope = s}
            made(i) == h[i].op = "create" /\ h[i].scope = s
<1>1. n \in Nat /\ DOMAIN h = 1 .. n
  OBVIOUS
<1>2. ASSUME NEW i \in 1 .. n, made(i) PROVE \E j \in i + 1 .. n : j \in K
  <2>1. PICK j \in i + 1 .. n : h[j].op = "switch" /\ h[j].scope = s
    BY <1>1, <1>2 DEF HalfCreated
  <2>2. j \in 1 .. n
    BY <1>1
  <2>. QED  BY <2>1, <2>2
<1>3. CASE K = {}
  <2>1. \A i \in 1 .. n : ~(h[i].op \in {"switch", "create"} /\ h[i].scope = s)
    BY <1>2, <1>3
  <2>. QED  BY <2>1, NeverSwitched DEF Bound
<1>4. CASE K # {}
  <2>. DEFINE G == {n - i : i \in K}
  <2>1. G # {} /\ G \subseteq Nat
    BY <1>1, <1>4
  <2>2. PICK g \in G : \A x \in G : g <= x
    BY <2>1, LeastNat
  <2>3. PICK k \in K : g = n - k
    OBVIOUS
  <2>4. \A i \in K : i <= k
    <3>1. \A i \in K : n - k <= n - i
      BY <2>2, <2>3
    <3>. QED  BY <1>1, <3>1
  <2>. DEFINE m == h[k].ledger
              T == Tombs(h)
  <2>5. /\ k \in 1 .. n /\ h[k].op = "switch" /\ h[k].scope = s /\ m \in Ledgers /\ m # None
        /\ h[k] \in Events
    <3>1. k \in 1 .. n /\ h[k].op = "switch" /\ h[k].scope = s /\ h[k] \in Events
      BY <2>3
    <3>. QED  BY <3>1, EventFacts, LedgerAssumption DEF LedgerAssumption
  <2>6. ASSUME NEW i \in k + 1 .. n
        PROVE  i \in 1 .. n /\ ~(h[i].op \in {"switch", "create"} /\ h[i].scope = s)
    <3>1. i \in 1 .. n /\ ~(i <= k)
      BY <1>1, <2>5
    <3>2. i \notin K
      BY <2>4, <3>1
    <3>3. ~made(i)
      <4>. SUFFICES ASSUME made(i) PROVE FALSE
        OBVIOUS
      <4>1. PICK j \in i + 1 .. n : j \in K
        BY <1>2, <3>1
      <4>2. ~(j <= k)
        BY <1>1, <2>5, <3>1, <4>1
      <4>. QED  BY <2>4, <4>1, <4>2
    <3>. QED  BY <3>1, <3>2, <3>3
  <2>7. PICK st : Path(h, st) /\ Replay(h) = st[n]
    BY <1>1, Replaying
  <2>8. /\ \A i \in 1 .. n : st[i] = ReplayStep(h, st[i-1], i)
        /\ \A i \in 0 .. n : SoFar(h, st[i], i)
    BY <2>7, Replayed DEF Path
  <2>9. k \in Nat /\ k - 1 \in 0 .. n /\ k - 1 \in Nat /\ (k - 1) + 1 = k /\ k <= n
    BY <1>1, <2>5
  <2>. HIDE DEF n, K, made, G, m, T
  <2>10. Tied(h, s, m, k, Anchor(h, s, k), st[k].bound)
    <3>. DEFINE q == st[k]
                x == Anchor(h, s, k)
                r == st[k - 1]
    <3>1. Steps(h, k, r, q, h[k], m)
      BY <2>5, <2>8, <2>9, StepFields DEF SoFar, m, n
    <3>2. Leads(h, k, s, Anchor(h, s, k - 1), x, h[k], m)
      <4>1. x = AnchorStep(h, s, Anchor(h, s, k - 1), k)
        BY <2>9, AnchorNext
      <4>. QED  BY <2>5, <4>1, AnchorFields DEF m, n
    <3>3. x = IF Before(h, k) THEN m ELSE None
      BY <2>5, <3>2 DEF Leads
    <3>4. q.bound = IF Before(h, k) THEN With(r.bound, s, m) ELSE Minus(r.bound, {s})
      BY <2>5, <3>1 DEF Steps
    <3>5. Before(h, k) <=> (m \in T => k < TombAt(h, m))
      BY DEF Before, m, T
    <3>6. m \in T => TombAt(h, m) \in Nat
      <4>1. m \in T => TombAt(h, m) \in 1 .. Len(h)
        BY FirstTomb DEF T
      <4>. QED  BY <4>1
    <3>7. m \in T /\ TombAt(h, m) <= k => x = None
      BY <2>9, <3>3, <3>5, <3>6
    <3>. HIDE DEF x, q, r
    <3>8. /\ s \in DOMAIN q.bound <=> Before(h, k)
          /\ s \in DOMAIN q.bound => q.bound[s] = m
      BY <3>4 DEF With, Minus, Restrict
    <3>9. x \in {m, None} /\ (m \notin T => (x = m <=> s \in DOMAIN q.bound))
      BY <2>5, <3>3, <3>5, <3>8
    <3>. QED  BY <3>7, <3>8, <3>9 DEF Tied, T, x, q
  <2>. DEFINE B == {i \in k .. n : ~Tied(h, s, m, i, Anchor(h, s, i), st[i].bound)}
  <2>11. B = {}
    <3>. SUFFICES ASSUME B # {} PROVE FALSE
      OBVIOUS
    <3>1. B \subseteq Nat
      BY <1>1, <2>9
    <3>2. PICK i \in B : \A j \in B : i <= j
      BY <3>1, LeastNat
    <3>3. i # k
      BY <2>10, <3>2
    <3>4. i \in k + 1 .. n /\ i - 1 \in k .. n /\ i - 1 \in 0 .. n /\ ~(i <= i - 1)
      <4>1. i \in k .. n
        OBVIOUS
      <4>. QED  BY <1>1, <2>9, <3>3, <4>1
    <3>5. Tied(h, s, m, i - 1, Anchor(h, s, i - 1), st[i - 1].bound)
      BY <3>2, <3>4
    <3>6. i \in 1 .. Len(h) /\ ~(h[i].op \in {"switch", "create"} /\ h[i].scope = s)
      BY <2>6, <3>4 DEF n
    <3>7. Tied(h, s, m, i, Anchor(h, s, i), ReplayStep(h, st[i - 1], i).bound)
      BY <2>5, <2>8, <3>4, <3>5, <3>6, TiedStep
    <3>8. st[i] = ReplayStep(h, st[i - 1], i)
      BY <2>6, <2>8, <3>4
    <3>. QED  BY <3>2, <3>7, <3>8
  <2>. DEFINE r == Replay(h)
              c == Anchor(h, s, n)
  <2>12. Tied(h, s, m, n, c, r.bound) /\ SoFar(h, r, n)
    <3>1. n \in k .. n /\ n \in 0 .. n
      BY <1>1, <2>9
    <3>. QED  BY <2>7, <2>8, <2>11, <3>1
  <2>13. DOMAIN r.pool = Dumped(h, n)
    BY <2>12 DEF SoFar
  <2>14. /\ c \in {m, None} /\ (s \in DOMAIN r.bound => r.bound[s] = m)
         /\ m \notin T \cup Orphans(h) => (c = m <=> s \in DOMAIN r.bound)
         /\ m \in T /\ TombAt(h, m) <= n => c = None
    BY <2>12 DEF Tied, T
  <2>. HIDE DEF r, c
  <2>15. Bound(r, s) \in {m, None}
    BY <2>14 DEF Bound
  <2>16. CASE m \in T
    <3>1. TombAt(h, m) \in 1 .. n
      BY <2>16, FirstTomb DEF T, n
    <3>2. c = None
      BY <1>1, <2>14, <2>16, <3>1
    <3>3. Bound(r, s) = None
      BY <2>13, <2>14, <2>16 DEF Bound, Dumped, T
    <3>. QED  BY <3>2, <3>3 DEF r, c, n
  <2>17. CASE m \in Orphans(h)
    BY <2>14, <2>15, <2>17 DEF r, c, n
  <2>18. CASE m \notin T \cup Orphans(h)
    <3>1. ~NeverCreated(SubSeq(h, 1, k), m)
      BY <1>1, <2>5, <2>18 DEF Orphans, Dumps, m, n
    <3>2. PICK j \in 1 .. k : h[j].op \in Dumps /\ h[j].ledger = m
      BY <2>5, <3>1, HeardBefore DEF n
    <3>3. j \in 1 .. n
      BY <1>1, <2>9
    <3>4. m \in DOMAIN r.pool
      BY <2>5, <2>13, <2>18, <3>2, <3>3 DEF Dumped, T
    <3>5. Bound(r, s) = IF s \in DOMAIN r.bound THEN m ELSE None
      BY <2>14, <3>4 DEF Bound
    <3>. QED  BY <2>5, <2>14, <2>18, <3>5 DEF r, c, n
  <2>. QED  BY <2>16, <2>17, <2>18
<1>. QED  BY <1>3, <1>4

\* switch_timeline and replay_ledger_events, two readings of the same events, agree on
\* the ledger that is active in a scope now (TurnsAreAnchored).
THEOREM TurnsStayAnchored == PoolSpec => []TurnsAreAnchored
<1>1. LedgerInv /\ ReplayAgrees => TurnsAreAnchored
  <2>. SUFFICES ASSUME LedgerInv, ReplayAgrees, NEW s \in Scopes \ unsaved,
                       Active(s) \notin unsaved \cup Revived, ~HalfCreated(hub, s)
                PROVE  \/ Anchor(hub, s, Len(hub)) = Active(s)
                       \/ {Active(s), Anchor(hub, s, Len(hub))} \cap Orphans(hub) # {}
    BY DEF TurnsAreAnchored
  <2>1. Bound(Replay(hub), s) = Active(s)
    BY DEF ReplayAgrees
  <2>2. hub \in Seq(Events)
    BY Known
  <2>. QED  BY <2>1, <2>2, Anchoring
<1>. QED  BY <1>1, LedgersHold, LedgersAreReplayed, PTL
=============================================================================
