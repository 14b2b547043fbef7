---------------------------- MODULE Adjudication ----------------------------
(***************************************************************************)
(* Writing facts that contradict each other: the part of a round of the    *)
(* consolidator between distilling and marking turns consumed.             *)
(*                                                                         *)
(* A turn yields one fact, and both are named by the turn's time.  All the *)
(* facts are about one topic, so each is a neighbour of the others (cosine *)
(* above BLADEX_ADJUDICATE_MIN_SIM, fewer than top_k); two that say the    *)
(* same in the same words are duplicates (above the novelty threshold).    *)
(* Those in Keyed share one supersede key (scope, subject, attribute).     *)
(*                                                                         *)
(*   candidates -> not novel: dropped                                      *)
(*              -> fast path by key: NOOP / UPDATE, no call                *)
(*              -> no neighbour: ADD                                       *)
(*              -> pending, until the language model's verdict             *)
(*   then: tombstones, clear() of a full rebuild, add_fact, replay of the  *)
(*   ledger of verdicts, what the verdicts changed, consumed marks.        *)
(*                                                                         *)
(* UPDATE supersedes older facts (superseded_by, they stay stored), NOOP   *)
(* drops the candidate for one.  The first half changes only objects in    *)
(* memory; a crash may come between any two steps.                         *)
(*                                                                         *)
(* A definition named Bug... is a broken variant of the one after it: the  *)
(* mutation runs put it in its place and expect a property to fail.        *)
(***************************************************************************)
EXTENDS Integers, Sequences, FiniteSets

CONSTANTS
    N,      \* the facts are 1..N, in the order of their turns' time
    Says,   \* what each fact says
    Words,  \* in which words
    Keyed,  \* those with subject and attribute
    Budget  \* how often each thing may happen

Facts == 1 .. N
Kinds == {"crash", "llm", "careless", "add", "forget", "full", "any"}

ASSUME AdjudicationAssumption ==
    /\ N \in Nat \ {0}
    /\ DOMAIN Says = Facts /\ DOMAIN Words = Facts
    /\ Keyed \subseteq Facts
    /\ Budget \in [Kinds -> Nat]

VARIABLES
    hub,      \* the turns stored in the Hub
    tombs,    \* the facts under a FACT tombstone
    index,    \* facts of the Index: Absent, Current, or superseded_by
    consumed, \* the turns marked consumed
    ledger,   \* the UPDATE verdicts of the ledger judgment/, in order
    pc,       \* where rebuild_from_hub is
    round,    \* its local variables
    stands,   \* history: the fact a dropped one was dropped for
    failed,   \* history: facts add_fact raised for
    torn,     \* history: facts a crash left superseded by one not yet stored
    careless, \* history: the model once answered against content or time
    spent

history == <<stands, failed, torn, careless>>
vars == <<hub, tombs, index, consumed, ledger, pc, round, history, spent>>

Absent == -1
Current == 0

NoRound == [full |-> FALSE, batch |-> {}, todo |-> <<>>, paid |-> 0,
            obj |-> [f \in Facts |-> Absent], pending |-> <<>>,
            basket |-> [f \in Facts |-> {}], degraded |-> {}, kept |-> <<>>,
            records |-> <<>>, stands |-> [f \in Facts |-> 0]]

Init ==
    /\ hub = {} /\ tombs = {} /\ consumed = {}
    /\ index = [f \in Facts |-> Absent]
    /\ ledger = <<>>
    /\ pc = "idle" /\ round = NoRound
    /\ stands = [f \in Facts |-> 0] /\ failed = {} /\ torn = {} /\ careless = FALSE
    /\ spent = [k \in Kinds |-> 0]

Spend(k) ==
    /\ spent[k] < Budget[k] /\ spent["any"] < Budget["any"]
    /\ spent' = [spent EXCEPT ![k] = @ + 1, !["any"] = @ + 1]

Elements(s) == {s[i] : i \in DOMAIN s}
Stored == {f \in Facts : index[f] # Absent}

-----------------------------------------------------------------------------
(* The proxy. *)

\* The pipeline stores a turn; a late one is stored after newer ones.
PutTurn(t) ==
    /\ t \notin hub
    /\ hub' = hub \cup {t}
    /\ UNCHANGED <<tombs, index, consumed, ledger, pc, round, history, spent>>

\* DELETE /admin/facts: the tombstone, then the Index unless the daemon has
\* its lock.
Forget(f) ==
    /\ f \in Stored \ tombs
    /\ Spend("forget")
    /\ tombs' = tombs \cup {f}
    /\ index' = IF pc = "down" THEN [index EXCEPT ![f] = Absent] ELSE index
    /\ UNCHANGED <<hub, consumed, ledger, pc, round, history>>

-----------------------------------------------------------------------------
(* consolidate_turns: which candidates are new. *)

\* The turns of S in the order of their time.
InOrder(S) == CHOOSE s \in [1 .. Cardinality(S) -> S] : \A i, j \in DOMAIN s : i < j => s[i] < s[j]

Duplicates(f, S) == {g \in S \ {f} : Says[g] = Says[f] /\ Words[g] = Words[f]}

\* Candidates that survive the comparison with the batch and, but for a full
\* rebuild, with the vectors of the Index: a candidate stored by an
\* interrupted round is its own duplicate.
Library(full) == IF full THEN {} ELSE Stored
NovelIn(batch, full) ==
    {f \in batch : /\ f \notin Library(full)
                   /\ Duplicates(f, Library(full)) = {}
                   /\ \A g \in Duplicates(f, batch) : g > f}

\* What a dropped candidate was taken for.
TakenFor(f, batch, full) ==
    LET same == Duplicates(f, Library(full) \cup {g \in batch : g < f})
    IN  IF f \in Library(full) THEN f
        ELSE CHOOSE g \in same : \A h \in same : g <= h

Start ==
    /\ pc = "down"
    /\ pc' = "idle"
    /\ UNCHANGED <<hub, tombs, index, consumed, ledger, round, history, spent>>

Begin(full) ==
    /\ pc = "idle"
    /\ LET batch == IF full THEN hub ELSE hub \ consumed
           novel == NovelIn(batch, full)
       IN  /\ batch # {}
           /\ round' = [NoRound EXCEPT
                  !.full = full, !.batch = batch, !.todo = InOrder(novel),
                  !.paid = Len(ledger),
                  !.stands = [f \in Facts |->
                      IF f \in batch \ novel THEN TakenFor(f, batch, full) ELSE 0]]
    /\ IF full THEN Spend("full") ELSE UNCHANGED spent
    /\ pc' = "fast"
    /\ UNCHANGED <<hub, tombs, index, consumed, ledger, history>>

-----------------------------------------------------------------------------
(* _adjudicate: the fast path, and what is left to the language model. *)

Kept == Elements(round.kept)
Pending == Elements(round.pending)

\* by_id: the objects a verdict may change.  A pending fact has none yet.
Reachable == {f \in Facts : round.obj[f] # Absent} \ Pending

BugNeighbours(f) == (Pending \cup Library(round.full)) \ {f}

\* _neighbors_for: facts kept, facts pending, facts of the Index.
Neighbours(f) == (Kept \cup Pending \cup Library(round.full)) \ {f}

\* hydrate: the neighbours out of the Index become objects of the round.
Hydrated(f) == [g \in Facts |->
    IF round.obj[g] = Absent /\ g \in Neighbours(f) \cap Library(round.full)
      THEN index[g] ELSE round.obj[g]]

Verdict(op, targets) == [op |-> op, targets |-> targets]
Record(f, verdict, changed) ==
    [candidate |-> f, op |-> verdict.op, targets |-> verdict.targets, changed |-> changed]

\* What apply_verdict makes of the round r: no target among the objects means
\* ADD, UPDATE leaves alone what is superseded, NOOP drops f for its target.
Applied(r, f, verdict) ==
    LET found == {t \in verdict.targets : r.obj[t] # Absent} \ Elements(r.pending)
        newly == {t \in found : r.obj[t] = Current}
    IN  CASE verdict.op = "noop" /\ found # {} ->
               [r EXCEPT !.stands[f] = CHOOSE t \in found : TRUE,
                         !.records = Append(@, Record(f, verdict, found))]
          [] verdict.op = "update" /\ found # {} ->
               [r EXCEPT !.obj = [t \in Facts |-> IF t = f THEN Current
                                                  ELSE IF t \in newly THEN f ELSE @[t]],
                         !.kept = Append(@, f),
                         !.records = Append(@, Record(f, verdict, newly))]
          [] OTHER ->
               [r EXCEPT !.obj[f] = Current, !.kept = Append(@, f),
                         !.records = Append(@, Record(f, verdict, {}))]

\* fast_path_verdict: neighbours with the candidate's key.
SameKey(f, obj) ==
    {g \in Neighbours(f) : f \in Keyed /\ g \in Keyed /\ (g \in Pending \/ obj[g] = Current)}
Restated(f, obj) == {g \in SameKey(f, obj) : Says[g] = Says[f]}

\* NOOP for a neighbour: those kept come before the others.
FastNoop(f, obj) ==
    LET kept == Restated(f, obj) \cap Kept
    IN  {Verdict("noop", {t}) : t \in IF kept # {} THEN kept ELSE Restated(f, obj)}

\* A new value of the key supersedes all of it, unless that would touch a
\* fact of the Index: then the model judges.
FastVerdicts(f, obj) ==
    IF SameKey(f, obj) = {} THEN {}
    ELSE IF Restated(f, obj) = SameKey(f, obj) THEN FastNoop(f, obj)
    ELSE IF (SameKey(f, obj) \ Restated(f, obj)) \cap Library(round.full) # {} THEN {}
    ELSE {Verdict("update", SameKey(f, obj))}

Examine ==
    /\ pc = "fast" /\ round.todo # <<>>
    /\ LET f == Head(round.todo)
           obj == Hydrated(f)
           r == [round EXCEPT !.todo = Tail(@), !.obj = obj]
       IN  \/ \E v \in FastVerdicts(f, obj) : round' = Applied(r, f, v)
           \/ /\ Neighbours(f) = {}
              /\ round' = Applied(r, f, Verdict("add", {}))
           \/ /\ Neighbours(f) # {} /\ FastVerdicts(f, obj) = {}
              /\ round' = [r EXCEPT !.pending = Append(@, f), !.basket[f] = Neighbours(f)]
    /\ UNCHANGED <<hub, tombs, index, consumed, ledger, pc, history, spent>>

BugAsk(unanswered) ==
    /\ pc = "fast" /\ round.todo = <<>>
    /\ IF unanswered = {} THEN UNCHANGED spent ELSE Spend("llm")
    /\ IF unanswered # {} /\ 2 * Cardinality(unanswered) >= Len(round.pending)
         THEN pc' = "apply" /\ round' = [round EXCEPT !.records = <<>>]
         ELSE pc' = "settle" /\ round' = [round EXCEPT !.degraded = unanswered]
    /\ UNCHANGED <<hub, tombs, index, consumed, ledger, history>>

\* One call for the pending ones.  Those it does not answer for, or not with
\* JSON, become ADD; when they are half of it the round is given up.
Ask(unanswered) ==
    /\ pc = "fast" /\ round.todo = <<>>
    /\ IF unanswered = {} THEN UNCHANGED spent ELSE Spend("llm")
    /\ IF unanswered # {} /\ 2 * Cardinality(unanswered) >= Len(round.pending)
         THEN pc' = "idle" /\ round' = NoRound
         ELSE pc' = "settle" /\ round' = [round EXCEPT !.degraded = unanswered]
    /\ UNCHANGED <<hub, tombs, index, consumed, ledger, history>>

\* What the prompt asks of the model: supersede only what says something else
\* and was observed before, drop only for what says the same.
Sane(f, verdict) ==
    CASE verdict.op = "update" -> \A t \in verdict.targets : t < f /\ Says[t] # Says[f]
      [] verdict.op = "noop" -> \A t \in verdict.targets : Says[t] = Says[f]
      [] OTHER -> TRUE

\* _parse lets through targets of the basket, and no UPDATE or NOOP without.
Answers(f) ==
    {Verdict("add", {})} \cup
    {Verdict("update", T) : T \in SUBSET round.basket[f] \ {{}}} \cup
    {Verdict("noop", {t}) : t \in round.basket[f]}

Settle(verdict) ==
    /\ pc = "settle" /\ round.pending # <<>>
    /\ LET f == Head(round.pending)
       IN  /\ verdict \in IF f \in round.degraded THEN {Verdict("add", {})} ELSE Answers(f)
           /\ IF Sane(f, verdict) THEN UNCHANGED <<careless, spent>>
              ELSE Spend("careless") /\ careless' = TRUE
           /\ round' = [Applied(round, f, verdict) EXCEPT !.pending = Tail(@)]
    /\ UNCHANGED <<hub, tombs, index, consumed, ledger, pc, stands, failed, torn>>

-----------------------------------------------------------------------------
(* rebuild_from_hub: writing the round to the Index. *)

\* The facts of s that are not in S, in the order of s.
Barring(s, S) ==
    LET at == InOrder({i \in DOMAIN s : s[i] \notin S}) IN [k \in DOMAIN at |-> s[at[k]]]

\* Facts under a tombstone are not stored.
Filter ==
    /\ pc = "settle" /\ round.pending = <<>>
    /\ round' = [round EXCEPT !.todo = Barring(round.kept, tombs), !.kept = <<>>]
    /\ pc' = IF round.full THEN "clear" ELSE "store"
    /\ UNCHANGED <<hub, tombs, index, consumed, ledger, history, spent>>

\* clear() leaves the ledger of verdicts.
Clear ==
    /\ pc = "clear"
    /\ index' = [f \in Facts |-> Absent]
    /\ consumed' = {}
    /\ pc' = "store"
    /\ UNCHANGED <<hub, tombs, ledger, round, history, spent>>

\* add_fact writes the object as the verdicts left it, superseded or not.
Store ==
    /\ pc = "store" /\ round.todo # <<>>
    /\ LET f == Head(round.todo)
       IN  /\ index' = [index EXCEPT ![f] = round.obj[f]]
           /\ round' = [round EXCEPT !.todo = Tail(@), !.kept = Append(@, f)]
    /\ UNCHANGED <<hub, tombs, consumed, ledger, pc, history, spent>>

StoreFails ==
    /\ pc = "store" /\ round.todo # <<>>
    /\ Spend("add")
    /\ failed' = failed \cup {Head(round.todo)}
    /\ round' = [round EXCEPT !.todo = Tail(@)]
    /\ UNCHANGED <<hub, tombs, index, consumed, ledger, pc, stands, torn, careless>>

\* plan_supersede_replay: the first verdict on a fact holds.  Facts that the
\* round did not store neither supersede nor are superseded.
Verdicts(t, present) ==
    {i \in DOMAIN ledger : /\ {ledger[i].candidate, t} \subseteq present
                           /\ t \in ledger[i].targets /\ t # ledger[i].candidate}
First(S) == CHOOSE i \in S : \A j \in S : i <= j

BugReplay ==
    /\ pc = "store" /\ round.todo = <<>>
    /\ index' = [t \in Facts |->
           IF ~round.full /\ Verdicts(t, Kept) # {}
             THEN ledger[First(Verdicts(t, Kept))].candidate ELSE index[t]]
    /\ pc' = "apply"
    /\ UNCHANGED <<hub, tombs, consumed, ledger, round, history, spent>>

\* Only a full rebuild replays: before the verdicts of the round, which may
\* overwrite what is replayed.
Replay ==
    /\ pc = "store" /\ round.todo = <<>>
    /\ index' = [t \in Facts |->
           IF round.full /\ Verdicts(t, Kept) # {}
             THEN ledger[First(Verdicts(t, Kept))].candidate ELSE index[t]]
    /\ pc' = "apply"
    /\ UNCHANGED <<hub, tombs, consumed, ledger, round, history, spent>>

\* The facts a verdict changed are written, with the verdict after them.
Apply ==
    /\ pc = "apply" /\ round.records # <<>>
    /\ LET record == Head(round.records)
       IN  /\ index' = [t \in Facts |-> IF t \in record.changed THEN round.obj[t] ELSE index[t]]
           /\ ledger' = IF record.op = "update"
                          THEN Append(ledger, [candidate |-> record.candidate,
                                               targets |-> record.targets])
                          ELSE ledger
    /\ round' = [round EXCEPT !.records = Tail(@)]
    /\ UNCHANGED <<hub, tombs, consumed, pc, history, spent>>

Consume ==
    /\ pc = "apply" /\ round.records = <<>>
    /\ consumed' = consumed \cup round.batch
    /\ stands' = [f \in Facts |-> IF f \in round.batch THEN round.stands[f] ELSE stands[f]]
    /\ pc' = "end"
    /\ UNCHANGED <<hub, tombs, index, ledger, round, failed, torn, careless, spent>>

End ==
    /\ pc = "end"
    /\ pc' = "idle" /\ round' = NoRound
    /\ UNCHANGED <<hub, tombs, index, consumed, ledger, history, spent>>

Crash ==
    /\ pc # "down"
    /\ Spend("crash")
    /\ pc' = "down" /\ round' = NoRound
    /\ torn' = torn \cup {f \in Stored : index[f] > 0 /\ index[f] \notin Stored}
    /\ UNCHANGED <<hub, tombs, index, consumed, ledger, stands, failed, careless>>

-----------------------------------------------------------------------------
Next ==
    \/ \E t \in Facts : PutTurn(t) \/ Forget(t)
    \/ Start \/ Crash
    \/ \E full \in BOOLEAN : Begin(full)
    \/ Examine
    \/ \E unanswered \in SUBSET Pending : Ask(unanswered)
    \/ \E f \in Pending : \E verdict \in Answers(f) : Settle(verdict)
    \/ Filter \/ Clear \/ Store \/ StoreFails \/ Replay \/ Apply \/ Consume \/ End

Spec == Init /\ [][Next]_vars

-----------------------------------------------------------------------------
(* Properties. *)

\* Where fact f leads: to what superseded it, or to what it was dropped for.
LeadsTo(f) == IF index[f] > 0 THEN index[f] ELSE IF index[f] = Absent THEN stands[f] ELSE 0
Trail(f) ==
    LET trail[n \in 0 .. N] == IF n = 0 THEN f
                               ELSE IF trail[n - 1] = 0 THEN 0 ELSE LeadsTo(trail[n - 1])
    IN  {trail[n] : n \in 0 .. N} \ {0}

\* What was said is not lost: a consumed turn leads, over what superseded its
\* fact and what it was dropped for, to a current fact, or to one forgotten,
\* refused by the store or torn by a crash.  The model kept to its prompt.
NothingVanishes ==
    careless \/ \A t \in consumed :
        \E g \in Trail(t) : index[g] = Current \/ g \in tombs \cup failed \cup torn

\* A full rebuild leaves one current value of a key, whatever the order and the
\* crashes before it, among the facts it could judge without the model.
OneValuePerKey ==
    (pc = "end" /\ round.full) =>
        \A f, g \in Keyed \cap round.batch :
            index[f] = Current /\ index[g] = Current /\ f # g
                => round.basket[f] # {} \/ round.basket[g] # {}

\* A rebuild never forgets a verdict that was paid for: what an earlier round
\* superseded by a fact that is still kept is not current again, unless the
\* round upheld it by dropping another fact for it.
PaidVerdictsHold ==
    (pc = "end" /\ round.full) =>
        \A i \in 1 .. round.paid : \A t \in ledger[i].targets \ {ledger[i].candidate} :
            ledger[i].candidate \in Stored \ (tombs \cup failed) /\ index[t] = Current
                => \E f \in round.batch : round.stands[f] = t

=============================================================================
