---------------------------- MODULE MatterGraph -----------------------------
(***************************************************************************)
(* Which matter a fact belongs to: the second half of rebuild_from_hub and *)
(* the matter operations of the admin API.                                 *)
(*                                                                         *)
(* The graph lives in the Memory Index: matters with a status, facts with  *)
(* their field matter_id, and edges.  An edge is stored under a hash of    *)
(* (matter, fact) taken when it was first written, its home; merge and     *)
(* split change the matter of an edge and keep its key.                    *)
(*                                                                         *)
(* A round replays the events past the watermark, adds the facts of the    *)
(* next turns and attributes them one by one:                              *)
(*                                                                         *)
(*   ledger anchor -> continuation of the conversation (D1) -> L1 by hand  *)
(*   -> L2 named by the user, L3 same title -> L4 verdict, from the journal*)
(*   or the model -> L5 a provisional matter, or the pool of unassigned    *)
(*                                                                         *)
(* then digests the pool.  Facts of the lanes profile and tool are stored  *)
(* and go past all this (BLADEX_LANE_HARD_SPLIT, on by default), unless    *)
(* the user assigns them.  A full rebuild clears the graph first, replays  *)
(* every event and takes all turns, but for the facts the user corrected,  *)
(* which the replay has stored; both journals outlive it.  An event is     *)
(* appended to the Hub always and applied at once when the API gets the    *)
(* writer's lock; it is replayed by the next round in both cases.          *)
(*                                                                         *)
(* All turns are of one session and one agent.  Similarity (vectors, topic *)
(* keys, what the text says) only decides which candidates are seen and    *)
(* what the model answers: both are choices here.                          *)
(***************************************************************************)
EXTENDS Integers, Sequences, FiniteSets, SequencesExt

CONSTANTS
    TurnOf,     \* fact -> its turn, facts being named 1, 2, ... in key order
    TitleOf,    \* fact -> title of its proposal, or NoTitle
    LedgerOf,   \* turn -> the ledger active at that time, or NoLedger
    Born,       \* ledger -> the turn it was created at
    OldLinks,   \* <<fact, ledger>>: verdicts in the journal before the gate was
    Aside,      \* facts of lane profile or tool
    NoTitle, NoLedger,
    GraphBudgets \* how often each thing may happen, and all together: one of these

GraphFacts == DOMAIN TurnOf
Turns == DOMAIN LedgerOf
Ledgers == DOMAIN Born
Things == {"assign", "detach", "merge", "close", "split", "correct", "forget", "full",
           "crash", "raise", "model"}

ASSUME MatterGraphAssumption ==
    /\ IsFiniteSet(GraphFacts) /\ GraphFacts = 1 .. Cardinality(GraphFacts)
    /\ IsFiniteSet(Turns) /\ Turns = 1 .. Cardinality(Turns)
    /\ TurnOf \in [GraphFacts -> Turns]
    /\ \A f, g \in GraphFacts : f < g => TurnOf[f] <= TurnOf[g]
    /\ LedgerOf \in [Turns -> Ledgers \cup {NoLedger}] /\ NoLedger \notin Ledgers
    /\ Born \in [Ledgers -> Turns]
    /\ OldLinks \subseteq GraphFacts \X Ledgers /\ Aside \subseteq GraphFacts
    /\ GraphBudgets \subseteq [Things \cup {"any"} -> Nat]

\* Names of matters: the pool, new_matter_id of a turn, ledger_anchor_matter_id, uuid4.
New(t) == <<"new", t>>
Anchor(l) == <<"anchor", l>>
Pool == <<"pool", 0>>
Parted == <<"split", 0>>
Nowhere == <<"", 0>>
Matters == {New(t) : t \in Turns} \cup {Anchor(l) : l \in Ledgers} \cup {Parted}
Anchors == {Anchor(l) : l \in Ledgers}

VARIABLES
    graph,    \* status and titles of matters, edges, facts, their matter_id, corrected ones
    judged,   \* judgment/: fact -> verdict of L4
    stream,   \* judgment_taskstate/: turn -> verdict of D1
    events,   \* admin events of the Hub
    replayed, \* the watermark: how many of them were replayed
    marked, \* turns marked consumed
    queue,    \* the added facts that wait for their attribution
    ctx,      \* locals of the loop: see NoCtx
    phase,    \* "idle", "round" or "full"
    forgotten,    \* facts under a tombstone
    lost,     \* history: facts stored and never attributed: a crash, an exception, or a
              \* correction that brought the fact back
    rebuilt,  \* history: nothing but a full rebuild happened since
    left      \* what is left of the budget

journals == <<judged, stream>>
graphVars == <<graph, journals, events, replayed, marked, queue, ctx, phase, forgotten,
               lost, rebuilt, left>>

----------------------------------------------------------------------------
(* The graph *)

Edge(h, f, m, hand, via) == [home |-> h, fact |-> f, at |-> m, hand |-> hand, via |-> via]
EdgesOf(g, m) == {e \in g.edges : e.at = m}

Clean == [status |-> [m \in Matters |-> "none"], titles |-> [m \in Matters |-> {}],
          edges |-> {}, has |-> {}, of |-> [f \in GraphFacts |-> Nowhere], corrected |-> {}]

Exists(g, m) == m \in Matters /\ g.status[m] # "none"
Alive(g, m) == m \in Matters /\ g.status[m] \in {"provisional", "active"}
Linkable(g) == {m \in Matters : g.status[m] \notin {"none", "closed"}}

\* add_edge: the same matter and fact again overwrite the edge stored under that key.
Put(g, e) == [g EXCEPT !.edges = {x \in @ : x.home # e.home \/ x.fact # e.fact} \cup {e}]

\* _set_fact_matter: nothing for a fact that is not stored.
SetMatter(g, f, m) == IF f \in g.has THEN [g EXCEPT !.of[f] = m] ELSE g

\* _maybe_promote_matter: touched by hand, or members of two turns.
Promote(g, m) ==
    LET members == {e.fact : e \in EdgesOf(g, m)} \cap g.has IN
    IF /\ g.status[m] = "provisional"
       /\ \/ \E e \in EdgesOf(g, m) : e.hand
          \/ Cardinality({TurnOf[f] : f \in members}) >= 2
    THEN [g EXCEPT !.status[m] = "active"]
    ELSE g

AddMatter(g, m, status, titles) ==
    [g EXCEPT !.status[m] = status, !.titles[m] = titles]

----------------------------------------------------------------------------
(* What the user does, at once or by replay *)

\* assign_manual: an older edge of the fact stays.
Assign(g, m, f) == SetMatter(Put(g, Edge(m, f, m, TRUE, "hand")), f, m)

\* detach_edges_for_target
Detach(g, f) ==
    IF \E e \in g.edges : e.fact = f
    THEN SetMatter([g EXCEPT !.edges = {e \in @ : e.fact # f}], f, Nowhere)
    ELSE g

\* merge_matters: both must exist, and the source not be merged already.
Merge(g, s, t) ==
    IF s = t \/ ~Exists(g, s) \/ ~Exists(g, t) \/ g.status[s] = "closed"
    THEN g
    ELSE [g EXCEPT
            !.edges = {IF e.at = s THEN [e EXCEPT !.at = t] ELSE e : e \in @},
            !.of = [f \in GraphFacts |->
                      IF @[f] = s /\ (\E e \in EdgesOf(g, s) : e.fact = f) THEN t
                                                                      ELSE @[f]],
            !.titles[t] = @ \cup g.titles[s],
            !.status[s] = "closed"]

CloseMatter(g, m) == IF Exists(g, m) THEN [g EXCEPT !.status[m] = "closed"] ELSE g

\* split_matter: the edges it names change their matter, matter_id of the facts does not.
Split(g, m, f) ==
    [AddMatter(g, Parted, "active", {}) EXCEPT
        !.edges = {IF e.home = m /\ e.fact = f THEN [e EXCEPT !.at = Parted] ELSE e
                   : e \in @}]

\* correct_fact: the fact is written as the event has it, with the matter_id it had when
\* the user corrected it; its edges are left alone.
Correct(g, f, m) ==
    [g EXCEPT !.has = @ \cup {f}, !.of[f] = m, !.corrected = @ \cup {f}]

\* _apply_admin_event; the replay corrects no fact under a tombstone.
ApplyEvent(g, ev, barred) ==
    CASE ev.type = "assign" -> Assign(g, ev.matter, ev.fact)
      [] ev.type = "detach" -> Detach(g, ev.fact)
      [] ev.type = "merge" -> Merge(g, ev.source, ev.matter)
      [] ev.type = "close" -> CloseMatter(g, ev.matter)
      [] ev.type = "split" -> Split(g, ev.matter, ev.fact)
      [] ev.type = "correct" ->
           IF ev.fact \in barred THEN g ELSE Correct(g, ev.fact, ev.of)

ApplyEvents(g, evs, barred) ==
    LET after[i \in 0 .. Len(evs)] ==
            IF i = 0 THEN g ELSE ApplyEvent(after[i - 1], evs[i], barred)
    IN  after[Len(evs)]

----------------------------------------------------------------------------
(* The round *)

\* Locals: the turn D1 decided for, what it decided, the anchor of the session, and the
\* matters created in this pass, which are candidates whatever the vectors find.
NoCtx == [turn |-> 0, kind |-> "none", to |-> Nowhere, anchor |-> Nowhere, made |-> {}]

GraphInit ==
    /\ graph = Clean
    /\ \E old \in SUBSET OldLinks :
         judged = [f \in GraphFacts |-> IF \E o \in old : o[1] = f
                                   THEN Anchor((CHOOSE o \in old : o[1] = f)[2])
                                   ELSE Nowhere]
    /\ stream = [t \in Turns |-> Nowhere]
    /\ events = <<>> /\ replayed = 0
    /\ marked = {} /\ queue = <<>> /\ ctx = NoCtx /\ phase = "idle"
    /\ forgotten = {} /\ lost = {} /\ rebuilt = FALSE
    /\ left \in GraphBudgets

May(k) == left[k] > 0 /\ left["any"] > 0
Pay(k) == left' = [left EXCEPT ![k] = @ - 1, !["any"] = @ - 1]

\* _la_prematerialize: the anchor cards of all ledgers, before any fact is attributed.
Premade(g) == [g EXCEPT
    !.status = [m \in Matters |->
                  IF m \in Anchors /\ @[m] = "none" THEN "active" ELSE @[m]]]

NewAnchors(g) == {m \in Anchors : g.status[m] = "none"}

Sorted(S) ==
    CHOOSE s \in [1 .. Cardinality(S) -> S] : \A i, j \in DOMAIN s : i < j => s[i] < s[j]

\* The facts of some turns, as add_fact stores them.
Added(g, S) == [g EXCEPT !.has = @ \cup S,
                         !.of = [f \in GraphFacts |-> IF f \in S THEN Nowhere ELSE @[f]]]

\* An incremental pass.  A fact the Index holds is not novel: it is dropped, its turn
\* marked all the same.  Facts under a tombstone are filtered, and those the user corrected.
Fresh(g, S) == S \ (g.has \cup g.corrected \cup forgotten)

Round ==
    /\ phase = "idle"
    /\ \E last \in Turns \ marked :
         LET turns == {t \in Turns \ marked : t <= last}
             g == ApplyEvents(graph, SubSeq(events, replayed + 1, Len(events)), forgotten)
             S == Fresh(g, {f \in GraphFacts : TurnOf[f] \in turns})
         IN /\ graph' = Premade(Added(g, S))
            /\ lost' = lost \cup (g.has \ graph.has)
            /\ queue' = Sorted(S)
            /\ ctx' = [NoCtx EXCEPT !.made = NewAnchors(g)]
            /\ marked' = marked \cup turns
    /\ replayed' = Len(events)
    /\ phase' = "round" /\ rebuilt' = FALSE
    /\ UNCHANGED <<journals, events, forgotten, left>>

\* clear(), which keeps the journals and the list of corrected facts, then every event,
\* then all turns.
Cleared(g) == [Clean EXCEPT !.corrected = g.corrected]
Full ==
    /\ phase = "idle" /\ May("full") /\ Pay("full")
    /\ LET g == ApplyEvents(Cleared(graph), events, forgotten)
           S == Fresh(g, GraphFacts)
       IN /\ graph' = Premade(Added(g, S))
          /\ lost' = g.has
          /\ queue' = Sorted(S)
          /\ ctx' = [NoCtx EXCEPT !.made = NewAnchors(g)]
    /\ marked' = Turns /\ replayed' = Len(events)
    /\ phase' = "full" /\ rebuilt' = FALSE
    /\ UNCHANGED <<journals, events, forgotten>>

----------------------------------------------------------------------------
(* One fact *)

\* get_manual_edge_for_target
BugByHand(f) == {}
ByHand(f) == {e \in graph.edges : e.hand /\ e.fact = f}

\* ledger_gate, as _lg_reject asks it: may a fact of turn t land on matter m?
Admits(t, m) ==
    m \in Anchors => IF LedgerOf[t] # NoLedger THEN m = Anchor(LedgerOf[t])
                                               ELSE t >= Born[m[2]]

\* _d1_turn_votes(t).most_common(1): of the matters of a turn's facts, ties to the first.
Votes(t, m) == Cardinality({f \in graph.has : TurnOf[f] = t /\ graph.of[f] = m})
Main(t) ==
    LET placed == {f \in graph.has : TurnOf[f] = t /\ graph.of[f] # Nowhere}
        best == {f \in placed : \A g \in placed :
                                  Votes(t, graph.of[g]) <= Votes(t, graph.of[f])}
    IN IF best = {} THEN Nowhere
       ELSE graph.of[CHOOSE f \in best : \A g \in best : f <= g]

\* _d1_finalize_turn: the anchor of the session, and the journal of a turn the pipeline
\* decided.  "new" is told from a continuation by the name the turn would give.
Anchored(c) == IF c.turn # 0 /\ Main(c.turn) # Nowhere THEN Main(c.turn) ELSE c.anchor
Finalized(c) ==
    IF c.kind = "judge" /\ Main(c.turn) # Nowhere
    THEN [stream EXCEPT ![c.turn] = Main(c.turn)]
    ELSE stream

\* _d1_anchor_of: else what the turn before was put in.
AnchorOf(c, t) == IF Anchored(c) # Nowhere THEN Anchored(c)
                  ELSE IF t > 1 THEN Main(t - 1) ELSE Nowhere

\* The window of active matters, from which a unit key may name one.
Window == {graph.of[f] : f \in graph.has} \ {Nowhere}

\* _d1_decide and decide_turn: the journal first; a matter the unit key names; the anchor
\* of the session, if alive and the turn brings no new subject; else the pipeline.
\* The journal "new" and a target that is gone go to the pipeline too, unrecorded.
Direct(c, m) == [c EXCEPT !.kind = "direct", !.to = m]
Decisions(c, t) ==
    LET base == [c EXCEPT !.turn = t, !.anchor = Anchored(c), !.to = Nowhere]
        a == AnchorOf(c, t)
        skip == [base EXCEPT !.kind = "skip"]
        To(m) == IF Exists(graph, m) THEN Direct(base, m) ELSE skip
    IN IF stream[t] # Nowhere
       THEN {IF stream[t] = New(t) THEN skip ELSE To(stream[t])}
       ELSE {To(m) : m \in Window}
            \cup (IF Alive(graph, a) THEN {Direct(base, a)} ELSE {})
            \cup {[base EXCEPT !.kind = "judge"]}

\* _apply_decision, for an automatic decision: create, add the edge, set matter_id,
\* promote.  The pool is no matter: only the edge.
Placed(g, f, m, via) ==
    LET born == IF Exists(g, m) THEN g ELSE AddMatter(g, m, "provisional", {TitleOf[f]})
        put == Put(born, Edge(m, f, m, FALSE, via))
    IN Promote(SetMatter(put, f, m), m)
InPool(g, f) == Put(g, Edge(Pool, f, Pool, FALSE, "pool"))

Attributed(f, g) ==
    /\ graph' = g
    /\ queue' = Tail(queue)
    /\ UNCHANGED <<events, replayed, marked, phase, forgotten, lost, rebuilt>>

\* The ledger of the turn, unless the user has spoken: its card, closed or not.
ToAnchor(f) ==
    /\ ByHand(f) = {} /\ LedgerOf[TurnOf[f]] # NoLedger
    /\ Attributed(f, Placed(graph, f, Anchor(LedgerOf[TurnOf[f]]), "anchor"))
    /\ UNCHANGED <<journals, ctx, left>>

ToFirst(f) == ByHand(f) # {} \/ LedgerOf[TurnOf[f]] = NoLedger

\* D1 puts the whole turn where it decided, past the candidates: it asks the gate itself.
Continues(f, c) ==
    c.kind = "direct" /\ ByHand(f) = {} /\ Admits(TurnOf[f], c.to)

\* L1: the edge is there; only the field follows.
KeepByHand(f) ==
    LET e == CHOOSE x \in ByHand(f) : TRUE IN
    IF e.at \in Matters /\ Exists(graph, e.at)
    THEN Promote(SetMatter(graph, f, e.at), e.at)
    ELSE SetMatter(graph, f, e.at)

\* L5: a provisional matter named after the turn, or the pool.
Fallback(f) ==
    IF TitleOf[f] = NoTitle THEN InPool(graph, f)
    ELSE Placed(graph, f, New(TurnOf[f]), "pipeline")
FallbackMade(f, c) ==
    IF TitleOf[f] # NoTitle /\ ~Exists(graph, New(TurnOf[f]))
    THEN [c EXCEPT !.made = @ \cup {New(TurnOf[f])}] ELSE c

SameTitle(f, m) == TitleOf[f] # NoTitle /\ TitleOf[f] \in graph.titles[m]

\* _stale_target and _l4_reject: the journal names a matter that is gone, or one the
\* fact may not land on; both asked because the journal is no candidate list.
BugStale(f, cands) == FALSE
Stale(f, cands) == judged[f] \notin cands /\ ~Exists(graph, judged[f])
BugRejected(f) == FALSE
Rejected(f) == ~Admits(TurnOf[f], judged[f])

\* AttributionPipeline.attribute on candidates cands: L2 the user names one, L3 the first
\* with the same title, L4 from the journal, L4 by the model, which may name only a
\* candidate and whose answer is journalled, L5.
None == <<"none", 0>>
Uncertain == <<"uncertain", 0>>

Judged(f, g, c) == Attributed(f, g) /\ ctx' = c

FromJournal(f, cands, c) ==
    /\ CASE judged[f] = Uncertain -> Judged(f, InPool(graph, f), c)
         [] judged[f] = None \/ (judged[f] \in Matters
                                 /\ (Stale(f, cands) \/ Rejected(f))) ->
              Judged(f, Fallback(f), FallbackMade(f, c))
         [] OTHER ->
              LET m == judged[f] IN
              IF Exists(graph, m) THEN Judged(f, Placed(graph, f, m, "pipeline"), c)
              ELSE Judged(f, SetMatter(Put(graph, Edge(m, f, m, FALSE, "pipeline")), f, m), c)
    /\ UNCHANGED <<judged, left>>

ByModel(f, cands, c) ==
    /\ \E v \in cands \cup {None, Uncertain} :
         /\ judged' = [judged EXCEPT ![f] = v]
         /\ CASE v = Uncertain -> Judged(f, InPool(graph, f), c)
              [] v = None -> Judged(f, Fallback(f), FallbackMade(f, c))
              [] OTHER -> Judged(f, Placed(graph, f, v, "pipeline"), c)
    /\ UNCHANGED left

Pipeline(f, cands, c) ==
    \/ \E m \in cands :                                              \* L2, L3
         /\ SameTitle(f, m) \/ May("model")
         /\ IF SameTitle(f, m) THEN UNCHANGED left ELSE Pay("model")
         /\ Judged(f, Placed(graph, f, m, "pipeline"), c)
         /\ UNCHANGED judged
    \/ /\ \A m \in cands : ~SameTitle(f, m)
       /\ \/ /\ cands = {}                                           \* L5
             /\ Judged(f, Fallback(f), FallbackMade(f, c))
             /\ UNCHANGED <<judged, left>>
          \/ cands # {} /\ judged[f] # Nowhere /\ FromJournal(f, cands, c)
          \/ cands # {} /\ judged[f] = Nowhere /\ ByModel(f, cands, c)

\* Past the anchor layer: D1 decides at the first fact of a turn, after closing the turn
\* before.  The candidates are what vectors and keys find among the matters that can be
\* linked, and all those made in this pass; they pass the gate at one point.
Decide(f) ==
    /\ ToFirst(f)
    /\ stream' = IF ctx.turn = TurnOf[f] THEN stream ELSE Finalized(ctx)
    /\ \E c \in IF ctx.turn = TurnOf[f] THEN {ctx} ELSE Decisions(ctx, TurnOf[f]) :
         \/ /\ Continues(f, c)
            /\ Attributed(f, Placed(graph, f, c.to, "cont"))
            /\ ctx' = c /\ UNCHANGED <<judged, left>>
         \/ /\ ByHand(f) # {}
            /\ Attributed(f, KeepByHand(f))
            /\ ctx' = c /\ UNCHANGED <<judged, left>>
         \/ /\ ByHand(f) = {} /\ ~Continues(f, c)
            /\ \E found \in SUBSET (Linkable(graph) \ c.made) :
                 LET cands == {m \in found \cup (c.made \cap Linkable(graph)) :
                                 Admits(TurnOf[f], m)}
                 IN Pipeline(f, cands, c)

\* fact_lane: of lane profile or tool, and not assigned by the user.
BugKeptAside(f) == FALSE
KeptAside(f) == f \in Aside /\ ByHand(f) = {}

\* It keeps no edge, opens no turn and votes for nothing.
KeepAside(f) ==
    /\ KeptAside(f)
    /\ Attributed(f, graph)
    /\ UNCHANGED <<journals, ctx, left>>

Attribute ==
    /\ phase # "idle" /\ queue # <<>>
    /\ LET f == Head(queue) IN
       \/ KeepAside(f)
       \/ ~KeptAside(f) /\ (ToAnchor(f) \/ Decide(f))

\* An exception in the loop is logged and counted; the fact stays without an edge.
AttributeRaises ==
    /\ phase # "idle" /\ queue # <<>> /\ May("raise") /\ Pay("raise")
    /\ lost' = lost \cup {Head(queue)} /\ queue' = Tail(queue)
    /\ UNCHANGED <<graph, journals, events, replayed, marked, ctx, phase, forgotten, rebuilt>>

----------------------------------------------------------------------------
(* The end of the round *)

\* digest_unassigned_pool: facts of the pool with the same title, of two turns at least,
\* become a matter, or join the one that has this title.  All edges of a fact go, those
\* set by hand too; matter_id is emptied and not set again.
Pooled(g) == {f \in g.has : \E e \in EdgesOf(g, Pool) : e.fact = f}
Group(g, title) == {f \in Pooled(g) : TitleOf[f] = title}
Ripe(g) == {title \in {TitleOf[f] : f \in GraphFacts} \ {NoTitle} :
              Cardinality({TurnOf[f] : f \in Group(g, title)}) >= 2}
Joined(g, title) ==
    LET same == {m \in Linkable(g) : title \in g.titles[m]} IN
    IF same # {} THEN CHOOSE m \in same : TRUE
    ELSE New(TurnOf[CHOOSE f \in Group(g, title) : \A h \in Group(g, title) : f <= h])
BugMoved(g, S, m) ==
    [g EXCEPT !.edges = @ \cup {Edge(m, f, m, FALSE, "digest") : f \in S}]
Moved(g, S, m) ==
    [g EXCEPT !.edges = {e \in @ : e.fact \notin S}
                        \cup {Edge(m, f, m, FALSE, "digest") : f \in S},
              !.of = [f \in GraphFacts |-> IF f \in S THEN Nowhere ELSE @[f]]]
DigestOne(g, title) ==
    LET m == Joined(g, title)
        born == IF Exists(g, m) THEN g ELSE AddMatter(g, m, "provisional", {title})
    IN Promote(Moved(born, Group(g, title), m), m)
Digest(g) ==
    LET titles == SetToSeq(Ripe(g))
        after[i \in 0 .. Len(titles)] ==
            IF i = 0 THEN g ELSE DigestOne(after[i - 1], titles[i])
    IN  after[Len(titles)]

RoundEnds ==
    /\ phase # "idle" /\ queue = <<>>
    /\ stream' = Finalized(ctx)
    /\ graph' = Digest(graph)
    /\ phase' = "idle" /\ ctx' = NoCtx /\ rebuilt' = (phase = "full")
    /\ UNCHANGED <<judged, events, replayed, marked, queue, forgotten, lost, left>>

\* The process dies.  Turns are marked after the loop, so the next pass distils them
\* again; their facts are in the Index and no longer novel.
Dies ==
    /\ phase # "idle" /\ May("crash") /\ Pay("crash")
    /\ lost' = lost \cup Range(queue)
    /\ queue' = <<>> /\ ctx' = NoCtx /\ phase' = "idle" /\ rebuilt' = FALSE
    /\ UNCHANGED <<graph, journals, events, replayed, marked, forgotten>>

----------------------------------------------------------------------------
(* The admin API *)

UserEvents ==
    [type : {"assign"}, matter : Matters \ {Parted}, fact : GraphFacts]
    \cup [type : {"detach"}, fact : GraphFacts]
    \cup [type : {"merge"}, matter : Matters \ {Parted}, source : Matters \ {Parted}]
    \cup [type : {"close"}, matter : Matters \ {Parted}]
    \cup [type : {"split"}, matter : Matters \ {Parted}, fact : GraphFacts]
    \cup [type : {"correct"}, fact : GraphFacts, of : Matters \cup {Nowhere}]

\* The user picks what the dashboard shows; a correction holds the whole fact.
Shown(ev) ==
    CASE ev.type = "assign" -> Exists(graph, ev.matter) /\ ev.fact \in graph.has
      [] ev.type = "detach" -> \E e \in graph.edges : e.fact = ev.fact
      [] ev.type = "merge" -> ev.source # ev.matter /\ Alive(graph, ev.source)
                              /\ Exists(graph, ev.matter)
      [] ev.type = "close" -> Alive(graph, ev.matter)
      [] ev.type = "split" -> \E e \in EdgesOf(graph, ev.matter) :
                                e.fact = ev.fact /\ e.home = ev.matter
      [] ev.type = "correct" -> ev.fact \in graph.has /\ ev.of = graph.of[ev.fact]

\* The event is in the Hub before the graph is touched; while a round runs the lock is
\* taken and the answer is "deferred".
User ==
    /\ \E ev \in UserEvents :
         /\ May(ev.type) /\ Shown(ev) /\ Pay(ev.type)
         /\ events' = Append(events, ev)
         /\ \/ phase = "idle" /\ graph' = ApplyEvent(graph, ev, {})
            \/ UNCHANGED graph
    /\ rebuilt' = FALSE
    /\ UNCHANGED <<journals, replayed, marked, queue, ctx, phase, forgotten, lost>>

\* admin_forget_fact: a tombstone, then delete_fact with its edges.
ForgetFact ==
    /\ phase = "idle" /\ May("forget") /\ Pay("forget")
    /\ \E f \in graph.has :
         /\ forgotten' = forgotten \cup {f}
         /\ graph' = [graph EXCEPT !.has = @ \ {f}, !.of[f] = Nowhere,
                                   !.edges = {e \in @ : e.fact # f}]
    /\ UNCHANGED <<journals, events, replayed, marked, queue, ctx, phase, lost, rebuilt>>

GraphNext == Round \/ Full \/ Attribute \/ AttributeRaises \/ RoundEnds \/ Dies \/ User \/ ForgetFact
GraphSpec == GraphInit /\ [][GraphNext]_graphVars

----------------------------------------------------------------------------
(* Properties *)

GraphTypeOK ==
    /\ graph.status \in [Matters -> {"none", "provisional", "active", "closed"}]
    /\ graph.edges \subseteq [home : Matters \cup {Pool}, fact : GraphFacts,
                              at : Matters \cup {Pool}, hand : BOOLEAN,
                              via : {"hand", "anchor", "cont", "pipeline", "pool", "digest"}]
    /\ \A e, x \in graph.edges : e.home = x.home /\ e.fact = x.fact => e = x
    /\ graph.has \subseteq GraphFacts /\ graph.corrected \subseteq GraphFacts
    /\ graph.of \in [GraphFacts -> Matters \cup {Nowhere}]
    /\ judged \in [GraphFacts -> Matters \cup {Nowhere, None, Uncertain}]
    /\ stream \in [Turns -> Matters \cup {Nowhere}]
    /\ replayed \in 0 .. Len(events)

\* No edge of the pipeline hangs on a card that is not there, although both journals
\* outlive the cards they name and a rebuild may not make them again.
AutoEdgesResolve ==
    \A e \in graph.edges : e.hand \/ e.at = Pool \/ Exists(graph, e.at)

\* An edge of the pipeline to a ledger's card is one the gate lets through, on every path
\* that adds one: anchor, continuation, candidates and the journal of verdicts.
GateHolds ==
    \A e \in graph.edges :
      e.home = e.at /\ e.via \in {"anchor", "cont", "pipeline"} => Admits(TurnOf[e.fact], e.at)

\* A full rebuild keeps what the user assigned: the fact has an edge by hand and none of
\* the pipeline's, unless the user detached it later.
LastWord(f) ==
    LET said == {i \in 1 .. Len(events) :
                   events[i].type \in {"assign", "detach"} /\ events[i].fact = f}
    IN IF said = {} THEN "" ELSE events[CHOOSE i \in said : \A j \in said : j <= i].type
Automatic(f) == {e \in graph.edges : e.fact = f /\ ~e.hand}
AssignmentsSurvive ==
    rebuilt /\ replayed = Len(events) =>
      \A f \in graph.has :
        LastWord(f) = "assign" => ByHand(f) # {} /\ Automatic(f) = {}

\* Between rounds a stored fact is in one place: one edge of the pipeline, the pool's
\* counted, or edges by hand, unless the user detached it or its attribution was lost.  A
\* fact of lane profile or tool is nowhere but where the user put it.
FactsArePlaced ==
    phase = "idle" =>
      \A f \in graph.has :
        /\ Cardinality(Automatic(f)) <= 1
        /\ f \in Aside => Automatic(f) = {}
        /\ f \notin Aside \cup lost /\ Automatic(f) = {} =>
             \/ ByHand(f) # {}
             \/ \E i \in 1 .. Len(events) : events[i].type = "detach" /\ events[i].fact = f

\* An automatic edge hangs on a card that exists and that admits the fact (_stale_target
\* and ledger_gate).
EdgesAdmitted == AutoEdgesResolve /\ GateHolds

=============================================================================
