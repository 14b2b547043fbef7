----------------------------- MODULE RoundProofs -----------------------------
(***************************************************************************)
(* Theorems about the two halves of a round, for every value of the        *)
(* constants: the matters of the facts (MatterGraph) and the verdicts on   *)
(* facts that contradict each other (Adjudication).                        *)
(*                                                                         *)
(* What an operation on the graph does is said of two graphs, the one      *)
(* before and the one after, by what a fact keeps: whether it has an edge  *)
(* (Linked), one by hand (Held), none of the pipeline (Bare).  A sequence  *)
(* of events is gone through with the relation of one event, the digest    *)
(* with the relation of one title.                                         *)
(*                                                                         *)
(* A full rebuild is followed in its locals: until the last verdict is in  *)
(* (Gathering) they are about the objects in memory, from then on          *)
(* (Writing, Replayed) about what of them the Index has.                   *)
(***************************************************************************)
EXTENDS Adjudication, MatterGraph, FiniteSetTheorems, WellFoundedInduction, TLAPS

-----------------------------------------------------------------------------
(* Numbers and sequences. *)

\* A set of natural numbers that is not empty has a least element.
LEMMA LeastNat ==
  ASSUME NEW T, T \subseteq Nat, T # {}
  PROVE  \E x \in T : \A y \in T : x <= y
<1>1. \E x \in T : \A y \in T : ~(<<y, x>> \in OpToRel(<, Nat))
  BY NatLessThanWellFounded, WFMin
<1>2. PICK x \in T : \A y \in T : ~(y < x)
  BY <1>1 DEF OpToRel
<1>3. \A y \in T : x <= y
  BY <1>2
<1>. QED  BY <1>3

\* A finite set of natural numbers, in its order.
InTurn(s, n, S) == s \in [1 .. n -> S] /\ \A i, j \in 1 .. n : i < j => s[i] < s[j]
CanEnumerate(n) ==
    \A S : S \subseteq Nat /\ IsFiniteSet(S) /\ Cardinality(S) = n => \E s : InTurn(s, n, S)

LEMMA EnumerateNone == CanEnumerate(0)
<1>. SUFFICES ASSUME NEW S PROVE \E s : InTurn(s, 0, S)
  BY DEF CanEnumerate
<1>. DEFINE s == [i \in 1 .. 0 |-> 0]
<1>1. InTurn(s, 0, S)
  BY DEF InTurn
<1>. QED  BY <1>1

LEMMA EnumerateMore ==
  ASSUME NEW n \in Nat, CanEnumerate(n)
  PROVE  CanEnumerate(n + 1)
<1>. SUFFICES ASSUME NEW S, S \subseteq Nat, IsFiniteSet(S), Cardinality(S) = n + 1
              PROVE  \E s : InTurn(s, n + 1, S)
  BY DEF CanEnumerate
<1>1. S # {}
  BY FS_EmptySet
<1>2. PICK m \in S : \A y \in S : m <= y
  BY <1>1, LeastNat
<1>3. IsFiniteSet(S \ {m}) /\ Cardinality(S \ {m}) = n
  BY FS_RemoveElement
<1>4. PICK s : InTurn(s, n, S \ {m})
  BY <1>3 DEF CanEnumerate
<1>. DEFINE r == [i \in 1 .. n + 1 |-> IF i = 1 THEN m ELSE s[i - 1]]
<1>5. \A i \in 1 .. n + 1 : i # 1 => i - 1 \in 1 .. n /\ s[i - 1] \in S \ {m}
  BY <1>4 DEF InTurn
<1>6. \A i \in 1 .. n + 1 : r[i] \in S /\ (i # 1 => m < r[i])
  <2>1. \A y \in S \ {m} : m < y
    BY <1>2
  <2>. QED  BY <1>5, <2>1
<1>7. ASSUME NEW i \in 1 .. n + 1, NEW j \in 1 .. n + 1, i < j PROVE r[i] < r[j]
  <2>1. CASE i = 1
    BY <2>1, <1>6, <1>7
  <2>2. CASE i # 1
    <3>1. i - 1 \in 1 .. n /\ j - 1 \in 1 .. n /\ i - 1 < j - 1 /\ j # 1
      BY <2>2, <1>7
    <3>2. s[i - 1] < s[j - 1]
      BY <3>1, <1>4 DEF InTurn
    <3>. QED  BY <2>2, <3>1, <3>2
  <2>. QED  BY <2>1, <2>2
<1>8. r \in [1 .. n + 1 -> S]
  BY <1>6
<1>9. InTurn(r, n + 1, S)
  BY <1>7, <1>8 DEF InTurn
<1>. QED  BY <1>9

LEMMA EnumerateAll == \A n \in Nat : CanEnumerate(n)
<1>. DEFINE T == {n \in Nat : ~CanEnumerate(n)}
<1>. SUFFICES ASSUME T # {} PROVE FALSE
  OBVIOUS
<1>1. PICK n \in T : \A k \in T : n <= k
  BY LeastNat
<1>2. n # 0
  BY EnumerateNone
<1>3. n - 1 \in Nat /\ n - 1 \notin T
  BY <1>1, <1>2
<1>4. CanEnumerate(n - 1)
  BY <1>3
<1>5. CanEnumerate((n - 1) + 1)
  BY <1>3, <1>4, EnumerateMore
<1>. QED  BY <1>1, <1>5

\* Sorted(S) lists S, each element once.
LEMMA SortedLists ==
  ASSUME NEW S, S \subseteq Nat, IsFiniteSet(S)
  PROVE  /\ Sorted(S) \in Seq(S) /\ Range(Sorted(S)) = S
         /\ \A i, j \in 1 .. Len(Sorted(S)) : i < j => Sorted(S)[i] < Sorted(S)[j]
<1>. DEFINE n == Cardinality(S)
            q == Sorted(S)
<1>1. n \in Nat
  BY FS_CardinalityType
<1>2. PICK s : InTurn(s, n, S)
  BY <1>1, EnumerateAll DEF CanEnumerate
<1>3. s \in [1 .. n -> S] /\ \A i, j \in DOMAIN s : i < j => s[i] < s[j]
  BY <1>2 DEF InTurn
<1>4. q \in [1 .. n -> S] /\ \A i, j \in DOMAIN q : i < j => q[i] < q[j]
  BY <1>3 DEF Sorted
<1>5. q \in Seq(S) /\ Len(q) = n /\ DOMAIN q = 1 .. n
  BY <1>1, <1>4
<1>6. \A i, j \in 1 .. n : i # j => q[i] # q[j]
  <2>1. \A i, j \in 1 .. n : q[i] \in Nat /\ (i < j => q[i] < q[j])
    BY <1>4, <1>5
  <2>. QED  BY <1>1, <2>1
<1>7. q \in Injection(1 .. n, S)
  BY <1>4, <1>6 DEF Injection, IsInjective
<1>8. IsFiniteSet(1 .. n) /\ Cardinality(1 .. n) = n
  BY <1>1, FS_Interval
<1>9. q \in Surjection(1 .. n, S)
  BY <1>7, <1>8, FS_Injection
<1>10. Range(q) = S
  BY <1>9, <1>5 DEF Surjection, Range
<1>. QED  BY <1>4, <1>5, <1>10

-----------------------------------------------------------------------------
(* The graph. *)

Cards == {"none", "provisional", "active", "closed"}
Titles == {TitleOf[f] : f \in GraphFacts}
Vias == {"hand", "anchor", "cont", "pipeline", "pool", "digest"}
Gated == {"anchor", "cont", "pipeline"}
Places == Matters \cup {Pool}
EdgeRecs == [home : Places, fact : GraphFacts, at : Places, hand : BOOLEAN, via : Vias]
Graphs ==
    [status : [Matters -> Cards], titles : [Matters -> SUBSET Titles],
     edges : SUBSET EdgeRecs, has : SUBSET GraphFacts,
     of : [GraphFacts -> Matters \cup {Nowhere}], corrected : SUBSET GraphFacts]

\* An automatic edge hangs on a card that is there; the pool is for automatic edges; the
\* gate has let an edge through to its home.
EdgeSound(g, e) ==
    /\ e.hand \/ e.at = Pool \/ Exists(g, e.at)
    /\ e.at = Pool => ~e.hand
    /\ e.via \in Gated => Admits(TurnOf[e.fact], e.home)

\* One edge under a key, one automatic edge of a fact.
Sound(g) ==
    /\ g \in Graphs
    /\ \A e \in g.edges : EdgeSound(g, e)
    /\ \A e, x \in g.edges : e.fact = x.fact /\ e.home = x.home => e = x
    /\ \A e, x \in g.edges : e.fact = x.fact /\ ~e.hand /\ ~x.hand => e = x

\* What a fact has: no automatic edge, an edge by hand, an edge.
Bare(g, f) == \A e \in g.edges : e.fact = f => e.hand
Held(g, f) == \E e \in g.edges : e.fact = f /\ e.hand
Linked(g, f) == \E e \in g.edges : e.fact = f

\* No card goes, and no fact comes or goes.
Outlives(g, h) == h.has = g.has /\ \A m \in Matters : Exists(g, m) => Exists(h, m)

\* No card goes, and no fact goes.
Grows(g, h) == g.has \subseteq h.has /\ \A m \in Matters : Exists(g, m) => Exists(h, m)

\* Only cards and matter_ids change.
SameEdges(g, h) == Outlives(g, h) /\ h.edges = g.edges

\* An edge is put in, and the one under its key, if there is one, goes.
Gains(g, h, e) ==
    /\ Outlives(g, h) /\ e \in h.edges
    /\ h.edges = {x \in g.edges : x.home # e.home \/ x.fact # e.fact} \cup {e}

LEMMA Names ==
    /\ Pool \notin Matters /\ Nowhere \notin Matters /\ None \notin Matters
    /\ Uncertain \notin Matters /\ Parted \in Matters /\ Parted \notin Anchors
    /\ \A t \in Turns : New(t) \in Matters /\ New(t) \notin Anchors
    /\ \A l \in Ledgers : Anchor(l) \in Matters /\ Anchor(l) \in Anchors
    /\ Anchors \subseteq Matters /\ Pool \notin Anchors
  BY DEF Pool, Nowhere, None, Uncertain, Parted, Matters, Anchors, New, Anchor

LEMMA FactNumbers == GraphFacts \subseteq Nat /\ Turns \subseteq Nat
<1>1. Cardinality(GraphFacts) \in Nat /\ Cardinality(Turns) \in Nat
  BY MatterGraphAssumption, FS_CardinalityType DEF MatterGraphAssumption
<1>. QED  BY <1>1, MatterGraphAssumption DEF MatterGraphAssumption

LEMMA SettingMatter ==
  ASSUME NEW g \in Graphs, NEW f \in GraphFacts, NEW m \in Matters \cup {Nowhere}
  PROVE  SetMatter(g, f, m) \in Graphs /\ SameEdges(g, SetMatter(g, f, m))
<1>1. CASE f \in g.has
  BY <1>1 DEF SetMatter, SameEdges, Outlives, Exists, Graphs
<1>2. CASE f \notin g.has
  BY <1>2 DEF SetMatter, SameEdges, Outlives
<1>. QED  BY <1>1, <1>2

LEMMA Promoting ==
  ASSUME NEW g \in Graphs, NEW m
  PROVE  Promote(g, m) \in Graphs /\ SameEdges(g, Promote(g, m))
<1>. DEFINE h == [g EXCEPT !.status[m] = "active"]
<1>1. h \in Graphs
  BY DEF Graphs, Cards
<1>2. SameEdges(g, h)
  BY DEF SameEdges, Outlives, Exists, Graphs
<1>3. SameEdges(g, g)
  BY DEF SameEdges, Outlives
<1>. QED  BY <1>1, <1>2, <1>3 DEF Promote

LEMMA AddingMatter ==
  ASSUME NEW g \in Graphs, NEW m, NEW status \in Cards \ {"none"}, NEW titles \in SUBSET Titles
  PROVE  /\ AddMatter(g, m, status, titles) \in Graphs
         /\ SameEdges(g, AddMatter(g, m, status, titles))
         /\ m \in Matters => Exists(AddMatter(g, m, status, titles), m)
<1>. DEFINE h == AddMatter(g, m, status, titles)
<1>1. h \in Graphs
  BY DEF AddMatter, Graphs, Cards
<1>2. h.edges = g.edges /\ h.has = g.has
  BY DEF AddMatter, Graphs
<1>3. h.status = [g.status EXCEPT ![m] = status]
  BY DEF AddMatter, Graphs
<1>4. \A n \in Matters : h.status[n] = IF n = m THEN status ELSE g.status[n]
  BY <1>3 DEF Graphs
<1>. QED  BY <1>1, <1>2, <1>4 DEF SameEdges, Outlives, Exists

LEMMA Putting ==
  ASSUME NEW g \in Graphs, NEW e \in EdgeRecs
  PROVE  Put(g, e) \in Graphs /\ Gains(g, Put(g, e), e)
<1>1. Put(g, e) \in Graphs
  BY DEF Put, Graphs
<1>2. /\ Put(g, e).edges = {x \in g.edges : x.home # e.home \/ x.fact # e.fact} \cup {e}
      /\ Put(g, e).has = g.has /\ Put(g, e).status = g.status
  BY DEF Put, Graphs
<1>. QED  BY <1>1, <1>2 DEF Gains, Outlives, Exists

\* Only cards and matter_ids changed: the edges are as sound as they were.
LEMMA SameIsSound ==
  ASSUME NEW g, NEW h \in Graphs, Sound(g), SameEdges(g, h)
  PROVE  Sound(h)
<1>1. \A e \in h.edges : EdgeSound(h, e)
  BY DEF Sound, SameEdges, Outlives, EdgeSound, Exists
<1>. QED  BY <1>1 DEF Sound, SameEdges

\* An edge put in that is sound itself, and automatic only for a fact that has none.
LEMMA GainIsSound ==
  ASSUME NEW g, NEW h \in Graphs, NEW e, Sound(g), Gains(g, h, e), EdgeSound(h, e),
         e.hand \/ Bare(g, e.fact)
  PROVE  Sound(h)
<1>1. \A x \in h.edges : EdgeSound(h, x)
  BY DEF Sound, Gains, Outlives, EdgeSound, Exists
<1>2. \A x, y \in h.edges : x.fact = y.fact /\ x.home = y.home => x = y
  BY DEF Sound, Gains
<1>3. \A x, y \in h.edges : x.fact = y.fact /\ ~x.hand /\ ~y.hand => x = y
  <2>1. \A x \in h.edges \ {e} : x \in g.edges
    BY DEF Gains
  <2>. QED  BY <2>1 DEF Sound, Gains, Bare
<1>. QED  BY <1>1, <1>2, <1>3 DEF Sound

\* The fact has the edge that was put in, other facts what they had.
LEMMA WhatIsGained ==
  ASSUME NEW g, NEW h, NEW e, Gains(g, h, e)
  PROVE  /\ Linked(h, e.fact) /\ (e.hand => Held(h, e.fact))
         /\ e.hand => \A f : Bare(g, f) => Bare(h, f)
         /\ \A f : f # e.fact => (Bare(g, f) => Bare(h, f)) /\ (Held(g, f) => Held(h, f))
                                 /\ (Linked(g, f) => Linked(h, f))
         /\ \A f : Linked(g, f) => Linked(h, f)
<1>1. \A x \in g.edges : x.fact # e.fact => x \in h.edges
  BY DEF Gains
<1>2. \A x \in h.edges : x = e \/ x \in g.edges
  BY DEF Gains
<1>3. e \in h.edges
  BY DEF Gains
<1>. QED  BY <1>1, <1>2, <1>3 DEF Bare, Held, Linked

\* Changing no edge changes none of this.
LEMMA SameHasSame ==
  ASSUME NEW g, NEW h, SameEdges(g, h)
  PROVE  \A f : (Bare(h, f) <=> Bare(g, f)) /\ (Held(h, f) <=> Held(g, f))
                /\ (Linked(h, f) <=> Linked(g, f))
BY DEF SameEdges, Bare, Held, Linked

\* A pipeline's edge to a card of the graph, which is made for it when it is not there.
LEMMA Placing ==
  ASSUME NEW g, Sound(g), NEW f \in GraphFacts, NEW m \in Matters, NEW via \in Vias,
         Bare(g, f), Admits(TurnOf[f], m)
  PROVE  LET h == Placed(g, f, m, via) IN
         /\ Sound(h) /\ Outlives(g, h) /\ Linked(h, f)
         /\ \A x \in GraphFacts \ {f} : /\ Bare(g, x) => Bare(h, x)
                                        /\ Held(g, x) => Held(h, x)
                                        /\ Linked(g, x) => Linked(h, x)
<1>. DEFINE born == IF Exists(g, m) THEN g ELSE AddMatter(g, m, "provisional", {TitleOf[f]})
            e == Edge(m, f, m, FALSE, via)
            put == Put(born, e)
            set == SetMatter(put, f, m)
            h == Promote(set, m)
<1>1. born \in Graphs /\ SameEdges(g, born) /\ Exists(born, m)
  <2>1. {TitleOf[f]} \in SUBSET Titles /\ "provisional" \in Cards \ {"none"} /\ g \in Graphs
    BY DEF Titles, Cards, Sound
  <2>2. CASE Exists(g, m)
    BY <2>1, <2>2 DEF SameEdges, Outlives
  <2>3. CASE ~Exists(g, m)
    BY <2>1, <2>3, AddingMatter
  <2>. QED  BY <2>2, <2>3
<1>2. e \in EdgeRecs /\ e.fact = f /\ e.home = m /\ e.at = m /\ e.hand = FALSE /\ e.via = via
  BY DEF Edge, EdgeRecs, Places
<1>. HIDE DEF born, e
<1>3. put \in Graphs /\ Gains(born, put, e)
  BY <1>1, <1>2, Putting
<1>4. Sound(born) /\ Bare(born, f)
  BY <1>1, SameIsSound, SameHasSame
<1>5. EdgeSound(put, e)
  BY <1>1, <1>2, <1>3, Names DEF EdgeSound, Gains, Outlives
<1>6. Sound(put)
  BY <1>2, <1>3, <1>4, <1>5, GainIsSound
<1>. HIDE DEF put
<1>7. set \in Graphs /\ SameEdges(put, set)
  BY <1>3, SettingMatter
<1>. HIDE DEF set
<1>8. h \in Graphs /\ SameEdges(set, h)
  BY <1>7, Promoting
<1>9. h = Placed(g, f, m, via)
  BY DEF Placed, h, set, put, e, born
<1>. HIDE DEF h
<1>10. Sound(h)
  BY <1>6, <1>7, <1>8, SameIsSound
<1>11. Outlives(g, h)
  BY <1>1, <1>3, <1>7, <1>8 DEF SameEdges, Gains, Outlives
<1>12. /\ Linked(put, f)
       /\ \A x : x # f => /\ Bare(born, x) => Bare(put, x)
                          /\ Held(born, x) => Held(put, x)
                          /\ Linked(born, x) => Linked(put, x)
  BY <1>2, <1>3, WhatIsGained
<1>13. \A x : /\ Bare(g, x) => Bare(born, x)
              /\ Held(g, x) => Held(born, x)
              /\ Linked(g, x) => Linked(born, x)
  BY <1>1, SameHasSame
<1>14. \A x : /\ Bare(put, x) => Bare(h, x)
              /\ Held(put, x) => Held(h, x)
              /\ Linked(put, x) => Linked(h, x)
  BY <1>7, <1>8, SameHasSame
<1>. QED  BY <1>9, <1>10, <1>11, <1>12, <1>13, <1>14

LEMMA Pooling ==
  ASSUME NEW g, Sound(g), NEW f \in GraphFacts, Bare(g, f)
  PROVE  LET h == InPool(g, f) IN
         /\ Sound(h) /\ Outlives(g, h) /\ Linked(h, f)
         /\ \A x \in GraphFacts \ {f} : /\ Bare(g, x) => Bare(h, x)
                                        /\ Held(g, x) => Held(h, x)
                                        /\ Linked(g, x) => Linked(h, x)
<1>. DEFINE e == Edge(Pool, f, Pool, FALSE, "pool")
            h == InPool(g, f)
<1>1. e \in EdgeRecs /\ e.fact = f /\ e.at = Pool /\ e.hand = FALSE /\ e.via = "pool"
  BY DEF Edge, EdgeRecs, Places, Vias
<1>. HIDE DEF e
<1>2. h \in Graphs /\ Gains(g, h, e)
  BY <1>1, Putting DEF InPool, Sound, e
<1>. HIDE DEF h
<1>3. EdgeSound(h, e)
  BY <1>1 DEF EdgeSound, Gated
<1>4. Sound(h)
  BY <1>1, <1>2, <1>3, GainIsSound
<1>. QED  BY <1>1, <1>2, <1>4, WhatIsGained DEF Gains, h

-----------------------------------------------------------------------------
(* What the user does. *)

\* Some edges are hung on a card that is there: merge and split.
LEMMA Rehanging ==
  ASSUME NEW g, Sound(g), NEW h \in Graphs, Outlives(g, h), NEW M, NEW t \in Matters, Exists(h, t),
         h.edges = {IF e \in M THEN [e EXCEPT !.at = t] ELSE e : e \in g.edges}
  PROVE  /\ Sound(h)
         /\ \A f : (Bare(g, f) => Bare(h, f)) /\ (Held(g, f) => Held(h, f))
                   /\ (Linked(g, f) => Linked(h, f))
<1>. DEFINE R(e) == IF e \in M THEN [e EXCEPT !.at = t] ELSE e
<1>1. ASSUME NEW e \in EdgeRecs
      PROVE  /\ R(e).home = e.home /\ R(e).fact = e.fact /\ R(e).hand = e.hand
             /\ R(e).via = e.via /\ R(e).at \in {e.at, t}
  <2>1. CASE e \in M
    BY <2>1 DEF EdgeRecs
  <2>2. CASE e \notin M
    BY <2>2
  <2>. QED  BY <2>1, <2>2
<1>2. g.edges \subseteq EdgeRecs
  BY DEF Sound, Graphs
<1>3. h.edges = {R(e) : e \in g.edges}
  OBVIOUS
<1>. HIDE DEF R
<1>4. \A x \in h.edges : \E e \in g.edges : x = R(e)
  BY <1>3
<1>5. \A e \in g.edges : R(e) \in h.edges
  BY <1>3
<1>6. ASSUME NEW x \in h.edges PROVE EdgeSound(h, x)
  <2>1. PICK e \in g.edges : x = R(e)
    BY <1>4
  <2>2. EdgeSound(g, e) /\ e \in EdgeRecs
    BY <1>2 DEF Sound
  <2>3. CASE R(e).at = e.at
    BY <1>1, <2>1, <2>2, <2>3 DEF EdgeSound, Outlives, Exists
  <2>4. CASE R(e).at = t
    BY <1>1, <2>1, <2>2, <2>4, Names DEF EdgeSound
  <2>. QED  BY <1>1, <2>2, <2>3, <2>4
<1>7. \A x, y \in h.edges : x.fact = y.fact /\ x.home = y.home => x = y
  BY <1>1, <1>2, <1>4 DEF Sound
<1>8. \A x, y \in h.edges : x.fact = y.fact /\ ~x.hand /\ ~y.hand => x = y
  BY <1>1, <1>2, <1>4 DEF Sound
<1>9. Sound(h)
  BY <1>6, <1>7, <1>8 DEF Sound
<1>10. ASSUME NEW f PROVE (Bare(g, f) => Bare(h, f)) /\ (Held(g, f) => Held(h, f))
                         /\ (Linked(g, f) => Linked(h, f))
  <2>1. Bare(g, f) => Bare(h, f)
    BY <1>1, <1>2, <1>4 DEF Bare
  <2>2. \A e \in g.edges : R(e) \in h.edges /\ R(e).fact = e.fact /\ R(e).hand = e.hand
    BY <1>1, <1>2, <1>5
  <2>. QED  BY <2>1, <2>2 DEF Held, Linked
<1>. QED  BY <1>9, <1>10

Detaches(ev, f) == ev.type = "detach" /\ ev.fact = f

\* What an event may do to a sound graph: the links of a fact end by a detach only, and a
\* fact comes by a correction only.
Handled(g, h, ev) ==
    /\ Sound(h)
    /\ \/ Outlives(g, h)
       \/ ev.type = "correct" /\ Grows(g, h) /\ h.has = g.has \cup {ev.fact}
    /\ \A f : Bare(g, f) => Bare(h, f)
    /\ \A f : ~Detaches(ev, f) => (Held(g, f) => Held(h, f)) /\ (Linked(g, f) => Linked(h, f))
    /\ ev.type = "assign" => Held(h, ev.fact)

LEMMA NothingHandled ==
  ASSUME NEW g, Sound(g), NEW ev, ev.type # "assign"
  PROVE  Handled(g, g, ev)
BY DEF Handled, Outlives

LEMMA AssignHandled ==
  ASSUME NEW g, Sound(g), NEW ev \in UserEvents, NEW barred, ev.type = "assign"
  PROVE  Handled(g, ApplyEvent(g, ev, barred), ev)
<1>. DEFINE m == ev.matter
            f == ev.fact
            e == Edge(m, f, m, TRUE, "hand")
            put == Put(g, e)
            h == SetMatter(put, f, m)
<1>1. m \in Matters /\ f \in GraphFacts
  BY DEF UserEvents
<1>2. /\ e \in EdgeRecs /\ e.fact = f /\ e.home = m /\ e.at = m /\ e.hand = TRUE
      /\ e.via = "hand"
  BY <1>1 DEF Edge, EdgeRecs, Places, Vias
<1>3. ApplyEvent(g, ev, barred) = h
  BY DEF ApplyEvent, Assign
<1>. HIDE DEF e, m, f
<1>4. put \in Graphs /\ Gains(g, put, e)
  BY <1>2, Putting DEF Sound
<1>. HIDE DEF put
<1>5. EdgeSound(put, e)
  BY <1>1, <1>2, Names DEF EdgeSound, Gated
<1>6. Sound(put)
  BY <1>2, <1>4, <1>5, GainIsSound
<1>7. h \in Graphs /\ SameEdges(put, h)
  BY <1>1, <1>4, SettingMatter
<1>. HIDE DEF h
<1>8. Sound(h) /\ Outlives(g, h)
  BY <1>4, <1>6, <1>7, SameIsSound DEF SameEdges, Gains, Outlives
<1>9. \A x : Bare(g, x) => Bare(h, x)
  BY <1>2, <1>4, <1>7, WhatIsGained, SameHasSame
<1>10. \A x : Held(g, x) => Held(h, x)
  <2>1. \A x : Held(g, x) => Held(put, x)
    BY <1>2, <1>4, WhatIsGained
  <2>. QED  BY <1>7, <2>1, SameHasSame
<1>11. \A x : Linked(g, x) => Linked(h, x)
  BY <1>4, <1>7, WhatIsGained, SameHasSame
<1>12. Held(h, f)
  BY <1>2, <1>4, <1>7, WhatIsGained, SameHasSame
<1>. QED  BY <1>3, <1>8, <1>9, <1>10, <1>11, <1>12 DEF Handled, f

LEMMA DetachHandled ==
  ASSUME NEW g, Sound(g), NEW ev \in UserEvents, NEW barred, ev.type = "detach"
  PROVE  Handled(g, ApplyEvent(g, ev, barred), ev)
<1>. DEFINE f == ev.fact
            cut == [g EXCEPT !.edges = {e \in @ : e.fact # f}]
            h == SetMatter(cut, f, Nowhere)
<1>1. ApplyEvent(g, ev, barred) = Detach(g, f)
  BY DEF ApplyEvent
<1>2. CASE ~ \E e \in g.edges : e.fact = f
  BY <1>1, <1>2, NothingHandled DEF Detach
<1>3. CASE \E e \in g.edges : e.fact = f
  <2>1. ApplyEvent(g, ev, barred) = h /\ f \in GraphFacts /\ Nowhere \in Matters \cup {Nowhere}
    BY <1>1, <1>3 DEF Detach, Sound, Graphs, EdgeRecs
  <2>2. /\ cut \in Graphs /\ cut.edges = {e \in g.edges : e.fact # f} /\ cut.has = g.has
        /\ cut.status = g.status
    BY DEF Sound, Graphs
  <2>. HIDE DEF cut, f
  <2>3. h \in Graphs /\ SameEdges(cut, h)
    BY <2>1, <2>2, SettingMatter
  <2>. HIDE DEF h
  <2>4. Sound(cut)
    BY <2>2 DEF Sound, EdgeSound, Exists
  <2>5. Sound(h) /\ Outlives(g, h)
    BY <2>2, <2>3, <2>4, SameIsSound DEF SameEdges, Outlives, Exists
  <2>6. \A x : Bare(g, x) => Bare(h, x)
    BY <2>2, <2>3 DEF SameEdges, Bare
  <2>7. \A x : x # f => (Held(g, x) => Held(h, x)) /\ (Linked(g, x) => Linked(h, x))
    BY <2>2, <2>3 DEF SameEdges, Held, Linked
  <2>. QED  BY <2>1, <2>5, <2>6, <2>7 DEF Handled, Detaches, f
<1>. QED  BY <1>2, <1>3

LEMMA CloseHandled ==
  ASSUME NEW g, Sound(g), NEW ev \in UserEvents, NEW barred, ev.type = "close"
  PROVE  Handled(g, ApplyEvent(g, ev, barred), ev)
<1>. DEFINE m == ev.matter
            h == [g EXCEPT !.status[m] = "closed"]
<1>1. ApplyEvent(g, ev, barred) = CloseMatter(g, m)
  BY DEF ApplyEvent
<1>2. CASE ~Exists(g, m)
  BY <1>1, <1>2, NothingHandled DEF CloseMatter
<1>3. CASE Exists(g, m)
  <2>1. h \in Graphs /\ SameEdges(g, h)
    BY DEF Sound, Graphs, Cards, SameEdges, Outlives, Exists
  <2>2. ApplyEvent(g, ev, barred) = h
    BY <1>1, <1>3 DEF CloseMatter
  <2>. HIDE DEF h
  <2>3. Sound(h) /\ Outlives(g, h)
    BY <2>1, SameIsSound DEF SameEdges
  <2>. QED  BY <2>1, <2>2, <2>3, SameHasSame DEF Handled
<1>. QED  BY <1>2, <1>3

LEMMA MergeHandled ==
  ASSUME NEW g, Sound(g), NEW ev \in UserEvents, NEW barred, ev.type = "merge"
  PROVE  Handled(g, ApplyEvent(g, ev, barred), ev)
<1>. DEFINE s == ev.source
            t == ev.matter
            M == EdgesOf(g, s)
            edges == {IF e \in M THEN [e EXCEPT !.at = t] ELSE e : e \in g.edges}
            of == [f \in GraphFacts |->
                      IF g.of[f] = s /\ (\E e \in EdgesOf(g, s) : e.fact = f) THEN t
                                                                         ELSE g.of[f]]
            h == [g EXCEPT !.edges = edges, !.of = of, !.titles[t] = @ \cup g.titles[s],
                           !.status[s] = "closed"]
<1>1. ApplyEvent(g, ev, barred) = Merge(g, s, t) /\ s \in Matters /\ t \in Matters
  BY DEF ApplyEvent, UserEvents
<1>2. CASE s = t \/ ~Exists(g, s) \/ ~Exists(g, t) \/ g.status[s] = "closed"
  BY <1>1, <1>2, NothingHandled DEF Merge
<1>3. CASE ~(s = t \/ ~Exists(g, s) \/ ~Exists(g, t) \/ g.status[s] = "closed")
  <2>1. edges = {IF e.at = s THEN [e EXCEPT !.at = t] ELSE e : e \in g.edges}
    BY DEF EdgesOf
  <2>2. Merge(g, s, t) = h
    BY <1>3, <2>1 DEF Merge, Sound, Graphs
  <2>3. edges \in SUBSET EdgeRecs
    <3>1. \A e \in g.edges : e \in EdgeRecs /\ [e EXCEPT !.at = t] \in EdgeRecs
      BY <1>1 DEF Sound, Graphs, EdgeRecs, Places
    <3>. QED  BY <3>1
  <2>4. of \in [GraphFacts -> Matters \cup {Nowhere}]
    BY <1>1 DEF Sound, Graphs
  <2>5. g.titles[t] \cup g.titles[s] \in SUBSET Titles /\ "closed" \in Cards
    BY <1>1 DEF Sound, Graphs, Cards
  <2>. HIDE DEF edges, of
  <2>6. h \in Graphs /\ h.edges = edges /\ h.has = g.has
    BY <2>3, <2>4, <2>5 DEF Sound, Graphs
  <2>7. h.status = [g.status EXCEPT ![s] = "closed"]
    BY DEF Sound, Graphs
  <2>. HIDE DEF h
  <2>8. Outlives(g, h) /\ Exists(h, t)
    BY <1>1, <1>3, <2>6, <2>7 DEF Outlives, Exists, Sound, Graphs
  <2>9. h.edges = {IF e \in M THEN [e EXCEPT !.at = t] ELSE e : e \in g.edges}
    BY <2>6 DEF edges
  <2>. HIDE DEF M
  <2>10. /\ Sound(h)
         /\ \A f : (Bare(g, f) => Bare(h, f)) /\ (Held(g, f) => Held(h, f))
                   /\ (Linked(g, f) => Linked(h, f))
    BY <1>1, <2>6, <2>8, <2>9, Rehanging
  <2>. QED  BY <1>1, <2>2, <2>8, <2>10 DEF Handled
<1>. QED  BY <1>2, <1>3

LEMMA SplitHandled ==
  ASSUME NEW g, Sound(g), NEW ev \in UserEvents, NEW barred, ev.type = "split"
  PROVE  Handled(g, ApplyEvent(g, ev, barred), ev)
<1>. DEFINE m == ev.matter
            k == ev.fact
            M == {e \in g.edges : e.home = m /\ e.fact = k}
            edges == {IF e \in M THEN [e EXCEPT !.at = Parted] ELSE e : e \in g.edges}
            born == AddMatter(g, Parted, "active", {})
            h == [born EXCEPT !.edges = edges]
<1>1. born \in Graphs /\ SameEdges(g, born) /\ Exists(born, Parted)
  BY AddingMatter, Names DEF Sound, Cards
<1>2. ApplyEvent(g, ev, barred) = Split(g, m, k)
  BY DEF ApplyEvent
<1>3. Split(g, m, k) = h
  <2>1. born.edges = g.edges
    BY <1>1 DEF SameEdges
  <2>2. {IF e.home = m /\ e.fact = k THEN [e EXCEPT !.at = Parted] ELSE e : e \in g.edges} = edges
    OBVIOUS
  <2>. HIDE DEF edges
  <2>. QED  BY <2>1, <2>2 DEF Split
<1>4. edges \in SUBSET EdgeRecs
  <2>1. \A e \in g.edges : e \in EdgeRecs /\ [e EXCEPT !.at = Parted] \in EdgeRecs
    BY Names DEF Sound, Graphs, EdgeRecs, Places
  <2>. QED  BY <2>1
<1>. HIDE DEF born, edges
<1>5. h \in Graphs /\ h.edges = edges /\ h.has = born.has /\ h.status = born.status
  BY <1>1, <1>4 DEF Graphs
<1>. HIDE DEF h
<1>6. Outlives(g, h) /\ Exists(h, Parted) /\ Parted \in Matters
  BY <1>1, <1>5, Names DEF SameEdges, Outlives, Exists
<1>7. h.edges = {IF e \in M THEN [e EXCEPT !.at = Parted] ELSE e : e \in g.edges}
  BY <1>5 DEF edges
<1>. HIDE DEF M
<1>8. /\ Sound(h)
      /\ \A f : (Bare(g, f) => Bare(h, f)) /\ (Held(g, f) => Held(h, f))
                /\ (Linked(g, f) => Linked(h, f))
  <2>1. PICK t \in Matters : t = Parted
    BY <1>6
  <2>2. Exists(h, t) /\ h \in Graphs /\ Outlives(g, h)
    BY <1>5, <1>6, <2>1
  <2>3. h.edges = {IF e \in M THEN [e EXCEPT !.at = t] ELSE e : e \in g.edges}
    BY <1>7, <2>1
  <2>. QED  BY <2>2, <2>3, Rehanging
<1>. QED  BY <1>2, <1>3, <1>6, <1>8 DEF Handled

LEMMA CorrectHandled ==
  ASSUME NEW g, Sound(g), NEW ev \in UserEvents, NEW barred, ev.type = "correct"
  PROVE  Handled(g, ApplyEvent(g, ev, barred), ev)
<1>. DEFINE f == ev.fact
            m == ev.of
            h == Correct(g, f, m)
<1>1. f \in GraphFacts /\ m \in Matters \cup {Nowhere}
  BY DEF UserEvents
<1>2. ApplyEvent(g, ev, barred) = IF f \in barred THEN g ELSE h
  BY DEF ApplyEvent
<1>. HIDE DEF m, f
<1>3. h \in Graphs
  BY <1>1 DEF Correct, Sound, Graphs
<1>4. h.has = g.has \cup {f} /\ h.edges = g.edges /\ h.status = g.status
  BY DEF Correct, Sound, Graphs
<1>. HIDE DEF h
<1>5. Sound(h)
  BY <1>3, <1>4 DEF Sound, EdgeSound, Exists
<1>6. Grows(g, h)
  BY <1>4 DEF Grows, Exists
<1>7. \A x : /\ Bare(g, x) => Bare(h, x)
             /\ Held(g, x) => Held(h, x)
             /\ Linked(g, x) => Linked(h, x)
  BY <1>4 DEF Bare, Held, Linked
<1>8. Handled(g, h, ev)
  BY <1>4, <1>5, <1>6, <1>7 DEF Handled, f
<1>. QED  BY <1>2, <1>8, NothingHandled

LEMMA EventHandled ==
  ASSUME NEW g, Sound(g), NEW ev \in UserEvents, NEW barred
  PROVE  Handled(g, ApplyEvent(g, ev, barred), ev)
<1>1. ev.type \in {"assign", "detach", "merge", "close", "split", "correct"}
  BY DEF UserEvents
<1>. QED  BY <1>1, AssignHandled, DetachHandled, MergeHandled, CloseHandled, SplitHandled,
             CorrectHandled

-----------------------------------------------------------------------------
(* Their replay. *)

\* The graph after each of the first n events.
After(g, evs, barred, n, r) ==
    r = [i \in 0 .. n |-> IF i = 0 THEN g ELSE ApplyEvent(r[i - 1], evs[i], barred)]

LEMMA AfterOneMore ==
  ASSUME NEW g, NEW evs, NEW barred, NEW n \in Nat, NEW r, After(g, evs, barred, n, r)
  PROVE  \E q : After(g, evs, barred, n + 1, q)
<1>. DEFINE q == [i \in 0 .. n + 1 |-> IF i = n + 1 THEN ApplyEvent(r[n], evs[n + 1], barred) ELSE r[i]]
<1>1. \A i \in 0 .. n : r[i] = IF i = 0 THEN g ELSE ApplyEvent(r[i - 1], evs[i], barred)
  BY DEF After
<1>2. \A i \in 0 .. n + 1 : q[i] = IF i = 0 THEN g ELSE ApplyEvent(q[i - 1], evs[i], barred)
  <2>. TAKE i \in 0 .. n + 1
  <2>1. CASE i = n + 1
    <3>1. i # 0 /\ i - 1 = n /\ n # n + 1 /\ n \in 0 .. n + 1
      BY <2>1
    <3>. QED  BY <2>1, <3>1
  <2>2. CASE i # n + 1 /\ i # 0
    <3>1. i \in 0 .. n /\ i - 1 \in 0 .. n + 1 /\ i - 1 # n + 1
      BY <2>2
    <3>. QED  BY <1>1, <2>2, <3>1
  <2>3. CASE i # n + 1 /\ i = 0
    BY <1>1, <2>3
  <2>. QED  BY <2>1, <2>2, <2>3
<1>3. q = [i \in 0 .. n + 1 |-> q[i]]
  OBVIOUS
<1>. HIDE DEF q
<1>4. q = [i \in 0 .. n + 1 |-> IF i = 0 THEN g ELSE ApplyEvent(q[i - 1], evs[i], barred)]
  BY <1>2, <1>3
<1>. QED  BY <1>4 DEF After

LEMMA AfterAll ==
  ASSUME NEW g, NEW evs, NEW barred
  PROVE  \A n \in Nat : \E r : After(g, evs, barred, n, r)
<1>. DEFINE T == {n \in Nat : ~ \E r : After(g, evs, barred, n, r)}
<1>. SUFFICES ASSUME T # {} PROVE FALSE
  OBVIOUS
<1>1. PICK n \in T : \A k \in T : n <= k
  BY LeastNat
<1>2. n # 0
  <2>1. After(g, evs, barred, 0, [i \in 0 .. 0 |-> g])
    BY DEF After
  <2>. QED  BY <1>1, <2>1
<1>3. n - 1 \in Nat /\ n - 1 \notin T
  BY <1>1, <1>2
<1>4. PICK r : After(g, evs, barred, n - 1, r)
  BY <1>3
<1>5. \E q : After(g, evs, barred, (n - 1) + 1, q)
  BY <1>3, <1>4, AfterOneMore
<1>. QED  BY <1>1, <1>5

\* ApplyEvents goes through the events one by one.
LEMMA Applying ==
  ASSUME NEW g, NEW evs, NEW barred, Len(evs) \in Nat
  PROVE  \E r : /\ r[0] = g /\ ApplyEvents(g, evs, barred) = r[Len(evs)]
                /\ \A i \in 1 .. Len(evs) : r[i] = ApplyEvent(r[i - 1], evs[i], barred)
<1>. DEFINE n == Len(evs)
            r == CHOOSE q : q = [i \in 0 .. n |-> IF i = 0 THEN g ELSE ApplyEvent(q[i - 1], evs[i], barred)]
<1>1. ApplyEvents(g, evs, barred) = r[n]
  BY DEF ApplyEvents
<1>2. After(g, evs, barred, n, r)
  BY AfterAll DEF After
<1>. HIDE DEF r
<1>3. \A i \in 0 .. n : r[i] = IF i = 0 THEN g ELSE ApplyEvent(r[i - 1], evs[i], barred)
  BY <1>2 DEF After
<1>4. r[0] = g /\ \A i \in 1 .. n : r[i] = ApplyEvent(r[i - 1], evs[i], barred)
  BY <1>3
<1>. QED  BY <1>1, <1>4

\* What was assigned by one of the first n events and not detached by a later one.
AssignedBy(evs, n, f) ==
    \E k \in 1 .. n : /\ evs[k].type = "assign" /\ evs[k].fact = f
                      /\ \A j \in k + 1 .. n : ~Detaches(evs[j], f)

\* What the first n events may do to a sound graph.
HandledBy(g, h, evs, n) ==
    /\ Sound(h) /\ Grows(g, h)
    /\ \A f : Bare(g, f) => Bare(h, f)
    /\ \A f : (\A i \in 1 .. n : ~Detaches(evs[i], f)) => (Linked(g, f) => Linked(h, f))
    /\ \A f : AssignedBy(evs, n, f) => Held(h, f)

LEMMA HandledByOneMore ==
  ASSUME NEW g, NEW h, NEW k, NEW evs, NEW n \in Nat, HandledBy(g, h, evs, n),
         Handled(h, k, evs[n + 1])
  PROVE  HandledBy(g, k, evs, n + 1)
<1>1. Sound(k) /\ Grows(g, k)
  BY DEF HandledBy, Handled, Outlives, Grows
<1>2. \A f : Bare(g, f) => Bare(k, f)
  BY DEF HandledBy, Handled
<1>3. ASSUME NEW f, \A i \in 1 .. n + 1 : ~Detaches(evs[i], f), Linked(g, f) PROVE Linked(k, f)
  <2>1. \A i \in 1 .. n : ~Detaches(evs[i], f)
    BY <1>3
  <2>2. n + 1 \in 1 .. n + 1
    OBVIOUS
  <2>. QED  BY <1>3, <2>1, <2>2 DEF HandledBy, Handled
<1>4. ASSUME NEW f, AssignedBy(evs, n + 1, f) PROVE Held(k, f)
  <2>1. PICK j \in 1 .. n + 1 : /\ evs[j].type = "assign" /\ evs[j].fact = f
                                /\ \A i \in j + 1 .. n + 1 : ~Detaches(evs[i], f)
    BY <1>4 DEF AssignedBy
  <2>2. CASE j = n + 1
    BY <2>1, <2>2 DEF Handled
  <2>3. CASE j # n + 1
    <3>1. j \in 1 .. n /\ n + 1 \in j + 1 .. n + 1
      BY <2>3
    <3>2. ~Detaches(evs[n + 1], f)
      BY <2>1, <3>1
    <3>3. \A i \in j + 1 .. n : i \in j + 1 .. n + 1
      BY <3>1
    <3>4. AssignedBy(evs, n, f)
      BY <2>1, <3>1, <3>3 DEF AssignedBy
    <3>. QED  BY <3>2, <3>4 DEF HandledBy, Handled
  <2>. QED  BY <2>2, <2>3
<1>. QED  BY <1>1, <1>2, <1>3, <1>4 DEF HandledBy

LEMMA EventsHandled ==
  ASSUME NEW g, Sound(g), NEW evs \in Seq(UserEvents), NEW barred
  PROVE  HandledBy(g, ApplyEvents(g, evs, barred), evs, Len(evs))
<1>. DEFINE n == Len(evs)
<1>1. n \in Nat /\ \A i \in 1 .. n : evs[i] \in UserEvents
  OBVIOUS
<1>2. PICK r : /\ r[0] = g /\ ApplyEvents(g, evs, barred) = r[n]
               /\ \A i \in 1 .. n : r[i] = ApplyEvent(r[i - 1], evs[i], barred)
  BY <1>1, Applying
<1>. DEFINE T == {i \in 0 .. n : ~HandledBy(g, r[i], evs, i)}
<1>3. T = {}
  <2>. SUFFICES ASSUME T # {} PROVE FALSE
    OBVIOUS
  <2>1. T \subseteq Nat
    BY <1>1
  <2>2. PICK i \in T : \A k \in T : i <= k
    BY <2>1, LeastNat
  <2>3. i # 0
    <3>1. HandledBy(g, g, evs, 0)
      BY DEF HandledBy, Grows, AssignedBy
    <3>. QED  BY <1>2, <2>2, <3>1
  <2>4. i \in 1 .. n /\ i - 1 \in 0 .. n /\ i - 1 \in Nat /\ (i - 1) + 1 = i
    BY <1>1, <2>2, <2>3
  <2>5. i - 1 \notin T
    BY <2>2, <2>4
  <2>6. HandledBy(g, r[i - 1], evs, i - 1)
    BY <2>4, <2>5
  <2>7. Handled(r[i - 1], ApplyEvent(r[i - 1], evs[i], barred), evs[i])
    BY <1>1, <2>4, <2>6, EventHandled DEF HandledBy
  <2>8. Handled(r[i - 1], r[i], evs[(i - 1) + 1])
    BY <1>2, <2>4, <2>7
  <2>9. HandledBy(g, r[i], evs, (i - 1) + 1)
    BY <2>4, <2>6, <2>8, HandledByOneMore
  <2>. QED  BY <2>2, <2>4, <2>9
<1>4. n \in 0 .. n
  BY <1>1
<1>. QED  BY <1>2, <1>3, <1>4

-----------------------------------------------------------------------------
(* The digest of the pool. *)

\* What a title does: the facts of its group have one automatic edge before and after.
Digested(g, h) ==
    /\ Sound(h) /\ Outlives(g, h)
    /\ \A f : Bare(g, f) => Bare(h, f)
    /\ \A f : Linked(g, f) => Linked(h, f)
    /\ \A f : Bare(g, f) /\ Held(g, f) => Held(h, f)

LEMMA JoinedIsMatter ==
  ASSUME NEW g \in Graphs, NEW title, NEW f \in Group(g, title)
  PROVE  Joined(g, title) \in Matters
<1>. DEFINE same == {m \in Linkable(g) : title \in g.titles[m]}
            first == CHOOSE x \in Group(g, title) : \A y \in Group(g, title) : x <= y
<1>1. CASE same # {}
  BY <1>1 DEF Joined, Linkable
<1>2. CASE same = {}
  <2>1. Group(g, title) \subseteq GraphFacts /\ GraphFacts \subseteq Nat
    BY FactNumbers DEF Group, Pooled, Graphs
  <2>2. first \in Group(g, title)
    BY <2>1, LeastNat
  <2>3. TurnOf[first] \in Turns
    BY <2>1, <2>2, MatterGraphAssumption DEF MatterGraphAssumption
  <2>4. Joined(g, title) = New(TurnOf[first])
    BY <1>2 DEF Joined
  <2>. HIDE DEF first
  <2>. QED  BY <2>3, <2>4, Names
<1>. QED  BY <1>1, <1>2

LEMMA MovingDigests ==
  ASSUME NEW g, Sound(g), NEW S, S \subseteq Pooled(g), NEW m,
         S # {} => m \in Matters /\ Exists(g, m)
  PROVE  Digested(g, Moved(g, S, m))
<1>. DEFINE h == Moved(g, S, m)
            E(f) == Edge(m, f, m, FALSE, "digest")
            Digests == {E(f) : f \in S}
<1>1. S \subseteq GraphFacts
  BY DEF Pooled, Sound, Graphs
<1>2. \A f \in S : /\ E(f) \in EdgeRecs /\ E(f).fact = f /\ E(f).home = m /\ E(f).at = m
                   /\ E(f).hand = FALSE /\ E(f).via = "digest"
  BY <1>1 DEF Edge, EdgeRecs, Places, Vias
<1>3. h.edges = {e \in g.edges : e.fact \notin S} \cup Digests
  BY DEF Moved, Sound, Graphs
<1>4. /\ h = [g EXCEPT !.edges = {e \in g.edges : e.fact \notin S} \cup Digests,
                       !.of = [f \in GraphFacts |-> IF f \in S THEN Nowhere ELSE g.of[f]]]
      /\ h.has = g.has /\ h.status = g.status
  BY DEF Moved, Sound, Graphs
<1>. HIDE DEF h, E
<1>5. /\ \A x \in Digests : /\ x \in EdgeRecs /\ x.fact \in S /\ x.home = m /\ x.at = m
                       /\ x.hand = FALSE /\ x.via = "digest"
      /\ \A f \in S : \E x \in Digests : x.fact = f
      /\ \A x, y \in Digests : x.fact = y.fact => x = y
  BY <1>2
<1>. HIDE DEF Digests
<1>7. h \in Graphs
  <2>1. {e \in g.edges : e.fact \notin S} \cup Digests \in SUBSET EdgeRecs
    BY <1>5 DEF Sound, Graphs
  <2>2. [f \in GraphFacts |-> IF f \in S THEN Nowhere ELSE g.of[f]]
           \in [GraphFacts -> Matters \cup {Nowhere}]
    BY DEF Sound, Graphs
  <2>. QED  BY <1>4, <2>1, <2>2 DEF Sound, Graphs
<1>8. Outlives(g, h)
  BY <1>4 DEF Outlives, Exists
<1>9. ASSUME NEW x \in h.edges PROVE EdgeSound(h, x)
  <2>1. CASE x \in Digests
    <3>1. m \in Matters /\ Exists(g, m)
      BY <1>5, <2>1
    <3>. QED  BY <1>5, <1>8, <2>1, <3>1, Names DEF EdgeSound, Outlives, Gated
  <2>2. CASE x \in g.edges
    BY <1>8, <2>2 DEF EdgeSound, Outlives, Sound, Exists
  <2>. QED  BY <1>3, <2>1, <2>2
<1>10. \A x, y \in h.edges : x.fact = y.fact /\ x.home = y.home => x = y
  BY <1>3, <1>5 DEF Sound
<1>11. \A x, y \in h.edges : x.fact = y.fact /\ ~x.hand /\ ~y.hand => x = y
  BY <1>3, <1>5 DEF Sound
<1>12. \A f : Bare(g, f) => f \notin S
  <2>1. \A f \in S : \E e \in g.edges : e.at = Pool /\ e.fact = f
    BY DEF Pooled, EdgesOf
  <2>2. \A e \in g.edges : e.at = Pool => ~e.hand
    BY DEF Sound, EdgeSound
  <2>. QED  BY <2>1, <2>2 DEF Bare
<1>13. \A f : Bare(g, f) => Bare(h, f) /\ (Held(g, f) => Held(h, f))
  BY <1>3, <1>5, <1>12 DEF Bare, Held
<1>14. \A f : Linked(g, f) => Linked(h, f)
  BY <1>3, <1>5 DEF Linked
<1>15. Sound(h)
  BY <1>7, <1>9, <1>10, <1>11 DEF Sound
<1>. QED  BY <1>8, <1>13, <1>14, <1>15 DEF Digested, h

LEMMA DigestingOne ==
  ASSUME NEW g, Sound(g), NEW title \in Titles
  PROVE  Digested(g, DigestOne(g, title))
<1>. DEFINE m == Joined(g, title)
            born == IF Exists(g, m) THEN g ELSE AddMatter(g, m, "provisional", {title})
            S == Group(g, title)
            moved == Moved(born, S, m)
            h == Promote(moved, m)
<1>1. DigestOne(g, title) = h
  BY DEF DigestOne
<1>2. S # {} => m \in Matters
  BY JoinedIsMatter DEF Sound
<1>. HIDE DEF m
<1>3. born \in Graphs /\ SameEdges(g, born) /\ (m \in Matters => Exists(born, m))
  <2>1. {title} \in SUBSET Titles /\ "provisional" \in Cards \ {"none"} /\ g \in Graphs
    BY DEF Cards, Sound
  <2>2. CASE Exists(g, m)
    BY <2>1, <2>2 DEF SameEdges, Outlives
  <2>3. CASE ~Exists(g, m)
    BY <2>1, <2>3, AddingMatter
  <2>. QED  BY <2>2, <2>3
<1>. HIDE DEF born
<1>4. Sound(born)
  BY <1>3, SameIsSound
<1>5. S \subseteq Pooled(born)
  BY <1>3 DEF Group, Pooled, EdgesOf, SameEdges, Outlives
<1>. HIDE DEF S
<1>6. Digested(born, moved)
  BY <1>2, <1>3, <1>4, <1>5, MovingDigests
<1>. HIDE DEF moved
<1>7. h \in Graphs /\ SameEdges(moved, h)
  BY <1>6, Promoting DEF Digested, Sound
<1>. HIDE DEF h
<1>8. Sound(h) /\ Outlives(g, h)
  BY <1>3, <1>6, <1>7, SameIsSound DEF Digested, SameEdges, Outlives
<1>9. \A f : (Bare(g, f) => Bare(h, f)) /\ (Linked(g, f) => Linked(h, f))
             /\ (Bare(g, f) /\ Held(g, f) => Held(h, f))
  BY <1>3, <1>6, <1>7, SameHasSame DEF Digested
<1>. QED  BY <1>1, <1>8, <1>9 DEF Digested

\* The titles of a digest, in some order.
LEMMA RipeTitles ==
  ASSUME NEW g
  PROVE  SetToSeq(Ripe(g)) \in Seq(Titles)
<1>. DEFINE R == Ripe(g)
            n == Cardinality(R)
            s == SetToSeq(R)
<1>1. R \subseteq Titles
  BY DEF Ripe, Titles
<1>2. IsFiniteSet(Titles)
  <2>1. [f \in GraphFacts |-> TitleOf[f]] \in Surjection(GraphFacts, Titles)
    BY DEF Surjection, Titles
  <2>. QED  BY <2>1, FS_Surjection, MatterGraphAssumption DEF MatterGraphAssumption
<1>3. IsFiniteSet(R)
  BY <1>1, <1>2, FS_Subset
<1>. HIDE DEF R
<1>4. n \in Nat /\ ExistsBijection(1 .. n, R)
  BY <1>3, FS_CardinalityType
<1>5. \E f \in [1 .. n -> R] : IsInjective(f)
  BY <1>4 DEF ExistsBijection, Bijection, Injection
<1>6. s \in [1 .. n -> R]
  BY <1>5 DEF SetToSeq
<1>7. s \in Seq(R)
  BY <1>4, <1>6
<1>. QED  BY <1>1, <1>7 DEF R

\* The graph after each of the first n titles.
Through(g, titles, n, r) ==
    r = [i \in 0 .. n |-> IF i = 0 THEN g ELSE DigestOne(r[i - 1], titles[i])]

LEMMA ThroughOneMore ==
  ASSUME NEW g, NEW titles, NEW n \in Nat, NEW r, Through(g, titles, n, r)
  PROVE  \E q : Through(g, titles, n + 1, q)
<1>. DEFINE q == [i \in 0 .. n + 1 |->
                     IF i = n + 1 THEN DigestOne(r[n], titles[n + 1]) ELSE r[i]]
<1>1. \A i \in 0 .. n : r[i] = IF i = 0 THEN g ELSE DigestOne(r[i - 1], titles[i])
  BY DEF Through
<1>2. \A i \in 0 .. n + 1 : q[i] = IF i = 0 THEN g ELSE DigestOne(q[i - 1], titles[i])
  <2>. TAKE i \in 0 .. n + 1
  <2>1. CASE i = n + 1
    <3>1. i # 0 /\ i - 1 = n /\ n # n + 1 /\ n \in 0 .. n + 1
      BY <2>1
    <3>. QED  BY <2>1, <3>1
  <2>2. CASE i # n + 1 /\ i # 0
    <3>1. i \in 0 .. n /\ i - 1 \in 0 .. n + 1 /\ i - 1 # n + 1
      BY <2>2
    <3>. QED  BY <1>1, <2>2, <3>1
  <2>3. CASE i # n + 1 /\ i = 0
    BY <1>1, <2>3
  <2>. QED  BY <2>1, <2>2, <2>3
<1>3. q = [i \in 0 .. n + 1 |-> q[i]]
  OBVIOUS
<1>. HIDE DEF q
<1>4. q = [i \in 0 .. n + 1 |-> IF i = 0 THEN g ELSE DigestOne(q[i - 1], titles[i])]
  BY <1>2, <1>3
<1>. QED  BY <1>4 DEF Through

LEMMA ThroughAll ==
  ASSUME NEW g, NEW titles
  PROVE  \A n \in Nat : \E r : Through(g, titles, n, r)
<1>. DEFINE T == {n \in Nat : ~ \E r : Through(g, titles, n, r)}
<1>. SUFFICES ASSUME T # {} PROVE FALSE
  OBVIOUS
<1>1. PICK n \in T : \A k \in T : n <= k
  BY LeastNat
<1>2. n # 0
  <2>1. Through(g, titles, 0, [i \in 0 .. 0 |-> g])
    BY DEF Through
  <2>. QED  BY <1>1, <2>1
<1>3. n - 1 \in Nat /\ n - 1 \notin T
  BY <1>1, <1>2
<1>4. PICK r : Through(g, titles, n - 1, r)
  BY <1>3
<1>5. \E q : Through(g, titles, (n - 1) + 1, q)
  BY <1>3, <1>4, ThroughOneMore
<1>. QED  BY <1>1, <1>5

LEMMA Digesting ==
  ASSUME NEW g, Sound(g)
  PROVE  Digested(g, Digest(g))
<1>. DEFINE titles == SetToSeq(Ripe(g))
            n == Len(titles)
            r == CHOOSE q : q = [i \in 0 .. n |->
                                    IF i = 0 THEN g ELSE DigestOne(q[i - 1], titles[i])]
<1>1. Digest(g) = r[n]
  BY DEF Digest
<1>2. n \in Nat /\ \A i \in 1 .. n : titles[i] \in Titles
  BY RipeTitles
<1>. HIDE DEF titles
<1>. HIDE DEF n
<1>3. Through(g, titles, n, r)
  <2>1. \E q : Through(g, titles, n, q)
    BY <1>2, ThroughAll
  <2>2. \E q : q = [i \in 0 .. n |-> IF i = 0 THEN g ELSE DigestOne(q[i - 1], titles[i])]
    BY <2>1 DEF Through
  <2>3. r = [i \in 0 .. n |-> IF i = 0 THEN g ELSE DigestOne(r[i - 1], titles[i])]
    BY <2>2
  <2>. QED  BY <2>3 DEF Through
<1>. HIDE DEF r
<1>4. \A i \in 0 .. n : r[i] = IF i = 0 THEN g ELSE DigestOne(r[i - 1], titles[i])
  BY <1>3 DEF Through
<1>. DEFINE T == {i \in 0 .. n : ~Digested(g, r[i])}
<1>5. T = {}
  <2>. SUFFICES ASSUME T # {} PROVE FALSE
    OBVIOUS
  <2>1. T \subseteq Nat
    BY <1>2
  <2>2. PICK i \in T : \A k \in T : i <= k
    BY <2>1, LeastNat
  <2>3. i # 0
    <3>1. Digested(g, g) /\ r[0] = g
      BY <1>2, <1>4 DEF Digested, Outlives
    <3>. QED  BY <2>2, <3>1
  <2>4. i \in 1 .. n /\ i - 1 \in 0 .. n /\ i \in 0 .. n
    BY <1>2, <2>2, <2>3
  <2>5. i - 1 \notin T
    BY <2>2, <2>4
  <2>6. Digested(g, r[i - 1])
    BY <2>4, <2>5
  <2>7. Digested(r[i - 1], DigestOne(r[i - 1], titles[i]))
    BY <1>2, <2>4, <2>6, DigestingOne DEF Digested
  <2>8. r[i] = DigestOne(r[i - 1], titles[i])
    BY <1>4, <2>3, <2>4
  <2>9. Digested(g, r[i])
    BY <2>6, <2>7, <2>8 DEF Digested, Outlives
  <2>. QED  BY <2>2, <2>9
<1>6. n \in 0 .. n
  BY <1>2
<1>. QED  BY <1>1, <1>5, <1>6

-----------------------------------------------------------------------------
(* The invariant. *)

Kind == {"none", "direct", "judge", "skip"}
Ctxs == [turn : Turns \cup {0}, kind : Kind, to : Matters \cup {Nowhere},
         anchor : Matters \cup {Nowhere}, made : SUBSET Matters]
Distinct(q) == \A i, j \in 1 .. Len(q) : i # j => q[i] # q[j]

\* The types of the variables but the graph's.
Shapes ==
    /\ judged \in [GraphFacts -> Matters \cup {Nowhere, None, Uncertain}]
    /\ stream \in [Turns -> Matters \cup {Nowhere}]
    /\ events \in Seq(UserEvents) /\ replayed \in 0 .. Len(events)
    /\ marked \subseteq Turns
    /\ queue \in Seq(GraphFacts) /\ Distinct(queue)
    /\ ctx \in Ctxs /\ (ctx.kind = "direct" => ctx.to \in Matters)
    /\ phase \in {"idle", "round", "full"} /\ (phase = "idle" => queue = <<>>)
    /\ rebuilt \in BOOLEAN /\ (rebuilt => phase = "idle")

\* What waits is stored; a fact that waits, or is not stored, has no automatic edge.
WaitingAreBare ==
    /\ Range(queue) \subseteq graph.has
    /\ \A f \in GraphFacts : f \in Range(queue) \/ f \notin graph.has => Bare(graph, f)

\* What neither waits, nor was lost, nor is kept aside has an edge, unless it was detached.
Detached(f) == \E i \in 1 .. Len(events) : Detaches(events[i], f)
AttributedAreLinked ==
    \A f \in graph.has \ (lost \cup Range(queue) \cup Aside) : Linked(graph, f) \/ Detached(f)

\* What is kept aside is nowhere but where the user put it.
AsideAreBare == \A f \in Aside : Bare(graph, f)

\* From the replay of all events on, what the user assigned is only where the user put it.
AssignedAreHeld ==
    (phase = "full" \/ rebuilt) /\ replayed = Len(events) =>
        \A f \in graph.has :
            AssignedBy(events, Len(events), f) => Held(graph, f) /\ Bare(graph, f)

GraphInv ==
    /\ Shapes /\ Sound(graph) /\ WaitingAreBare
    /\ AttributedAreLinked /\ AsideAreBare /\ AssignedAreHeld

LEMMA CleanIsSound ==
    /\ Sound(Clean) /\ Clean.edges = {} /\ Clean.has = {}
    /\ \A f : Bare(Clean, f)
  BY DEF Clean, Sound, Graphs, Cards, Bare

LEMMA InvInit == GraphInit => GraphInv
<1>. SUFFICES ASSUME GraphInit PROVE GraphInv
  OBVIOUS
<1>1. judged \in [GraphFacts -> Matters \cup {Nowhere, None, Uncertain}]
  <2>1. PICK old \in SUBSET OldLinks :
           judged = [f \in GraphFacts |-> IF \E o \in old : o[1] = f
                                     THEN Anchor((CHOOSE o \in old : o[1] = f)[2])
                                     ELSE Nowhere]
    BY DEF GraphInit
  <2>2. \A o \in old : Anchor(o[2]) \in Matters
    BY MatterGraphAssumption, Names DEF MatterGraphAssumption
  <2>. QED  BY <2>1, <2>2
<1>2. NoCtx \in Ctxs /\ NoCtx.kind = "none"
  BY DEF NoCtx, Ctxs, Kind
<1>3. Shapes
  <2>1. events = <<>> /\ queue = <<>> /\ replayed = 0 /\ Len(events) = 0 /\ Len(queue) = 0
    BY DEF GraphInit
  <2>2. events \in Seq(UserEvents) /\ queue \in Seq(GraphFacts) /\ replayed \in 0 .. Len(events)
        /\ Distinct(queue)
    BY <2>1 DEF Distinct
  <2>3. stream \in [Turns -> Matters \cup {Nowhere}] /\ marked \subseteq Turns
    BY DEF GraphInit
  <2>. QED  BY <1>1, <1>2, <2>1, <2>2, <2>3 DEF Shapes, GraphInit
<1>4. graph = Clean /\ lost = {} /\ rebuilt = FALSE /\ phase = "idle"
  BY DEF GraphInit
<1>5. Range(queue) = {}
  BY DEF GraphInit, Range
<1>. QED
  BY <1>3, <1>4, <1>5, CleanIsSound
     DEF GraphInv, WaitingAreBare, AttributedAreLinked, AsideAreBare, AssignedAreHeld

-----------------------------------------------------------------------------
(* Attributing one fact. *)

\* What the attribution of fact f may make of the graph.
Attributes(f, h) ==
    /\ Sound(h) /\ Outlives(graph, h) /\ (Linked(h, f) \/ f \in Aside)
    /\ Held(graph, f) => Held(h, f) /\ Bare(h, f)
    /\ \A x \in GraphFacts \ {f} : /\ Bare(graph, x) => Bare(h, x)
                                   /\ Held(graph, x) => Held(h, x)
                                   /\ Linked(graph, x) => Linked(h, x)

LEMMA ByHandIsHeld == ASSUME NEW f PROVE ByHand(f) = {} <=> ~Held(graph, f)
  BY DEF ByHand, Held

LEMMA PlacedAttributes ==
  ASSUME GraphInv, NEW f \in GraphFacts, Bare(graph, f), ByHand(f) = {},
         NEW m \in Matters, Admits(TurnOf[f], m), NEW via \in Vias
  PROVE  Attributes(f, Placed(graph, f, m, via))
BY Placing, ByHandIsHeld DEF GraphInv, Attributes

LEMMA InPoolAttributes ==
  ASSUME GraphInv, NEW f \in GraphFacts, Bare(graph, f), ByHand(f) = {}
  PROVE  Attributes(f, InPool(graph, f))
BY Pooling, ByHandIsHeld DEF GraphInv, Attributes

LEMMA FactsHaveTurns == \A f \in GraphFacts : TurnOf[f] \in Turns
  BY MatterGraphAssumption DEF MatterGraphAssumption

LEMMA FallbackAttributes ==
  ASSUME GraphInv, NEW f \in GraphFacts, Bare(graph, f), ByHand(f) = {}
  PROVE  Attributes(f, Fallback(f))
<1>1. New(TurnOf[f]) \in Matters /\ Admits(TurnOf[f], New(TurnOf[f])) /\ "pipeline" \in Vias
  BY FactsHaveTurns, Names DEF Admits, Vias
<1>. QED  BY <1>1, PlacedAttributes, InPoolAttributes DEF Fallback

LEMMA KeepingAttributes ==
  ASSUME GraphInv, NEW f \in GraphFacts, Bare(graph, f), ByHand(f) # {}
  PROVE  Attributes(f, KeepByHand(f))
<1>. DEFINE e == CHOOSE x \in ByHand(f) : TRUE
            set == SetMatter(graph, f, e.at)
            h == KeepByHand(f)
<1>1. e \in graph.edges /\ e.hand
  BY DEF ByHand
<1>. HIDE DEF e
<1>2. e.at \in Matters
  BY <1>1 DEF GraphInv, Sound, EdgeSound, Graphs, EdgeRecs, Places
<1>3. set \in Graphs /\ SameEdges(graph, set)
  BY <1>2, SettingMatter DEF GraphInv, Sound
<1>. HIDE DEF set
<1>4. h = Promote(set, e.at) \/ h = set
  BY DEF KeepByHand, set, e
<1>. HIDE DEF h
<1>5. h \in Graphs /\ SameEdges(graph, h)
  BY <1>3, <1>4, Promoting DEF SameEdges, Outlives
<1>6. Sound(h)
  BY <1>5, SameIsSound DEF GraphInv
<1>7. Held(graph, f) /\ Linked(graph, f)
  BY ByHandIsHeld DEF Held, Linked
<1>. QED  BY <1>5, <1>6, <1>7, SameHasSame DEF Attributes, SameEdges, h

\* A sequence of different things without the first of them.
LEMMA Popping ==
  ASSUME NEW S, NEW q \in Seq(S), q # <<>>, Distinct(q)
  PROVE  /\ Head(q) \in S /\ Head(q) \in Range(q) /\ Tail(q) \in Seq(S)
         /\ Distinct(Tail(q))
         /\ Range(q) = Range(Tail(q)) \cup {Head(q)} /\ Head(q) \notin Range(Tail(q))
<1>. DEFINE r == Tail(q)
<1>1. Len(q) \in Nat /\ Len(q) >= 1 /\ Head(q) = q[1] /\ q[1] \in S
  OBVIOUS
<1>2. r \in Seq(S) /\ Len(r) = Len(q) - 1
  OBVIOUS
<1>3. \A i \in 1 .. Len(r) : i + 1 \in 1 .. Len(q) /\ r[i] = q[i + 1]
  OBVIOUS
<1>4. \A i \in 1 .. Len(q) : i # 1 => i - 1 \in 1 .. Len(r) /\ r[i - 1] = q[i]
  OBVIOUS
<1>5. DOMAIN q = 1 .. Len(q) /\ DOMAIN r = 1 .. Len(r)
  BY <1>2
<1>. HIDE DEF r
<1>6. Distinct(r)
  BY <1>2, <1>3 DEF Distinct
<1>7. Range(q) = Range(r) \cup {q[1]}
  <2>1. \A i \in 1 .. Len(q) : q[i] \in Range(r) \cup {q[1]}
    BY <1>4, <1>5 DEF Range
  <2>2. \A i \in 1 .. Len(r) : r[i] \in Range(q)
    BY <1>3, <1>5 DEF Range
  <2>3. q[1] \in Range(q)
    BY <1>1, <1>5 DEF Range
  <2>. QED  BY <1>5, <2>1, <2>2, <2>3 DEF Range
<1>8. q[1] \notin Range(r)
  <2>1. \A i \in 1 .. Len(r) : i + 1 # 1 /\ 1 \in 1 .. Len(q)
    BY <1>1, <1>2
  <2>2. \A i \in 1 .. Len(r) : r[i] # q[1]
    BY <1>3, <2>1 DEF Distinct
  <2>. QED  BY <1>5, <2>2 DEF Range
<1>. QED  BY <1>1, <1>2, <1>6, <1>7, <1>8 DEF r

\* The invariant, but for the types, is kept by attributing the first fact of the queue.
LEMMA AttributedKeeps ==
  ASSUME GraphInv, NEW f, queue # <<>>, f = Head(queue), phase # "idle",
         NEW g, Attributes(f, g), Attributed(f, g), f \in Aside => Bare(g, f), Shapes'
  PROVE  GraphInv'
<1>1. /\ f \in GraphFacts /\ f \in Range(queue)
      /\ Range(queue) = Range(queue') \cup {f} /\ f \notin Range(queue')
  BY Popping DEF GraphInv, Shapes, Attributed
<1>2. /\ graph' = g /\ events' = events /\ replayed' = replayed /\ phase' = phase
      /\ lost' = lost /\ rebuilt' = rebuilt
  BY DEF Attributed
<1>3. Sound(graph') /\ graph'.has = graph.has
  BY <1>2 DEF Attributes, Outlives
<1>4. WaitingAreBare'
  <2>1. Range(queue') \subseteq graph'.has
    BY <1>1, <1>3 DEF GraphInv, WaitingAreBare
  <2>2. ASSUME NEW x \in GraphFacts, x \in Range(queue') \/ x \notin graph'.has
        PROVE  Bare(graph', x)
    <3>1. Bare(graph, x) /\ x # f
      BY <1>1, <1>3, <2>2 DEF GraphInv, WaitingAreBare
    <3>. QED  BY <1>2, <2>2, <3>1 DEF Attributes
  <2>. QED  BY <2>1, <2>2 DEF WaitingAreBare
<1>5. \A x : Detached(x)' <=> Detached(x)
  BY <1>2 DEF Detached
<1>6. AttributedAreLinked'
  <2>. SUFFICES ASSUME NEW x \in graph'.has \ (lost' \cup Range(queue') \cup Aside), ~Detached(x)
                PROVE  Linked(graph', x)
    BY <1>5 DEF AttributedAreLinked
  <2>1. x \in GraphFacts
    BY <1>3 DEF Sound, Graphs
  <2>2. CASE x = f
    BY <1>2, <2>2 DEF Attributes
  <2>3. CASE x # f
    <3>1. Linked(graph, x)
      BY <1>1, <1>2, <1>3, <2>3 DEF GraphInv, AttributedAreLinked
    <3>. QED  BY <1>2, <2>1, <2>3, <3>1 DEF Attributes
  <2>. QED  BY <2>2, <2>3
<1>7. AssignedAreHeld'
  <2>. SUFFICES ASSUME (phase = "full" \/ rebuilt) /\ replayed = Len(events),
                       NEW x \in graph.has, AssignedBy(events, Len(events), x)
                PROVE  Held(graph', x) /\ Bare(graph', x)
    BY <1>2, <1>3 DEF AssignedAreHeld
  <2>1. Held(graph, x) /\ Bare(graph, x) /\ x \in GraphFacts
    BY DEF GraphInv, AssignedAreHeld, Sound, Graphs
  <2>. QED  BY <1>2, <2>1 DEF Attributes
<1>8. AsideAreBare'
  <2>. SUFFICES ASSUME NEW x \in Aside PROVE Bare(graph', x)
    BY DEF AsideAreBare
  <2>1. x \in GraphFacts /\ Bare(graph, x)
    BY MatterGraphAssumption DEF GraphInv, AsideAreBare, MatterGraphAssumption
  <2>. QED  BY <1>2, <2>1 DEF Attributes
<1>. QED  BY <1>3, <1>4, <1>6, <1>7, <1>8 DEF GraphInv

-----------------------------------------------------------------------------
(* What the pass decides for a turn. *)

LEMMA MainIsMatter ==
  ASSUME Sound(graph), NEW t
  PROVE  Main(t) \in Matters \cup {Nowhere}
<1>. DEFINE placed == {f \in graph.has : TurnOf[f] = t /\ graph.of[f] # Nowhere}
            best == {f \in placed : \A g \in placed :
                                      Votes(t, graph.of[g]) <= Votes(t, graph.of[f])}
            first == CHOOSE f \in best : \A g \in best : f <= g
<1>1. Main(t) = IF best = {} THEN Nowhere ELSE graph.of[first]
  BY DEF Main
<1>2. best \subseteq GraphFacts
  BY DEF Sound, Graphs
<1>. HIDE DEF best
<1>3. CASE best = {}
  BY <1>1, <1>3
<1>4. CASE best # {}
  <2>1. first \in best
    BY <1>2, <1>4, LeastNat, FactNumbers
  <2>. HIDE DEF first
  <2>. QED  BY <1>1, <1>2, <1>4, <2>1 DEF Sound, Graphs
<1>. QED  BY <1>3, <1>4

\* A decision names a card that is there.
DecisionOK(c) == c \in Ctxs /\ (c.kind = "direct" => c.to \in Matters)

LEMMA DecisionsAreOK ==
  ASSUME Shapes, Sound(graph), NEW t \in Turns, NEW d \in Decisions(ctx, t)
  PROVE  DecisionOK(d)
<1>. DEFINE base == [ctx EXCEPT !.turn = t, !.anchor = Anchored(ctx), !.to = Nowhere]
            a == AnchorOf(ctx, t)
            skip == [base EXCEPT !.kind = "skip"]
            To(m) == IF Exists(graph, m) THEN Direct(base, m) ELSE skip
<1>1. Anchored(ctx) \in Matters \cup {Nowhere}
  BY MainIsMatter DEF Anchored, Shapes, Ctxs
<1>2. base \in Ctxs
  BY <1>1 DEF Shapes, Ctxs
<1>3. \/ d \in {IF stream[t] = New(t) THEN skip ELSE To(stream[t])}
      \/ d \in {To(m) : m \in Window}
      \/ d \in IF Alive(graph, a) THEN {Direct(base, a)} ELSE {}
      \/ d \in {[base EXCEPT !.kind = "judge"]}
  BY DEF Decisions
<1>. HIDE DEF base, a
<1>4. DecisionOK(skip) /\ DecisionOK([base EXCEPT !.kind = "judge"])
  BY <1>2 DEF DecisionOK, Ctxs, Kind
<1>. HIDE DEF skip
<1>5. ASSUME NEW m \in Matters PROVE DecisionOK(Direct(base, m))
  BY <1>2 DEF DecisionOK, Direct, Ctxs, Kind
<1>6. \A m : DecisionOK(To(m))
  <2>. TAKE m
  <2>1. CASE Exists(graph, m)
    BY <1>5, <2>1 DEF Exists
  <2>2. CASE ~Exists(graph, m)
    BY <1>4, <2>2
  <2>. QED  BY <2>1, <2>2
<1>. HIDE DEF To
<1>7. CASE d \in {IF stream[t] = New(t) THEN skip ELSE To(stream[t])}
  BY <1>4, <1>6, <1>7
<1>8. CASE d \in {To(m) : m \in Window}
  BY <1>6, <1>8
<1>9. CASE d \in IF Alive(graph, a) THEN {Direct(base, a)} ELSE {}
  <2>1. Alive(graph, a) /\ d = Direct(base, a)
    BY <1>9
  <2>. QED  BY <1>5, <2>1 DEF Alive
<1>10. CASE d \in {[base EXCEPT !.kind = "judge"]}
  BY <1>4, <1>10
<1>. QED  BY <1>3, <1>7, <1>8, <1>9, <1>10

LEMMA FinalizedIsJournal ==
  ASSUME Shapes, Sound(graph)
  PROVE  Finalized(ctx) \in [Turns -> Matters \cup {Nowhere}]
<1>1. CASE ctx.kind = "judge" /\ Main(ctx.turn) # Nowhere
  BY <1>1, MainIsMatter DEF Finalized, Shapes
<1>2. CASE ~(ctx.kind = "judge" /\ Main(ctx.turn) # Nowhere)
  BY <1>2 DEF Finalized, Shapes
<1>. QED  BY <1>1, <1>2

LEMMA FallbackMadeIsOK ==
  ASSUME NEW f \in GraphFacts, NEW c, DecisionOK(c)
  PROVE  DecisionOK(FallbackMade(f, c))
<1>1. New(TurnOf[f]) \in Matters
  BY FactsHaveTurns, Names
<1>2. CASE TitleOf[f] # NoTitle /\ ~Exists(graph, New(TurnOf[f]))
  <2>1. FallbackMade(f, c) = [c EXCEPT !.made = @ \cup {New(TurnOf[f])}]
    BY <1>2 DEF FallbackMade
  <2>. HIDE DEF FallbackMade
  <2>. QED  BY <1>1, <2>1 DEF DecisionOK, Ctxs
<1>3. CASE ~(TitleOf[f] # NoTitle /\ ~Exists(graph, New(TurnOf[f])))
  BY <1>3 DEF FallbackMade
<1>. QED  BY <1>2, <1>3

-----------------------------------------------------------------------------
(* Attribution. *)

\* What the steps of an attribution set: the graph, the journals and the context.
Decided(f, g) ==
    /\ Attributed(f, g) /\ Attributes(f, g)
    /\ judged' \in [GraphFacts -> Matters \cup {Nowhere, None, Uncertain}]
    /\ DecisionOK(ctx')

LEMMA JournalDecides ==
  ASSUME GraphInv, NEW f \in GraphFacts, Bare(graph, f), ByHand(f) = {}, NEW cands,
         NEW c, DecisionOK(c), judged[f] # Nowhere, cands \subseteq Linkable(graph),
         FromJournal(f, cands, c)
  PROVE  \E g : Decided(f, g)
<1>1. judged' = judged /\ judged \in [GraphFacts -> Matters \cup {Nowhere, None, Uncertain}]
  BY DEF FromJournal, GraphInv, Shapes
<1>2. CASE judged[f] = Uncertain
  <2>1. judged[f] # None /\ judged[f] \notin Matters
    BY <1>2, Names DEF None, Uncertain
  <2>2. Judged(f, InPool(graph, f), c)
    BY <1>2, <2>1 DEF FromJournal
  <2>. QED  BY <1>1, <2>2, InPoolAttributes DEF Judged, Decided
<1>3. CASE judged[f] = None \/ (judged[f] \in Matters /\ (Stale(f, cands) \/ Rejected(f)))
  <2>1. judged[f] # Uncertain
    BY <1>3, Names DEF None, Uncertain
  <2>2. Judged(f, Fallback(f), FallbackMade(f, c))
    BY <1>3, <2>1 DEF FromJournal
  <2>. QED  BY <1>1, <2>2, FallbackAttributes, FallbackMadeIsOK DEF Judged, Decided
<1>4. CASE ~(judged[f] = Uncertain)
           /\ ~(judged[f] = None \/ (judged[f] \in Matters /\ (Stale(f, cands) \/ Rejected(f))))
  <2>. DEFINE m == judged[f]
  <2>1. m \in Matters /\ Admits(TurnOf[f], m) /\ (m \in cands \/ Exists(graph, m))
    BY <1>1, <1>4 DEF Stale, Rejected
  <2>2. Exists(graph, m)
    BY <2>1 DEF Linkable, Exists
  <2>3. Judged(f, Placed(graph, f, m, "pipeline"), c)
    BY <1>4, <2>2 DEF FromJournal
  <2>. HIDE DEF m
  <2>. QED  BY <1>1, <2>1, <2>3, PlacedAttributes DEF Judged, Decided, Vias
<1>. QED  BY <1>2, <1>3, <1>4

LEMMA ModelDecides ==
  ASSUME GraphInv, NEW f \in GraphFacts, Bare(graph, f), ByHand(f) = {}, NEW cands,
         NEW c, DecisionOK(c), cands \subseteq Linkable(graph),
         \A m \in cands : Admits(TurnOf[f], m), ByModel(f, cands, c)
  PROVE  \E g : Decided(f, g)
<1>1. PICK v \in cands \cup {None, Uncertain} :
         /\ judged' = [judged EXCEPT ![f] = v]
         /\ CASE v = Uncertain -> Judged(f, InPool(graph, f), c)
              [] v = None -> Judged(f, Fallback(f), FallbackMade(f, c))
              [] OTHER -> Judged(f, Placed(graph, f, v, "pipeline"), c)
  BY DEF ByModel
<1>2. judged' \in [GraphFacts -> Matters \cup {Nowhere, None, Uncertain}]
  BY <1>1 DEF GraphInv, Shapes, Linkable
<1>3. CASE v = Uncertain
  <2>1. Judged(f, InPool(graph, f), c)
    BY <1>1, <1>3 DEF None, Uncertain
  <2>. QED  BY <1>2, <2>1, InPoolAttributes DEF Judged, Decided
<1>4. CASE v = None
  <2>1. Judged(f, Fallback(f), FallbackMade(f, c))
    BY <1>1, <1>4 DEF None, Uncertain
  <2>. QED  BY <1>2, <2>1, FallbackAttributes, FallbackMadeIsOK DEF Judged, Decided
<1>5. CASE v # Uncertain /\ v # None
  <2>1. Judged(f, Placed(graph, f, v, "pipeline"), c)
    BY <1>1, <1>5
  <2>2. v \in Matters /\ Admits(TurnOf[f], v)
    BY <1>5 DEF Linkable
  <2>. QED  BY <1>2, <2>1, <2>2, PlacedAttributes DEF Judged, Decided, Vias
<1>. QED  BY <1>3, <1>4, <1>5

LEMMA PipelineDecides ==
  ASSUME GraphInv, NEW f \in GraphFacts, Bare(graph, f), ByHand(f) = {}, NEW cands,
         NEW c, DecisionOK(c), cands \subseteq Linkable(graph),
         \A m \in cands : Admits(TurnOf[f], m), Pipeline(f, cands, c)
  PROVE  \E g : Decided(f, g)
<1>. USE DEF Judged
<1>1. CASE \E m \in cands : Judged(f, Placed(graph, f, m, "pipeline"), c) /\ UNCHANGED judged
  <2>1. PICK m \in cands : Judged(f, Placed(graph, f, m, "pipeline"), c) /\ UNCHANGED judged
    BY <1>1
  <2>2. m \in Matters /\ Admits(TurnOf[f], m) /\ "pipeline" \in Vias
    BY DEF Linkable, Vias
  <2>3. Attributes(f, Placed(graph, f, m, "pipeline"))
    BY <2>2, PlacedAttributes
  <2>. QED  BY <2>1, <2>3 DEF Decided, GraphInv, Shapes
<1>2. CASE Judged(f, Fallback(f), FallbackMade(f, c)) /\ UNCHANGED judged
  <2>1. Attributes(f, Fallback(f))
    BY FallbackAttributes
  <2>2. DecisionOK(FallbackMade(f, c))
    BY FallbackMadeIsOK
  <2>. QED  BY <1>2, <2>1, <2>2 DEF Decided, GraphInv, Shapes
<1>3. CASE judged[f] # Nowhere /\ FromJournal(f, cands, c)
  BY <1>3, JournalDecides
<1>4. CASE ByModel(f, cands, c)
  BY <1>4, ModelDecides
<1>. QED  BY <1>1, <1>2, <1>3, <1>4 DEF Pipeline

LEMMA FactDecides ==
  ASSUME GraphInv, NEW f \in GraphFacts, Bare(graph, f), Decide(f)
  PROVE  \E g : Decided(f, g)
<1>1. PICK c \in IF ctx.turn = TurnOf[f] THEN {ctx} ELSE Decisions(ctx, TurnOf[f]) :
         \/ /\ Continues(f, c)
            /\ Attributed(f, Placed(graph, f, c.to, "cont"))
            /\ ctx' = c /\ UNCHANGED <<judged, left>>
         \/ /\ ByHand(f) # {}
            /\ Attributed(f, KeepByHand(f))
            /\ ctx' = c /\ UNCHANGED <<judged, left>>
         \/ /\ ByHand(f) = {} /\ ~Continues(f, c)
            /\ \E found \in SUBSET (Linkable(graph) \ c.made) :
                 LET cands == {m \in found \cup (c.made \cap Linkable(graph)) :
                                 Admits(TurnOf[f], m)}
                 IN Pipeline(f, cands, c)
  BY DEF Decide
<1>2. DecisionOK(c)
  <2>1. CASE ctx.turn = TurnOf[f]
    BY <1>1, <2>1 DEF GraphInv, Shapes, DecisionOK
  <2>2. CASE ctx.turn # TurnOf[f]
    <3>1. c \in Decisions(ctx, TurnOf[f])
      BY <1>1, <2>2
    <3>. QED  BY <3>1, DecisionsAreOK, FactsHaveTurns DEF GraphInv
  <2>. QED  BY <2>1, <2>2
<1>3. judged \in [GraphFacts -> Matters \cup {Nowhere, None, Uncertain}]
  BY DEF GraphInv, Shapes
<1>4. CASE Continues(f, c) /\ Attributed(f, Placed(graph, f, c.to, "cont"))
           /\ ctx' = c /\ UNCHANGED judged
  <2>1. Attributes(f, Placed(graph, f, c.to, "cont"))
    BY <1>2, <1>4, PlacedAttributes DEF Continues, DecisionOK, Vias
  <2>. QED  BY <1>2, <1>3, <1>4, <2>1 DEF Decided
<1>5. CASE ByHand(f) # {} /\ Attributed(f, KeepByHand(f)) /\ ctx' = c /\ UNCHANGED judged
  <2>1. Attributes(f, KeepByHand(f))
    BY <1>5, KeepingAttributes
  <2>. QED  BY <1>2, <1>3, <1>5, <2>1 DEF Decided
<1>6. ASSUME ByHand(f) = {}, NEW found \in SUBSET (Linkable(graph) \ c.made),
             Pipeline(f, {m \in found \cup (c.made \cap Linkable(graph)) : Admits(TurnOf[f], m)}, c)
      PROVE  \E g : Decided(f, g)
  <2>. DEFINE cands == {m \in found \cup (c.made \cap Linkable(graph)) : Admits(TurnOf[f], m)}
  <2>1. cands \subseteq Linkable(graph) /\ (\A m \in cands : Admits(TurnOf[f], m))
        /\ Pipeline(f, cands, c)
    BY <1>6
  <2>. HIDE DEF cands
  <2>. QED  BY <1>2, <1>6, <2>1, PipelineDecides
<1>. QED  BY <1>1, <1>4, <1>5, <1>6

LEMMA AnchorDecides ==
  ASSUME GraphInv, NEW f \in GraphFacts, Bare(graph, f), ToAnchor(f)
  PROVE  \E g : Decided(f, g)
<1>. DEFINE m == Anchor(LedgerOf[TurnOf[f]])
<1>1. TurnOf[f] \in Turns /\ LedgerOf[TurnOf[f]] \in Ledgers
  BY FactsHaveTurns, MatterGraphAssumption DEF MatterGraphAssumption, ToAnchor
<1>2. m \in Matters /\ Admits(TurnOf[f], m) /\ "anchor" \in Vias
  BY <1>1, Names DEF ToAnchor, Admits, Vias
<1>3. Attributed(f, Placed(graph, f, m, "anchor")) /\ judged' = judged /\ ctx' = ctx
  BY DEF ToAnchor, journals
<1>. HIDE DEF m
<1>4. Attributes(f, Placed(graph, f, m, "anchor"))
  BY <1>2, PlacedAttributes DEF ToAnchor
<1>. QED  BY <1>3, <1>4 DEF Decided, GraphInv, Shapes, DecisionOK

LEMMA AsideDecides ==
  ASSUME GraphInv, NEW f \in GraphFacts, KeepAside(f)
  PROVE  \E g : Decided(f, g)
<1>1. f \in Aside /\ ~Held(graph, f) /\ Attributed(f, graph) /\ judged' = judged /\ ctx' = ctx
  BY ByHandIsHeld DEF KeepAside, KeptAside, journals
<1>2. Attributes(f, graph)
  BY <1>1 DEF GraphInv, Attributes, Outlives
<1>. QED  BY <1>1, <1>2 DEF Decided, GraphInv, Shapes, DecisionOK

LEMMA AttributeKeeps == GraphInv /\ Attribute => GraphInv'
<1>. SUFFICES ASSUME GraphInv, Attribute PROVE GraphInv'
  OBVIOUS
<1>. DEFINE f == Head(queue)
<1>1. /\ phase # "idle" /\ queue # <<>>
      /\ \/ KeepAside(f)
         \/ /\ ~KeptAside(f)
            /\ \/ ToAnchor(f)
               \/ Decide(f)
  BY DEF Attribute
<1>2. /\ f \in GraphFacts /\ f \in Range(queue) /\ Tail(queue) \in Seq(GraphFacts)
      /\ Distinct(Tail(queue))
  BY <1>1, Popping DEF GraphInv, Shapes
<1>3. Bare(graph, f)
  BY <1>2 DEF GraphInv, WaitingAreBare
<1>. HIDE DEF f
<1>4. PICK g : Decided(f, g)
  BY <1>1, <1>2, <1>3, FactDecides, AnchorDecides, AsideDecides
<1>5. stream' \in [Turns -> Matters \cup {Nowhere}]
  <2>1. stream' \in {stream, Finalized(ctx)}
    BY <1>1 DEF KeepAside, ToAnchor, Decide, journals
  <2>. QED  BY <2>1, FinalizedIsJournal DEF GraphInv, Shapes
<1>6. Shapes'
  <2>1. /\ events' = events /\ replayed' = replayed /\ marked' = marked /\ phase' = phase
        /\ rebuilt' = rebuilt /\ queue' = Tail(queue)
    BY <1>4 DEF Decided, Attributed
  <2>. QED
    BY <1>1, <1>2, <1>4, <1>5, <2>1 DEF Shapes, GraphInv, Decided, DecisionOK, Distinct
<1>7. f \in Aside => Bare(g, f)
  <2>1. CASE KeepAside(f)
    <3>1. graph' = graph /\ graph' = g
      BY <1>4, <2>1 DEF KeepAside, Decided, Attributed
    <3>. QED  BY <1>3, <3>1
  <2>2. CASE ~KeptAside(f)
    BY <1>4, <2>2, ByHandIsHeld DEF KeptAside, Decided, Attributes
  <2>. QED  BY <1>1, <2>1, <2>2
<1>. QED  BY <1>1, <1>4, <1>6, <1>7, AttributedKeeps DEF Decided, f

-----------------------------------------------------------------------------
(* The beginning of a round. *)

LEMMA NothingWaits == Range(<<>>) = {}
  BY DEF Range

\* The graph a round begins with: what was replayed, the facts of its turns, the cards.
LEMMA Loading ==
  ASSUME NEW g, Sound(g), NEW S, S \subseteq GraphFacts
  PROVE  LET h == Premade(Added(g, S)) IN
         /\ Sound(h) /\ h.has = g.has \cup S
         /\ \A f : (Bare(h, f) <=> Bare(g, f)) /\ (Held(h, f) <=> Held(g, f))
                   /\ (Linked(h, f) <=> Linked(g, f))
<1>. DEFINE a == Added(g, S)
            h == Premade(a)
<1>1. g \in Graphs
  BY DEF Sound
<1>2. a.has = g.has \cup S /\ a.edges = g.edges /\ a.status = g.status
  BY <1>1 DEF Added, Graphs
<1>3. a \in Graphs
  <2>1. g.has \cup S \in SUBSET GraphFacts
    BY <1>1 DEF Graphs
  <2>2. [f \in GraphFacts |-> IF f \in S THEN Nowhere ELSE g.of[f]]
           \in [GraphFacts -> Matters \cup {Nowhere}]
    BY <1>1 DEF Graphs
  <2>. QED  BY <1>1, <2>1, <2>2 DEF Added, Graphs
<1>. HIDE DEF a
<1>4. h.has = a.has /\ h.edges = a.edges
      /\ h.status = [m \in Matters |->
                        IF m \in Anchors /\ a.status[m] = "none" THEN "active" ELSE a.status[m]]
  BY <1>3 DEF Premade, Graphs
<1>5. h \in Graphs
  <2>1. h.status \in [Matters -> Cards]
    BY <1>3, <1>4 DEF Graphs, Cards
  <2>. QED  BY <1>3, <2>1, <1>4 DEF Premade, Graphs
<1>. HIDE DEF h
<1>6. \A m \in Matters : Exists(g, m) => Exists(h, m)
  BY <1>2, <1>4 DEF Exists
<1>7. \A e \in h.edges : EdgeSound(h, e)
  BY <1>2, <1>4, <1>6 DEF Sound, EdgeSound, Exists
<1>8. Sound(h)
  BY <1>2, <1>4, <1>5, <1>7 DEF Sound
<1>. QED  BY <1>2, <1>4, <1>8 DEF Bare, Held, Linked, h, a

\* Facts to be stored, in the order they are attributed in.
LEMMA Queueing ==
  ASSUME NEW S, S \subseteq GraphFacts
  PROVE  Sorted(S) \in Seq(GraphFacts) /\ Range(Sorted(S)) = S /\ Distinct(Sorted(S))
<1>. DEFINE s == Sorted(S)
<1>1. S \subseteq Nat /\ IsFiniteSet(S)
  BY FactNumbers, FS_Subset, MatterGraphAssumption DEF MatterGraphAssumption
<1>2. s \in Seq(S) /\ Range(s) = S /\ \A i, j \in 1 .. Len(s) : i < j => s[i] < s[j]
  BY <1>1, SortedLists
<1>. HIDE DEF s
<1>3. \A i \in 1 .. Len(s) : s[i] \in Nat
  <2>1. \A i \in 1 .. Len(s) : s[i] \in S
    BY <1>2
  <2>. QED  BY <1>1, <2>1
<1>4. Distinct(s)
  BY <1>2, <1>3 DEF Distinct
<1>. QED  BY <1>2, <1>4 DEF s

LEMMA LocalsAtBegin ==
  ASSUME NEW g
  PROVE  DecisionOK([NoCtx EXCEPT !.made = NewAnchors(g)])
<1>1. NewAnchors(g) \in SUBSET Matters
  BY Names DEF NewAnchors
<1>. QED  BY <1>1 DEF DecisionOK, NoCtx, Ctxs, Kind

LEMMA RoundKeeps == GraphInv /\ Round => GraphInv'
<1>. SUFFICES ASSUME GraphInv, Round PROVE GraphInv'
  OBVIOUS
<1>1. PICK last \in Turns \ marked :
         LET turns == {t \in Turns \ marked : t <= last}
             g == ApplyEvents(graph, SubSeq(events, replayed + 1, Len(events)), forgotten)
             S == Fresh(g, {f \in GraphFacts : TurnOf[f] \in turns})
         IN /\ graph' = Premade(Added(g, S))
            /\ lost' = lost \cup (g.has \ graph.has)
            /\ queue' = Sorted(S)
            /\ ctx' = [NoCtx EXCEPT !.made = NewAnchors(g)]
            /\ marked' = marked \cup turns
  BY DEF Round
<1>. DEFINE turns == {t \in Turns \ marked : t <= last}
            evs == SubSeq(events, replayed + 1, Len(events))
            g == ApplyEvents(graph, evs, forgotten)
            S == Fresh(g, {f \in GraphFacts : TurnOf[f] \in turns})
<1>2. /\ graph' = Premade(Added(g, S)) /\ queue' = Sorted(S)
      /\ lost' = lost \cup (g.has \ graph.has)
      /\ ctx' = [NoCtx EXCEPT !.made = NewAnchors(g)] /\ marked' = marked \cup turns
  BY <1>1
<1>3. /\ phase = "idle" /\ replayed' = Len(events) /\ phase' = "round" /\ rebuilt' = FALSE
      /\ judged' = judged /\ stream' = stream /\ events' = events
  BY DEF Round, journals
<1>4. /\ events \in Seq(UserEvents) /\ Len(events) \in Nat /\ replayed \in 0 .. Len(events)
      /\ Range(queue) = {} /\ marked \subseteq Turns
  BY <1>3, NothingWaits DEF GraphInv, Shapes
<1>5. /\ evs \in Seq(UserEvents) /\ Len(evs) = Len(events) - replayed
      /\ \A i \in 1 .. Len(evs) : /\ replayed + i \in 1 .. Len(events)
                                  /\ evs[i] = events[replayed + i]
  BY <1>4
<1>. HIDE DEF evs
<1>6. HandledBy(graph, g, evs, Len(evs))
  BY <1>5, EventsHandled DEF GraphInv
<1>. HIDE DEF g
<1>7. S \subseteq GraphFacts /\ S \cap g.has = {} /\ turns \subseteq Turns
  BY DEF Fresh
<1>. HIDE DEF turns
<1>. HIDE DEF S
<1>8. /\ Sound(graph') /\ graph'.has = g.has \cup S /\ graph.has \subseteq g.has
      /\ \A f : (Bare(graph', f) <=> Bare(g, f)) /\ (Linked(graph', f) <=> Linked(g, f))
  BY <1>2, <1>6, <1>7, Loading DEF HandledBy, Grows
<1>9. queue' \in Seq(GraphFacts) /\ Range(queue') = S /\ Distinct(queue')
  BY <1>2, <1>7, Queueing
<1>10. Shapes'
  <2>1. ctx' \in Ctxs /\ (ctx'.kind = "direct" => ctx'.to \in Matters)
    BY <1>2, LocalsAtBegin DEF DecisionOK
  <2>2. marked' \subseteq Turns /\ replayed' \in 0 .. Len(events')
    BY <1>2, <1>3, <1>4, <1>7
  <2>. QED  BY <1>3, <1>9, <2>1, <2>2 DEF GraphInv, Shapes, Distinct
<1>11. WaitingAreBare'
  <2>1. \A f \in GraphFacts : f \notin graph.has => Bare(g, f)
    BY <1>6 DEF HandledBy, GraphInv, WaitingAreBare
  <2>. QED  BY <1>7, <1>8, <1>9, <2>1 DEF WaitingAreBare
<1>12. AttributedAreLinked'
  <2>. SUFFICES ASSUME NEW f \in graph'.has \ (lost' \cup Range(queue') \cup Aside), ~Detached(f)'
                PROVE  Linked(graph', f)
    BY DEF AttributedAreLinked
  <2>1. f \in graph.has \ lost /\ ~Detached(f)
    BY <1>2, <1>3, <1>8, <1>9 DEF Detached
  <2>2. Linked(graph, f)
    BY <1>4, <2>1 DEF GraphInv, AttributedAreLinked
  <2>3. \A i \in 1 .. Len(evs) : ~Detaches(evs[i], f)
    BY <1>5, <2>1 DEF Detached
  <2>4. Linked(g, f)
    BY <1>6, <2>2, <2>3 DEF HandledBy
  <2>. QED  BY <1>8, <2>4
<1>13. AssignedAreHeld'
  BY <1>3 DEF AssignedAreHeld
<1>14. AsideAreBare'
  BY <1>6, <1>8 DEF GraphInv, AsideAreBare, HandledBy
<1>. QED  BY <1>8, <1>10, <1>11, <1>12, <1>13, <1>14 DEF GraphInv

LEMMA FullKeeps == GraphInv /\ Full => GraphInv'
<1>. SUFFICES ASSUME GraphInv, Full PROVE GraphInv'
  OBVIOUS
<1>. DEFINE bare == Cleared(graph)
            g == ApplyEvents(bare, events, forgotten)
            S == Fresh(g, GraphFacts)
<1>1. /\ graph' = Premade(Added(g, S)) /\ queue' = Sorted(S)
      /\ ctx' = [NoCtx EXCEPT !.made = NewAnchors(g)] /\ marked' = Turns
      /\ replayed' = Len(events) /\ phase' = "full" /\ rebuilt' = FALSE /\ lost' = g.has
      /\ judged' = judged /\ stream' = stream /\ events' = events
  BY DEF Full, journals
<1>2. events \in Seq(UserEvents) /\ Len(events) \in Nat
  BY DEF GraphInv, Shapes
<1>3. Sound(bare) /\ \A f : Bare(bare, f)
  BY CleanIsSound DEF GraphInv, Sound, Graphs, EdgeSound, Cleared, Clean, Bare
<1>. HIDE DEF bare
<1>4. HandledBy(bare, g, events, Len(events))
  BY <1>2, <1>3, EventsHandled
<1>5. S \subseteq GraphFacts /\ S \cap g.has = {} /\ Sound(g) /\ g.has \subseteq GraphFacts
  BY <1>4 DEF Fresh, HandledBy, Sound, Graphs
<1>. HIDE DEF g
<1>. HIDE DEF S
<1>6. /\ Sound(graph') /\ graph'.has = g.has \cup S
      /\ \A f : Bare(graph', f) /\ (Held(graph', f) <=> Held(g, f))
  BY <1>1, <1>3, <1>4, <1>5, Loading DEF HandledBy
<1>7. queue' \in Seq(GraphFacts) /\ Range(queue') = S /\ Distinct(queue')
  BY <1>1, <1>5, Queueing
<1>8. Shapes'
  <2>1. ctx' \in Ctxs /\ (ctx'.kind = "direct" => ctx'.to \in Matters)
    BY <1>1, LocalsAtBegin DEF DecisionOK
  <2>2. marked' \subseteq Turns /\ replayed' \in 0 .. Len(events')
    BY <1>1, <1>2
  <2>. QED  BY <1>1, <1>7, <2>1, <2>2 DEF GraphInv, Shapes, Distinct
<1>9. WaitingAreBare' /\ AttributedAreLinked' /\ AsideAreBare'
  BY <1>1, <1>6, <1>7 DEF WaitingAreBare, AttributedAreLinked, AsideAreBare
<1>10. AssignedAreHeld'
  <2>1. \A f : AssignedBy(events, Len(events), f) => Held(graph', f) /\ Bare(graph', f)
    BY <1>4, <1>6 DEF HandledBy
  <2>. QED  BY <1>1, <2>1 DEF AssignedAreHeld
<1>. QED  BY <1>6, <1>8, <1>9, <1>10 DEF GraphInv

-----------------------------------------------------------------------------
(* The other steps. *)

LEMMA RaisesKeeps == GraphInv /\ AttributeRaises => GraphInv'
<1>. SUFFICES ASSUME GraphInv, AttributeRaises PROVE GraphInv'
  OBVIOUS
<1>1. /\ queue # <<>> /\ phase # "idle" /\ lost' = lost \cup {Head(queue)}
      /\ queue' = Tail(queue) /\ graph' = graph /\ judged' = judged /\ stream' = stream
      /\ events' = events /\ replayed' = replayed /\ marked' = marked /\ ctx' = ctx
      /\ phase' = phase /\ rebuilt' = rebuilt
  BY DEF AttributeRaises, journals
<1>2. /\ queue' \in Seq(GraphFacts) /\ Distinct(queue')
      /\ Range(queue) = Range(queue') \cup {Head(queue)}
  BY <1>1, Popping DEF GraphInv, Shapes
<1>3. Shapes'
  BY <1>1, <1>2 DEF GraphInv, Shapes, Distinct
<1>4. WaitingAreBare' /\ AsideAreBare' /\ AssignedAreHeld'
  BY <1>1, <1>2 DEF GraphInv, WaitingAreBare, AsideAreBare, AssignedAreHeld
<1>5. AttributedAreLinked'
  BY <1>1, <1>2 DEF GraphInv, AttributedAreLinked, Detached
<1>. QED  BY <1>1, <1>3, <1>4, <1>5 DEF GraphInv

LEMMA EndKeeps == GraphInv /\ RoundEnds => GraphInv'
<1>. SUFFICES ASSUME GraphInv, RoundEnds PROVE GraphInv'
  OBVIOUS
<1>1. /\ queue = <<>> /\ queue' = queue /\ phase # "idle" /\ phase' = "idle" /\ ctx' = NoCtx
      /\ rebuilt' = (phase = "full") /\ judged' = judged /\ stream' = Finalized(ctx)
      /\ events' = events /\ replayed' = replayed /\ marked' = marked /\ lost' = lost
      /\ graph' = Digest(graph)
  BY DEF RoundEnds
<1>2. Digested(graph, graph')
  BY <1>1, Digesting DEF GraphInv
<1>3. stream' \in [Turns -> Matters \cup {Nowhere}]
  BY <1>1, FinalizedIsJournal DEF GraphInv
<1>4. NoCtx \in Ctxs /\ NoCtx.kind = "none"
  BY DEF NoCtx, Ctxs, Kind
<1>5. Shapes'
  BY <1>1, <1>3, <1>4 DEF GraphInv, Shapes, Distinct
<1>6. WaitingAreBare' /\ AttributedAreLinked'
  BY <1>1, <1>2 DEF GraphInv, WaitingAreBare, AttributedAreLinked, Detached, Digested, Outlives
<1>7. AssignedAreHeld' /\ AsideAreBare'
  BY <1>1, <1>2 DEF GraphInv, AssignedAreHeld, AsideAreBare, Digested, Outlives
<1>. QED  BY <1>2, <1>5, <1>6, <1>7 DEF GraphInv, Digested

LEMMA DiesKeeps == GraphInv /\ Dies => GraphInv'
<1>. SUFFICES ASSUME GraphInv, Dies PROVE GraphInv'
  OBVIOUS
<1>1. /\ lost' = lost \cup Range(queue) /\ queue' = <<>> /\ ctx' = NoCtx /\ phase' = "idle"
      /\ rebuilt' = FALSE /\ graph' = graph /\ judged' = judged /\ stream' = stream
      /\ events' = events /\ replayed' = replayed /\ marked' = marked
  BY DEF Dies, journals
<1>2. NoCtx \in Ctxs /\ NoCtx.kind = "none"
  BY DEF NoCtx, Ctxs, Kind
<1>3. queue' \in Seq(GraphFacts) /\ Distinct(queue')
  BY <1>1 DEF Distinct
<1>4. Shapes'
  BY <1>1, <1>2, <1>3 DEF GraphInv, Shapes, Distinct
<1>5. WaitingAreBare'
  BY <1>1, NothingWaits DEF GraphInv, WaitingAreBare
<1>6. AttributedAreLinked' /\ AsideAreBare' /\ AssignedAreHeld'
  BY <1>1, NothingWaits
     DEF GraphInv, AttributedAreLinked, AsideAreBare, AssignedAreHeld, Detached
<1>. QED  BY <1>1, <1>4, <1>5, <1>6 DEF GraphInv

LEMMA UserKeeps == GraphInv /\ User => GraphInv'
<1>. SUFFICES ASSUME GraphInv, User PROVE GraphInv'
  OBVIOUS
<1>1. PICK ev \in UserEvents :
         /\ events' = Append(events, ev) /\ Shown(ev)
         /\ \/ phase = "idle" /\ graph' = ApplyEvent(graph, ev, {})
            \/ UNCHANGED graph
  BY DEF User
<1>2. /\ rebuilt' = FALSE /\ judged' = judged /\ stream' = stream /\ replayed' = replayed
      /\ marked' = marked /\ queue' = queue /\ ctx' = ctx /\ phase' = phase /\ lost' = lost
  BY DEF User, journals
<1>3. events \in Seq(UserEvents) /\ Len(events) \in Nat /\ replayed \in 0 .. Len(events)
  BY DEF GraphInv, Shapes
<1>4. /\ events' \in Seq(UserEvents) /\ Len(events') = Len(events) + 1
      /\ events'[Len(events) + 1] = ev
      /\ \A i \in 1 .. Len(events) : events'[i] = events[i]
  BY <1>1, <1>3
<1>5. Shapes'
  <2>1. replayed' \in 0 .. Len(events')
    BY <1>2, <1>3, <1>4
  <2>. QED  BY <1>2, <1>4, <2>1 DEF GraphInv, Shapes, Distinct
<1>6. /\ Sound(graph') /\ graph'.has = graph.has
      /\ \A f : Bare(graph, f) => Bare(graph', f)
      /\ \A f : ~Detaches(ev, f) => (Linked(graph, f) => Linked(graph', f))
  <2>1. CASE graph' = ApplyEvent(graph, ev, {})
    <3>1. Handled(graph, graph', ev)
      BY <2>1, EventHandled DEF GraphInv
    <3>2. ev.type = "correct" => ev.fact \in graph.has
      BY <1>1 DEF Shown
    <3>. QED  BY <3>1, <3>2 DEF Handled, Outlives
  <2>2. CASE UNCHANGED graph
    BY <2>2 DEF GraphInv
  <2>. QED  BY <1>1, <2>1, <2>2
<1>7. WaitingAreBare'
  BY <1>2, <1>6 DEF GraphInv, WaitingAreBare
<1>8. AttributedAreLinked'
  <2>. SUFFICES ASSUME NEW f \in graph'.has \ (lost' \cup Range(queue') \cup Aside), ~Detached(f)'
                PROVE  Linked(graph', f)
    BY DEF AttributedAreLinked
  <2>1. \A i \in 1 .. Len(events) + 1 : ~Detaches(events'[i], f)
    BY <1>4 DEF Detached
  <2>2. ~Detached(f) /\ ~Detaches(ev, f)
    BY <1>3, <1>4, <2>1 DEF Detached
  <2>. QED  BY <1>2, <1>6, <2>2 DEF GraphInv, AttributedAreLinked
<1>9. AssignedAreHeld'
  <2>1. replayed' # Len(events')
    BY <1>2, <1>3, <1>4
  <2>. QED  BY <2>1 DEF AssignedAreHeld
<1>10. AsideAreBare'
  BY <1>6 DEF GraphInv, AsideAreBare
<1>. QED  BY <1>5, <1>6, <1>7, <1>8, <1>9, <1>10 DEF GraphInv

LEMMA ForgetKeeps == GraphInv /\ ForgetFact => GraphInv'
<1>. SUFFICES ASSUME GraphInv, ForgetFact PROVE GraphInv'
  OBVIOUS
<1>1. PICK f \in graph.has :
         graph' = [graph EXCEPT !.has = @ \ {f}, !.of[f] = Nowhere,
                                !.edges = {e \in @ : e.fact # f}]
  BY DEF ForgetFact
<1>2. /\ rebuilt' = rebuilt /\ judged' = judged /\ stream' = stream /\ replayed' = replayed
      /\ marked' = marked /\ queue' = queue /\ ctx' = ctx /\ phase' = phase /\ lost' = lost
      /\ events' = events /\ phase = "idle"
  BY DEF ForgetFact, journals
<1>3. graph \in Graphs
  BY DEF GraphInv, Sound
<1>4. /\ graph'.has = graph.has \ {f} /\ graph'.status = graph.status
      /\ graph'.edges = {e \in graph.edges : e.fact # f}
  BY <1>1, <1>3 DEF Graphs
<1>5. graph' \in Graphs
  BY <1>1, <1>3 DEF Graphs
<1>6. Sound(graph')
  BY <1>4, <1>5 DEF GraphInv, Sound, EdgeSound, Exists
<1>7. \A x : x # f => (Bare(graph', x) <=> Bare(graph, x)) /\ (Held(graph', x) <=> Held(graph, x))
                      /\ (Linked(graph', x) <=> Linked(graph, x))
  BY <1>4 DEF Bare, Held, Linked
<1>8. Bare(graph', f)
  BY <1>4 DEF Bare
<1>9. Range(queue) = {}
  BY <1>2, NothingWaits DEF GraphInv, Shapes
<1>10. Shapes'
  BY <1>2 DEF GraphInv, Shapes, Distinct
<1>11. WaitingAreBare'
  BY <1>2, <1>4, <1>7, <1>8, <1>9 DEF GraphInv, WaitingAreBare
<1>12. AttributedAreLinked' /\ AsideAreBare' /\ AssignedAreHeld'
  BY <1>2, <1>4, <1>7, <1>8
     DEF GraphInv, AttributedAreLinked, AsideAreBare, AssignedAreHeld, Detached
<1>. QED  BY <1>6, <1>10, <1>11, <1>12 DEF GraphInv

LEMMA GraphStutters == GraphInv /\ UNCHANGED graphVars => GraphInv'
<1>. SUFFICES ASSUME GraphInv, UNCHANGED graphVars PROVE GraphInv'
  OBVIOUS
<1>1. /\ graph' = graph /\ rebuilt' = rebuilt /\ judged' = judged /\ stream' = stream
      /\ replayed' = replayed /\ marked' = marked /\ queue' = queue /\ ctx' = ctx
      /\ phase' = phase /\ lost' = lost /\ events' = events
  BY DEF graphVars, journals
<1>. QED  BY <1>1 DEF GraphInv, Shapes, Distinct, WaitingAreBare, AttributedAreLinked,
                     AsideAreBare, AssignedAreHeld, Detached

LEMMA InvStep == GraphInv /\ [GraphNext]_graphVars => GraphInv'
  BY RoundKeeps, FullKeeps, AttributeKeeps, RaisesKeeps, EndKeeps, DiesKeeps, UserKeeps,
     ForgetKeeps, GraphStutters DEF GraphNext

\* What is known of the graph, the queue and the journals in every state: the edges are
\* sound, what waits has no automatic edge, what was attributed has an edge, and what was
\* assigned before a full rebuild began is where the user put it.
THEOREM GraphInvariant == GraphSpec => []GraphInv
<1>1. GraphInit => GraphInv
  BY InvInit
<1>2. GraphInv /\ [GraphNext]_graphVars => GraphInv'
  BY InvStep
<1>. QED  BY <1>1, <1>2, PTL DEF GraphSpec

-----------------------------------------------------------------------------
(* What follows from it. *)

\* The graph, both journals and the watermark have their types; one edge lies under a key
\* (add_edge overwrites, merge and split keep the key).
THEOREM GraphTypeCorrect == GraphSpec => []GraphTypeOK
<1>1. GraphInv => GraphTypeOK
  <2>1. GraphInv => /\ graph \in Graphs
                    /\ \A e, x \in graph.edges : e.home = x.home /\ e.fact = x.fact => e = x
    BY DEF GraphInv, Sound
  <2>. QED  BY <2>1 DEF GraphInv, Shapes, Graphs, Cards, EdgeRecs, Places, Vias, GraphTypeOK
<1>. QED  BY <1>1, GraphInvariant, PTL

\* An automatic edge hangs on a card that exists and that admits the fact (_stale_target,
\* ledger_gate), on every path of attribution and through every operation of the user.
THEOREM EdgesAreAdmitted == GraphSpec => []EdgesAdmitted
<1>1. GraphInv => EdgesAdmitted
  BY DEF GraphInv, Sound, EdgeSound, EdgesAdmitted, AutoEdgesResolve, GateHolds, Gated
<1>. QED  BY <1>1, GraphInvariant, PTL

LEMMA AutomaticIsOne ==
  ASSUME Sound(graph), NEW f
  PROVE  Cardinality(Automatic(f)) <= 1
<1>1. CASE Automatic(f) = {}
  BY <1>1, FS_EmptySet
<1>2. CASE Automatic(f) # {}
  <2>1. PICK e : e \in Automatic(f)
    BY <1>2
  <2>2. Automatic(f) = {e}
    BY <2>1 DEF Automatic, Sound
  <2>3. IsFiniteSet({e}) /\ Cardinality({e}) = 1
    BY FS_Singleton
  <2>. QED  BY <2>2, <2>3
<1>. QED  BY <1>1, <1>2

\* Between rounds a stored fact is in one place, unless it was detached or its attribution
\* lost, and a fact of lane profile or tool nowhere but where the user put it
\* (rebuild_from_hub with its lane split, digest_unassigned_pool).
THEOREM FactsStayPlaced == GraphSpec => []FactsArePlaced
<1>1. GraphInv => FactsArePlaced
  <2>. SUFFICES ASSUME GraphInv, phase = "idle", NEW f \in graph.has
                PROVE  /\ Cardinality(Automatic(f)) <= 1
                       /\ f \in Aside => Automatic(f) = {}
                       /\ f \notin Aside \cup lost /\ Automatic(f) = {} =>
                            \/ ByHand(f) # {}
                            \/ \E i \in 1 .. Len(events) :
                                 events[i].type = "detach" /\ events[i].fact = f
    BY DEF FactsArePlaced
  <2>1. Range(queue) = {}
    BY NothingWaits DEF GraphInv, Shapes
  <2>2. f \notin Aside \cup lost => Linked(graph, f) \/ Detached(f)
    BY <2>1 DEF GraphInv, AttributedAreLinked
  <2>3. ASSUME Linked(graph, f) PROVE Automatic(f) # {} \/ ByHand(f) # {}
    BY <2>3 DEF Linked, Automatic, ByHand
  <2>4. f \in Aside => Automatic(f) = {}
    BY DEF GraphInv, AsideAreBare, Bare, Automatic
  <2>. QED  BY <2>2, <2>3, <2>4, AutomaticIsOne DEF GraphInv, Detached, Detaches
<1>. QED  BY <1>1, GraphInvariant, PTL

\* The last word of the user is an assignment that no later event takes back.
LEMMA LastWordStands ==
  ASSUME NEW f, Len(events) \in Nat, LastWord(f) = "assign"
  PROVE  AssignedBy(events, Len(events), f)
<1>. DEFINE said == {i \in 1 .. Len(events) :
                        events[i].type \in {"assign", "detach"} /\ events[i].fact = f}
            last == CHOOSE i \in said : \A j \in said : j <= i
<1>1. said # {} /\ events[last].type = "assign"
  BY DEF LastWord
<1>2. \E i \in said : \A j \in said : j <= i
  <2>. DEFINE T == {Len(events) - i : i \in said}
  <2>1. T \subseteq Nat /\ T # {}
    BY <1>1
  <2>2. PICK x \in T : \A y \in T : x <= y
    BY <2>1, LeastNat
  <2>3. PICK i \in said : x = Len(events) - i
    BY <2>2
  <2>4. \A j \in said : Len(events) - i <= Len(events) - j
    BY <2>2, <2>3
  <2>5. \A j \in said : j \in Nat /\ i \in Nat
    OBVIOUS
  <2>6. \A j \in said : j <= i
    BY <2>4, <2>5
  <2>. QED  BY <2>3, <2>6
<1>3. last \in said /\ \A j \in said : j <= last
  BY <1>2
<1>. HIDE DEF last
<1>4. ASSUME NEW j \in last + 1 .. Len(events) PROVE ~Detaches(events[j], f)
  <2>1. j \in 1 .. Len(events) /\ last < j /\ last \in Nat /\ j \in Nat
    BY <1>3
  <2>2. j \notin said
    BY <1>3, <2>1
  <2>. QED  BY <2>1, <2>2 DEF Detaches
<1>. QED  BY <1>1, <1>3, <1>4 DEF AssignedBy

\* A full rebuild keeps what the user assigned last (_replay_admin_events before the
\* attribution, get_manual_edge_for_target in it, and a digest that takes no such fact).
THEOREM AssignmentsStay == GraphSpec => []AssignmentsSurvive
<1>1. GraphInv => AssignmentsSurvive
  <2>. SUFFICES ASSUME GraphInv, rebuilt, replayed = Len(events), NEW f \in graph.has,
                       LastWord(f) = "assign"
                PROVE  ByHand(f) # {} /\ Automatic(f) = {}
    BY DEF AssignmentsSurvive
  <2>1. AssignedBy(events, Len(events), f)
    BY LastWordStands DEF GraphInv, Shapes
  <2>2. Held(graph, f) /\ Bare(graph, f)
    BY <2>1 DEF GraphInv, AssignedAreHeld
  <2>. QED  BY <2>2, ByHandIsHeld DEF Bare, Automatic
<1>. QED  BY <1>1, GraphInvariant, PTL
-----------------------------------------------------------------------------
(***************************************************************************)
(* Adjudication.  The locals of a full rebuild are followed from the first *)
(* candidate to the end.                                                   *)
(***************************************************************************)

Values == {Absent, Current} \cup Facts
VerdictOps == {"add", "update", "noop"}
Pledges == [candidate : Facts, targets : SUBSET Facts]
Recorded == [candidate : Facts, op : VerdictOps, targets : SUBSET Facts, changed : SUBSET Facts]
Rounds ==
    [full : BOOLEAN, batch : SUBSET Facts, todo : Seq(Facts), paid : Nat,
     obj : [Facts -> Values], pending : Seq(Facts), basket : [Facts -> SUBSET Facts],
     degraded : SUBSET Facts, kept : Seq(Facts), records : Seq(Recorded),
     stands : [Facts -> Facts \cup {0}]]
Steps == {"down", "idle", "fast", "settle", "clear", "store", "apply", "end"}

RoundTypes ==
    /\ hub \subseteq Facts /\ tombs \subseteq Facts
    /\ index \in [Facts -> Values] /\ ledger \in Seq(Pledges)
    /\ pc \in Steps /\ round \in Rounds

LEMMA FactFacts ==
    /\ Facts \subseteq Nat /\ IsFiniteSet(Facts) /\ Current \notin Facts /\ Absent \notin Facts
    /\ Current # Absent /\ 0 \notin Facts
<1>1. N \in Nat
  BY AdjudicationAssumption DEF AdjudicationAssumption
<1>. QED  BY <1>1, FS_Interval DEF Facts, Current, Absent

\* Elements of what is built from a sequence.
LEMMA Appending ==
  ASSUME NEW S, NEW s \in Seq(S), NEW x \in S
  PROVE  /\ Append(s, x) \in Seq(S) /\ Elements(Append(s, x)) = Elements(s) \cup {x}
         /\ (x \notin Elements(s) /\ Distinct(s) => Distinct(Append(s, x)))
<1>. DEFINE t == Append(s, x)
<1>1. /\ t \in Seq(S) /\ Len(t) = Len(s) + 1 /\ Len(s) \in Nat /\ t[Len(s) + 1] = x
      /\ DOMAIN t = 1 .. Len(s) + 1 /\ DOMAIN s = 1 .. Len(s)
      /\ \A i \in 1 .. Len(s) : t[i] = s[i]
  OBVIOUS
<1>. HIDE DEF t
<1>2. \A i \in 1 .. Len(s) + 1 : i \in 1 .. Len(s) \/ i = Len(s) + 1
  BY <1>1
<1>3. Elements(t) = Elements(s) \cup {x}
  <2>1. \A i \in DOMAIN t : t[i] \in Elements(s) \cup {x}
    BY <1>1, <1>2 DEF Elements
  <2>2. \A i \in DOMAIN s : i \in DOMAIN t /\ s[i] = t[i]
    BY <1>1
  <2>3. Len(s) + 1 \in DOMAIN t
    BY <1>1
  <2>. QED  BY <1>1, <2>1, <2>2, <2>3 DEF Elements
<1>4. ASSUME x \notin Elements(s), Distinct(s) PROVE Distinct(t)
  <2>1. \A i \in 1 .. Len(s) : s[i] # x
    BY <1>1, <1>4 DEF Elements
  <2>. QED  BY <1>1, <1>2, <1>4, <2>1 DEF Distinct
<1>. QED  BY <1>1, <1>3, <1>4 DEF t

LEMMA Taking ==
  ASSUME NEW S, NEW q \in Seq(S), q # <<>>, Distinct(q)
  PROVE  /\ Head(q) \in S /\ Head(q) \in Elements(q) /\ Tail(q) \in Seq(S) /\ Distinct(Tail(q))
         /\ Elements(Tail(q)) = Elements(q) \ {Head(q)}
<1>1. Range(q) = Elements(q) /\ Range(Tail(q)) = Elements(Tail(q))
  BY DEF Range, Elements
<1>. QED  BY <1>1, Popping

LEMMA NoElements == Elements(<<>>) = {}
  BY DEF Elements

LEMMA OrderIsList ==
  ASSUME NEW S, S \subseteq Nat, IsFiniteSet(S)
  PROVE  /\ InOrder(S) \in Seq(S) /\ Elements(InOrder(S)) = S /\ Distinct(InOrder(S))
<1>. DEFINE s == InOrder(S)
<1>1. s = Sorted(S)
  BY DEF InOrder, Sorted
<1>2. s \in Seq(S) /\ Range(s) = S /\ \A i, j \in 1 .. Len(s) : i < j => s[i] < s[j]
  BY <1>1, SortedLists
<1>. HIDE DEF s
<1>3. \A i \in 1 .. Len(s) : s[i] \in Nat
  <2>1. \A i \in 1 .. Len(s) : s[i] \in S
    BY <1>2
  <2>. QED  BY <2>1
<1>4. Distinct(s)
  BY <1>2, <1>3 DEF Distinct
<1>5. Elements(s) = S
  BY <1>2 DEF Range, Elements
<1>. QED  BY <1>2, <1>4, <1>5 DEF s

LEMMA BarringLists ==
  ASSUME NEW S, NEW s \in Seq(S), NEW T, Distinct(s)
  PROVE  /\ Barring(s, T) \in Seq(S) /\ Elements(Barring(s, T)) = Elements(s) \ T
         /\ Distinct(Barring(s, T))
<1>. DEFINE I == {i \in DOMAIN s : s[i] \notin T}
            at == InOrder(I)
            r == [k \in DOMAIN at |-> s[at[k]]]
<1>1. DOMAIN s = 1 .. Len(s) /\ Len(s) \in Nat
  OBVIOUS
<1>2. I \subseteq Nat /\ IsFiniteSet(I)
  <2>1. IsFiniteSet(1 .. Len(s)) /\ I \subseteq 1 .. Len(s)
    BY <1>1, FS_Interval
  <2>. QED  BY <1>1, <2>1, FS_Subset
<1>3. I \subseteq DOMAIN s /\ \A i \in I : s[i] \in S /\ s[i] \notin T
  BY <1>1
<1>4. \A i \in DOMAIN s : s[i] \notin T => i \in I
  OBVIOUS
<1>. HIDE DEF I
<1>5. at \in Seq(I) /\ Elements(at) = I /\ Distinct(at)
  BY <1>2, OrderIsList
<1>6. Barring(s, T) = r
  BY DEF Barring, I
<1>. HIDE DEF at
<1>7. DOMAIN at = 1 .. Len(at) /\ Len(at) \in Nat /\ \A k \in 1 .. Len(at) : at[k] \in I
  BY <1>5
<1>8. r \in Seq(S) /\ Len(r) = Len(at) /\ DOMAIN r = 1 .. Len(at)
  BY <1>3, <1>7
<1>9. \A k \in 1 .. Len(at) : r[k] = s[at[k]]
  BY <1>7
<1>. HIDE DEF r
<1>10. Elements(r) = Elements(s) \ T
  <2>1. \A k \in DOMAIN r : r[k] \in Elements(s) \ T
    BY <1>3, <1>7, <1>8, <1>9 DEF Elements
  <2>2. ASSUME NEW i \in DOMAIN s, s[i] \notin T PROVE s[i] \in Elements(r)
    <3>1. i \in Elements(at)
      BY <1>4, <1>5, <2>2
    <3>2. PICK k \in 1 .. Len(at) : at[k] = i
      BY <1>7, <3>1 DEF Elements
    <3>. QED  BY <1>8, <1>9, <3>2 DEF Elements
  <2>. QED  BY <2>1, <2>2 DEF Elements
<1>11. Distinct(r)
  <2>1. \A j, k \in 1 .. Len(at) : j # k => at[j] # at[k]
    BY <1>5 DEF Distinct
  <2>2. \A k \in 1 .. Len(at) : at[k] \in 1 .. Len(s)
    BY <1>1, <1>3, <1>7
  <2>. QED  BY <1>8, <1>9, <2>1, <2>2 DEF Distinct
<1>. QED  BY <1>6, <1>8, <1>10, <1>11

-----------------------------------------------------------------------------
(* What a verdict makes of the locals of a round. *)

\* The facts that are objects of the round.
Objects(r) == {f \in Facts : r.obj[f] # Absent}
Found(r, verdict) == {t \in verdict.targets : r.obj[t] # Absent} \ Elements(r.pending)

\* What every verdict leaves alone.
SameRound(r, h) ==
    /\ h \in Rounds
    /\ h.full = r.full /\ h.batch = r.batch /\ h.todo = r.todo /\ h.paid = r.paid
    /\ h.pending = r.pending /\ h.basket = r.basket

\* The candidate is dropped, or kept and what it supersedes is named.
Drops(r, h, f, verdict) ==
    \E t \in Found(r, verdict) :
        /\ h.obj = r.obj /\ h.kept = r.kept /\ h.stands = [r.stands EXCEPT ![f] = t]
        /\ h.records = Append(r.records, Record(f, verdict, Found(r, verdict)))
Keeps(r, h, f, verdict, newly) ==
    /\ h.obj = [t \in Facts |-> IF t = f THEN Current ELSE IF t \in newly THEN f ELSE r.obj[t]]
    /\ h.kept = Append(r.kept, f) /\ h.stands = r.stands
    /\ h.records = Append(r.records, Record(f, verdict, newly))

LEMMA VerdictApplied ==
  ASSUME NEW r \in Rounds, NEW f \in Facts, NEW verdict,
         verdict.op \in VerdictOps, verdict.targets \in SUBSET Facts
  PROVE  LET h == Applied(r, f, verdict) IN
         /\ SameRound(r, h)
         /\ \/ verdict.op = "noop" /\ Found(r, verdict) # {} /\ Drops(r, h, f, verdict)
            \/ /\ verdict.op = "update" /\ Found(r, verdict) # {}
               /\ Keeps(r, h, f, verdict, {t \in Found(r, verdict) : r.obj[t] = Current})
            \/ /\ verdict.op = "add" \/ Found(r, verdict) = {}
               /\ Keeps(r, h, f, verdict, {})
<1>. DEFINE h == Applied(r, f, verdict)
            found == Found(r, verdict)
            newly == {t \in found : r.obj[t] = Current}
<1>1. found \in SUBSET Facts
  BY DEF Found
<1>2. \A S \in SUBSET Facts : Record(f, verdict, S) \in Recorded
  BY DEF Record, Recorded
<1>3. \A S \in SUBSET Facts : Append(r.records, Record(f, verdict, S)) \in Seq(Recorded)
  BY <1>2 DEF Rounds
<1>4. Append(r.kept, f) \in Seq(Facts)
  BY DEF Rounds
<1>5. CASE verdict.op = "noop" /\ found # {}
  <2>. DEFINE t == CHOOSE t \in found : TRUE
              records == Append(r.records, Record(f, verdict, found))
              stands1 == [r.stands EXCEPT ![f] = t]
  <2>1. h = [r EXCEPT !.stands[f] = t, !.records = records]
    BY <1>5 DEF Applied, Found
  <2>2. t \in found
    BY <1>5
  <2>3. records \in Seq(Recorded) /\ stands1 \in [Facts -> Facts \cup {0}]
    BY <1>1, <1>3, <2>2 DEF Rounds
  <2>. HIDE DEF t
  <2>4. h = [r EXCEPT !.stands = stands1, !.records = records]
    BY <2>1 DEF Rounds
  <2>. HIDE DEF records, h, stands1
  <2>5. SameRound(r, h) /\ h.obj = r.obj /\ h.kept = r.kept /\ h.stands = stands1
        /\ h.records = records
    BY <2>3, <2>4 DEF SameRound, Rounds
  <2>6. Drops(r, h, f, verdict)
    BY <2>2, <2>5 DEF Drops, records, stands1
  <2>. QED  BY <1>5, <2>5, <2>6 DEF h
<1>6. CASE verdict.op = "update" /\ found # {}
  <2>. DEFINE obj == [t \in Facts |-> IF t = f THEN Current ELSE IF t \in newly THEN f ELSE r.obj[t]]
              kept == Append(r.kept, f)
              records == Append(r.records, Record(f, verdict, newly))
  <2>1. h = [r EXCEPT !.obj = obj, !.kept = kept, !.records = records]
    BY <1>6 DEF Applied, Found
  <2>2. obj \in [Facts -> Values] /\ kept \in Seq(Facts) /\ records \in Seq(Recorded)
    BY <1>1, <1>3, <1>4 DEF Rounds, Values
  <2>. HIDE DEF obj, kept, records, h
  <2>3. SameRound(r, h) /\ h.obj = obj /\ h.kept = kept /\ h.stands = r.stands
        /\ h.records = records
    BY <2>1, <2>2 DEF SameRound, Rounds
  <2>4. Keeps(r, h, f, verdict, newly)
    BY <2>3 DEF Keeps, obj, kept, records
  <2>. QED  BY <1>6, <2>3, <2>4 DEF h
<1>7. CASE ~(verdict.op = "noop" /\ found # {}) /\ ~(verdict.op = "update" /\ found # {})
  <2>. DEFINE obj == [r.obj EXCEPT ![f] = Current]
              kept == Append(r.kept, f)
              records == Append(r.records, Record(f, verdict, {}))
  <2>1. h = [r EXCEPT !.obj[f] = Current, !.kept = Append(@, f),
                      !.records = Append(@, Record(f, verdict, {}))]
    BY <1>7 DEF Applied, Found
  <2>2. h = [r EXCEPT !.obj = obj, !.kept = kept, !.records = records]
    BY <2>1 DEF Rounds
  <2>3. obj \in [Facts -> Values] /\ kept \in Seq(Facts) /\ records \in Seq(Recorded)
    BY <1>3, <1>4 DEF Rounds, Values
  <2>4. obj = [t \in Facts |-> IF t = f THEN Current ELSE IF t \in {} THEN f ELSE r.obj[t]]
    BY DEF Rounds
  <2>. HIDE DEF obj, kept, records, h
  <2>5. SameRound(r, h) /\ h.obj = obj /\ h.kept = kept /\ h.stands = r.stands
        /\ h.records = records
    BY <2>2, <2>3 DEF SameRound, Rounds
  <2>6. Keeps(r, h, f, verdict, {})
    BY <2>4, <2>5 DEF Keeps, kept, records
  <2>. QED  BY <1>7, <2>5, <2>6 DEF h, VerdictOps
<1>. QED  BY <1>5, <1>6, <1>7

-----------------------------------------------------------------------------
(* A full rebuild, until the last verdict. *)

\* A verdict changes what it superseded, or, if it dropped the candidate, what the
\* candidate was dropped for.
RecordSays(r, record) ==
    /\ record.op = "update" => \A t \in record.changed : r.obj[t] \in Facts
    /\ record.op = "noop" =>
         record.candidate \in r.batch /\ record.changed \subseteq {r.stands[record.candidate]}
    /\ record.op = "add" => record.changed = {}
RecordsSay(r) == \A i \in 1 .. Len(r.records) : RecordSays(r, r.records[i])

\* Two current values of a key: the model had the chance to judge one of them.
OneKey(r) ==
    \A f, g \in Keyed :
        f # g /\ r.obj[f] = Current /\ r.obj[g] = Current => r.basket[f] # {} \/ r.basket[g] # {}

Waiting(r) == Elements(r.todo) \cup Elements(r.pending)
Gathering(r) ==
    /\ Distinct(r.todo) /\ Distinct(r.pending) /\ Distinct(r.kept)
    /\ Elements(r.todo) \cap Elements(r.pending) = {}
    /\ Waiting(r) \cap Objects(r) = {} /\ Elements(r.kept) = Objects(r)
    /\ Waiting(r) \subseteq r.batch
    /\ \A f \in Elements(r.pending) : r.basket[f] # {}
    /\ \A i \in 1 .. Len(r.records) : r.records[i].candidate \notin Waiting(r)
    /\ RecordsSay(r) /\ OneKey(r)

\* The verdict on f has been applied.
Ruled(r, h, f, verdict) ==
    \/ verdict.op = "noop" /\ Drops(r, h, f, verdict)
    \/ /\ verdict.op = "update"
       /\ Keeps(r, h, f, verdict, {t \in Found(r, verdict) : r.obj[t] = Current})
    \/ Keeps(r, h, f, verdict, {})

\* f waits no longer, nothing else changed.
Leaves(r, h, f) ==
    /\ h \in Rounds /\ h.batch = r.batch /\ h.basket = r.basket
    /\ Distinct(h.todo) /\ Distinct(h.pending)
    /\ Elements(h.todo) = Elements(r.todo) \ {f} /\ Elements(h.pending) = Elements(r.pending) \ {f}

LEMMA RulingGathers ==
  ASSUME NEW r \in Rounds, NEW h, NEW f \in Facts, Gathering(r), f \in Waiting(r),
         Leaves(r, h, f), NEW verdict, Ruled(r, h, f, verdict),
         verdict.op \in VerdictOps, verdict.targets \in SUBSET Facts,
         verdict.op = "noop" => \E t : verdict.targets = {t},
         f \in Keyed /\ r.basket[f] = {} /\ h.obj[f] = Current =>
            \A g \in Keyed \ {f} : h.obj[g] # Current
  PROVE  Gathering(h)
<1>1. f \notin Objects(r) /\ r.obj[f] = Absent /\ f \in r.batch /\ h \in Rounds
  BY DEF Gathering, Objects, Leaves
<1>2. /\ Waiting(h) = Waiting(r) \ {f} /\ Elements(h.todo) \cap Elements(h.pending) = {}
      /\ Waiting(h) \subseteq h.batch /\ \A x \in Elements(h.pending) : h.basket[x] # {}
      /\ Distinct(h.todo) /\ Distinct(h.pending)
  BY DEF Gathering, Leaves, Waiting
<1>3. Found(r, verdict) \subseteq Objects(r)
  BY DEF Found, Objects
<1>4. r.records \in Seq(Recorded) /\ r.kept \in Seq(Facts) /\ r.obj \in [Facts -> Values]
      /\ r.stands \in [Facts -> Facts \cup {0}] /\ r.basket \in [Facts -> SUBSET Facts]
  BY DEF Rounds
<1>5. ASSUME NEW changed \in SUBSET Facts,
             h.records = Append(r.records, Record(f, verdict, changed)),
             RecordSays(h, Record(f, verdict, changed)),
             \A i \in 1 .. Len(r.records) : RecordSays(h, r.records[i])
      PROVE  /\ RecordsSay(h)
             /\ \A i \in 1 .. Len(h.records) : h.records[i].candidate \notin Waiting(h)
  <2>. DEFINE last == Record(f, verdict, changed)
  <2>1. last \in Recorded /\ last.candidate = f
    BY DEF Record, Recorded
  <2>. HIDE DEF last
  <2>2. /\ Len(h.records) = Len(r.records) + 1 /\ Len(r.records) \in Nat
        /\ h.records[Len(r.records) + 1] = last
        /\ \A i \in 1 .. Len(r.records) : h.records[i] = r.records[i]
    BY <1>4, <1>5, <2>1 DEF last
  <2>3. \A i \in 1 .. Len(h.records) : i \in 1 .. Len(r.records) \/ i = Len(r.records) + 1
    BY <2>2
  <2>4. RecordsSay(h)
    BY <1>5, <2>2, <2>3 DEF RecordsSay, last
  <2>5. \A i \in 1 .. Len(h.records) : h.records[i].candidate \notin Waiting(h)
    BY <1>2, <2>1, <2>2, <2>3 DEF Gathering
  <2>. QED  BY <2>4, <2>5
<1>6. CASE verdict.op = "noop" /\ Drops(r, h, f, verdict)
  <2>1. PICK t \in Found(r, verdict) :
           /\ h.obj = r.obj /\ h.kept = r.kept /\ h.stands = [r.stands EXCEPT ![f] = t]
           /\ h.records = Append(r.records, Record(f, verdict, Found(r, verdict)))
    BY <1>6 DEF Drops
  <2>2. Found(r, verdict) \subseteq {t} /\ Found(r, verdict) \in SUBSET Facts
    BY <1>6 DEF Found
  <2>3. h.stands[f] = t /\ \A x \in Facts \ {f} : h.stands[x] = r.stands[x]
    BY <1>4, <2>1
  <2>4. RecordSays(h, Record(f, verdict, Found(r, verdict)))
    BY <1>1, <1>6, <2>2, <2>3 DEF RecordSays, Record, Leaves
  <2>5. ASSUME NEW i \in 1 .. Len(r.records) PROVE RecordSays(h, r.records[i])
    <3>1. r.records[i] \in Recorded /\ r.records[i].candidate \in Facts \ {f}
      <4>1. r.records[i] \in Recorded
        BY <1>4
      <4>2. r.records[i].candidate \notin Waiting(r)
        BY DEF Gathering
      <4>. QED  BY <4>1, <4>2 DEF Recorded
    <3>2. RecordSays(r, r.records[i])
      BY DEF Gathering, RecordsSay
    <3>. QED  BY <2>1, <2>3, <3>1, <3>2 DEF RecordSays, Leaves
  <2>6. /\ RecordsSay(h)
        /\ \A i \in 1 .. Len(h.records) : h.records[i].candidate \notin Waiting(h)
    BY <1>5, <2>1, <2>2, <2>4, <2>5
  <2>7. Objects(h) = Objects(r) /\ OneKey(h)
    BY <2>1 DEF Objects, OneKey, Gathering, Leaves
  <2>. QED  BY <1>2, <2>1, <2>6, <2>7 DEF Gathering
<1>7. ASSUME NEW newly \in SUBSET Found(r, verdict), Keeps(r, h, f, verdict, newly),
             verdict.op # "update" => newly = {}
      PROVE  Gathering(h)
  <2>1. /\ \A t \in Facts : h.obj[t] = IF t = f THEN Current ELSE IF t \in newly THEN f ELSE r.obj[t]
        /\ h.kept = Append(r.kept, f) /\ h.stands = r.stands
        /\ h.records = Append(r.records, Record(f, verdict, newly))
    BY <1>7 DEF Keeps
  <2>2. newly \in SUBSET Facts /\ f \notin newly /\ newly \subseteq Objects(r)
    BY <1>1, <1>3, <1>7 DEF Found
  <2>3. Objects(h) = Objects(r) \cup {f}
    BY <2>1, <2>2, FactFacts DEF Objects
  <2>4. Elements(h.kept) = Objects(h) /\ Distinct(h.kept)
    BY <1>1, <1>4, <2>1, <2>3, Appending DEF Gathering
  <2>5. Waiting(h) \cap Objects(h) = {}
    BY <1>2, <2>3 DEF Gathering
  <2>6. RecordSays(h, Record(f, verdict, newly))
    BY <1>7, <2>1, <2>2 , <1>1 DEF RecordSays, Record, Leaves
  <2>7. ASSUME NEW i \in 1 .. Len(r.records) PROVE RecordSays(h, r.records[i])
    <3>1. RecordSays(r, r.records[i]) /\ r.records[i] \in Recorded
      BY <1>4 DEF Gathering, RecordsSay
    <3>2. \A t \in Facts : r.obj[t] \in Facts => h.obj[t] \in Facts
      BY <1>1, <2>1, FactFacts
    <3>3. r.records[i].changed \subseteq Facts
      BY <3>1 DEF Recorded
    <3>. QED  BY <2>1, <3>1, <3>2, <3>3 DEF RecordSays, Leaves
  <2>8. /\ RecordsSay(h)
        /\ \A i \in 1 .. Len(h.records) : h.records[i].candidate \notin Waiting(h)
    BY <1>5, <2>1, <2>2, <2>6, <2>7
  <2>9. OneKey(h)
    <3>1. \A x \in Facts \ {f} : h.obj[x] = Current => r.obj[x] = Current
      BY <2>1, FactFacts
    <3>2. Keyed \subseteq Facts
      BY AdjudicationAssumption DEF AdjudicationAssumption
    <3>3. h.basket = r.basket
      BY DEF Leaves
    <3>4. f \in Keyed /\ r.basket[f] = {} => \A g \in Keyed \ {f} : h.obj[g] # Current
      BY <1>1, <2>1
    <3>5. ASSUME NEW x \in Keyed \ {f}, NEW y \in Keyed \ {f}, x # y, h.obj[x] = Current,
                 h.obj[y] = Current
          PROVE  h.basket[x] # {} \/ h.basket[y] # {}
      BY <3>1, <3>2, <3>3, <3>5 DEF Gathering, OneKey
    <3>. QED  BY <3>2, <3>3, <3>4, <3>5 DEF OneKey
  <2>. QED  BY <1>2, <2>4, <2>5, <2>8, <2>9 DEF Gathering
<1>8. CASE Keeps(r, h, f, verdict, {})
  BY <1>7, <1>8
<1>9. CASE verdict.op = "update"
           /\ Keeps(r, h, f, verdict, {t \in Found(r, verdict) : r.obj[t] = Current})
  <2>. DEFINE newly == {t \in Found(r, verdict) : r.obj[t] = Current}
  <2>1. newly \in SUBSET Found(r, verdict) /\ Keeps(r, h, f, verdict, newly)
    BY <1>9
  <2>. HIDE DEF newly
  <2>. QED  BY <1>7, <1>9, <2>1
<1>. QED  BY <1>6, <1>8, <1>9 DEF Ruled

-----------------------------------------------------------------------------
(* Examining a candidate. *)

VerdictOK(verdict) ==
    /\ verdict.op \in VerdictOps /\ verdict.targets \in SUBSET Facts
    /\ verdict.op = "noop" => \E t : verdict.targets = {t}

LEMMA NeighboursAreFacts ==
  ASSUME RoundTypes, NEW f \in Facts
  PROVE  /\ Neighbours(f) \subseteq Facts /\ Pending \subseteq Facts /\ Kept \subseteq Facts
         /\ Hydrated(f) \in [Facts -> Values]
<1>1. Pending \subseteq Facts /\ Kept \subseteq Facts
  BY DEF RoundTypes, Rounds, Pending, Kept, Elements
<1>2. Neighbours(f) \subseteq Facts
  BY <1>1 DEF Neighbours, Library, Stored
<1>3. Hydrated(f) \in [Facts -> Values]
  BY DEF Hydrated, RoundTypes, Rounds
<1>. QED  BY <1>1, <1>2, <1>3

LEMMA FastIsOK ==
  ASSUME RoundTypes, NEW f \in Facts, NEW obj, NEW verdict \in FastVerdicts(f, obj)
  PROVE  VerdictOK(verdict)
<1>1. SameKey(f, obj) \subseteq Facts /\ Restated(f, obj) \subseteq SameKey(f, obj)
  BY NeighboursAreFacts DEF SameKey, Restated
<1>2. CASE verdict \in FastNoop(f, obj)
  <2>1. PICK t \in Facts : verdict = Verdict("noop", {t})
    BY <1>1, <1>2 DEF FastNoop
  <2>. QED  BY <2>1 DEF VerdictOK, Verdict, VerdictOps
<1>3. CASE verdict = Verdict("update", SameKey(f, obj))
  BY <1>1, <1>3 DEF VerdictOK, Verdict, VerdictOps
<1>. QED  BY <1>2, <1>3 DEF FastVerdicts

\* A candidate that the fast path keeps supersedes what was current of its key.
LEMMA FastKeepsOne ==
  ASSUME RoundTypes, round.full, Gathering(round), NEW f \in Facts, f \in Waiting(round),
         NEW verdict \in FastVerdicts(f, round.obj), NEW q, q.obj = round.obj,
         q.pending = round.pending, NEW h,
         \/ verdict.op = "noop" /\ Found(q, verdict) # {} /\ Drops(q, h, f, verdict)
         \/ /\ verdict.op = "update" /\ Found(q, verdict) # {}
            /\ Keeps(q, h, f, verdict, {t \in Found(q, verdict) : q.obj[t] = Current})
         \/ /\ verdict.op = "add" \/ Found(q, verdict) = {}
            /\ Keeps(q, h, f, verdict, {}),
         h.obj[f] = Current, NEW g \in Keyed \ {f}
  PROVE  h.obj[g] # Current
<1>. DEFINE same == SameKey(f, round.obj)
<1>. SUFFICES ASSUME h.obj[g] = Current PROVE FALSE
  OBVIOUS
<1>1. g \in Facts /\ round.obj[f] = Absent /\ round.obj \in [Facts -> Values]
  BY AdjudicationAssumption DEF AdjudicationAssumption, Gathering, Objects, RoundTypes, Rounds
<1>2. ~Drops(q, h, f, verdict)
  BY <1>1, FactFacts DEF Drops
<1>3. round.obj[g] = Current
  BY <1>1, <1>2, FactFacts DEF Keeps
<1>4. g \in Kept /\ g \notin Pending
  BY <1>1, <1>3, FactFacts DEF Gathering, Objects, Kept, Pending, Waiting
<1>5. same # {} /\ f \in Keyed
  BY DEF FastVerdicts, SameKey
<1>6. g \in same
  BY <1>3, <1>4, <1>5 DEF SameKey, Neighbours
<1>7. \A t \in Kept : t \in Objects(round) /\ t \notin Pending
  BY DEF Gathering, Kept, Pending, Waiting
<1>8. \A t \in Kept : t \in verdict.targets => t \in Found(q, verdict)
  BY <1>7 DEF Found, Pending, Objects
<1>9. Library(round.full) = {}
  BY DEF Library
<1>10. CASE Restated(f, round.obj) = same
  <2>1. verdict \in FastNoop(f, round.obj)
    BY <1>5, <1>10 DEF FastVerdicts
  <2>2. Restated(f, round.obj) \cap Kept # {}
    BY <1>4, <1>6, <1>10
  <2>3. PICK t \in Kept : verdict = Verdict("noop", {t})
    BY <2>1, <2>2 DEF FastNoop
  <2>4. verdict.op = "noop" /\ t \in Found(q, verdict)
    BY <1>8, <2>3 DEF Verdict
  <2>. QED  BY <1>2, <2>4
<1>11. CASE Restated(f, round.obj) # same
  <2>1. verdict = Verdict("update", same)
    BY <1>5, <1>9, <1>11 DEF FastVerdicts
  <2>2. verdict.op = "update" /\ verdict.targets = same
    BY <2>1 DEF Verdict
  <2>3. g \in Found(q, verdict)
    BY <1>4, <1>6, <1>8, <2>2
  <2>4. Keeps(q, h, f, verdict, {t \in Found(q, verdict) : q.obj[t] = Current})
    BY <2>2, <2>3
  <2>5. h.obj[g] = f
    BY <1>1, <1>3, <2>3, <2>4 DEF Keeps
  <2>. QED  BY <2>5, FactFacts
<1>. QED  BY <1>10, <1>11

\* A full rebuild sees nothing of the Index.
LEMMA NothingHydrated ==
  ASSUME RoundTypes, round.full, NEW f \in Facts
  PROVE  Hydrated(f) = round.obj /\ Neighbours(f) = (Kept \cup Pending) \ {f}
<1>1. Library(round.full) = {}
  BY DEF Library
<1>2. Hydrated(f) = [g \in Facts |-> round.obj[g]]
  BY <1>1 DEF Hydrated
<1>. QED  BY <1>1, <1>2 DEF Neighbours, RoundTypes, Rounds

LEMMA ExamineKeeps ==
  ASSUME RoundTypes, Examine, round.full => Gathering(round)
  PROVE  /\ round' \in Rounds /\ round'.full = round.full /\ round'.paid = round.paid
         /\ round.full => Gathering(round')
<1>. DEFINE f == Head(round.todo)
            obj == Hydrated(f)
            q == [round EXCEPT !.todo = Tail(@), !.obj = obj]
<1>1. round.todo \in Seq(Facts) /\ round.todo # <<>> /\ f \in Facts /\ Tail(round.todo) \in Seq(Facts)
  BY DEF RoundTypes, Rounds, Examine
<1>2. \/ \E v \in FastVerdicts(f, obj) : round' = Applied(q, f, v)
      \/ Neighbours(f) = {} /\ round' = Applied(q, f, Verdict("add", {}))
      \/ /\ Neighbours(f) # {} /\ FastVerdicts(f, obj) = {}
         /\ round' = [q EXCEPT !.pending = Append(@, f), !.basket[f] = Neighbours(f)]
  BY DEF Examine
<1>3. obj \in [Facts -> Values] /\ Neighbours(f) \subseteq Facts
  BY <1>1, NeighboursAreFacts
<1>4. round.full => obj = round.obj /\ Neighbours(f) = (Kept \cup Pending) \ {f}
  BY <1>1, NothingHydrated
<1>5. round.full =>
         /\ Distinct(Tail(round.todo)) /\ f \in Elements(round.todo) /\ f \in Waiting(round)
         /\ Elements(Tail(round.todo)) = Elements(round.todo) \ {f}
  BY <1>1, Taking DEF Gathering, Waiting
<1>. HIDE DEF f, obj
<1>6. /\ q \in Rounds /\ q.todo = Tail(round.todo) /\ q.obj = obj /\ q.full = round.full
      /\ q.paid = round.paid /\ q.batch = round.batch /\ q.basket = round.basket
      /\ q.pending = round.pending /\ q.kept = round.kept /\ q.stands = round.stands
      /\ q.records = round.records
  BY <1>1, <1>3 DEF RoundTypes, Rounds
<1>. HIDE DEF q
<1>7. ASSUME NEW v, VerdictOK(v), round' = Applied(q, f, v),
             v \in FastVerdicts(f, obj) \/ (v = Verdict("add", {}) /\ Neighbours(f) = {})
      PROVE  /\ round' \in Rounds /\ round'.full = round.full /\ round'.paid = round.paid
             /\ round.full => Gathering(round')
  <2>1. /\ SameRound(q, round')
        /\ \/ v.op = "noop" /\ Found(q, v) # {} /\ Drops(q, round', f, v)
           \/ /\ v.op = "update" /\ Found(q, v) # {}
              /\ Keeps(q, round', f, v, {t \in Found(q, v) : q.obj[t] = Current})
           \/ /\ v.op = "add" \/ Found(q, v) = {}
              /\ Keeps(q, round', f, v, {})
    BY <1>1, <1>6, <1>7, VerdictApplied DEF VerdictOK
  <2>2. round' \in Rounds /\ round'.full = round.full /\ round'.paid = round.paid
    BY <1>6, <2>1 DEF SameRound
  <2>3. ASSUME round.full PROVE Gathering(round')
    <3>1. Gathering(round) /\ obj = round.obj
      BY <1>4, <2>3
    <3>2. Elements(round.pending) = Elements(round.pending) \ {f}
      BY <1>5, <2>3, <3>1 DEF Gathering
    <3>3. Leaves(round, round', f)
      BY <1>5, <1>6, <2>1, <2>3, <3>1, <3>2 DEF Leaves, SameRound, Gathering
    <3>4. Found(q, v) = Found(round, v)
      BY <1>6, <3>1 DEF Found
    <3>5. Ruled(round, round', f, v)
      <4>1. {t \in Found(q, v) : q.obj[t] = Current} = {t \in Found(round, v) : round.obj[t] = Current}
        BY <1>6, <3>1, <3>4
      <4>2. Drops(q, round', f, v) => Drops(round, round', f, v)
        BY <1>6, <3>1, <3>4 DEF Drops
      <4>3. \A S : Keeps(q, round', f, v, S) => Keeps(round, round', f, v, S)
        BY <1>6, <3>1 DEF Keeps
      <4>. QED  BY <2>1, <4>1, <4>2, <4>3 DEF Ruled
    <3>6. ASSUME round'.obj[f] = Current, NEW g \in Keyed \ {f} PROVE round'.obj[g] # Current
      <4>1. CASE v \in FastVerdicts(f, obj)
        BY <1>1, <1>5, <1>6, <2>1, <2>3, <3>1, <3>6, <4>1, FastKeepsOne
      <4>2. CASE v = Verdict("add", {}) /\ Neighbours(f) = {}
        <5>1. Kept \subseteq {f} /\ f \notin Kept
          BY <1>4, <1>5, <2>3, <3>1, <4>2 DEF Gathering, Kept
        <5>2. Objects(round) = {} /\ g \in Facts
          BY <3>1, <5>1, AdjudicationAssumption DEF Gathering, Kept, AdjudicationAssumption
        <5>3. Keeps(q, round', f, v, {})
          BY <2>1, <4>2 DEF Verdict
        <5>. QED  BY <1>6, <3>1, <5>2, <5>3, FactFacts DEF Keeps, Objects
      <4>. QED  BY <1>7, <4>1, <4>2
    <3>. QED
      BY <1>1, <1>5, <1>7, <2>3, <3>1, <3>3, <3>5, <3>6, RulingGathers DEF VerdictOK, RoundTypes
  <2>. QED  BY <2>2, <2>3
<1>8. CASE /\ Neighbours(f) # {} /\ FastVerdicts(f, obj) = {}
           /\ round' = [q EXCEPT !.pending = Append(@, f), !.basket[f] = Neighbours(f)]
  <2>. DEFINE pending == Append(round.pending, f)
              basket == [round.basket EXCEPT ![f] = Neighbours(f)]
  <2>1. round' = [q EXCEPT !.pending = pending, !.basket = basket]
    BY <1>6, <1>8 DEF Rounds
  <2>2. /\ round.pending \in Seq(Facts) /\ pending \in Seq(Facts)
        /\ basket \in [Facts -> SUBSET Facts] /\ basket[f] = Neighbours(f)
        /\ \A x \in Facts \ {f} : basket[x] = round.basket[x]
        /\ round.basket \in [Facts -> SUBSET Facts]
    BY <1>1, <1>3 DEF RoundTypes, Rounds
  <2>3. /\ Elements(pending) = Elements(round.pending) \cup {f}
        /\ f \notin Elements(round.pending) /\ Distinct(round.pending) => Distinct(pending)
    BY <1>1, <2>2, Appending
  <2>. HIDE DEF pending, basket
  <2>4. /\ round' \in Rounds /\ round'.full = round.full /\ round'.paid = round.paid
        /\ round'.todo = q.todo /\ round'.pending = pending /\ round'.basket = basket
        /\ round'.obj = q.obj /\ round'.kept = q.kept /\ round'.stands = q.stands
        /\ round'.records = q.records /\ round'.batch = q.batch
    BY <1>6, <2>1, <2>2 DEF Rounds
  <2>5. ASSUME round.full PROVE Gathering(round')
    <3>1. Gathering(round) /\ obj = round.obj
      BY <1>4, <2>5
    <3>2. f \notin Elements(round.pending) /\ f \in round.batch
      BY <1>5, <2>5, <3>1 DEF Gathering
    <3>3. /\ Waiting(round') = Waiting(round) /\ Objects(round') = Objects(round)
          /\ Elements(round'.todo) \cap Elements(round'.pending) = {}
      BY <1>5, <1>6, <2>3, <2>4, <2>5, <3>1, <3>2 DEF Waiting, Objects, Gathering
    <3>4. \A x \in Elements(round'.pending) : round'.basket[x] # {}
      <4>1. Elements(round.pending) \subseteq Facts
        BY <2>2 DEF Elements
      <4>. QED  BY <1>8, <2>2, <2>3, <2>4, <3>1, <4>1 DEF Gathering
    <3>5. RecordsSay(round')
      BY <1>6, <2>4, <3>1 DEF RecordsSay, RecordSays, Gathering
    <3>6. OneKey(round')
      <4>1. Keyed \subseteq Facts
        BY AdjudicationAssumption DEF AdjudicationAssumption
      <4>2. \A x \in Facts : round.basket[x] # {} => round'.basket[x] # {}
        BY <1>8, <2>2, <2>4
      <4>. QED  BY <1>6, <2>4, <3>1, <4>1, <4>2 DEF OneKey, Gathering
    <3>. QED
      BY <1>5, <1>6, <2>3, <2>4, <2>5, <3>1, <3>2, <3>3, <3>4, <3>5, <3>6 DEF Gathering
  <2>. QED  BY <2>4, <2>5
<1>9. VerdictOK(Verdict("add", {}))
  BY DEF VerdictOK, Verdict, VerdictOps
<1>. QED
  BY <1>1, <1>2, <1>7, <1>8, <1>9, FastIsOK

-----------------------------------------------------------------------------
(* A full rebuild, from the last verdict on: what is still to be stored, what was *)
(* replayed of the ledger, and what the verdicts of the round have changed since. *)

Upheld(t) == \E f \in round.batch : round.stands[f] = t

Replayed ==
    /\ round.todo = <<>> /\ round.paid <= Len(ledger)
    /\ \A f \in Facts : index[f] # Absent => f \in Objects(round)
    /\ \A f \in Facts : index[f] = Current => round.obj[f] = Current
    /\ \A t \in Facts : index[t] = Current =>
         \/ Upheld(t)
         \/ \A i \in 1 .. round.paid :
              t \in ledger[i].targets \ {ledger[i].candidate} => ledger[i].candidate \notin Kept

Writing ==
    /\ RecordsSay(round) /\ OneKey(round) /\ Distinct(round.todo)
    /\ Elements(round.todo) \cup Kept \subseteq Objects(round)
    /\ Objects(round) \subseteq Elements(round.todo) \cup Kept \cup tombs \cup failed
    /\ pc \in {"clear", "store"} => round.paid = Len(ledger)
    /\ pc = "clear" => round.kept = <<>>
    /\ pc = "store" =>
         \A f \in Facts : index[f] = IF f \in Kept THEN round.obj[f] ELSE Absent
    /\ pc \in {"apply", "end"} => Replayed

RoundInv ==
    /\ RoundTypes
    /\ pc \in {"idle", "down"} => ~round.full
    /\ round.full /\ pc \in {"fast", "settle"} => Gathering(round) /\ round.paid = Len(ledger)
    /\ round.full /\ pc \in {"clear", "store", "apply", "end"} => Writing

LEMMA NoRoundIsEmpty ==
    /\ NoRound \in Rounds /\ ~NoRound.full
    /\ NoRound.obj = [f \in Facts |-> Absent] /\ NoRound.pending = <<>> /\ NoRound.kept = <<>>
    /\ NoRound.records = <<>>
  BY DEF NoRound, Rounds, Values

LEMMA RoundInit == Init => RoundInv
<1>. SUFFICES ASSUME Init PROVE RoundInv
  OBVIOUS
<1>1. /\ hub = {} /\ tombs = {} /\ index = [f \in Facts |-> Absent] /\ ledger = <<>>
      /\ pc = "idle" /\ round = NoRound
  BY DEF Init
<1>2. RoundTypes
  BY <1>1, NoRoundIsEmpty DEF RoundTypes, Values, Steps
<1>. QED  BY <1>1, <1>2, NoRoundIsEmpty DEF RoundInv

-----------------------------------------------------------------------------
(* Its steps, from the first. *)

LEMMA TakenForIsFact ==
  ASSUME NEW batch \in SUBSET Facts, NEW full \in BOOLEAN, RoundTypes,
         NEW f \in batch \ NovelIn(batch, full)
  PROVE  TakenFor(f, batch, full) \in Facts
<1>. DEFINE L == Library(full)
            same == Duplicates(f, L \cup {g \in batch : g < f})
            first == CHOOSE g \in same : \A h \in same : g <= h
<1>1. L \subseteq Facts
  BY DEF Library, Stored
<1>. HIDE DEF L
<1>2. CASE f \in L
  BY <1>2 DEF TakenFor, L
<1>3. CASE f \notin L
  <2>1. Duplicates(f, L) # {} \/ \E g \in Duplicates(f, batch) : ~(g > f)
    BY <1>3 DEF NovelIn, L
  <2>2. \A g \in batch : g \in Nat /\ f \in Nat
    BY FactFacts
  <2>3. \A g \in Duplicates(f, batch) : ~(g > f) => g < f
    BY <2>2 DEF Duplicates
  <2>4. same # {}
    BY <2>1, <2>3 DEF Duplicates
  <2>5. same \subseteq Facts /\ same \subseteq Nat
    BY <1>1, FactFacts DEF Duplicates
  <2>. HIDE DEF same
  <2>6. first \in same
    BY <2>4, <2>5, LeastNat
  <2>7. TakenFor(f, batch, full) = first
    BY <1>3 DEF TakenFor, same, L
  <2>. HIDE DEF first
  <2>. QED  BY <2>5, <2>6, <2>7
<1>. QED  BY <1>2, <1>3

LEMMA BeginKeeps ==
  ASSUME RoundInv, NEW full \in BOOLEAN, Begin(full)
  PROVE  RoundInv'
<1>. DEFINE batch == IF full THEN hub ELSE hub \ consumed
            novel == NovelIn(batch, full)
            taken == [f \in Facts |-> IF f \in batch \ novel THEN TakenFor(f, batch, full) ELSE 0]
<1>1. /\ round' = [NoRound EXCEPT !.full = full, !.batch = batch, !.todo = InOrder(novel),
                                  !.paid = Len(ledger), !.stands = taken]
      /\ pc' = "fast" /\ hub' = hub /\ tombs' = tombs /\ index' = index /\ ledger' = ledger
  BY DEF Begin
<1>2. batch \in SUBSET Facts /\ novel \subseteq batch /\ ledger \in Seq(Pledges)
  BY DEF RoundInv, RoundTypes, NovelIn
<1>3. taken \in [Facts -> Facts \cup {0}]
  BY <1>2, TakenForIsFact DEF RoundInv
<1>. HIDE DEF batch
<1>4. novel \subseteq Nat /\ IsFiniteSet(novel)
  BY <1>2, FactFacts, FS_Subset
<1>. HIDE DEF novel
<1>. DEFINE todo == InOrder(novel)
<1>5. todo \in Seq(Facts) /\ Elements(todo) = novel /\ Distinct(todo)
  <2>1. todo \in Seq(novel) /\ Elements(todo) = novel /\ Distinct(todo)
    BY <1>4, OrderIsList
  <2>. HIDE DEF todo
  <2>2. novel \subseteq Facts
    BY <1>2
  <2>. QED  BY <2>1, <2>2
<1>. HIDE DEF taken, todo
<1>6. /\ round' \in Rounds /\ round'.full = full /\ round'.batch = batch
      /\ round'.todo = todo /\ round'.paid = Len(ledger)
      /\ round'.obj = [f \in Facts |-> Absent] /\ round'.pending = <<>> /\ round'.kept = <<>>
      /\ round'.records = <<>>
  <2>1. round' = [NoRound EXCEPT !.full = full, !.batch = batch, !.todo = todo,
                                 !.paid = Len(ledger), !.stands = taken]
    BY <1>1 DEF todo
  <2>2. Len(ledger) \in Nat
    BY <1>2
  <2>3. NoRound \in Rounds
    BY NoRoundIsEmpty
  <2>4. round' \in Rounds
    BY <1>2, <1>3, <1>5, <2>1, <2>2, <2>3 DEF Rounds
  <2>5. /\ round'.full = full /\ round'.batch = batch /\ round'.todo = todo
        /\ round'.paid = Len(ledger) /\ round'.obj = NoRound.obj
        /\ round'.pending = NoRound.pending /\ round'.kept = NoRound.kept
        /\ round'.records = NoRound.records
    BY <2>1, <2>3 DEF Rounds
  <2>. QED  BY <2>4, <2>5, NoRoundIsEmpty
<1>7. RoundTypes'
  BY <1>1, <1>6 DEF RoundInv, RoundTypes, Steps
<1>8. Gathering(round')
  <2>1. Objects(round') = {} /\ Waiting(round') = novel /\ Elements(round'.kept) = {}
        /\ Elements(round'.pending) = {}
    BY <1>5, <1>6, NoElements DEF Objects, Waiting
  <2>2. OneKey(round')
    <3>1. Keyed \subseteq Facts
      BY AdjudicationAssumption DEF AdjudicationAssumption
    <3>. QED  BY <1>6, <3>1, FactFacts DEF OneKey
  <2>3. RecordsSay(round') /\ \A i \in 1 .. Len(round'.records) : FALSE
    BY <1>6 DEF RecordsSay
  <2>4. Distinct(round'.pending) /\ Distinct(round'.kept)
    BY <1>6 DEF Distinct
  <2>. QED  BY <1>2, <1>5, <1>6, <2>1, <2>2, <2>3, <2>4 DEF Gathering
<1>. QED  BY <1>1, <1>6, <1>7, <1>8 DEF RoundInv

LEMMA SettleKeeps ==
  ASSUME RoundInv, NEW verdict, Settle(verdict)
  PROVE  RoundInv'
<1>. DEFINE f == Head(round.pending)
            q == Applied(round, f, verdict)
<1>1. /\ pc = "settle" /\ round.pending # <<>> /\ round' = [q EXCEPT !.pending = Tail(@)]
      /\ verdict \in IF f \in round.degraded THEN {Verdict("add", {})} ELSE Answers(f)
      /\ hub' = hub /\ tombs' = tombs /\ index' = index /\ ledger' = ledger /\ pc' = pc
  BY DEF Settle
<1>2. /\ round.pending \in Seq(Facts) /\ f \in Facts /\ Tail(round.pending) \in Seq(Facts)
      /\ round \in Rounds
  BY <1>1 DEF RoundInv, RoundTypes, Rounds
<1>3. VerdictOK(verdict)
  <2>1. round.basket[f] \subseteq Facts
    BY <1>2 DEF Rounds
  <2>2. \/ verdict = Verdict("add", {})
        \/ \E T \in SUBSET round.basket[f] : verdict = Verdict("update", T)
        \/ \E t \in round.basket[f] : verdict = Verdict("noop", {t})
    BY <1>1 DEF Answers
  <2>. QED  BY <2>1, <2>2 DEF VerdictOK, Verdict, VerdictOps
<1>. HIDE DEF f
<1>4. /\ SameRound(round, q)
      /\ \/ verdict.op = "noop" /\ Found(round, verdict) # {} /\ Drops(round, q, f, verdict)
         \/ /\ verdict.op = "update" /\ Found(round, verdict) # {}
            /\ Keeps(round, q, f, verdict, {t \in Found(round, verdict) : round.obj[t] = Current})
         \/ /\ verdict.op = "add" \/ Found(round, verdict) = {}
            /\ Keeps(round, q, f, verdict, {})
  BY <1>2, <1>3, VerdictApplied DEF VerdictOK
<1>. HIDE DEF q
<1>5. /\ round' \in Rounds /\ round'.full = round.full /\ round'.paid = round.paid
      /\ round'.batch = round.batch /\ round'.basket = round.basket
      /\ round'.todo = round.todo /\ round'.pending = Tail(round.pending)
      /\ round'.obj = q.obj /\ round'.kept = q.kept /\ round'.stands = q.stands
      /\ round'.records = q.records
  BY <1>1, <1>2, <1>4 DEF SameRound, Rounds
<1>6. RoundTypes'
  BY <1>1, <1>5 DEF RoundInv, RoundTypes
<1>7. ASSUME round.full PROVE Gathering(round')
  <2>1. Gathering(round)
    BY <1>1, <1>7 DEF RoundInv
  <2>2. /\ Distinct(Tail(round.pending)) /\ f \in Elements(round.pending)
        /\ Elements(Tail(round.pending)) = Elements(round.pending) \ {f}
    BY <1>1, <1>2, <2>1, Taking DEF Gathering, f
  <2>3. f \in Waiting(round) /\ Elements(round.todo) = Elements(round.todo) \ {f}
        /\ round.basket[f] # {}
    BY <2>1, <2>2 DEF Gathering, Waiting
  <2>4. Leaves(round, round', f)
    BY <1>5, <2>1, <2>2, <2>3 DEF Leaves, Gathering
  <2>5. Drops(round, q, f, verdict) => Drops(round, round', f, verdict)
    BY <1>5 DEF Drops
  <2>6. \A S : Keeps(round, q, f, verdict, S) => Keeps(round, round', f, verdict, S)
    BY <1>5 DEF Keeps
  <2>7. Ruled(round, round', f, verdict)
    BY <1>4, <2>5, <2>6 DEF Ruled
  <2>. QED  BY <1>2, <1>3, <2>1, <2>3, <2>4, <2>7, RulingGathers DEF VerdictOK
<1>. QED  BY <1>1, <1>5, <1>6, <1>7 DEF RoundInv
LEMMA QuietKeeps ==
  ASSUME RoundInv, hub' \subseteq Facts, tombs \subseteq tombs', tombs' \subseteq Facts,
         failed \subseteq failed', index' = index, ledger' = ledger, round' = round,
         pc' = pc \/ (pc = "apply" /\ pc' = "end" /\ round.records = <<>>)
  PROVE  RoundInv'
<1>1. RoundTypes'
  BY DEF RoundInv, RoundTypes, Steps
<1>2. ASSUME Writing PROVE Writing'
  <2>1. Kept' = Kept /\ Objects(round') = Objects(round)
    BY DEF Kept
  <2>2. Replayed => Replayed'
    BY <2>1 DEF Replayed, Upheld
  <2>. QED  BY <1>2, <2>1, <2>2 DEF Writing
<1>. QED  BY <1>1, <1>2 DEF RoundInv

LEMMA NoRoundKeeps ==
  ASSUME RoundInv, round' = NoRound, pc' \in {"idle", "down"},
         hub' = hub, tombs' = tombs, index' = index, ledger' = ledger
  PROVE  RoundInv'
<1>1. RoundTypes'
  BY NoRoundIsEmpty DEF RoundInv, RoundTypes, Steps
<1>. QED  BY <1>1, NoRoundIsEmpty DEF RoundInv

LEMMA ForgettingKeeps ==
  ASSUME RoundInv, NEW f \in Facts, Forget(f)
  PROVE  RoundInv'
<1>1. /\ tombs' = tombs \cup {f} /\ hub' = hub /\ ledger' = ledger /\ pc' = pc /\ round' = round
      /\ failed' = failed
      /\ index' = IF pc = "down" THEN [index EXCEPT ![f] = Absent] ELSE index
  BY DEF Forget, history
<1>2. CASE pc = "down"
  <2>1. RoundTypes'
    BY <1>1, <1>2 DEF RoundInv, RoundTypes, Values
  <2>. QED  BY <1>1, <1>2, <2>1 DEF RoundInv
<1>3. CASE pc # "down"
  BY <1>1, <1>3, QuietKeeps DEF RoundInv, RoundTypes
<1>. QED  BY <1>2, <1>3

LEMMA AskKeeps ==
  ASSUME RoundInv, NEW unanswered \in SUBSET Pending, Ask(unanswered)
  PROVE  RoundInv'
<1>1. /\ pc = "fast" /\ round.todo = <<>>
      /\ hub' = hub /\ tombs' = tombs /\ index' = index /\ ledger' = ledger
      /\ \/ pc' = "idle" /\ round' = NoRound
         \/ pc' = "settle" /\ round' = [round EXCEPT !.degraded = unanswered]
  BY DEF Ask
<1>2. CASE pc' = "idle" /\ round' = NoRound
  BY <1>1, <1>2, NoRoundKeeps
<1>3. CASE pc' = "settle" /\ round' = [round EXCEPT !.degraded = unanswered]
  <2>1. round \in Rounds /\ unanswered \subseteq Facts
    BY DEF RoundInv, RoundTypes, Rounds, Pending, Elements
  <2>2. /\ round' \in Rounds /\ round'.full = round.full /\ round'.batch = round.batch
        /\ round'.todo = round.todo /\ round'.paid = round.paid /\ round'.obj = round.obj
        /\ round'.pending = round.pending /\ round'.basket = round.basket
        /\ round'.kept = round.kept /\ round'.records = round.records
        /\ round'.stands = round.stands
    BY <1>3, <2>1 DEF Rounds
  <2>3. RoundTypes'
    BY <1>1, <1>3, <2>2 DEF RoundInv, RoundTypes, Steps
  <2>4. Gathering(round) => Gathering(round')
    <3>1. Waiting(round') = Waiting(round) /\ Objects(round') = Objects(round)
      BY <2>2 DEF Waiting, Objects
    <3>2. RecordsSay(round) => RecordsSay(round')
      BY <2>2 DEF RecordsSay, RecordSays
    <3>3. OneKey(round) => OneKey(round')
      BY <2>2 DEF OneKey
    <3>. QED  BY <2>2, <3>1, <3>2, <3>3 DEF Gathering
  <2>. QED  BY <1>1, <1>3, <2>2, <2>3, <2>4 DEF RoundInv
<1>. QED  BY <1>1, <1>2, <1>3

\* The verdicts are all in: what they kept is what is to be stored.
LEMMA FilterKeeps ==
  ASSUME RoundInv, Filter
  PROVE  RoundInv'
<1>. DEFINE todo == Barring(round.kept, tombs)
<1>1. /\ pc = "settle" /\ round.pending = <<>>
      /\ round' = [round EXCEPT !.todo = todo, !.kept = <<>>]
      /\ pc' = IF round.full THEN "clear" ELSE "store"
      /\ hub' = hub /\ tombs' = tombs /\ index' = index /\ ledger' = ledger /\ failed' = failed
  BY DEF Filter, history
<1>2. round \in Rounds /\ round.kept \in Seq(Facts)
  BY DEF RoundInv, RoundTypes, Rounds
<1>3. todo \in Seq(Facts)
  <2>. DEFINE I == {i \in DOMAIN round.kept : round.kept[i] \notin tombs}
              at == InOrder(I)
  <2>1. I \subseteq 1 .. Len(round.kept) /\ Len(round.kept) \in Nat
    BY <1>2
  <2>2. I \subseteq Nat /\ IsFiniteSet(I)
    <3>1. IsFiniteSet(1 .. Len(round.kept))
      BY <2>1, FS_Interval
    <3>2. IsFiniteSet(I)
      BY <2>1, <3>1, FS_Subset
    <3>. QED  BY <2>1, <3>2
  <2>3. \A i \in I : round.kept[i] \in Facts
    BY <1>2
  <2>4. todo = [k \in DOMAIN at |-> round.kept[at[k]]]
    BY DEF Barring
  <2>. HIDE DEF I
  <2>5. at \in Seq(I)
    BY <2>2, OrderIsList
  <2>. HIDE DEF at, todo
  <2>6. DOMAIN at = 1 .. Len(at) /\ Len(at) \in Nat /\ \A k \in 1 .. Len(at) : at[k] \in I
    BY <2>5
  <2>. QED  BY <2>3, <2>4, <2>6
<1>4. round.full => Distinct(todo) /\ Elements(todo) = Kept \ tombs
  BY <1>1, <1>2, BarringLists DEF RoundInv, Gathering, Kept
<1>. HIDE DEF todo
<1>5. /\ round' \in Rounds /\ round'.full = round.full /\ round'.batch = round.batch
      /\ round'.todo = todo /\ round'.paid = round.paid /\ round'.obj = round.obj
      /\ round'.basket = round.basket /\ round'.kept = <<>>
      /\ round'.records = round.records /\ round'.stands = round.stands
  BY <1>1, <1>2, <1>3 DEF Rounds
<1>6. RoundTypes'
  BY <1>1, <1>5 DEF RoundInv, RoundTypes, Steps
<1>7. ASSUME round.full PROVE Writing'
  <2>1. Gathering(round) /\ round.paid = Len(ledger) /\ pc' = "clear"
    BY <1>1, <1>7 DEF RoundInv
  <2>2. RecordsSay(round') /\ OneKey(round')
    BY <1>5, <2>1 DEF Gathering, RecordsSay, RecordSays, OneKey
  <2>3. Kept' = {} /\ Objects(round') = Objects(round) /\ Objects(round) = Kept
    BY <1>5, <2>1, NoElements DEF Kept, Objects, Gathering
  <2>. QED  BY <1>1, <1>4, <1>5, <1>7, <2>1, <2>2, <2>3 DEF Writing
<1>. QED  BY <1>1, <1>5, <1>6, <1>7 DEF RoundInv

LEMMA ClearKeeps ==
  ASSUME RoundInv, Clear
  PROVE  RoundInv'
<1>1. /\ pc = "clear" /\ pc' = "store" /\ index' = [f \in Facts |-> Absent] /\ round' = round
      /\ hub' = hub /\ tombs' = tombs /\ ledger' = ledger /\ failed' = failed
  BY DEF Clear, history
<1>2. RoundTypes'
  BY <1>1 DEF RoundInv, RoundTypes, Values, Steps
<1>3. ASSUME Writing PROVE Writing'
  <2>1. Kept' = Kept /\ Kept = {} /\ Objects(round') = Objects(round)
    BY <1>1, <1>3, NoElements DEF Kept, Writing
  <2>. QED  BY <1>1, <1>3, <2>1 DEF Writing
<1>. QED  BY <1>1, <1>2, <1>3 DEF RoundInv

\* One more fact is stored, or refused.
LEMMA StoringKeeps ==
  ASSUME RoundInv, Store \/ StoreFails
  PROVE  RoundInv'
<1>. DEFINE f == Head(round.todo)
            kept == Append(round.kept, f)
<1>1. /\ pc = "store" /\ pc' = "store" /\ round.todo # <<>>
      /\ hub' = hub /\ tombs' = tombs /\ ledger' = ledger
  BY DEF Store, StoreFails
<1>2. round \in Rounds /\ round.todo \in Seq(Facts) /\ f \in Facts /\ Tail(round.todo) \in Seq(Facts)
      /\ round.kept \in Seq(Facts) /\ round.obj \in [Facts -> Values] /\ index \in [Facts -> Values]
  BY <1>1 DEF RoundInv, RoundTypes, Rounds
<1>3. kept \in Seq(Facts) /\ Elements(kept) = Kept \cup {f}
  BY <1>2, Appending DEF Kept
<1>4. ASSUME round.full
      PROVE  /\ Writing /\ f \in Elements(round.todo) /\ Distinct(Tail(round.todo))
             /\ Elements(Tail(round.todo)) = Elements(round.todo) \ {f}
  BY <1>1, <1>2, <1>4, Taking DEF RoundInv, Writing
<1>5. CASE Store
  <2>1. /\ index' = [index EXCEPT ![f] = round.obj[f]] /\ failed' = failed
        /\ round' = [round EXCEPT !.todo = Tail(round.todo), !.kept = kept]
    BY <1>2, <1>5 DEF Store, history, Rounds
  <2>. HIDE DEF f, kept
  <2>2. /\ round' \in Rounds /\ round'.full = round.full /\ round'.batch = round.batch
        /\ round'.todo = Tail(round.todo) /\ round'.paid = round.paid /\ round'.obj = round.obj
        /\ round'.basket = round.basket /\ round'.kept = kept
        /\ round'.records = round.records /\ round'.stands = round.stands
    BY <1>2, <1>3, <2>1 DEF Rounds
  <2>3. RoundTypes'
    BY <1>1, <1>2, <2>1, <2>2 DEF RoundInv, RoundTypes
  <2>4. ASSUME round.full PROVE Writing'
    <3>1. RecordsSay(round') /\ OneKey(round') /\ Objects(round') = Objects(round)
      BY <1>4, <2>2, <2>4 DEF Writing, RecordsSay, RecordSays, OneKey, Objects
    <3>2. Kept' = Kept \cup {f}
      BY <1>3, <2>2 DEF Kept
    <3>3. \A g \in Facts : index'[g] = IF g \in Kept' THEN round'.obj[g] ELSE Absent
      BY <1>1, <1>2, <1>4, <2>1, <2>2, <2>4, <3>2 DEF Writing
    <3>. QED  BY <1>1, <1>4, <2>1, <2>2, <2>4, <3>1, <3>2, <3>3 DEF Writing
  <2>. QED  BY <1>1, <2>2, <2>3, <2>4 DEF RoundInv
<1>6. CASE StoreFails
  <2>1. /\ index' = index /\ failed' = failed \cup {f}
        /\ round' = [round EXCEPT !.todo = Tail(round.todo)]
    BY <1>2, <1>6 DEF StoreFails, Rounds
  <2>. HIDE DEF f
  <2>2. /\ round' \in Rounds /\ round'.full = round.full /\ round'.batch = round.batch
        /\ round'.todo = Tail(round.todo) /\ round'.paid = round.paid /\ round'.obj = round.obj
        /\ round'.basket = round.basket /\ round'.kept = round.kept
        /\ round'.records = round.records /\ round'.stands = round.stands
    BY <1>2, <2>1 DEF Rounds
  <2>3. RoundTypes'
    BY <1>1, <1>2, <2>1, <2>2 DEF RoundInv, RoundTypes
  <2>4. ASSUME round.full PROVE Writing'
    <3>1. RecordsSay(round') /\ OneKey(round') /\ Objects(round') = Objects(round)
      BY <1>4, <2>2, <2>4 DEF Writing, RecordsSay, RecordSays, OneKey, Objects
    <3>2. Kept' = Kept
      BY <2>2 DEF Kept
    <3>. QED  BY <1>1, <1>4, <2>1, <2>2, <2>4, <3>1, <3>2 DEF Writing
  <2>. QED  BY <1>1, <2>2, <2>3, <2>4 DEF RoundInv
<1>. QED  BY <1>5, <1>6

\* Replaying the ledger gives every fact a verdict of it superseded, and whose
\* successor was stored again, that successor back.
LEMMA ReplayKeeps ==
  ASSUME RoundInv, Replay
  PROVE  RoundInv'
<1>. DEFINE after(t) == ledger[First(Verdicts(t, Kept))].candidate
<1>1. /\ pc = "store" /\ round.todo = <<>> /\ pc' = "apply" /\ round' = round
      /\ hub' = hub /\ tombs' = tombs /\ ledger' = ledger /\ failed' = failed
      /\ index' = [t \in Facts |-> IF round.full /\ Verdicts(t, Kept) # {} THEN after(t) ELSE index[t]]
  BY DEF Replay, history
<1>2. ledger \in Seq(Pledges) /\ index \in [Facts -> Values]
  BY DEF RoundInv, RoundTypes
<1>3. ASSUME NEW t \in Facts, Verdicts(t, Kept) # {}
      PROVE  after(t) \in Facts /\ t \in Kept
  <2>. DEFINE S == Verdicts(t, Kept)
  <2>1. S \subseteq DOMAIN ledger /\ S # {} /\ t \in Kept
    BY <1>3 DEF Verdicts
  <2>. HIDE DEF S
  <2>2. S \subseteq 1 .. Len(ledger) /\ S \subseteq Nat
    BY <1>2, <2>1
  <2>3. First(S) \in S
    BY <2>1, <2>2, LeastNat DEF First
  <2>. DEFINE i == First(S)
  <2>4. i \in 1 .. Len(ledger)
    BY <2>2, <2>3
  <2>. HIDE DEF i
  <2>5. ledger[i] \in Pledges
    BY <1>2, <2>4
  <2>. QED  BY <2>1, <2>5 DEF Pledges, S, i
<1>. HIDE DEF after
<1>4. index' \in [Facts -> Values]
  BY <1>1, <1>2, <1>3 DEF Values
<1>5. RoundTypes'
  BY <1>1, <1>4 DEF RoundInv, RoundTypes, Steps
<1>6. ASSUME round.full PROVE Writing'
  <2>1. Writing /\ \A f \in Facts : index[f] = IF f \in Kept THEN round.obj[f] ELSE Absent
    BY <1>1, <1>6 DEF RoundInv, Writing
  <2>2. Kept' = Kept /\ Objects(round') = Objects(round) /\ Kept \subseteq Objects(round)
    BY <1>1, <2>1 DEF Kept, Writing
  <2>3. \A f \in Facts : index'[f] # Absent => f \in Objects(round)
    BY <1>1, <1>3, <2>1, <2>2
  <2>4. ASSUME NEW f \in Facts, index'[f] = Current
        PROVE  Verdicts(f, Kept) = {} /\ f \in Kept /\ round.obj[f] = Current
    <3>1. Verdicts(f, Kept) = {}
      BY <1>1, <1>3, <1>6, <2>4, FactFacts
    <3>. QED  BY <1>1, <2>1, <2>4, <3>1, FactFacts
  <2>5. ASSUME NEW t \in Facts, index'[t] = Current, NEW i \in 1 .. round.paid,
               t \in ledger[i].targets \ {ledger[i].candidate}
        PROVE  ledger[i].candidate \notin Kept
    <3>1. i \in DOMAIN ledger
      BY <1>1, <1>2, <2>1 DEF Writing
    <3>. QED  BY <2>4, <2>5, <3>1 DEF Verdicts
  <2>6. round.paid <= Len(ledger)
    BY <1>1, <1>2, <2>1 DEF Writing
  <2>7. Replayed'
    BY <1>1, <2>2, <2>3, <2>4, <2>5, <2>6 DEF Replayed
  <2>. QED  BY <1>1, <2>1, <2>2, <2>7 DEF Writing
<1>. QED  BY <1>1, <1>5, <1>6 DEF RoundInv

\* What a verdict of the round writes makes nothing current that the ledger had
\* superseded, unless the round dropped a fact for it.
LEMMA ApplyKeeps ==
  ASSUME RoundInv, Apply
  PROVE  RoundInv'
<1>. DEFINE record == Head(round.records)
            pledge == [candidate |-> record.candidate, targets |-> record.targets]
<1>1. /\ pc = "apply" /\ round.records # <<>> /\ pc' = "apply"
      /\ round' = [round EXCEPT !.records = Tail(round.records)]
      /\ index' = [t \in Facts |-> IF t \in record.changed THEN round.obj[t] ELSE index[t]]
      /\ ledger' = IF record.op = "update" THEN Append(ledger, pledge) ELSE ledger
      /\ hub' = hub /\ tombs' = tombs /\ failed' = failed
  BY DEF Apply, history, RoundInv, RoundTypes, Rounds
<1>2. /\ round \in Rounds /\ round.records \in Seq(Recorded) /\ round.obj \in [Facts -> Values]
      /\ round.paid \in Nat /\ ledger \in Seq(Pledges) /\ index \in [Facts -> Values]
  BY DEF RoundInv, RoundTypes, Rounds
<1>3. /\ record \in Recorded /\ record = round.records[1] /\ 1 \in 1 .. Len(round.records)
      /\ Tail(round.records) \in Seq(Recorded)
      /\ \A i \in 1 .. Len(Tail(round.records)) :
           i + 1 \in 1 .. Len(round.records) /\ Tail(round.records)[i] = round.records[i + 1]
  BY <1>1, <1>2
<1>4. pledge \in Pledges
  BY <1>3 DEF Recorded, Pledges
<1>5. /\ ledger' \in Seq(Pledges) /\ Len(ledger) <= Len(ledger')
      /\ \A i \in 1 .. Len(ledger) : ledger'[i] = ledger[i]
  <2>. HIDE DEF record, pledge
  <2>1. CASE record.op = "update"
    BY <1>1, <1>2, <1>4, <2>1
  <2>2. CASE record.op # "update"
    BY <1>1, <1>2, <2>2
  <2>. QED  BY <2>1, <2>2
<1>. HIDE DEF record, pledge
<1>6. /\ round' \in Rounds /\ round'.full = round.full /\ round'.batch = round.batch
      /\ round'.todo = round.todo /\ round'.paid = round.paid /\ round'.obj = round.obj
      /\ round'.basket = round.basket /\ round'.kept = round.kept
      /\ round'.records = Tail(round.records) /\ round'.stands = round.stands
  BY <1>1, <1>2, <1>3 DEF Rounds
<1>7. RoundTypes'
  <2>1. index' \in [Facts -> Values]
    BY <1>1, <1>2
  <2>. QED  BY <1>1, <1>5, <1>6, <2>1 DEF RoundInv, RoundTypes
<1>8. ASSUME round.full PROVE Writing'
  <2>1. Writing /\ Replayed
    BY <1>1, <1>8 DEF RoundInv, Writing
  <2>2. Kept' = Kept /\ Objects(round') = Objects(round) /\ OneKey(round')
    BY <1>6, <2>1 DEF Kept, Objects, OneKey, Writing
  <2>3. RecordsSay(round')
    <3>1. \A i \in 1 .. Len(Tail(round.records)) : RecordSays(round, Tail(round.records)[i])
      BY <1>3, <2>1 DEF Writing, RecordsSay
    <3>. QED  BY <1>6, <3>1 DEF RecordsSay, RecordSays
  <2>4. RecordSays(round, record)
    BY <1>3, <2>1 DEF Writing, RecordsSay
  <2>5. \A f \in Facts : index'[f] # Absent => f \in Objects(round)
    BY <1>1, <2>1 DEF Replayed, Objects
  <2>6. \A f \in Facts : index'[f] = Current => round.obj[f] = Current
    BY <1>1, <2>1 DEF Replayed
  <2>7. ASSUME NEW t \in Facts, index'[t] = Current
        PROVE  \/ Upheld(t)
               \/ \A i \in 1 .. round.paid :
                    t \in ledger'[i].targets \ {ledger'[i].candidate} => ledger'[i].candidate \notin Kept
    <3>1. CASE t \in record.changed
      <4>1. round.obj[t] \notin Facts
        BY <2>6, <2>7, FactFacts
      <4>2. record.op = "noop"
        BY <1>3, <2>4, <3>1, <4>1 DEF RecordSays, Recorded, VerdictOps
      <4>3. record.candidate \in round.batch /\ t = round.stands[record.candidate]
        BY <2>4, <3>1, <4>2 DEF RecordSays
      <4>. QED  BY <4>3 DEF Upheld
    <3>2. CASE t \notin record.changed
      <4>1. index[t] = Current
        BY <1>1, <2>7, <3>2
      <4>2. \A i \in 1 .. round.paid : i \in 1 .. Len(ledger)
        BY <1>2, <2>1 DEF Replayed
      <4>. QED  BY <1>5, <2>1, <4>1, <4>2 DEF Replayed
    <3>. QED  BY <3>1, <3>2
  <2>8. Replayed'
    <3>1. \A t : Upheld(t)' <=> Upheld(t)
      BY <1>6 DEF Upheld
    <3>2. round.paid <= Len(ledger')
      BY <1>2, <1>5, <2>1 DEF Replayed
    <3>. QED  BY <1>6, <2>1, <2>2, <2>5, <2>6, <2>7, <3>1, <3>2 DEF Replayed
  <2>. QED  BY <1>1, <1>6, <2>1, <2>2, <2>3, <2>8 DEF Writing
<1>. QED  BY <1>1, <1>6, <1>7, <1>8 DEF RoundInv

LEMMA RoundStep == RoundInv /\ [Next]_vars => RoundInv'
<1>. SUFFICES ASSUME RoundInv, [Next]_vars PROVE RoundInv'
  OBVIOUS
<1>1. ASSUME NEW t \in Facts, PutTurn(t) PROVE RoundInv'
  BY <1>1, QuietKeeps DEF PutTurn, history, RoundInv, RoundTypes
<1>2. ASSUME NEW t \in Facts, Forget(t) PROVE RoundInv'
  BY <1>2, ForgettingKeeps
<1>3. CASE Start
  <2>1. RoundTypes'
    BY <1>3 DEF Start, RoundInv, RoundTypes, Steps
  <2>. QED  BY <1>3, <2>1 DEF Start, RoundInv
<1>4. CASE Crash
  BY <1>4, NoRoundKeeps DEF Crash
<1>5. ASSUME NEW full \in BOOLEAN, Begin(full) PROVE RoundInv'
  BY <1>5, BeginKeeps
<1>6. CASE Examine
  <2>1. /\ pc = "fast" /\ pc' = pc /\ hub' = hub /\ tombs' = tombs /\ index' = index
        /\ ledger' = ledger
    BY <1>6 DEF Examine
  <2>2. RoundTypes /\ (round.full => Gathering(round) /\ round.paid = Len(ledger))
    BY <2>1 DEF RoundInv
  <2>3. /\ round' \in Rounds /\ round'.full = round.full /\ round'.paid = round.paid
        /\ round.full => Gathering(round')
    BY <1>6, <2>2, ExamineKeeps
  <2>4. RoundTypes'
    BY <2>1, <2>2, <2>3 DEF RoundTypes
  <2>. QED  BY <2>1, <2>2, <2>3, <2>4 DEF RoundInv
<1>7. ASSUME NEW unanswered \in SUBSET Pending, Ask(unanswered) PROVE RoundInv'
  BY <1>7, AskKeeps
<1>8. ASSUME NEW f \in Pending, NEW verdict \in Answers(f), Settle(verdict) PROVE RoundInv'
  BY <1>8, SettleKeeps
<1>9. CASE Filter
  BY <1>9, FilterKeeps
<1>10. CASE Clear
  BY <1>10, ClearKeeps
<1>11. CASE Store \/ StoreFails
  BY <1>11, StoringKeeps
<1>12. CASE Replay
  BY <1>12, ReplayKeeps
<1>13. CASE Apply
  BY <1>13, ApplyKeeps
<1>14. CASE Consume
  BY <1>14, QuietKeeps DEF Consume, RoundInv, RoundTypes
<1>15. CASE End
  BY <1>15, NoRoundKeeps DEF End
<1>16. CASE UNCHANGED vars
  BY <1>16, QuietKeeps DEF vars, history, RoundInv, RoundTypes
<1>. QED
  BY <1>1, <1>2, <1>3, <1>4, <1>5, <1>6, <1>7, <1>8, <1>9, <1>10, <1>11, <1>12, <1>13, <1>14,
     <1>15, <1>16 DEF Next

\* Whatever the turns, the verdicts of the model and the crashes: the locals of a
\* full rebuild and the Index are related as RoundInv says at every step of it.
THEOREM RoundInvariant == Spec => []RoundInv
<1>1. Init => RoundInv
  BY RoundInit
<1>2. RoundInv /\ [Next]_vars => RoundInv'
  BY RoundStep
<1>. QED  BY <1>1, <1>2, PTL DEF Spec

\* A full rebuild forgets no verdict an earlier round paid for, whatever the number
\* of facts and verdicts (rebuild_from_hub, plan_supersede_replay, apply_verdict).
THEOREM PaidVerdictsStay == Spec => []PaidVerdictsHold
<1>1. ASSUME RoundInv PROVE PaidVerdictsHold
  <2>. SUFFICES ASSUME pc = "end", round.full, NEW i \in 1 .. round.paid,
                       NEW t \in ledger[i].targets \ {ledger[i].candidate},
                       ledger[i].candidate \in Stored \ (tombs \cup failed), index[t] = Current
                PROVE  \E f \in round.batch : round.stands[f] = t
    BY DEF PaidVerdictsHold
  <2>. DEFINE c == ledger[i].candidate
  <2>1. Writing /\ Replayed
    BY <1>1 DEF RoundInv, Writing
  <2>2. ledger \in Seq(Pledges) /\ round.paid \in Nat
    BY <1>1 DEF RoundInv, RoundTypes, Rounds
  <2>3. i \in 1 .. Len(ledger)
    BY <2>1, <2>2 DEF Replayed
  <2>4. t \in Facts
    <3>1. ledger[i] \in Pledges
      BY <2>2, <2>3
    <3>. QED  BY <3>1 DEF Pledges
  <2>5. c \in Objects(round)
    BY <2>1 DEF Replayed, Stored
  <2>6. c \in Kept
    BY <2>1, <2>5, NoElements DEF Writing, Replayed
  <2>7. Upheld(t)
    BY <2>1, <2>4, <2>6 DEF Replayed
  <2>. QED  BY <2>7 DEF Upheld
<1>. QED  BY <1>1, RoundInvariant, PTL

\* A full rebuild leaves one current value of a key among the facts it judged
\* without the model, whatever their order (fast_path_verdict).
THEOREM OneValueStays == Spec => []OneValuePerKey
<1>1. ASSUME RoundInv PROVE OneValuePerKey
  <2>. SUFFICES ASSUME pc = "end", round.full, NEW f \in Keyed \cap round.batch,
                       NEW g \in Keyed \cap round.batch, index[f] = Current,
                       index[g] = Current, f # g
                PROVE  round.basket[f] # {} \/ round.basket[g] # {}
    BY DEF OneValuePerKey
  <2>1. OneKey(round) /\ Replayed
    BY <1>1 DEF RoundInv, Writing
  <2>2. f \in Facts /\ g \in Facts
    BY AdjudicationAssumption DEF AdjudicationAssumption
  <2>3. round.obj[f] = Current /\ round.obj[g] = Current
    BY <2>1, <2>2 DEF Replayed
  <2>. QED  BY <2>1, <2>3 DEF OneKey
<1>. QED  BY <1>1, RoundInvariant, PTL
=============================================================================
