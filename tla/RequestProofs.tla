---------------------------- MODULE RequestProofs ----------------------------
(***************************************************************************)
(* Theorems about the way of a request, for every value of the constants:  *)
(* what of its answer the agent gets and what is stored (Interception),    *)
(* and where it is routed to (Routing, at the end of this module).         *)
(*                                                                         *)
(* Interception.  The twenty actions are reduced to five kinds of steps    *)
(* (StepKinds): a request is sent, comes in, goes on, has a turn stored,   *)
(* or all die.  The invariant has four layers, each of which a step of     *)
(* each kind keeps: where the rounds of the inner loop are (Rounded),      *)
(* which turns are stored (Stowed), where the records of what was cut are  *)
(* (Recorded), and what the agent may send back (Recalled).                *)
(***************************************************************************)
EXTENDS Interception, Routing, FiniteSetTheorems, SequenceTheorems, TLAPS

Ats == Open \cup {"collect", "store", "done", "dead"}
Anchoring == Nat \X BOOLEAN
\* What an agent may hold: of BladeX's own calls only those that were named late.
Messages == [of : Nat, pre : BOOLEAN, cut : BOOLEAN, ours : SUBSET {"late"},
             split : BOOLEAN]
Entries == [of : Nat, round : Nat, recs : SUBSET Anchoring]
Records == [anchor : Anchoring, fresh : BOOLEAN]
Recs ==
    [at : Ats, main : BOOLEAN, hist : Seq(Messages), sees : SUBSET Anchoring,
     kind : {"none", "mixed", "pure"}, pre : BOOLEAN, cut : BOOLEAN,
     ours : SUBSET {"named", "late"}, split : BOOLEAN,
     round : Nat, end : {"open", "failed", "left"}, met : BOOLEAN, todo : Seq(Entries)]
Faults == {"crash", "fail", "leave", "odd", "any"}

InterceptionTypes ==
    /\ way \in {"whole", "events", "chunks"}
    /\ hist \in Seq(Messages) /\ reqs \in Seq(Recs) /\ waits \in {0} \cup Requests
    /\ splice \in SUBSET Records /\ loops \in Seq(Nat \X (Nat \ {0}))
    /\ given \in SUBSET Anchoring
    /\ stored \in Seq(Entries) /\ paid \in SUBSET (Nat \X Nat)
    /\ left \in [Faults -> Nat] /\ left["crash"] <= FaultBudget["crash"]

\* No call of ours is in the reply, or only those a stream did not know by their name.
Slipped(q, by) == q.ours # {} => q.ours = {"late"} /\ by # "whole" /\ q.round = 0

\* What is known of a request where it is, of an agent that is answered that way.
Fits(q, by) ==
    /\ q.at # "store" => q.todo = <<>>
    /\ q.at \in {"sent", "upstream"} => q.round = 0
    /\ q.at = "loop" => q.round > 0
    /\ q.at \in {"loop", "final"} => q.kind = "pure"
    /\ q.at \in {"sent", "upstream", "loop"} => ~q.cut
    /\ q.at \in {"sent", "upstream"} => q.ours = {}
    /\ q.at \in Open => q.end = "open"
    /\ q.at = "tools" => q.kind = "mixed"
    /\ q.at = "loop" => q.ours \in SUBSET {"named"}
    /\ \/ Slipped(q, by)
       \/ q.at \in {"loop", "dead"}
       \/ q.at \in {"collect", "store", "done"} /\ q.end # "open"
Shaped == \A r \in Requests : Fits(reqs[r], way)

-----------------------------------------------------------------------------
(* The kinds of steps: what the invariants need to know of each. *)

\* A request is sent; the one it repeats may be given up.
Sends ==
    /\ Len(reqs') = Len(reqs) + 1
    /\ \A r \in Requests :
          \/ reqs'[r] = reqs[r]
          \/ /\ r = waits /\ way # "whole" /\ reqs[r].at \in Open \ {"sent"}
             /\ reqs'[r] = [reqs[r] EXCEPT !.at = "collect", !.end = "left"]
    /\ LET q == reqs'[Len(reqs) + 1]
       IN /\ q.at = "sent" /\ q.round = 0 /\ q.todo = <<>> /\ ~q.cut
          /\ q.hist \in {<<>>, hist} \cup {reqs[r].hist : r \in Requests}
    /\ waits' \in {waits, Len(reqs) + 1}
    /\ UNCHANGED <<way, hist, memory, stored, paid>>
    /\ left'["crash"] = left["crash"]

\* A request comes in.
Prepares(r) ==
    /\ reqs[r].at = "sent"
    /\ Len(reqs') = Len(reqs)
    /\ \A s \in Requests :
          /\ reqs'[s].at = IF s = r THEN "upstream" ELSE reqs[s].at
          /\ reqs'[s].todo = reqs[s].todo /\ reqs'[s].round = reqs[s].round
          /\ reqs'[s].kind = reqs[s].kind /\ reqs'[s].cut = reqs[s].cut
          /\ reqs'[s].end = reqs[s].end /\ reqs'[s].hist = reqs[s].hist
          /\ reqs'[s].met = (reqs[s].met \/ reqs[s].at \in {"answer", "collect"})
    /\ \E n \in 0..Len(stored) :
          /\ reqs'[r].sees = Spliced(reqs[r].hist, Table(Held(n)))
          /\ splice' = Aged(Table(Held(n)))
          /\ given' = IF Restores THEN Held(n) ELSE given
    /\ UNCHANGED <<agent, loops, stored, paid, left>>

\* The agent gets the answer of a request, good or not.
Hears(r, good) ==
    \/ UNCHANGED <<waits, hist>>
    \/ waits = r /\ waits' = 0 /\ hist' = hist
    \/ good /\ waits = r /\ waits' = 0 /\ hist' = Append(reqs[r].hist, Message(r))

\* The handler of a request goes on: from one place to the next, with the records and the
\* rounds it adds, and the turn it may have built.
Goes(p, q) ==
    /\ p.at \in {"upstream", "tools", "loop", "final", "answer", "collect"}
    /\ p.at = "upstream" => q.at \in {"store", "answer", "tools", "loop"}
    /\ p.at = "loop" => q.at \in {"store", "answer", "loop", "final", "collect", "done"}
    /\ p.at \in {"tools", "final"} => q.at \in {"store", "answer", "collect"}
    /\ p.at = "answer" =>
          q.at = IF way = "chunks" /\ p.kind = "mixed" THEN "tools" ELSE "collect"
    /\ p.at = "collect" => q.at = "store"
    /\ q.at = "done" => q.end = "failed" /\ q.kind = "pure" /\ way = "whole"
    /\ p.at \in {"tools", "final"} => ~(q.at = "answer" /\ way = "chunks" /\ q.kind = "mixed")
    /\ p.at # "upstream" => q.kind = p.kind
    /\ q.cut /\ ~p.cut =>
          \/ q.at \in {"tools", "final"}
          \/ q.at = "answer" /\ way = "chunks" /\ q.kind = "mixed"
    /\ \/ q.end = p.end
       \/ q.end = "failed" /\ p.at \in {"upstream", "loop"}
       \/ q.end = "left" /\ way = "chunks" /\ p.at = "tools" /\ q.at = "collect"
    /\ q.round = p.round \/ (q.at = "loop" /\ q.round = p.round + 1)
    /\ q.met = p.met /\ q.hist \in {p.hist, <<>>}

Handles(r) ==
    LET p == reqs[r]
        q == reqs'[r]
    IN /\ Goes(p, q)
       /\ Len(reqs') = Len(reqs)
       /\ \A s \in Requests : s # r => reqs'[s] = reqs[s]
       /\ splice' = IF p.at \in {"tools", "final"} /\ q.end # "left" THEN Added(r) ELSE splice
       /\ \E bufs \in {loops, loops \o Rounds(r)} :
             /\ bufs = loops \/ (p.at = "loop" /\ q.at \in {"store", "answer", "final"})
             /\ p.at = "loop" =>
                   q.at = "loop" \/ q.end = "failed" \/ bufs = loops \o Rounds(r)
             /\ \/ q.at = "store" /\ q.todo = Turns(r, splice', bufs) /\ loops' = <<>>
                \/ q.at # "store" /\ q.todo = <<>> /\ loops' = bufs
       /\ paid' = paid \/ (p.at = "loop" /\ paid' = paid \cup {<<r, p.round>>})
       /\ Hears(r, p.at = "answer")
       /\ UNCHANGED <<way, given, stored>>
       /\ left'["crash"] = left["crash"]

\* A turn is stored.
Stores(r) ==
    LET p == reqs[r]
        q == reqs'[r]
    IN /\ p.at = "store" /\ p.todo # <<>>
       /\ q.at = IF Tail(p.todo) = <<>> THEN "done" ELSE "store"
       /\ q.todo = Tail(p.todo)
       /\ q.kind = p.kind /\ q.cut = p.cut /\ q.end = p.end /\ q.round = p.round
       /\ q.met = p.met /\ q.hist \in {p.hist, <<>>}
       /\ Len(reqs') = Len(reqs)
       /\ \A s \in Requests : s # r => reqs'[s] = reqs[s]
       /\ stored' = Append(stored, Head(p.todo))
       /\ Hears(r, p.end = "open")
       /\ UNCHANGED <<way, memory, paid, left>>

\* The process dies.
Dies ==
    /\ Len(reqs') = Len(reqs)
    /\ \A r \in Requests :
          reqs'[r] = IF reqs[r].at = "done" THEN reqs[r] ELSE Over(reqs[r], "dead")
    /\ waits' = 0 /\ splice' = {} /\ loops' = <<>> /\ given' = {}
    /\ left'["crash"] < FaultBudget["crash"]
    /\ UNCHANGED <<way, hist, stored, paid>>

Steps == \/ Sends \/ Dies
         \/ \E r \in Requests : Prepares(r) \/ Handles(r) \/ Stores(r)

-----------------------------------------------------------------------------
(* The operators. *)

\* One request is replaced.
LEMMA Replaced ==
    ASSUME reqs \in Seq(Recs), NEW r \in Requests, NEW q \in Recs,
           reqs' = [reqs EXCEPT ![r] = q]
    PROVE  /\ reqs' \in Seq(Recs) /\ Len(reqs') = Len(reqs) /\ reqs'[r] = q
           /\ \A s \in Requests : s # r => reqs'[s] = reqs[s]
BY DEF Requests

\* A request.
LEMMA RecIsTyped ==
    ASSUME reqs \in Seq(Recs), NEW r \in Requests
    PROVE  /\ reqs[r] \in Recs
           /\ reqs[r].at \in Ats /\ reqs[r].main \in BOOLEAN /\ reqs[r].hist \in Seq(Messages)
           /\ reqs[r].sees \in SUBSET Anchoring /\ reqs[r].kind \in {"none", "mixed", "pure"}
           /\ reqs[r].pre \in BOOLEAN /\ reqs[r].cut \in BOOLEAN
           /\ reqs[r].ours \in SUBSET {"named", "late"}
           /\ reqs[r].split \in BOOLEAN
           /\ reqs[r].round \in Nat /\ reqs[r].end \in {"open", "failed", "left"}
           /\ reqs[r].met \in BOOLEAN /\ reqs[r].todo \in Seq(Entries)
<1>1. reqs[r] \in Recs
  BY DEF Requests
<1> QED
  BY <1>1 DEF Recs

LEMMA FreshIsTyped ==
    ASSUME hist \in Seq(Messages), NEW main \in BOOLEAN
    PROVE  Fresh(main) \in Recs
BY DEF Fresh, Recs, Ats, Open

LEMMA MessageIsTyped ==
    ASSUME reqs \in Seq(Recs), NEW r \in Requests, Slipped(reqs[r], way)
    PROVE  Message(r) \in Messages
<1> r \in Nat
  BY DEF Requests
<1>1. reqs[r].ours \in SUBSET {"late"}
  BY DEF Slipped
<1> QED
  BY <1>1, RecIsTyped DEF Message, Messages

LEMMA OverIsTyped ==
    ASSUME NEW q \in Recs, NEW at \in Ats
    PROVE  /\ Over(q, at) \in Recs
           /\ Over(q, at).at = at /\ Over(q, at).todo = <<>> /\ Over(q, at).hist = <<>>
           /\ Over(q, at).kind = q.kind /\ Over(q, at).cut = q.cut
           /\ Over(q, at).end = q.end /\ Over(q, at).round = q.round
           /\ Over(q, at).met = q.met /\ Over(q, at).ours = {}
<1> DEFINE With(e, f) ==
               [q EXCEPT !.at = at, !.hist = e, !.sees = f, !.todo = e,
                         !.ours = f, !.split = FALSE]
<1>1. <<>> \in Seq(Messages) /\ <<>> \in Seq(Entries) /\ {} \in SUBSET Anchoring
      /\ {} \in SUBSET {"named", "late"}
  OBVIOUS
<1>4. \A e, f : /\ e \in Seq(Messages) /\ e \in Seq(Entries) /\ f \in SUBSET Anchoring
                /\ f \in SUBSET {"named", "late"}
                => With(e, f) \in Recs
  BY DEF Recs
<1>5. Over(q, at) \in Recs
  BY <1>1, <1>4 DEF Over
<1>6. \A e, f : LET w == With(e, f)
                IN /\ w.at = at /\ w.todo = e /\ w.hist = e /\ w.kind = q.kind
                   /\ w.cut = q.cut /\ w.end = q.end /\ w.round = q.round /\ w.met = q.met
                   /\ w.ours = f
  BY DEF Recs
<1> QED
  BY <1>5, <1>6 DEF Over

LEMMA LeftIsTyped ==
    ASSUME NEW q \in Recs
    PROVE  /\ Left(q) \in Recs
           /\ \/ Left(q) = q
              \/ /\ way # "whole" /\ q.at \in Open \ {"sent"}
                 /\ Left(q) = [q EXCEPT !.at = "collect", !.end = "left"]
                 /\ Left(q).at = "collect" /\ Left(q).end = "left" /\ Left(q).todo = q.todo
                 /\ Left(q).hist = q.hist /\ Left(q).round = q.round
                 /\ Left(q).kind = q.kind /\ Left(q).cut = q.cut /\ Left(q).ours = q.ours
<1> DEFINE w == [q EXCEPT !.at = "collect", !.end = "left"]
<1>1. \/ Left(q) = q
      \/ way # "whole" /\ q.at \in Open \ {"sent"} /\ Left(q) = w
  BY DEF Left
<1>2. /\ w.at = "collect" /\ w.end = "left" /\ w.todo = q.todo /\ w.hist = q.hist
      /\ w.round = q.round /\ w.kind = q.kind /\ w.cut = q.cut /\ w.ours = q.ours
  BY DEF Recs
<1>3. "collect" \in Ats
  BY DEF Ats
<1>4. w \in Recs
  BY <1>3 DEF Recs
<1> HIDE DEF w
<1> QED
  BY <1>1, <1>2, <1>4 DEF w

LEMMA NewAreTyped ==
    ASSUME NEW recs \in SUBSET Records
    PROVE  /\ NewInTurn(recs) \in SUBSET Anchoring /\ Anchors(recs) \in SUBSET Anchoring
           /\ Aged(recs) \in SUBSET Records
           /\ Anchors(Aged(recs)) = Anchors(recs)
           /\ \A x \in Aged(recs) : ~x.fresh /\ \E y \in recs : y.anchor = x.anchor
<1>1. \A x \in recs : x.anchor \in Anchoring /\ [x EXCEPT !.fresh = FALSE] \in Records
                      /\ [x EXCEPT !.fresh = FALSE].anchor = x.anchor
                      /\ [x EXCEPT !.fresh = FALSE].fresh = FALSE
  BY DEF Records
<1> QED
  BY <1>1 DEF NewInTurn, Anchors, Aged

LEMMA AddedAreTyped ==
    ASSUME splice \in SUBSET Records, NEW r \in Nat
    PROVE  Added(r) \in SUBSET Records
<1>1. [anchor |-> <<r, FALSE>>, fresh |-> TRUE] \in Records
  BY DEF Records, Anchoring
<1> QED
  BY <1>1 DEF Added, Record

\* The turn that is built, and the rounds after it.
LEMMA TurnsAre ==
    ASSUME NEW r \in Nat, NEW recs \in SUBSET Records, NEW bufs \in Seq(Nat \X (Nat \ {0}))
    PROVE  LET t == Turns(r, recs, bufs)
           IN /\ t \in Seq(Entries) /\ Len(t) = Len(bufs) + 1
              /\ t[1] = [of |-> r, round |-> 0, recs |-> NewInTurn(recs)]
              /\ \A i \in 1..Len(bufs) :
                    t[i + 1] = [of |-> bufs[i][1], round |-> bufs[i][2], recs |-> {}]
<1> DEFINE main == [of |-> r, round |-> 0, recs |-> NewInTurn(recs)]
           rounds == [i \in 1..Len(bufs) |->
                         [of |-> bufs[i][1], round |-> bufs[i][2], recs |-> {}]]
<1>1. main \in Entries
  BY NewAreTyped DEF Entries
<1>2. \A i \in 1..Len(bufs) :
         [of |-> bufs[i][1], round |-> bufs[i][2], recs |-> {}] \in Entries
  BY DEF Entries
<1>3. rounds \in Seq(Entries) /\ Len(rounds) = Len(bufs)
  BY <1>2
<1>4. \A i \in 1..Len(bufs) :
         rounds[i] = [of |-> bufs[i][1], round |-> bufs[i][2], recs |-> {}]
  OBVIOUS
<1>5. Turns(r, recs, bufs) = <<main>> \o rounds
  BY DEF Turns
<1> HIDE DEF main, rounds
<1>6. <<main>> \in Seq(Entries) /\ Len(<<main>>) = 1 /\ <<main>>[1] = main
  BY <1>1
<1>7. /\ <<main>> \o rounds \in Seq(Entries) /\ Len(<<main>> \o rounds) = Len(bufs) + 1
      /\ (<<main>> \o rounds)[1] = main
      /\ \A i \in 1..Len(bufs) : (<<main>> \o rounds)[i + 1] = rounds[i]
  BY <1>3, <1>6
<1> QED
  BY <1>4, <1>5, <1>7 DEF main

LEMMA Joined ==
    ASSUME NEW S, NEW a \in Seq(S), NEW b \in Seq(S)
    PROVE  /\ a \o b \in Seq(S) /\ Len(a \o b) = Len(a) + Len(b)
           /\ \A i \in 1..Len(a) : (a \o b)[i] = a[i]
           /\ \A n \in 1..Len(b) : (a \o b)[Len(a) + n] = b[n]
OBVIOUS

LEMMA RoundsAre ==
    ASSUME loops \in Seq(Nat \X (Nat \ {0})), reqs \in Seq(Recs), NEW r \in Requests
    PROVE  LET b == loops \o Rounds(r)
           IN /\ b \in Seq(Nat \X (Nat \ {0}))
              /\ Len(b) = Len(loops) + reqs[r].round
              /\ \A i \in 1..Len(loops) : b[i] = loops[i]
              /\ \A n \in 1..reqs[r].round : b[Len(loops) + n] = <<r, n>>
<1>1. reqs[r].round \in Nat
  BY RecIsTyped
<1>3. r \in Nat
  BY DEF Requests
<1> DEFINE m == reqs[r].round
<1> HIDE DEF m
<1>4. m \in Nat
  BY <1>1 DEF m
<1>2. /\ Rounds(r) \in Seq(Nat \X (Nat \ {0})) /\ Len(Rounds(r)) = reqs[r].round
      /\ \A n \in 1..reqs[r].round : Rounds(r)[n] = <<r, n>>
  <2>1. Rounds(r) = [n \in 1..m |-> <<r, n>>]
    BY DEF Rounds, m
  <2>2. [n \in 1..m |-> <<r, n>>] \in [1..m -> Nat \X (Nat \ {0})]
    BY <1>3, <1>4
  <2>3. [n \in 1..m |-> <<r, n>>] \in Seq(Nat \X (Nat \ {0}))
    BY <1>4, <2>2
  <2>4. Len([n \in 1..m |-> <<r, n>>]) = m
    BY <1>4
  <2>5. \A n \in 1..m : [k \in 1..m |-> <<r, k>>][n] = <<r, n>>
    OBVIOUS
  <2> QED
    BY <2>1, <2>3, <2>4, <2>5 DEF m
<1> DEFINE more == Rounds(r)
<1> HIDE DEF more
<1>5. /\ more \in Seq(Nat \X (Nat \ {0})) /\ Len(more) = m
      /\ \A n \in 1..m : more[n] = <<r, n>>
  BY <1>2 DEF m, more
<1>6. /\ loops \o more \in Seq(Nat \X (Nat \ {0})) /\ Len(loops \o more) = Len(loops) + m
      /\ \A i \in 1..Len(loops) : (loops \o more)[i] = loops[i]
      /\ \A n \in 1..m : (loops \o more)[Len(loops) + n] = more[n]
  BY <1>5, Joined
<1> QED
  BY <1>5, <1>6 DEF m, more

LEMMA HeldAreTyped ==
    ASSUME stored \in Seq(Entries), NEW n \in 0..Len(stored)
    PROVE  /\ Held(n) \in SUBSET Anchoring
           /\ \A a \in Held(n) : \E i \in 1..Len(stored) : a \in stored[i].recs
<1>1. ASSUME NEW i \in 1..Len(stored) PROVE stored[i].recs \in SUBSET Anchoring
  <2>1. stored[i] \in Entries
    OBVIOUS
  <2> QED
    BY <2>1 DEF Entries
<1>2. \A a \in Held(n) : \E i \in 1..n : a \in stored[i].recs
  BY DEF Held
<1> QED
  BY <1>1, <1>2

LEMMA TableIsTyped ==
    ASSUME splice \in SUBSET Records, NEW held \in SUBSET Anchoring
    PROVE  /\ Table(held) \in SUBSET Records
           /\ Restores => Anchors(Table(held)) = held
           /\ ~Restores => Table(held) = splice
<1>1. ASSUME Restores
      PROVE  Table(held) \in SUBSET Records /\ Anchors(Table(held)) = held
  <2>1. Table(held) = {[anchor |-> a, fresh |-> FALSE] : a \in held}
    BY <1>1 DEF Table
  <2>2. \A a \in held : [anchor |-> a, fresh |-> FALSE] \in Records
    BY DEF Records
  <2>3. \A a : [anchor |-> a, fresh |-> FALSE].anchor = a
    OBVIOUS
  <2>4. Table(held) \in SUBSET Records
    BY <2>1, <2>2
  <2>5. {x.anchor : x \in {[anchor |-> a, fresh |-> FALSE] : a \in held}} = held
    BY <2>3
  <2> QED
    BY <2>1, <2>4, <2>5 DEF Anchors
<1>2. ASSUME ~Restores PROVE Table(held) = splice
  BY <1>2 DEF Table
<1> QED
  BY <1>1, <1>2

-----------------------------------------------------------------------------
(* Every step is of one of the kinds, and keeps the types. *)

LEMMA FaultIs ==
    ASSUME InterceptionTypes, NEW f \in {"crash", "fail", "leave", "odd"}, Fault(f)
    PROVE  /\ left' \in [Faults -> Nat] /\ left'["crash"] <= left["crash"]
           /\ f # "crash" => left'["crash"] = left["crash"]
           /\ f = "crash" => left'["crash"] < FaultBudget["crash"]
<1>1. left \in [Faults -> Nat] /\ left["crash"] <= FaultBudget["crash"]
  BY DEF InterceptionTypes
<1>2. FaultBudget["crash"] \in Nat
  BY SplicingAssumption
<1>3. left[f] \in Nat /\ left["any"] \in Nat /\ left["crash"] \in Nat
  BY <1>1 DEF Faults
<1> QED
  BY <1>1, <1>2, <1>3 DEF Fault, Faults

LEMMA Handled ==
    ASSUME InterceptionTypes, Shaped, NEW r \in Requests, NEW q \in Recs, Fits(q, way),
           Goes(reqs[r], q), reqs' = [reqs EXCEPT ![r] = q],
           splice' = IF reqs[r].at \in {"tools", "final"} /\ q.end # "left"
                     THEN Added(r) ELSE splice,
           NEW bufs \in {loops, loops \o Rounds(r)},
           bufs = loops \/ (reqs[r].at = "loop" /\ q.at \in {"store", "answer", "final"}),
           reqs[r].at = "loop" =>
              q.at = "loop" \/ q.end = "failed" \/ bufs = loops \o Rounds(r),
           \/ q.at = "store" /\ q.todo = Turns(r, splice', bufs) /\ loops' = <<>>
           \/ q.at # "store" /\ q.todo = <<>> /\ loops' = bufs,
           paid' = paid \/ (reqs[r].at = "loop" /\ paid' = paid \cup {<<r, reqs[r].round>>}),
           Hears(r, reqs[r].at = "answer"),
           UNCHANGED <<way, given, stored>>,
           left' \in [Faults -> Nat], left'["crash"] = left["crash"]
    PROVE  InterceptionTypes' /\ Shaped' /\ Handles(r)
<1>1. /\ reqs \in Seq(Recs) /\ splice \in SUBSET Records
      /\ loops \in Seq(Nat \X (Nat \ {0})) /\ hist \in Seq(Messages)
      /\ waits \in {0} \cup Requests /\ paid \in SUBSET (Nat \X Nat)
  BY DEF InterceptionTypes
<1>2. r \in Nat /\ reqs[r].round \in Nat /\ reqs[r].hist \in Seq(Messages)
  <2>1. r \in Nat
    BY DEF Requests
  <2> QED
    BY <1>1, <2>1, RecIsTyped
<1>3. /\ reqs' \in Seq(Recs) /\ Len(reqs') = Len(reqs) /\ reqs'[r] = q
      /\ \A s \in Requests : s # r => reqs'[s] = reqs[s]
  BY <1>1, Replaced
<1>4. Requests' = Requests
  BY <1>3 DEF Requests
<1>5. splice' \in SUBSET Records
  BY <1>1, <1>2, AddedAreTyped
<1>6. loops' \in Seq(Nat \X (Nat \ {0}))
  <2>1. bufs \in Seq(Nat \X (Nat \ {0}))
    BY <1>1, RoundsAre
  <2>2. <<>> \in Seq(Nat \X (Nat \ {0}))
    OBVIOUS
  <2> QED
    BY <2>1, <2>2
<1>7. hist' \in Seq(Messages) /\ waits' \in {0} \cup Requests
  <2>1. CASE reqs[r].at = "answer"
    <3>1. Message(r) \in Messages
      <4>1. Slipped(reqs[r], way)
        BY <2>1 DEF Shaped, Fits
      <4> QED
        BY <1>1, <4>1, MessageIsTyped
    <3>2. Append(reqs[r].hist, Message(r)) \in Seq(Messages)
      BY <1>2, <3>1
    <3> QED
      BY <1>1, <3>2 DEF Hears
  <2>2. CASE reqs[r].at # "answer"
    BY <1>1, <2>2 DEF Hears
  <2> QED
    BY <2>1, <2>2
<1>8. paid' \in SUBSET (Nat \X Nat)
  BY <1>1, <1>2
<1>9. InterceptionTypes'
  BY <1>3, <1>4, <1>5, <1>6, <1>7, <1>8 DEF InterceptionTypes
<1>10. Shaped'
  BY <1>3, <1>4 DEF Shaped
<1>11. Handles(r)
  BY <1>3 DEF Handles
<1> QED
  BY <1>9, <1>10, <1>11

\* What comes of an answer in every way: a turn that is built at once, or after it is sent.
BuiltOrSent(r, q, recs, bufs) ==
    \E w \in Recs :
       /\ reqs' = [reqs EXCEPT ![r] = w]
       /\ w.kind = q.kind /\ w.cut = q.cut /\ w.end = q.end /\ w.round = q.round
       /\ w.met = q.met /\ w.hist = q.hist /\ w.ours = q.ours
       /\ \/ w.at = "store" /\ w.todo = Turns(r, recs, bufs) /\ loops' = <<>>
          \/ w.at = "answer" /\ w.todo = <<>> /\ loops' = bufs

BuiltAtOnce(r, q, recs, bufs) ==
    \E w \in Recs :
       /\ reqs' = [reqs EXCEPT ![r] = w] /\ loops' = <<>>
       /\ w.kind = q.kind /\ w.cut = q.cut /\ w.end = q.end /\ w.round = q.round
       /\ w.met = q.met /\ w.hist = q.hist /\ w.ours = q.ours
       /\ w.at = "store" /\ w.todo = Turns(r, recs, bufs)

LEMMA BuiltIs ==
    ASSUME reqs \in Seq(Recs), NEW r \in Requests, NEW q \in Recs,
           NEW recs \in SUBSET Records, NEW bufs \in Seq(Nat \X (Nat \ {0})),
           Built(r, q, recs, bufs)
    PROVE  BuiltAtOnce(r, q, recs, bufs)
<1> DEFINE t == Turns(r, recs, bufs)
           w == [q EXCEPT !.at = "store", !.todo = t]
<1>1. t \in Seq(Entries)
  <2>1. r \in Nat
    BY DEF Requests
  <2> QED
    BY <2>1, TurnsAre
<1> HIDE DEF t
<1>2. /\ w \in Recs /\ w.at = "store" /\ w.todo = t /\ w.kind = q.kind /\ w.cut = q.cut
      /\ w.end = q.end /\ w.round = q.round /\ w.met = q.met /\ w.hist = q.hist
      /\ w.ours = q.ours
  BY <1>1 DEF Recs, Ats
<1>3. reqs' = [reqs EXCEPT ![r] = w] /\ loops' = <<>>
  BY DEF Built, Drained, t
<1> QED
  BY <1>2, <1>3 DEF t, BuiltAtOnce

LEMMA AnsweredIs ==
    ASSUME reqs \in Seq(Recs), NEW r \in Requests, NEW q \in Recs, q.todo = <<>>,
           NEW recs \in SUBSET Records, NEW bufs \in Seq(Nat \X (Nat \ {0})),
           \/ Answered(r, q, recs, bufs) \/ Built(r, q, recs, bufs)
    PROVE  BuiltOrSent(r, q, recs, bufs)
<1>1. CASE Built(r, q, recs, bufs)
  <2>1. BuiltAtOnce(r, q, recs, bufs)
    BY <1>1, BuiltIs
  <2> QED
    BY <2>1 DEF BuiltAtOnce, BuiltOrSent
<1>2. CASE ~Built(r, q, recs, bufs)
  <2> DEFINE w == [q EXCEPT !.at = "answer"]
  <2>1. /\ w \in Recs /\ w.at = "answer" /\ w.todo = <<>> /\ w.kind = q.kind
        /\ w.cut = q.cut /\ w.end = q.end /\ w.round = q.round /\ w.met = q.met
        /\ w.hist = q.hist /\ w.ours = q.ours
    BY DEF Recs, Ats, Open
  <2>2. reqs' = [reqs EXCEPT ![r] = w] /\ loops' = bufs
    BY <1>2 DEF Answered
  <2> QED
    BY <2>1, <2>2 DEF BuiltOrSent
<1> QED
  BY <1>1, <1>2

\* A reply without the calls that were cut out, and one that is replaced.
LEMMA StrippedIs ==
    ASSUME NEW q \in Recs
    PROVE  /\ Stripped(q) \in Recs /\ Stripped(q).cut = TRUE
           /\ Stripped(q).ours = q.ours \ {"named"}
           /\ Stripped(q).at = q.at /\ Stripped(q).todo = q.todo
           /\ Stripped(q).kind = q.kind /\ Stripped(q).end = q.end
           /\ Stripped(q).round = q.round /\ Stripped(q).met = q.met
           /\ Stripped(q).hist = q.hist
BY DEF Stripped, Recs, Named

LEMMA WordedIs ==
    ASSUME NEW q \in Recs
    PROVE  /\ Worded(q) \in Recs /\ Worded(q).cut = q.cut /\ Worded(q).ours = {}
           /\ Worded(q).at = q.at /\ Worded(q).todo = q.todo
           /\ Worded(q).kind = q.kind /\ Worded(q).end = q.end
           /\ Worded(q).round = q.round /\ Worded(q).met = q.met
           /\ Worded(q).hist = q.hist
BY DEF Worded, Recs

LEMMA UpstreamSteps ==
    ASSUME InterceptionTypes, Shaped, NEW r \in Requests,
           \/ UpstreamFails(r) \/ SaysNothingOfOurs(r) \/ SaysMixed(r) \/ SaysPure(r)
    PROVE  InterceptionTypes' /\ Shaped' /\ Handles(r)
<1> DEFINE p == reqs[r]
<1>1. /\ reqs \in Seq(Recs) /\ splice \in SUBSET Records
      /\ loops \in Seq(Nat \X (Nat \ {0})) /\ left \in [Faults -> Nat]
  BY DEF InterceptionTypes
<1>2. /\ p.at = "upstream" /\ p \in Recs /\ p.todo = <<>> /\ p.round = 0 /\ ~p.cut
      /\ p.ours = {} /\ p.end = "open"
  BY <1>1, RecIsTyped DEF Shaped, Fits, Open, UpstreamFails, SaysNothingOfOurs, SaysMixed, SaysPure
<1>3. UNCHANGED <<way, hist, waits, splice, given, stored, paid>>
  BY DEF UpstreamFails, SaysNothingOfOurs, SaysMixed, SaysPure, agent, memory
<1>4. left' \in [Faults -> Nat] /\ left'["crash"] = left["crash"]
  <2>1. CASE UpstreamFails(r)
    BY <2>1, FaultIs DEF UpstreamFails
  <2>2. CASE \E is \in BOOLEAN : Odd(is)
    BY <1>1, <2>2, FaultIs DEF Odd
  <2>3. SaysNothingOfOurs(r) \/ SaysMixed(r) => \E is \in BOOLEAN : Odd(is)
    BY DEF SaysNothingOfOurs, SaysMixed
  <2> QED
    BY <1>1, <2>1, <2>2, <2>3 DEF SaysPure
<1>5. ASSUME NEW q \in Recs, q.todo = <<>>, q.kind = p.kind, q.cut = p.cut,
             q.round = p.round, q.met = p.met, q.hist = p.hist, Slipped(q, way),
             \/ q.end = p.end /\ Answered(r, q, splice, loops)
             \/ q.end = "failed" /\ Built(r, q, splice, loops)
      PROVE  InterceptionTypes' /\ Shaped' /\ Handles(r)
  <2>1. PICK w \in Recs :
           /\ reqs' = [reqs EXCEPT ![r] = w]
           /\ w.kind = q.kind /\ w.cut = q.cut /\ w.end = q.end /\ w.round = q.round
           /\ w.met = q.met /\ w.hist = q.hist /\ w.ours = q.ours
           /\ \/ w.at = "store" /\ w.todo = Turns(r, splice, loops) /\ loops' = <<>>
              \/ w.at = "answer" /\ w.todo = <<>> /\ loops' = loops /\ q.end = p.end
    <3>1. CASE q.end = p.end /\ Answered(r, q, splice, loops)
      <4>1. BuiltOrSent(r, q, splice, loops)
        BY <1>1, <1>5, <3>1, AnsweredIs
      <4> QED
        BY <3>1, <4>1 DEF BuiltOrSent
    <3>2. CASE q.end = "failed" /\ Built(r, q, splice, loops)
      <4>1. BuiltAtOnce(r, q, splice, loops)
        BY <1>1, <3>2, BuiltIs
      <4> QED
        BY <4>1 DEF BuiltAtOnce
    <3> QED
      BY <1>5, <3>1, <3>2
  <2>2. Fits(w, way)
    <3>1. w.at = "answer" => w.end = "open"
      BY <1>2, <1>5, <2>1
    <3> QED
      BY <1>5, <2>1, <3>1 DEF Fits, Slipped, Open
  <2>3. Goes(p, w)
    BY <1>2, <1>5, <2>1 DEF Goes
  <2> QED
    BY <1>2, <1>3, <1>4, <2>1, <2>2, <2>3, Handled DEF Hears
<1>6. CASE UpstreamFails(r)
  <2> DEFINE q == [p EXCEPT !.end = "failed"]
  <2>1. /\ q \in Recs /\ q.todo = <<>> /\ q.kind = p.kind /\ q.cut = p.cut
        /\ q.end = "failed" /\ q.round = p.round /\ q.met = p.met /\ q.hist = p.hist
        /\ q.ours = p.ours
    BY <1>2 DEF Recs
  <2>2. Built(r, q, splice, loops)
    BY <1>6 DEF UpstreamFails
  <2> HIDE DEF q
  <2> QED
    BY <1>2, <2>1, <2>2, <1>5 DEF Slipped
<1>7. CASE SaysNothingOfOurs(r)
  <2>1. PICK ours \in SUBSET (OurCalls \ Named) :
           Answered(r, [p EXCEPT !.ours = ours], splice, loops)
    BY <1>7 DEF SaysNothingOfOurs
  <2> DEFINE q == [p EXCEPT !.ours = ours]
  <2>2. ours \in SUBSET {"named", "late"} /\ (ours # {} => ours = {"late"} /\ way # "whole")
    BY DEF OurCalls, Named
  <2>3. /\ q \in Recs /\ q.todo = <<>> /\ q.kind = p.kind /\ q.cut = p.cut
        /\ q.end = p.end /\ q.round = p.round /\ q.met = p.met /\ q.hist = p.hist
        /\ q.ours = ours
    BY <1>2, <2>2 DEF Recs
  <2>4. Slipped(q, way)
    BY <1>2, <2>2, <2>3 DEF Slipped
  <2> HIDE DEF q
  <2> QED
    BY <1>5, <2>1, <2>3, <2>4 DEF q
<1>8. CASE SaysMixed(r)
  <2> DEFINE at == IF way = "chunks" THEN "answer" ELSE "tools"
  <2>1. PICK ours \in SUBSET OurCalls, split \in BOOLEAN :
           reqs' = [reqs EXCEPT ![r] =
                       Stripped([p EXCEPT !.kind = "mixed", !.ours = ours, !.split = split,
                                          !.at = at])]
    BY <1>8 DEF SaysMixed
  <2> DEFINE m == [p EXCEPT !.kind = "mixed", !.ours = ours, !.split = split, !.at = at]
             q == Stripped(m)
  <2>2. at \in {"answer", "tools"} /\ (at = "answer" <=> way = "chunks")
    OBVIOUS
  <2>3. reqs' = [reqs EXCEPT ![r] = q] /\ loops' = loops
    BY <1>8, <2>1 DEF SaysMixed, memory
  <2>4. /\ ours \in SUBSET {"named", "late"}
        /\ ours \ {"named"} # {} => ours \ {"named"} = {"late"} /\ way # "whole"
    BY DEF OurCalls, Named
  <2> HIDE DEF at
  <2>5. /\ m \in Recs /\ m.todo = <<>> /\ m.kind = "mixed" /\ m.at = at /\ m.ours = ours
        /\ m.end = p.end /\ m.round = p.round /\ m.met = p.met /\ m.hist = p.hist
    BY <1>2, <2>2, <2>4 DEF Recs, Ats, Open
  <2> HIDE DEF m
  <2>6. /\ q \in Recs /\ q.todo = <<>> /\ q.kind = "mixed" /\ q.cut = TRUE /\ q.at = at
        /\ q.end = p.end /\ q.round = p.round /\ q.met = p.met /\ q.hist = p.hist
        /\ q.ours = ours \ {"named"}
    BY <2>5, StrippedIs
  <2> HIDE DEF q
  <2>7. Fits(q, way)
    <3>1. Slipped(q, way)
      BY <1>2, <2>4, <2>6 DEF Slipped
    <3> QED
      BY <1>2, <2>2, <2>6, <3>1 DEF Fits
  <2>8. Goes(p, q)
    BY <1>2, <2>2, <2>6 DEF Goes
  <2>9. splice' = IF p.at \in {"tools", "final"} /\ q.end # "left" THEN Added(r) ELSE splice
    BY <1>2, <1>3
  <2> QED
    BY <1>2, <1>3, <1>4, <2>2, <2>3, <2>6, <2>7, <2>8, <2>9, Handled DEF Hears
<1>9. CASE SaysPure(r)
  <2>1. CASE way = "whole" /\ Fingerprint(r) \in recent
    BY <1>2, <1>5, <1>9, <2>1 DEF SaysPure, Slipped
  <2>2. CASE ~(way = "whole" /\ Fingerprint(r) \in recent)
    <3>1. PICK pre \in BOOLEAN :
             /\ reqs' = [reqs EXCEPT ![r].kind = "pure", ![r].at = "loop",
                                     ![r].round = 1, ![r].pre = pre,
                                     ![r].ours = Named]
             /\ loops' = loops
      BY <1>9, <2>2 DEF SaysPure
    <3> DEFINE q == [p EXCEPT !.kind = "pure", !.at = "loop", !.round = 1, !.pre = pre,
                              !.ours = Named]
    <3>2. reqs' = [reqs EXCEPT ![r] = q]
      BY <1>1, <3>1
    <3>3. /\ q \in Recs /\ q.todo = <<>> /\ q.kind = "pure" /\ q.cut = p.cut /\ q.at = "loop"
          /\ q.end = p.end /\ q.round = 1 /\ q.met = p.met /\ q.hist = p.hist
          /\ q.ours = {"named"}
      BY <1>2 DEF Recs, Ats, Open, Named
    <3> HIDE DEF q
    <3>4. Fits(q, way)
      BY <1>2, <3>3 DEF Fits
    <3>5. Goes(p, q)
      BY <1>2, <3>3 DEF Goes
    <3> QED
      BY <1>2, <1>3, <1>4, <3>1, <3>2, <3>3, <3>4, <3>5, Handled DEF Hears
  <2> QED
    BY <2>1, <2>2
<1> QED
  BY <1>6, <1>7, <1>8, <1>9

LEMMA ToolSteps ==
    ASSUME InterceptionTypes, Shaped, NEW r \in Requests,
           RunTools(r) \/ Final(r) \/ HangUp(r)
    PROVE  InterceptionTypes' /\ Shaped' /\ Handles(r)
<1> DEFINE p == reqs[r]
<1>1. /\ reqs \in Seq(Recs) /\ splice \in SUBSET Records
      /\ loops \in Seq(Nat \X (Nat \ {0})) /\ left \in [Faults -> Nat]
  BY DEF InterceptionTypes
<1>2. /\ p.at \in {"tools", "final"} /\ p \in Recs /\ p.todo = <<>> /\ Slipped(p, way)
      /\ p.at = "final" => p.kind = "pure"
      /\ p.at = "tools" => p.kind = "mixed"
      /\ p.end = "open"
  BY <1>1, RecIsTyped DEF Shaped, Fits, Open, RunTools, Final, HangUp
<1>3. /\ UNCHANGED <<way, hist, waits, given, stored, paid, left>>
      /\ splice' \in {splice, Added(r)}
  BY DEF RunTools, Final, HangUp, agent, memory
<1>4. splice' \in SUBSET Records
  <2>1. r \in Nat
    BY DEF Requests
  <2> QED
    BY <1>1, <1>3, <2>1, AddedAreTyped
<1>5. CASE RunTools(r) /\ way = "chunks"
  <2>0. splice' = Added(r)
    BY <1>5 DEF RunTools
  <2> DEFINE q == [p EXCEPT !.at = "collect"]
  <2>1. reqs' = [reqs EXCEPT ![r] = q] /\ loops' = loops
    BY <1>5 DEF RunTools
  <2>2. /\ q \in Recs /\ q.todo = <<>> /\ q.kind = p.kind /\ q.cut = p.cut /\ q.at = "collect"
        /\ q.end = p.end /\ q.round = p.round /\ q.met = p.met /\ q.hist = p.hist
        /\ q.ours = p.ours
    BY <1>2 DEF Recs, Ats
  <2> HIDE DEF q
  <2>3. Fits(q, way)
    BY <1>2, <2>2 DEF Fits, Open, Slipped
  <2>4. Goes(p, q)
    BY <1>2, <2>2 DEF Goes
  <2> QED
    BY <1>1, <1>2, <1>3, <2>0, <2>1, <2>2, <2>3, <2>4, Handled DEF Hears
<1>6. CASE /\ Answered(r, p, splice', loops) /\ splice' = Added(r)
           /\ ~(p.at = "tools" /\ way = "chunks")
  <2>1. PICK w \in Recs :
           /\ reqs' = [reqs EXCEPT ![r] = w]
           /\ w.kind = p.kind /\ w.cut = p.cut /\ w.end = p.end /\ w.round = p.round
           /\ w.met = p.met /\ w.hist = p.hist /\ w.ours = p.ours
           /\ \/ w.at = "store" /\ w.todo = Turns(r, splice', loops) /\ loops' = <<>>
              \/ w.at = "answer" /\ w.todo = <<>> /\ loops' = loops
    <3>1. BuiltOrSent(r, p, splice', loops)
      BY <1>1, <1>2, <1>4, <1>6, AnsweredIs
    <3> QED
      BY <3>1 DEF BuiltOrSent
  <2>2. Fits(w, way)
    BY <1>2, <2>1 DEF Fits, Open, Slipped
  <2>3. Goes(p, w)
    BY <1>2, <1>6, <2>1 DEF Goes
  <2> QED
    BY <1>1, <1>2, <1>3, <1>6, <2>1, <2>2, <2>3, Handled DEF Hears
<1>7. CASE HangUp(r)
  <2> DEFINE q == [p EXCEPT !.at = "collect", !.end = "left"]
  <2>1. /\ reqs' = [reqs EXCEPT ![r] = q] /\ loops' = loops /\ splice' = splice
        /\ p.at = "tools" /\ way = "chunks"
    BY <1>1, <1>7 DEF HangUp, memory
  <2>2. /\ q \in Recs /\ q.todo = <<>> /\ q.kind = p.kind /\ q.cut = p.cut /\ q.at = "collect"
        /\ q.end = "left" /\ q.round = p.round /\ q.met = p.met /\ q.hist = p.hist
        /\ q.ours = p.ours
    BY <1>2 DEF Recs, Ats
  <2> HIDE DEF q
  <2>3. Fits(q, way)
    BY <1>2, <2>2 DEF Fits, Open
  <2>4. Goes(p, q)
    BY <1>2, <2>1, <2>2 DEF Goes
  <2> QED
    BY <1>1, <1>2, <1>3, <2>1, <2>2, <2>3, <2>4, Handled DEF Hears
<1> QED
  BY <1>5, <1>6, <1>7 DEF RunTools, Final

LEMMA LoopSteps ==
    ASSUME InterceptionTypes, Shaped, NEW r \in Requests,
           \/ LoopGoesOn(r) \/ LoopAnswers(r) \/ LoopMixes(r) \/ LoopRunsOut(r)
           \/ LoopFails(r)
    PROVE  InterceptionTypes' /\ Shaped' /\ Handles(r)
<1> DEFINE p == reqs[r]
<1>1. /\ reqs \in Seq(Recs) /\ splice \in SUBSET Records
      /\ loops \in Seq(Nat \X (Nat \ {0})) /\ left \in [Faults -> Nat]
  BY DEF InterceptionTypes
<1>2. /\ p.at = "loop" /\ p \in Recs /\ p.todo = <<>> /\ p.kind = "pure" /\ ~p.cut
      /\ p.round \in Nat /\ p.round > 0 /\ p.end = "open" /\ p.ours \in SUBSET {"named"}
  BY <1>1, RecIsTyped
     DEF Shaped, Fits, Open, LoopGoesOn, LoopAnswers, LoopMixes, LoopRunsOut, LoopFails, LoopPays
<1>3. UNCHANGED <<way, splice, given, stored>>
  BY DEF LoopGoesOn, LoopAnswers, LoopMixes, LoopRunsOut, LoopFails, LoopPays, agent, memory
<1>4. /\ left' \in [Faults -> Nat] /\ left'["crash"] = left["crash"]
      /\ paid' = paid \/ paid' = paid \cup {<<r, p.round>>}
      /\ Hears(r, p.at = "answer")
  <2>1. CASE LoopFails(r)
    BY <2>1, FaultIs DEF LoopFails, Gets, Hears
  <2> QED
    BY <1>1, <2>1 DEF LoopGoesOn, LoopAnswers, LoopMixes, LoopRunsOut, LoopPays, agent, Hears
<1>5. CASE LoopGoesOn(r)
  <2> DEFINE n == p.round + 1
             q == [p EXCEPT !.round = n]
  <2>1. reqs' = [reqs EXCEPT ![r] = q] /\ loops' = loops
    BY <1>1, <1>5 DEF LoopGoesOn
  <2>2. n \in Nat /\ n > 0
    BY <1>2
  <2>3. n = p.round + 1
    OBVIOUS
  <2> HIDE DEF n
  <2>4. /\ q \in Recs /\ q.todo = <<>> /\ q.kind = p.kind /\ q.cut = p.cut /\ q.at = "loop"
        /\ q.end = p.end /\ q.round = n /\ q.met = p.met /\ q.hist = p.hist
        /\ q.ours = p.ours
    BY <1>2, <2>2 DEF Recs
  <2> HIDE DEF q
  <2>5. Fits(q, way)
    BY <1>2, <2>2, <2>4 DEF Fits
  <2>6. Goes(p, q)
    BY <1>2, <2>3, <2>4 DEF Goes
  <2> QED
    BY <1>2, <1>3, <1>4, <2>1, <2>4, <2>5, <2>6, Handled
<1>6. CASE Answered(r, Worded(p), splice, loops \o Rounds(r))
  <2>1. loops \o Rounds(r) \in Seq(Nat \X (Nat \ {0}))
    BY <1>1, RoundsAre
  <2>2. PICK w \in Recs :
           /\ reqs' = [reqs EXCEPT ![r] = w]
           /\ w.kind = p.kind /\ w.cut = p.cut /\ w.end = p.end /\ w.round = p.round
           /\ w.met = p.met /\ w.hist = p.hist /\ w.ours = {}
           /\ \/ /\ w.at = "store" /\ w.todo = Turns(r, splice, loops \o Rounds(r))
                 /\ loops' = <<>>
              \/ w.at = "answer" /\ w.todo = <<>> /\ loops' = loops \o Rounds(r)
    <3> DEFINE q == Worded(p)
    <3>1. /\ q \in Recs /\ q.todo = <<>> /\ q.kind = p.kind /\ q.cut = p.cut /\ q.end = p.end
          /\ q.round = p.round /\ q.met = p.met /\ q.hist = p.hist /\ q.ours = {}
      BY <1>2, WordedIs
    <3>2. Answered(r, q, splice, loops \o Rounds(r))
      BY <1>6
    <3> HIDE DEF q
    <3>3. BuiltOrSent(r, q, splice, loops \o Rounds(r))
      BY <1>1, <2>1, <3>1, <3>2, AnsweredIs
    <3> QED
      BY <3>1, <3>3 DEF BuiltOrSent
  <2>3. Fits(w, way)
    BY <1>2, <2>2 DEF Fits, Slipped
  <2>4. Goes(p, w)
    BY <1>2, <2>2 DEF Goes
  <2> QED
    BY <1>2, <1>3, <1>4, <2>2, <2>3, <2>4, Handled
<1>7. CASE LoopMixes(r)
  <2>0. PICK split \in BOOLEAN :
           reqs' = [reqs EXCEPT ![r] = Stripped([p EXCEPT !.at = "final", !.split = split])]
    BY <1>7 DEF LoopMixes
  <2> DEFINE m == [p EXCEPT !.at = "final", !.split = split]
             q == Stripped(m)
  <2>1. reqs' = [reqs EXCEPT ![r] = q] /\ loops' = loops \o Rounds(r)
    BY <1>1, <1>7, <2>0 DEF LoopMixes
  <2>2. /\ m \in Recs /\ m.todo = <<>> /\ m.kind = p.kind /\ m.at = "final"
        /\ m.end = p.end /\ m.round = p.round /\ m.met = p.met /\ m.hist = p.hist
        /\ m.ours = p.ours
    BY <1>2 DEF Recs, Ats, Open
  <2> HIDE DEF m
  <2>3. /\ q \in Recs /\ q.todo = <<>> /\ q.kind = p.kind /\ q.cut = TRUE /\ q.at = "final"
        /\ q.end = p.end /\ q.round = p.round /\ q.met = p.met /\ q.hist = p.hist
        /\ q.ours = {}
    BY <1>2, <2>2, StrippedIs
  <2> HIDE DEF q
  <2>4. Fits(q, way)
    BY <1>2, <2>3 DEF Fits, Slipped
  <2>5. Goes(p, q)
    BY <1>2, <2>3 DEF Goes
  <2> QED
    BY <1>2, <1>3, <1>4, <2>1, <2>3, <2>4, <2>5, Handled
<1>8. CASE LoopFails(r)
  <2> DEFINE f == [p EXCEPT !.end = "failed"]
             q == IF way = "whole" THEN Over(f, "done") ELSE [f EXCEPT !.at = "collect"]
  <2>1. reqs' = [reqs EXCEPT ![r] = q] /\ loops' = loops
    BY <1>8 DEF LoopFails, memory
  <2>2. /\ f \in Recs /\ f.todo = <<>> /\ f.kind = p.kind /\ f.cut = p.cut /\ f.at = "loop"
        /\ f.end = "failed" /\ f.round = p.round /\ f.met = p.met /\ f.hist = p.hist
    BY <1>2 DEF Recs
  <2> HIDE DEF f
  <2>3. "done" \in Ats /\ "collect" \in Ats
    BY DEF Ats
  <2>4. /\ q \in Recs /\ q.todo = <<>> /\ q.kind = p.kind /\ q.cut = p.cut
        /\ q.at = IF way = "whole" THEN "done" ELSE "collect"
        /\ q.end = "failed" /\ q.round = p.round /\ q.met = p.met /\ q.hist \in {p.hist, <<>>}
    <3>1. CASE way = "whole"
      BY <2>2, <2>3, <3>1, OverIsTyped
    <3>2. CASE way # "whole"
      BY <2>2, <2>3, <3>2 DEF Recs
    <3> QED
      BY <3>1, <3>2
  <2> HIDE DEF q
  <2>5. Fits(q, way)
    BY <1>2, <2>4 DEF Fits, Open
  <2>6. Goes(p, q)
    BY <1>2, <2>4 DEF Goes
  <2> QED
    BY <1>2, <1>3, <1>4, <2>1, <2>4, <2>5, <2>6, Handled
<1> QED
  BY <1>3, <1>5, <1>6, <1>7, <1>8 DEF LoopAnswers, LoopRunsOut

LEMMA StreamSteps ==
    ASSUME InterceptionTypes, Shaped, NEW r \in Requests, Deliver(r) \/ Collect(r)
    PROVE  InterceptionTypes' /\ Shaped' /\ Handles(r)
<1> DEFINE p == reqs[r]
<1>1. /\ reqs \in Seq(Recs) /\ splice \in SUBSET Records
      /\ loops \in Seq(Nat \X (Nat \ {0})) /\ left \in [Faults -> Nat]
  BY DEF InterceptionTypes
<1>2. p.at \in {"answer", "collect"} /\ p \in Recs /\ p.todo = <<>>
  BY <1>1, RecIsTyped DEF Shaped, Fits, Deliver, Collect
<1>3. UNCHANGED <<way, splice, given, stored, paid, left>>
  BY DEF Deliver, Collect, agent, memory
<1>4. CASE Deliver(r)
  <2> DEFINE at == IF way = "chunks" /\ p.kind = "mixed" THEN "tools" ELSE "collect"
             q == [p EXCEPT !.at = at]
  <2>1. p.at = "answer" /\ reqs' = [reqs EXCEPT ![r] = q] /\ loops' = loops /\ Hears(r, TRUE)
    BY <1>1, <1>4 DEF Deliver, memory, Gets, Hears
  <2>2. at \in {"tools", "collect"}
    OBVIOUS
  <2>3. at = IF way = "chunks" /\ p.kind = "mixed" THEN "tools" ELSE "collect"
    OBVIOUS
  <2> HIDE DEF at
  <2>4. /\ q \in Recs /\ q.todo = <<>> /\ q.kind = p.kind /\ q.cut = p.cut /\ q.at = at
        /\ q.end = p.end /\ q.round = p.round /\ q.met = p.met /\ q.hist = p.hist
        /\ q.ours = p.ours
    BY <1>2, <2>2 DEF Recs, Ats, Open
  <2> HIDE DEF q
  <2>5. Fits(q, way)
    <3>1. Slipped(q, way) /\ q.end = "open"
      BY <2>1, <2>4 DEF Shaped, Fits, Slipped, Open
    <3> QED
      BY <2>2, <2>3, <2>4, <3>1 DEF Fits
  <2>6. Goes(p, q)
    BY <2>1, <2>3, <2>4 DEF Goes
  <2>7. q.at # "store" /\ Hears(r, p.at = "answer")
    BY <2>1, <2>2, <2>4
  <2> QED
    BY <1>1, <1>3, <2>1, <2>4, <2>5, <2>6, <2>7, Handled
<1>5. CASE Collect(r)
  <2>1. p.at = "collect" /\ Built(r, p, splice, loops) /\ UNCHANGED <<hist, waits>>
    BY <1>5 DEF Collect, agent
  <2>2. PICK w \in Recs :
           /\ reqs' = [reqs EXCEPT ![r] = w]
           /\ w.kind = p.kind /\ w.cut = p.cut /\ w.end = p.end /\ w.round = p.round
           /\ w.met = p.met /\ w.hist = p.hist /\ w.ours = p.ours
           /\ w.at = "store" /\ w.todo = Turns(r, splice, loops) /\ loops' = <<>>
    <3> DEFINE t == Turns(r, splice, loops)
               w == [p EXCEPT !.at = "store", !.todo = t]
    <3>1. r \in Nat
      BY DEF Requests
    <3>2. t \in Seq(Entries)
      BY <1>1, <3>1, TurnsAre
    <3>3. reqs' = [reqs EXCEPT ![r] = w] /\ loops' = <<>>
      BY <2>1 DEF Built, Drained
    <3> HIDE DEF t
    <3>4. /\ w \in Recs /\ w.at = "store" /\ w.todo = t /\ w.kind = p.kind /\ w.cut = p.cut
          /\ w.end = p.end /\ w.round = p.round /\ w.met = p.met /\ w.hist = p.hist
          /\ w.ours = p.ours
      BY <1>2, <3>2 DEF Recs, Ats
    <3> QED
      BY <3>3, <3>4 DEF t
  <2>3. Fits(w, way)
    <3>1. Slipped(w, way) \/ w.end # "open"
      BY <2>1, <2>2 DEF Shaped, Fits, Slipped
    <3> QED
      BY <2>2, <3>1 DEF Fits, Open
  <2>4. Goes(p, w)
    BY <2>1, <2>2 DEF Goes
  <2> QED
    BY <1>1, <1>3, <2>1, <2>2, <2>3, <2>4, Handled DEF Hears
<1> QED
  BY <1>4, <1>5

LEMMA Rest ==
    ASSUME NEW S, NEW t \in Seq(S), t # <<>> \/ Len(t) > 0
    PROVE  /\ t # <<>> /\ Len(t) \in Nat /\ Len(t) > 0
           /\ Head(t) \in S /\ Head(t) = t[1]
           /\ Tail(t) \in Seq(S) /\ Len(Tail(t)) = Len(t) - 1
           /\ \A i \in 1..Len(Tail(t)) : Tail(t)[i] = t[i + 1]
           /\ Tail(t) = <<>> <=> Len(t) = 1
<1>1. Len(t) \in Nat /\ (t # <<>> => Len(t) > 0) /\ (Len(t) > 0 => t # <<>>)
  BY EmptySeq, LenProperties
<1>2. t # <<>> /\ Len(t) > 0
  BY <1>1
<1>3. /\ Head(t) \in S /\ Head(t) = t[1] /\ Tail(t) \in Seq(S)
      /\ Len(Tail(t)) = Len(t) - 1
      /\ \A i \in 1..Len(Tail(t)) : Tail(t)[i] = t[i + 1]
  BY <1>2, HeadTailProperties
<1>4. (Tail(t) # <<>> => Len(Tail(t)) > 0) /\ (Len(Tail(t)) > 0 => Tail(t) # <<>>)
  <2>1. \A u \in Seq(S) : (u # <<>> => Len(u) > 0) /\ (Len(u) > 0 => u # <<>>)
    BY EmptySeq, LenProperties
  <2> QED
    BY <1>3, <2>1
<1>5. (Tail(t) = <<>>) <=> (Len(t) = 1)
  BY <1>1, <1>2, <1>3, <1>4
<1> QED
  BY <1>1, <1>2, <1>3, <1>5

LEMMA StoreSteps ==
    ASSUME InterceptionTypes, Shaped, NEW r \in Requests, StoreNext(r) \/ StoreLast(r)
    PROVE  InterceptionTypes' /\ Shaped' /\ Stores(r)
<1> DEFINE p == reqs[r]
<1>1. /\ reqs \in Seq(Recs) /\ hist \in Seq(Messages) /\ waits \in {0} \cup Requests
      /\ stored \in Seq(Entries)
  BY DEF InterceptionTypes
<1>2. /\ p \in Recs /\ p.todo \in Seq(Entries) /\ p.at = "store" /\ Len(p.todo) > 0
      /\ p.hist \in Seq(Messages)
  <2>1. p \in Recs /\ p.todo \in Seq(Entries) /\ p.hist \in Seq(Messages)
    BY <1>1, RecIsTyped
  <2>2. p.at = "store" /\ (Len(p.todo) > 1 \/ Len(p.todo) = 1)
    BY DEF StoreNext, StoreLast
  <2>3. \A n \in Nat : (n > 1 \/ n = 1) => n > 0
    OBVIOUS
  <2>4. Len(p.todo) \in Nat
    BY <2>1, LenProperties
  <2> QED
    BY <2>1, <2>2, <2>3, <2>4
<1>3. /\ p.todo # <<>> /\ Tail(p.todo) \in Seq(Entries) /\ Head(p.todo) \in Entries
      /\ Len(Tail(p.todo)) = Len(p.todo) - 1 /\ Append(stored, Head(p.todo)) \in Seq(Entries)
      /\ Tail(p.todo) = <<>> <=> Len(p.todo) = 1
  <2>1. /\ p.todo # <<>> /\ Tail(p.todo) \in Seq(Entries) /\ Head(p.todo) \in Entries
        /\ Len(Tail(p.todo)) = Len(p.todo) - 1
        /\ Tail(p.todo) = <<>> <=> Len(p.todo) = 1
    BY <1>2, Rest
  <2> QED
    BY <1>1, <2>1
<1>4. /\ UNCHANGED <<way, memory, paid, left>> /\ stored' = Append(stored, Head(p.todo))
      /\ Hears(r, p.end = "open")
  BY DEF StoreNext, StoreLast, agent, Gets, Hears
<1>5. hist' \in Seq(Messages) /\ waits' \in {0} \cup Requests
  <2>1. CASE p.end = "open"
    <3>1. Message(r) \in Messages
      <4>1. Slipped(p, way)
        BY <1>2, <2>1 DEF Shaped, Fits
      <4> QED
        BY <1>1, <4>1, MessageIsTyped
    <3>2. Append(p.hist, Message(r)) \in Seq(Messages)
      BY <1>2, <3>1
    <3> QED
      BY <1>1, <1>4, <3>2 DEF Hears
  <2>2. CASE p.end # "open"
    BY <1>1, <1>4, <2>2 DEF Hears
  <2> QED
    BY <2>1, <2>2
<1>6. ASSUME NEW q \in Recs, reqs' = [reqs EXCEPT ![r] = q],
             q.at = IF Tail(p.todo) = <<>> THEN "done" ELSE "store",
             q.todo = Tail(p.todo), q.kind = p.kind, q.cut = p.cut, q.end = p.end,
             q.round = p.round, q.met = p.met, q.hist \in {p.hist, <<>>}, q.ours \in {p.ours, {}}
      PROVE  InterceptionTypes' /\ Shaped' /\ Stores(r)
  <2>1. /\ reqs' \in Seq(Recs) /\ Len(reqs') = Len(reqs) /\ reqs'[r] = q
        /\ \A s \in Requests : s # r => reqs'[s] = reqs[s]
    BY <1>1, <1>6, Replaced
  <2>2. Requests' = Requests
    BY <2>1 DEF Requests
  <2>3. InterceptionTypes'
    BY <1>3, <1>4, <1>5, <2>1, <2>2 DEF InterceptionTypes, memory
  <2>4. Fits(q, way)
    <3>1. Slipped(q, way) \/ q.end # "open"
      BY <1>2, <1>6 DEF Shaped, Fits, Slipped
    <3>2. q.at \in {"done", "store"} /\ (q.at # "store" => q.todo = <<>>)
      BY <1>6
    <3> QED
      BY <3>1, <3>2 DEF Fits, Open
  <2>5. Shaped'
    BY <1>4, <2>1, <2>2, <2>4 DEF Shaped
  <2>6. Stores(r)
    BY <1>2, <1>3, <1>4, <1>6, <2>1 DEF Stores
  <2> QED
    BY <2>3, <2>5, <2>6
<1>7. CASE StoreNext(r)
  <2> DEFINE t == Tail(p.todo)
             q == [p EXCEPT !.todo = t]
  <2>1. reqs' = [reqs EXCEPT ![r] = q] /\ Len(p.todo) > 1
    BY <1>1, <1>7 DEF StoreNext
  <2>2. t \in Seq(Entries) /\ t # <<>>
    <3> DEFINE n == Len(p.todo)
    <3>2. n \in Nat /\ n > 1
      BY <1>2, <2>1, LenProperties
    <3> HIDE DEF n
    <3>3. n # 1
      BY <3>2
    <3>1. Len(p.todo) # 1
      BY <3>3 DEF n
    <3> QED
      BY <1>3, <3>1
  <2> HIDE DEF t
  <2>3. /\ q \in Recs /\ q.todo = t /\ q.kind = p.kind /\ q.cut = p.cut /\ q.at = "store"
        /\ q.end = p.end /\ q.round = p.round /\ q.met = p.met /\ q.hist = p.hist
        /\ q.ours = p.ours
    BY <1>2, <2>2 DEF Recs
  <2> HIDE DEF q
  <2> QED
    BY <1>6, <2>1, <2>2, <2>3 DEF t
<1>8. CASE StoreLast(r)
  <2> DEFINE q == Over(p, "done")
  <2>1. reqs' = [reqs EXCEPT ![r] = q] /\ Len(p.todo) = 1
    BY <1>8 DEF StoreLast
  <2>2. Tail(p.todo) = <<>>
    BY <1>3, <2>1
  <2>3. "done" \in Ats
    BY DEF Ats
  <2>4. /\ q \in Recs /\ q.todo = <<>> /\ q.kind = p.kind /\ q.cut = p.cut /\ q.at = "done"
        /\ q.end = p.end /\ q.round = p.round /\ q.met = p.met /\ q.hist = <<>>
        /\ q.ours = {}
    BY <1>2, <2>3, OverIsTyped
  <2> HIDE DEF q
  <2> QED
    BY <1>6, <2>1, <2>2, <2>4
<1> QED
  BY <1>7, <1>8

LEMMA PrepareSteps ==
    ASSUME InterceptionTypes, Shaped, NEW r \in Requests, Prepare(r)
    PROVE  InterceptionTypes' /\ Shaped' /\ Prepares(r)
<1>1. /\ reqs \in Seq(Recs) /\ splice \in SUBSET Records /\ given \in SUBSET Anchoring
      /\ stored \in Seq(Entries)
  BY DEF InterceptionTypes
<1>2. /\ reqs[r].at = "sent" /\ UNCHANGED <<agent, loops, stored, paid, left>>
  BY DEF Prepare
<1>3. PICK n \in IF Restores THEN 0..Len(stored) ELSE {0} :
         /\ reqs' = [s \in Requests |->
                IF s = r THEN [reqs[r] EXCEPT !.at = "upstream",
                                  !.sees = Spliced(reqs[r].hist, Table(Held(n)))]
                ELSE IF reqs[s].at \in {"answer", "collect"}
                THEN [reqs[s] EXCEPT !.met = TRUE] ELSE reqs[s]]
         /\ splice' = Aged(Table(Held(n)))
         /\ given' = IF Restores THEN Held(n) ELSE given
  BY DEF Prepare
<1>4. n \in 0..Len(stored)
  BY <1>1
<1>5. Held(n) \in SUBSET Anchoring
  BY <1>1, <1>4, HeldAreTyped
<1>6. Table(Held(n)) \in SUBSET Records
  BY <1>1, <1>5, TableIsTyped
<1>7. splice' \in SUBSET Records
  BY <1>3, <1>6, NewAreTyped
<1> DEFINE sees == Spliced(reqs[r].hist, Table(Held(n)))
           New(s) == IF s = r THEN [reqs[r] EXCEPT !.at = "upstream", !.sees = sees]
                     ELSE IF reqs[s].at \in {"answer", "collect"}
                     THEN [reqs[s] EXCEPT !.met = TRUE] ELSE reqs[s]
<1>8. sees \in SUBSET Anchoring
  <2>1. Anchors(Table(Held(n))) \in SUBSET Anchoring
    BY <1>6, NewAreTyped
  <2> QED
    BY <2>1 DEF Spliced
<1>9. reqs' = [s \in Requests |-> New(s)]
  BY <1>3
<1> HIDE DEF sees
<1>10. ASSUME NEW s \in Requests
       PROVE  /\ New(s) \in Recs
              /\ New(s).at = IF s = r THEN "upstream" ELSE reqs[s].at
              /\ New(s).todo = reqs[s].todo /\ New(s).round = reqs[s].round
              /\ New(s).kind = reqs[s].kind /\ New(s).cut = reqs[s].cut
              /\ New(s).end = reqs[s].end /\ New(s).hist = reqs[s].hist
              /\ New(s).ours = reqs[s].ours
              /\ New(s).met = (reqs[s].met \/ reqs[s].at \in {"answer", "collect"})
              /\ s = r => New(s).sees = sees
  <2>1. reqs[s] \in Recs
    BY <1>1, RecIsTyped
  <2>2. CASE s = r
    BY <1>2, <1>8, <2>1, <2>2 DEF Recs, Ats, Open
  <2>3. CASE s # r /\ reqs[s].at \in {"answer", "collect"}
    BY <2>1, <2>3 DEF Recs
  <2>4. CASE s # r /\ reqs[s].at \notin {"answer", "collect"}
    <3>1. reqs[s].met \in BOOLEAN
      BY <1>1, RecIsTyped
    <3> QED
      BY <2>1, <2>4, <3>1
  <2> QED
    BY <2>2, <2>3, <2>4
<1> HIDE DEF New
<1>11. /\ reqs' \in Seq(Recs) /\ Len(reqs') = Len(reqs)
       /\ \A s \in Requests : reqs'[s] = New(s)
  <2>1. Len(reqs) \in Nat
    BY <1>1
  <2> QED
    BY <1>9, <1>10, <2>1 DEF Requests
<1>12. Requests' = Requests
  BY <1>11 DEF Requests
<1>13. InterceptionTypes'
  BY <1>1, <1>2, <1>3, <1>5, <1>7, <1>11, <1>12
     DEF InterceptionTypes, Prepare, agent
<1>14. ASSUME NEW s \in Requests PROVE Fits(reqs'[s], way')
  <2>1. Fits(reqs[s], way) /\ way' = way
    BY <1>2 DEF Shaped, agent
  <2>2. CASE s = r
    BY <1>2, <1>10, <1>11, <2>1, <2>2 DEF Fits, Slipped, Open
  <2>3. CASE s # r
    BY <1>10, <1>11, <2>1, <2>3 DEF Fits, Slipped
  <2> QED
    BY <2>2, <2>3
<1>15. Shaped'
  BY <1>12, <1>14 DEF Shaped
<1>16. Prepares(r)
  <2>1. \A s \in Requests :
          /\ reqs'[s].at = IF s = r THEN "upstream" ELSE reqs[s].at
          /\ reqs'[s].todo = reqs[s].todo /\ reqs'[s].round = reqs[s].round
          /\ reqs'[s].kind = reqs[s].kind /\ reqs'[s].cut = reqs[s].cut
          /\ reqs'[s].end = reqs[s].end /\ reqs'[s].hist = reqs[s].hist
          /\ reqs'[s].met = (reqs[s].met \/ reqs[s].at \in {"answer", "collect"})
    BY <1>10, <1>11
  <2>2. reqs'[r].sees = Spliced(reqs[r].hist, Table(Held(n)))
    BY <1>10, <1>11 DEF sees
  <2> QED
    BY <1>2, <1>3, <1>4, <1>11, <2>1, <2>2 DEF Prepares
<1> QED
  BY <1>13, <1>15, <1>16

\* A request is added to the requests as they are after a step of some of them.
LEMMA Sent ==
    ASSUME NEW old \in Seq(Recs), NEW q \in Recs, reqs' = Append(old, q),
           Len(old) = Len(reqs)
    PROVE  /\ reqs' \in Seq(Recs) /\ Len(reqs') = Len(reqs) + 1
           /\ reqs'[Len(reqs) + 1] = q
           /\ \A s \in 1..Len(reqs) : reqs'[s] = old[s]
           /\ Requests' = 1..(Len(reqs) + 1)
<1>1. Len(reqs) \in Nat
  OBVIOUS
<1> QED
  BY <1>1 DEF Requests

LEMMA SendSteps ==
    ASSUME InterceptionTypes, Shaped, Ask \/ AskAside \/ AskAgain
    PROVE  InterceptionTypes' /\ Shaped' /\ Sends
<1>1. /\ reqs \in Seq(Recs) /\ hist \in Seq(Messages) /\ waits \in {0} \cup Requests
      /\ left \in [Faults -> Nat] /\ Len(reqs) \in Nat
  BY DEF InterceptionTypes
<1>2. /\ UNCHANGED <<way, hist, memory, stored, paid>>
      /\ waits' \in {waits, Len(reqs) + 1}
      /\ left' \in [Faults -> Nat] /\ left'["crash"] = left["crash"]
  <2>1. CASE AskAgain
    BY <2>1, FaultIs DEF AskAgain
  <2> QED
    BY <1>1, <2>1 DEF Ask, AskAside, agent
<1>3. ASSUME NEW old \in Seq(Recs), NEW q \in Recs, reqs' = Append(old, q),
             Len(old) = Len(reqs),
             q.at = "sent", q.round = 0, q.todo = <<>>, ~q.cut, q.ours = {}, q.end = "open",
             q.hist \in {<<>>, hist} \cup {reqs[r].hist : r \in Requests},
             \A s \in Requests :
                /\ Fits(old[s], way)
                /\ \/ old[s] = reqs[s]
                   \/ /\ s = waits /\ way # "whole" /\ reqs[s].at \in Open \ {"sent"}
                      /\ old[s] = [reqs[s] EXCEPT !.at = "collect", !.end = "left"]
      PROVE  InterceptionTypes' /\ Shaped' /\ Sends
  <2>1. /\ reqs' \in Seq(Recs) /\ Len(reqs') = Len(reqs) + 1
        /\ reqs'[Len(reqs) + 1] = q
        /\ \A s \in Requests : reqs'[s] = old[s]
        /\ Requests' = 1..(Len(reqs) + 1)
    BY <1>3, Sent DEF Requests
  <2>2. Requests' = Requests \cup {Len(reqs) + 1}
    BY <1>1, <2>1 DEF Requests
  <2>3. InterceptionTypes'
    BY <1>1, <1>2, <2>1, <2>2 DEF InterceptionTypes, memory
  <2>4. Fits(q, way)
    <3>1. /\ q.at = "sent" /\ q.round = 0 /\ q.todo = <<>> /\ ~q.cut /\ q.ours = {}
          /\ q.end = "open"
      BY <1>3
    <3> QED
      BY <3>1 DEF Fits, Slipped
  <2>5. Shaped'
    BY <1>2, <1>3, <2>1, <2>2, <2>4 DEF Shaped
  <2>6. Sends
    BY <1>2, <1>3, <2>1 DEF Sends
  <2> QED
    BY <2>3, <2>5, <2>6
<1>4. \A main \in BOOLEAN :
         LET q == Fresh(main)
         IN /\ q \in Recs /\ q.at = "sent" /\ q.round = 0 /\ q.todo = <<>> /\ ~q.cut
            /\ q.ours = {} /\ q.end = "open" /\ q.hist \in {<<>>, hist}
  <2>1. ASSUME NEW main \in BOOLEAN PROVE Fresh(main) \in Recs
    BY <1>1, FreshIsTyped
  <2> QED
    BY <2>1 DEF Fresh
<1>5. \A s \in Requests : Fits(reqs[s], way)
  BY DEF Shaped
<1>6. CASE Ask \/ AskAside
  <2>1. \E main \in BOOLEAN : reqs' = Append(reqs, Fresh(main))
    BY <1>6 DEF Ask, AskAside
  <2> QED
    BY <1>1, <1>3, <1>4, <1>5, <2>1
<1>7. CASE AskAgain
  <2>1. waits \in Requests
    BY <1>1, <1>7 DEF AskAgain
  <2> DEFINE h == reqs[waits].hist
             e == Left(reqs[waits])
             old == [reqs EXCEPT ![waits] = e]
             q == [Fresh(TRUE) EXCEPT !.hist = h]
  <2>2. reqs[waits] \in Recs /\ h \in Seq(Messages) /\ Fits(reqs[waits], way)
    BY <1>1, <1>5, <2>1, RecIsTyped
  <2>3. reqs' = Append(old, q)
    BY <1>1, <1>7, <2>1 DEF AskAgain
  <2>4. /\ e \in Recs
        /\ \/ e = reqs[waits]
           \/ /\ way # "whole" /\ reqs[waits].at \in Open \ {"sent"}
              /\ e = [reqs[waits] EXCEPT !.at = "collect", !.end = "left"]
              /\ e.at = "collect" /\ e.todo = reqs[waits].todo /\ e.end = "left"
    BY <2>2, LeftIsTyped
  <2>5. Fits(e, way)
    <3>1. CASE e = reqs[waits]
      BY <2>2, <3>1
    <3>2. CASE e # reqs[waits]
      BY <2>2, <2>4, <3>2 DEF Fits, Open
    <3> QED
      BY <3>1, <3>2
  <2>6. h \in {reqs[r].hist : r \in Requests}
    BY <2>1
  <2> HIDE DEF h, e
  <2>7. /\ q \in Recs /\ q.at = "sent" /\ q.round = 0 /\ q.todo = <<>> /\ ~q.cut /\ q.hist = h
        /\ q.ours = {} /\ q.end = "open"
    <3>1. Fresh(TRUE) \in Recs /\ Fresh(TRUE).at = "sent" /\ Fresh(TRUE).round = 0
          /\ Fresh(TRUE).todo = <<>> /\ ~Fresh(TRUE).cut
          /\ Fresh(TRUE).ours = {} /\ Fresh(TRUE).end = "open"
      BY <1>4
    <3>2. h \in Seq(Messages)
      BY <2>2 DEF h
    <3> QED
      BY <3>1, <3>2 DEF Recs
  <2> HIDE DEF q
  <2>8. old \in Seq(Recs) /\ Len(old) = Len(reqs)
        /\ \A s \in Requests : old[s] = IF s = waits THEN e ELSE reqs[s]
    BY <1>1, <2>1, <2>4 DEF Requests
  <2> HIDE DEF old
  <2>9. \A s \in Requests :
          /\ Fits(old[s], way)
          /\ \/ old[s] = reqs[s]
             \/ /\ s = waits /\ way # "whole" /\ reqs[s].at \in Open \ {"sent"}
                /\ old[s] = [reqs[s] EXCEPT !.at = "collect", !.end = "left"]
    BY <1>5, <2>4, <2>5, <2>8
  <2> QED
    BY <1>3, <2>3, <2>6, <2>7, <2>8, <2>9
<1> QED
  BY <1>6, <1>7

LEMMA DeathSteps ==
    ASSUME InterceptionTypes, Shaped, Crash
    PROVE  InterceptionTypes' /\ Shaped' /\ Dies
<1>1. reqs \in Seq(Recs) /\ Len(reqs) \in Nat
  BY DEF InterceptionTypes
<1> DEFINE New(r) == IF reqs[r].at = "done" THEN reqs[r] ELSE Over(reqs[r], "dead")
<1>2. reqs' = [r \in Requests |-> New(r)]
  BY DEF Crash
<1>3. ASSUME NEW r \in Requests PROVE New(r) \in Recs /\ Fits(New(r), way)
  <2>1. reqs[r] \in Recs /\ Fits(reqs[r], way)
    BY <1>1, RecIsTyped DEF Shaped
  <2>2. "dead" \in Ats
    BY DEF Ats
  <2>3. Over(reqs[r], "dead") \in Recs /\ Fits(Over(reqs[r], "dead"), way)
    BY <2>1, <2>2, OverIsTyped DEF Fits, Slipped, Open
  <2> QED
    BY <2>1, <2>3
<1>4. \A r \in Requests : New(r) = IF reqs[r].at = "done" THEN reqs[r] ELSE Over(reqs[r], "dead")
  OBVIOUS
<1> HIDE DEF New
<1>5. /\ reqs' \in Seq(Recs) /\ Len(reqs') = Len(reqs)
      /\ \A r \in Requests : reqs'[r] = New(r)
  BY <1>1, <1>2, <1>3 DEF Requests
<1>6. Requests' = Requests
  BY <1>5 DEF Requests
<1>7. /\ left' \in [Faults -> Nat] /\ left'["crash"] < FaultBudget["crash"]
      /\ left'["crash"] <= FaultBudget["crash"]
  <2>1. Fault("crash")
    BY DEF Crash
  <2>2. left' \in [Faults -> Nat] /\ left'["crash"] < FaultBudget["crash"]
    BY <2>1, FaultIs
  <2>3. left'["crash"] \in Nat /\ FaultBudget["crash"] \in Nat
    BY <2>2, SplicingAssumption DEF Faults
  <2> QED
    BY <2>2, <2>3
<1>8. <<>> \in Seq(Nat \X (Nat \ {0}))
  OBVIOUS
<1>9. InterceptionTypes'
  BY <1>5, <1>6, <1>7, <1>8 DEF InterceptionTypes, Crash
<1>10. Shaped'
  BY <1>3, <1>5, <1>6 DEF Shaped, Crash
<1>11. Dies
  BY <1>4, <1>5, <1>7 DEF Dies, Crash
<1> QED
  BY <1>9, <1>10, <1>11

\* A step that changes anything is of one of the kinds.
LEMMA StepKinds ==
    ASSUME InterceptionTypes, Shaped, [Next]_vars
    PROVE  InterceptionTypes' /\ Shaped' /\ (Steps \/ UNCHANGED vars)
<1>1. CASE UNCHANGED vars
  BY <1>1 DEF vars, memory, agent, InterceptionTypes, Shaped, Requests
<1>2. ASSUME NEW r \in Requests, Handler(r) \/ UpstreamFails(r) \/ LoopFails(r)
      PROVE  InterceptionTypes' /\ Shaped' /\ Steps
  BY <1>2, UpstreamSteps, ToolSteps, LoopSteps, StreamSteps, StoreSteps, PrepareSteps
     DEF Handler, Steps
<1> QED
  BY <1>1, <1>2, SendSteps, DeathSteps DEF Next, Steps

-----------------------------------------------------------------------------
(* The rounds of the loops: each is in one place, and in it once.           *)

Looped == {loops[i] : i \in DOMAIN loops}
Known == Looped \cup RoundsIn(stored) \cup Todo
RoundOf(e) == IF e.round > 0 THEN {<<e.of, e.round>>} ELSE {}

Once(seq) ==
    \A i, j \in DOMAIN seq :
       seq[i].round > 0 /\ <<seq[i].of, seq[i].round>> = <<seq[j].of, seq[j].round>>
       => i = j

RoundsAreApart ==
    /\ Once(stored) /\ \A r \in Requests : Once(reqs[r].todo)
    /\ \A i, j \in DOMAIN loops : loops[i] = loops[j] => i = j
    /\ \A r, s \in Requests :
          r # s => RoundsIn(reqs[r].todo) \cap RoundsIn(reqs[s].todo) = {}
    /\ \A r \in Requests : RoundsIn(stored) \cap RoundsIn(reqs[r].todo) = {}
    /\ \A r \in Requests : Looped \cap RoundsIn(reqs[r].todo) = {}
    /\ Looped \cap RoundsIn(stored) = {}

\* A loop that goes on has handed over nothing.
RoundsAreOfTheirLoops ==
    \A n \in Known : n[1] \in Requests /\ reqs[n[1]].at \notin {"sent", "upstream", "loop"}

Crashed == left["crash"] < FaultBudget["crash"]

PaidAreOfTheirLoops == \A p \in paid : p[1] \in Requests /\ p[2] \in 1..reqs[p[1]].round

PaidAreKnown ==
    \A p \in paid :
       \/ reqs[p[1]].at \in {"loop", "dead"}
       \/ reqs[p[1]].end \in {"failed", "left"}
       \/ Crashed
       \/ p \in Known

\* Who has put rounds into the buffer has yet to build its turn.
RoundsAreFetched ==
    loops # <<>> =>
       \E r \in Requests : reqs[r].at \in {"final", "answer", "tools", "collect"}

Rounded == /\ RoundsAreApart /\ RoundsAreOfTheirLoops
           /\ PaidAreOfTheirLoops /\ PaidAreKnown /\ RoundsAreFetched

LEMMA InRounds ==
    ASSUME NEW seq \in Seq(Entries), NEW n
    PROVE  n \in RoundsIn(seq) <=>
              \E i \in 1..Len(seq) : seq[i].round > 0 /\ n = <<seq[i].of, seq[i].round>>
<1>1. DOMAIN seq = 1..Len(seq)
  OBVIOUS
<1> QED
  BY <1>1 DEF RoundsIn

LEMMA NoRounds ==
    RoundsIn(<<>>) = {} /\ Once(<<>>)
BY DEF RoundsIn, Once

LEMMA RoundsAppended ==
    ASSUME NEW s \in Seq(Entries), NEW e \in Entries
    PROVE  /\ RoundsIn(Append(s, e)) = RoundsIn(s) \cup RoundOf(e)
           /\ Once(s) /\ RoundsIn(s) \cap RoundOf(e) = {} => Once(Append(s, e))
<1> DEFINE t == Append(s, e)
<1>1. /\ t \in Seq(Entries) /\ Len(t) = Len(s) + 1 /\ Len(s) \in Nat
      /\ t[Len(s) + 1] = e /\ \A i \in 1..Len(s) : t[i] = s[i]
  OBVIOUS
<1> HIDE DEF t
<1>2. \A i \in 1..Len(t) : i \in 1..Len(s) \/ i = Len(s) + 1
  BY <1>1
<1>3. \A i \in 1..Len(s) : i \in 1..Len(t)
  BY <1>1
<1>4. Len(s) + 1 \in 1..Len(t)
  BY <1>1
<1>5. ASSUME NEW n PROVE n \in RoundsIn(t) <=> n \in RoundsIn(s) \/ n \in RoundOf(e)
  <2>1. n \in RoundOf(e) <=> e.round > 0 /\ n = <<e.of, e.round>>
    BY DEF RoundOf
  <2>2. n \in RoundsIn(t) <=>
           \E i \in 1..Len(t) : t[i].round > 0 /\ n = <<t[i].of, t[i].round>>
    BY <1>1, InRounds
  <2>3. n \in RoundsIn(s) <=>
           \E i \in 1..Len(s) : s[i].round > 0 /\ n = <<s[i].of, s[i].round>>
    BY InRounds
  <2> QED
    BY <1>1, <1>2, <1>3, <1>4, <2>1, <2>2, <2>3
<1>6. ASSUME Once(s), RoundsIn(s) \cap RoundOf(e) = {} PROVE Once(t)
  <2> SUFFICES ASSUME NEW i \in 1..Len(t), NEW j \in 1..Len(t), t[i].round > 0,
                      <<t[i].of, t[i].round>> = <<t[j].of, t[j].round>>
               PROVE  i = j
    <3>1. DOMAIN t = 1..Len(t)
      BY <1>1
    <3> QED
      BY <3>1 DEF Once
  <2>1. t[i].of = t[j].of /\ t[i].round = t[j].round
    OBVIOUS
  <2>2. CASE i \in 1..Len(s) /\ j \in 1..Len(s)
    <3>1. DOMAIN s = 1..Len(s)
      OBVIOUS
    <3>2. \A k, l \in 1..Len(s) :
             s[k].round > 0 /\ <<s[k].of, s[k].round>> = <<s[l].of, s[l].round>> => k = l
      BY <1>6, <3>1 DEF Once
    <3> QED
      BY <1>1, <2>1, <2>2, <3>2
  <2>3. \A k \in 1..Len(s) :
           ~(s[k].round > 0 /\ s[k].of = e.of /\ s[k].round = e.round)
    <3> SUFFICES ASSUME NEW k \in 1..Len(s), s[k].round > 0, s[k].of = e.of,
                        s[k].round = e.round
                 PROVE  FALSE
      OBVIOUS
    <3>1. <<e.of, e.round>> \in RoundsIn(s)
      BY InRounds
    <3>2. <<e.of, e.round>> \in RoundOf(e)
      BY DEF RoundOf
    <3> QED
      BY <1>6, <3>1, <3>2
  <2> QED
    BY <1>1, <1>2, <2>1, <2>2, <2>3
<1> QED
  BY <1>5, <1>6 DEF t

LEMMA RoundsTaken ==
    ASSUME NEW t \in Seq(Entries), t # <<>>
    PROVE  /\ RoundsIn(t) = RoundOf(Head(t)) \cup RoundsIn(Tail(t))
           /\ Once(t) => Once(Tail(t)) /\ RoundOf(Head(t)) \cap RoundsIn(Tail(t)) = {}
<1> DEFINE e == Head(t)
           u == Tail(t)
<1>1. /\ Len(t) \in Nat /\ Len(t) > 0 /\ e = t[1] /\ e \in Entries /\ u \in Seq(Entries)
      /\ Len(u) = Len(t) - 1 /\ \A i \in 1..Len(u) : u[i] = t[i + 1]
  BY Rest
<1> HIDE DEF e, u
<1>2. \A i \in 1..Len(t) : i = 1 \/ (i - 1 \in 1..Len(u) /\ t[i] = u[i - 1])
  BY <1>1
<1>3. \A i \in 1..Len(u) : i + 1 \in 1..Len(t) /\ i + 1 # 1
  BY <1>1
<1>4. 1 \in 1..Len(t)
  BY <1>1
<1>5. ASSUME NEW n PROVE n \in RoundsIn(t) <=> n \in RoundsIn(u) \/ n \in RoundOf(e)
  <2>1. n \in RoundOf(e) <=> e.round > 0 /\ n = <<e.of, e.round>>
    BY DEF RoundOf
  <2>2. n \in RoundsIn(t) <=>
           \E i \in 1..Len(t) : t[i].round > 0 /\ n = <<t[i].of, t[i].round>>
    BY InRounds
  <2>3. n \in RoundsIn(u) <=>
           \E i \in 1..Len(u) : u[i].round > 0 /\ n = <<u[i].of, u[i].round>>
    BY <1>1, InRounds
  <2> QED
    BY <1>1, <1>2, <1>3, <1>4, <2>1, <2>2, <2>3
<1>6. ASSUME Once(t) PROVE Once(u) /\ RoundOf(e) \cap RoundsIn(u) = {}
  <2>1. DOMAIN t = 1..Len(t)
    OBVIOUS
  <2>2. \A k, l \in 1..Len(t) :
           t[k].round > 0 /\ <<t[k].of, t[k].round>> = <<t[l].of, t[l].round>> => k = l
    BY <1>6, <2>1 DEF Once
  <2>3. Once(u)
    <3>1. DOMAIN u = 1..Len(u)
      BY <1>1
    <3> SUFFICES ASSUME NEW i \in 1..Len(u), NEW j \in 1..Len(u), u[i].round > 0,
                        <<u[i].of, u[i].round>> = <<u[j].of, u[j].round>>
                 PROVE  i = j
      BY <3>1 DEF Once
    <3>2. i + 1 = j + 1
      BY <1>1, <1>3, <2>2
    <3> QED
      BY <3>2
  <2>4. ASSUME NEW n \in RoundOf(e), n \in RoundsIn(u) PROVE FALSE
    <3>1. e.round > 0 /\ n = <<e.of, e.round>>
      BY DEF RoundOf
    <3>2. PICK i \in 1..Len(u) : u[i].round > 0 /\ n = <<u[i].of, u[i].round>>
      BY <1>1, <2>4, InRounds
    <3>3. i + 1 = 1
      BY <1>1, <1>3, <1>4, <2>2, <3>1, <3>2
    <3> QED
      BY <1>3, <3>3
  <2> QED
    BY <2>3, <2>4
<1> QED
  BY <1>5, <1>6 DEF e, u

LEMMA RoundsTurned ==
    ASSUME NEW r \in Nat, NEW recs \in SUBSET Records,
           NEW bufs \in Seq(Nat \X (Nat \ {0}))
    PROVE  /\ RoundsIn(Turns(r, recs, bufs)) = {bufs[i] : i \in DOMAIN bufs}
           /\ (\A i, j \in DOMAIN bufs : bufs[i] = bufs[j] => i = j)
              => Once(Turns(r, recs, bufs))
<1> DEFINE t == Turns(r, recs, bufs)
<1>1. /\ t \in Seq(Entries) /\ Len(t) = Len(bufs) + 1
      /\ t[1].round = 0
      /\ \A i \in 1..Len(bufs) : t[i + 1].of = bufs[i][1] /\ t[i + 1].round = bufs[i][2]
  <2>1. /\ t \in Seq(Entries) /\ Len(t) = Len(bufs) + 1
        /\ t[1] = [of |-> r, round |-> 0, recs |-> NewInTurn(recs)]
        /\ \A i \in 1..Len(bufs) :
              t[i + 1] = [of |-> bufs[i][1], round |-> bufs[i][2], recs |-> {}]
    BY TurnsAre
  <2> HIDE DEF t
  <2>2. t[1].round = 0
    BY <2>1
  <2>3. ASSUME NEW i \in 1..Len(bufs)
        PROVE  t[i + 1].of = bufs[i][1] /\ t[i + 1].round = bufs[i][2]
    <3>1. t[i + 1] = [of |-> bufs[i][1], round |-> bufs[i][2], recs |-> {}]
      BY <2>1
    <3>2. \A a, b, c : LET e == [of |-> a, round |-> b, recs |-> c]
                       IN e.of = a /\ e.round = b
      OBVIOUS
    <3> QED
      BY <3>1, <3>2
  <2> QED
    BY <2>1, <2>2, <2>3
<1> HIDE DEF t
<1>2. /\ Len(bufs) \in Nat /\ DOMAIN bufs = 1..Len(bufs) /\ DOMAIN t = 1..Len(t)
      /\ \A i \in 1..Len(bufs) : /\ bufs[i][2] > 0 /\ bufs[i][2] \in Nat
                                 /\ bufs[i] = <<bufs[i][1], bufs[i][2]>>
  <2>1. Len(bufs) \in Nat /\ DOMAIN bufs = 1..Len(bufs)
    BY LenProperties
  <2>2. \A b \in Nat \X (Nat \ {0}) : b[2] > 0 /\ b[2] \in Nat /\ b = <<b[1], b[2]>>
    OBVIOUS
  <2>3. \A i \in 1..Len(bufs) : bufs[i] \in Nat \X (Nat \ {0})
    OBVIOUS
  <2>4. DOMAIN t = 1..Len(t)
    BY <1>1
  <2> QED
    BY <2>1, <2>2, <2>3, <2>4
<1>3. \A i \in 1..Len(t) : i = 1 \/ (i - 1 \in 1..Len(bufs) /\ i = (i - 1) + 1)
  BY <1>1, <1>2
<1>4. \A i \in 1..Len(bufs) : i + 1 \in 1..Len(t)
  BY <1>1, <1>2
<1>5. \A i \in 1..Len(t) : t[i].round > 0 =>
         /\ i - 1 \in 1..Len(bufs) /\ i = (i - 1) + 1
         /\ bufs[i - 1] = <<t[i].of, t[i].round>>
  <2> SUFFICES ASSUME NEW i \in 1..Len(t), t[i].round > 0
               PROVE  /\ i - 1 \in 1..Len(bufs) /\ i = (i - 1) + 1
                      /\ bufs[i - 1] = <<t[i].of, t[i].round>>
    OBVIOUS
  <2>1. i # 1
    BY <1>1
  <2>2. PICK k \in 1..Len(bufs) : k = i - 1 /\ i = k + 1
    BY <1>3, <2>1
  <2>3. t[i].of = bufs[k][1] /\ t[i].round = bufs[k][2] /\ bufs[k] = <<bufs[k][1], bufs[k][2]>>
    BY <1>1, <1>2, <2>2
  <2> QED
    BY <1>3, <2>1, <2>2, <2>3
<1>6. \A i \in 1..Len(bufs) :
         t[i + 1].round > 0 /\ bufs[i] = <<t[i + 1].of, t[i + 1].round>>
  BY <1>1, <1>2
<1>7. ASSUME NEW n PROVE n \in RoundsIn(t) <=> \E i \in 1..Len(bufs) : n = bufs[i]
  <2>1. n \in RoundsIn(t) <=>
           \E i \in 1..Len(t) : t[i].round > 0 /\ n = <<t[i].of, t[i].round>>
    BY <1>1, InRounds
  <2> QED
    BY <1>4, <1>5, <1>6, <2>1
<1>8. ASSUME \A i, j \in DOMAIN bufs : bufs[i] = bufs[j] => i = j
      PROVE  Once(t)
  <2> SUFFICES ASSUME NEW i \in 1..Len(t), NEW j \in 1..Len(t), t[i].round > 0,
                      <<t[i].of, t[i].round>> = <<t[j].of, t[j].round>>
               PROVE  i = j
    BY <1>2 DEF Once
  <2>1. t[j].round > 0
    OBVIOUS
  <2>2. bufs[i - 1] = bufs[j - 1] /\ i - 1 \in DOMAIN bufs /\ j - 1 \in DOMAIN bufs
    BY <1>2, <1>5, <2>1
  <2>3. i - 1 = j - 1
    BY <1>8, <2>2
  <2> QED
    BY <2>3
<1> QED
  BY <1>2, <1>7, <1>8 DEF t

LEMMA InTodo ==
    ASSUME NEW n
    PROVE  n \in Todo <=> \E r \in Requests : n \in RoundsIn(reqs[r].todo)
BY DEF Todo

LEMMA RoundsStart ==
    Init => Rounded
<1> SUFFICES ASSUME Init PROVE Rounded
  OBVIOUS
<1>1. loops = <<>> /\ stored = <<>> /\ paid = {} /\ Requests = {}
  BY DEF Init, Requests
<1>2. Looped = {} /\ Todo = {} /\ RoundsIn(stored) = {} /\ Once(stored)
  BY <1>1, NoRounds DEF Looped, Todo
<1>3. RoundsAreApart
  BY <1>1, <1>2 DEF RoundsAreApart
<1>4. Known = {}
  BY <1>2 DEF Known
<1> QED
  BY <1>1, <1>3, <1>4
     DEF Rounded, RoundsAreOfTheirLoops, PaidAreOfTheirLoops, PaidAreKnown, RoundsAreFetched

LEMMA RoundsSend ==
    ASSUME InterceptionTypes, Rounded, Sends
    PROVE  Rounded'
<1> DEFINE new == Len(reqs) + 1
<1>1. /\ Requests' = Requests \cup {new} /\ new \notin Requests
      /\ reqs'[new].at = "sent" /\ reqs'[new].todo = <<>>
      /\ loops' = loops /\ stored' = stored /\ paid' = paid
      /\ left'["crash"] = left["crash"]
  <2>1. Len(reqs) \in Nat
    BY LenProperties DEF InterceptionTypes
  <2>2. /\ Len(reqs') = new
        /\ reqs'[new].at = "sent" /\ reqs'[new].todo = <<>>
        /\ loops' = loops /\ stored' = stored /\ paid' = paid
        /\ left'["crash"] = left["crash"]
    BY DEF Sends, memory
  <2>3. 1..new = 1..Len(reqs) \cup {new} /\ new \notin 1..Len(reqs)
    BY <2>1
  <2> QED
    BY <2>2, <2>3 DEF Requests
<1>2. ASSUME NEW r \in Requests
      PROVE  /\ reqs'[r].todo = reqs[r].todo /\ reqs'[r].round = reqs[r].round
             /\ \/ reqs'[r].at = reqs[r].at /\ reqs'[r].end = reqs[r].end
                \/ /\ reqs'[r].at = "collect" /\ reqs'[r].end = "left"
                   /\ reqs[r].at \in Open \ {"sent"}
  <2>1. reqs[r] \in Recs
    BY RecIsTyped DEF InterceptionTypes
  <2> QED
    BY <2>1 DEF Sends, Recs
<1> HIDE DEF new
<1>3. Looped' = Looped
  BY <1>1 DEF Looped
<1>4. Todo' = Todo
  <2>1. RoundsIn(reqs'[new].todo) = {}
    BY <1>1, NoRounds
  <2> QED
    BY <1>1, <1>2, <2>1 DEF Todo
<1>5. RoundsIn(stored)' = RoundsIn(stored) /\ Once(stored)' = Once(stored)
  BY <1>1
<1>6. Known' = Known
  BY <1>3, <1>4, <1>5 DEF Known
<1>7. RoundsAreApart'
  BY <1>1, <1>2, <1>3, NoRounds DEF Rounded, RoundsAreApart
<1>8. RoundsAreOfTheirLoops'
  BY <1>1, <1>2, <1>6 DEF Rounded, RoundsAreOfTheirLoops
<1>9. PaidAreOfTheirLoops'
  BY <1>1, <1>2 DEF Rounded, PaidAreOfTheirLoops
<1>10. PaidAreKnown'
  BY <1>1, <1>2, <1>6 DEF Rounded, PaidAreKnown, PaidAreOfTheirLoops, Crashed
<1>11. RoundsAreFetched'
  BY <1>1, <1>2 DEF Rounded, RoundsAreFetched
<1> QED
  BY <1>7, <1>8, <1>9, <1>10, <1>11 DEF Rounded

LEMMA RoundsPrepare ==
    ASSUME InterceptionTypes, Rounded, NEW r \in Requests, Prepares(r)
    PROVE  Rounded'
<1>1. /\ Requests' = Requests
      /\ loops' = loops /\ stored' = stored /\ paid' = paid /\ left' = left
      /\ reqs[r].at = "sent"
  BY DEF Prepares, Requests
<1>2. \A s \in Requests :
         /\ reqs'[s].todo = reqs[s].todo /\ reqs'[s].round = reqs[s].round
         /\ reqs'[s].end = reqs[s].end
         /\ reqs'[s].at = IF s = r THEN "upstream" ELSE reqs[s].at
  BY DEF Prepares
<1>3. Looped' = Looped
  BY <1>1 DEF Looped
<1>4. Todo' = Todo
  BY <1>1, <1>2 DEF Todo
<1>5. RoundsIn(stored)' = RoundsIn(stored) /\ Once(stored)' = Once(stored)
  BY <1>1
<1>6. Known' = Known
  BY <1>3, <1>4, <1>5 DEF Known
<1>7. RoundsAreApart'
  BY <1>1, <1>2, <1>3 DEF Rounded, RoundsAreApart
<1>8. RoundsAreOfTheirLoops'
  BY <1>1, <1>2, <1>6 DEF Rounded, RoundsAreOfTheirLoops
<1>9. PaidAreOfTheirLoops'
  BY <1>1, <1>2 DEF Rounded, PaidAreOfTheirLoops
<1>10. PaidAreKnown'
  BY <1>1, <1>2, <1>6 DEF Rounded, PaidAreKnown, PaidAreOfTheirLoops, Crashed
<1>11. RoundsAreFetched'
  BY <1>1, <1>2 DEF Rounded, RoundsAreFetched
<1> QED
  BY <1>7, <1>8, <1>9, <1>10, <1>11 DEF Rounded

LEMMA RoundsHandle ==
    ASSUME InterceptionTypes, InterceptionTypes', Shaped, Rounded,
           NEW r \in Requests, Handles(r)
    PROVE  Rounded'
<1> DEFINE p == reqs[r]
           q == reqs'[r]
<1>1. /\ Requests' = Requests /\ stored' = stored /\ left'["crash"] = left["crash"]
      /\ Goes(p, q) /\ \A s \in Requests : s # r => reqs'[s] = reqs[s]
      /\ paid' = paid \/ (p.at = "loop" /\ paid' = paid \cup {<<r, p.round>>})
  BY DEF Handles, Requests
<1>2. PICK bufs \in {loops, loops \o Rounds(r)} :
         /\ bufs = loops \/ (p.at = "loop" /\ q.at \in {"store", "answer", "final"})
         /\ p.at = "loop" => q.at = "loop" \/ q.end = "failed" \/ bufs = loops \o Rounds(r)
         /\ \/ q.at = "store" /\ q.todo = Turns(r, splice', bufs) /\ loops' = <<>>
            \/ q.at # "store" /\ q.todo = <<>> /\ loops' = bufs
  BY DEF Handles
<1>3. /\ loops \in Seq(Nat \X (Nat \ {0})) /\ reqs \in Seq(Recs) /\ splice' \in SUBSET Records
      /\ r \in Nat /\ p.round \in Nat /\ paid \in SUBSET (Nat \X Nat)
      /\ p.todo = <<>> /\ (p.at = "loop" => p.round > 0)
  <2>1. r \in Nat
    BY DEF Requests
  <2>2. loops \in Seq(Nat \X (Nat \ {0})) /\ reqs \in Seq(Recs)
        /\ splice' \in SUBSET Records /\ paid \in SUBSET (Nat \X Nat)
    BY DEF InterceptionTypes
  <2>3. p.at # "store"
    BY <1>1 DEF Goes
  <2> QED
    BY <2>1, <2>2, <2>3, RecIsTyped DEF Shaped, Fits
<1> DEFINE within == {bufs[i] : i \in DOMAIN bufs}
           ours == {<<r, n>> : n \in 1..p.round}
\* The buffer that is handed on.
<1>4. /\ bufs \in Seq(Nat \X (Nat \ {0}))
      /\ within = Looped \/ (p.at = "loop" /\ within = Looped \cup ours)
      /\ bufs = loops \o Rounds(r) => ours \subseteq within
      /\ \A i, j \in DOMAIN bufs : bufs[i] = bufs[j] => i = j
      /\ bufs = loops => within = Looped
  <2>1. CASE bufs = loops /\ bufs # loops \o Rounds(r)
    BY <1>3, <2>1 DEF Looped, Rounded, RoundsAreApart
  <2>2. CASE bufs = loops \o Rounds(r)
    <3> DEFINE l == Len(loops)
               m == p.round
    <3>1. /\ bufs \in Seq(Nat \X (Nat \ {0})) /\ Len(bufs) = l + m
          /\ \A i \in 1..l : bufs[i] = loops[i]
          /\ \A n \in 1..m : bufs[l + n] = <<r, n>>
      BY <1>3, <2>2, RoundsAre
    <3>2. l \in Nat /\ m \in Nat /\ DOMAIN bufs = 1..Len(bufs) /\ DOMAIN loops = 1..l
      BY <1>3, <3>1, LenProperties
    <3> HIDE DEF l, m
    <3>3. \A i \in 1..Len(bufs) : i \in 1..l \/ (i - l \in 1..m /\ i = l + (i - l))
      BY <3>1, <3>2
    <3>4. \A n \in 1..m : l + n \in 1..Len(bufs)
      BY <3>1, <3>2
    <3>5. \A i \in 1..l : i \in 1..Len(bufs)
      BY <3>1, <3>2
    <3>6. ours = {<<r, n>> : n \in 1..m}
      BY DEF m
    <3>7. \A i \in 1..Len(bufs) : i \in 1..l \/ bufs[i] \in ours
      BY <3>1, <3>3, <3>6
    <3>8. within = Looped \cup ours
      <4>1. within \subseteq Looped \cup ours
        BY <3>1, <3>2, <3>7 DEF Looped
      <4>2. Looped \subseteq within
        BY <3>1, <3>2, <3>5 DEF Looped
      <4>3. ours \subseteq within
        BY <3>1, <3>2, <3>4, <3>6
      <4> QED
        BY <4>1, <4>2, <4>3
    <3>9. CASE p.at = "loop"
      <4>1. Looped \cap ours = {}
        <5>1. \A n \in Looped : n[1] # r
          BY <3>9 DEF Rounded, RoundsAreOfTheirLoops, Known
        <5> QED
          BY <5>1
      <4>2. \A i \in 1..l : bufs[i] \in Looped
        BY <3>1, <3>2 DEF Looped
      <4>3. ASSUME NEW i \in 1..Len(bufs), NEW j \in 1..Len(bufs), bufs[i] = bufs[j]
            PROVE  i = j
        <5>1. CASE i \in 1..l /\ j \in 1..l
          BY <3>1, <3>2, <4>3, <5>1 DEF Rounded, RoundsAreApart
        <5>2. CASE i \notin 1..l /\ j \notin 1..l
          <6>1. <<r, i - l>> = <<r, j - l>>
            BY <3>1, <3>3, <4>3, <5>2
          <6>2. i - l = j - l
            BY <6>1
          <6> QED
            BY <3>3, <5>2, <6>2
        <5>3. CASE ~(i \in 1..l <=> j \in 1..l)
          BY <3>7, <4>1, <4>2, <4>3, <5>3
        <5> QED
          BY <5>1, <5>2, <5>3
      <4>4. bufs = loops => within = Looped
        BY DEF Looped
      <4> QED
        BY <3>1, <3>2, <3>8, <3>9, <4>3, <4>4
    <3>10. CASE p.at # "loop"
      <4>1. bufs = loops
        BY <1>2, <3>10
      <4> QED
        BY <1>3, <3>8, <4>1 DEF Looped, Rounded, RoundsAreApart
    <3> QED
      BY <3>9, <3>10
  <2> QED
    BY <1>2, <2>1, <2>2
<1>5. RoundsIn(p.todo) = {}
  BY <1>3, NoRounds
<1>6. \/ q.at = "store" /\ RoundsIn(q.todo) = within /\ Looped' = {} /\ Once(q.todo)
         /\ loops' = <<>>
      \/ q.at # "store" /\ RoundsIn(q.todo) = {} /\ Looped' = within /\ Once(q.todo)
         /\ loops' = bufs
  <2>1. CASE q.at = "store"
    <3>1. q.todo = Turns(r, splice', bufs) /\ loops' = <<>>
      BY <1>2, <2>1
    <3>2. /\ RoundsIn(Turns(r, splice', bufs)) = {bufs[i] : i \in DOMAIN bufs}
          /\ Once(Turns(r, splice', bufs))
      <4>1. /\ r \in Nat /\ splice' \in SUBSET Records
            /\ bufs \in Seq(Nat \X (Nat \ {0}))
        BY <1>3, <1>4
      <4>2. \A i, j \in DOMAIN bufs : bufs[i] = bufs[j] => i = j
        BY <1>4
      <4> HIDE DEF within, ours, p, q
      <4> QED
        BY <4>1, <4>2, RoundsTurned
    <3>3. Looped' = {}
      BY <3>1 DEF Looped
    <3> QED
      BY <2>1, <3>1, <3>2, <3>3
  <2>2. CASE q.at # "store"
    BY <1>2, <2>2, NoRounds DEF Looped
  <2> QED
    BY <2>1, <2>2
<1>7. Once(stored)' = Once(stored) /\ RoundsIn(stored)' = RoundsIn(stored)
  BY <1>1
<1>8. \A s \in Requests : s # r => RoundsIn(reqs[s].todo) \subseteq Todo
  BY DEF Todo
<1>9. Known' = Known \cup within
  <2>1. Todo' = Todo \cup RoundsIn(q.todo)
    <3>1. \A s \in Requests : s # r => RoundsIn(reqs'[s].todo) = RoundsIn(reqs[s].todo)
      BY <1>1
    <3>2. \A n : n \in Todo <=> \E s \in Requests : n \in RoundsIn(reqs[s].todo)
      BY InTodo
    <3>3. \A n : n \in Todo' <=> \E s \in Requests : n \in RoundsIn(reqs'[s].todo)
      BY <1>1 DEF Todo
    <3> QED
      BY <1>5, <3>1, <3>2, <3>3
  <2>2. Looped \subseteq within
    BY <1>4
  <2> QED
    BY <1>6, <1>7, <2>1, <2>2 DEF Known
<1>10. /\ within \cap RoundsIn(stored) = {}
       /\ \A s \in Requests : within \cap RoundsIn(reqs[s].todo) = {}
  <2>1. p.at = "loop" => \A n \in Known : n \notin ours
    BY DEF Rounded, RoundsAreOfTheirLoops
  <2>2. \A s \in Requests : RoundsIn(reqs[s].todo) \subseteq Known
    BY DEF Known, Todo
  <2>3. RoundsIn(stored) \subseteq Known
    BY DEF Known
  <2> QED
    BY <1>4, <2>1, <2>2, <2>3 DEF Rounded, RoundsAreApart
<1> HIDE DEF within
<1>11. RoundsAreApart'
  <2>1. Once(stored)' /\ \A s \in Requests : Once(reqs'[s].todo)
    BY <1>1, <1>6, <1>7 DEF Rounded, RoundsAreApart
  <2>2. \A i, j \in DOMAIN loops' : loops'[i] = loops'[j] => i = j
    <3>1. CASE loops' = <<>>
      BY <3>1
    <3> QED
      BY <1>4, <1>6, <3>1
  <2>3. \A s, t \in Requests :
           s # t => RoundsIn(reqs'[s].todo) \cap RoundsIn(reqs'[t].todo) = {}
    BY <1>1, <1>6, <1>10 DEF Rounded, RoundsAreApart
  <2>4. \A s \in Requests : RoundsIn(stored)' \cap RoundsIn(reqs'[s].todo) = {}
    BY <1>1, <1>6, <1>7, <1>10 DEF Rounded, RoundsAreApart
  <2>5. \A s \in Requests : Looped' \cap RoundsIn(reqs'[s].todo) = {}
    BY <1>1, <1>6, <1>10
  <2>6. Looped' \cap RoundsIn(stored)' = {}
    BY <1>6, <1>7, <1>10
  <2> QED
    BY <1>1, <2>1, <2>2, <2>3, <2>4, <2>5, <2>6 DEF RoundsAreApart
<1>12. RoundsAreOfTheirLoops'
  <2> SUFFICES ASSUME NEW n \in Known'
               PROVE  n[1] \in Requests /\ reqs'[n[1]].at \notin {"sent", "upstream", "loop"}
    BY <1>1 DEF RoundsAreOfTheirLoops
  <2>1. CASE n \in Known
    BY <1>1, <2>1 DEF Rounded, RoundsAreOfTheirLoops, Goes
  <2>2. CASE n \notin Known
    <3>1. n \in ours /\ bufs # loops
      <4>1. n \in within /\ n \notin Looped
        BY <1>9, <2>2 DEF Known
      <4> QED
        BY <1>4, <4>1
    <3> QED
      BY <1>2, <3>1
  <2> QED
    BY <2>1, <2>2
<1>13. PaidAreOfTheirLoops'
  <2>1. q.round \in Nat /\ p.round <= q.round
    <3>1. \A m \in Nat : m <= m + 1 /\ m + 1 \in Nat /\ m <= m
      OBVIOUS
    <3> QED
      BY <1>1, <1>3, <3>1 DEF Goes
  <2> DEFINE a == p.round
             b == q.round
  <2>2. a \in Nat /\ b \in Nat /\ a <= b /\ (p.at = "loop" => a \in 1..a)
    BY <1>3, <2>1
  <2>3. /\ \A x \in paid : x[1] \in Requests /\ x[2] \in 1..reqs[x[1]].round
        /\ \A x \in paid' : x \in paid \/ (p.at = "loop" /\ x = <<r, a>>)
    BY <1>1 DEF Rounded, PaidAreOfTheirLoops
  <2> HIDE DEF a, b
  <2>4. \A k \in 1..a : k \in 1..b
    BY <2>2
  <2> SUFFICES ASSUME NEW x \in paid'
               PROVE  x[1] \in Requests /\ x[2] \in 1..reqs'[x[1]].round
    BY <1>1 DEF PaidAreOfTheirLoops
  <2>5. CASE x \in paid /\ x[1] # r
    BY <1>1, <2>3, <2>5
  <2>6. CASE x \in paid /\ x[1] = r
    BY <2>3, <2>4, <2>6 DEF a, b
  <2>7. CASE p.at = "loop" /\ x = <<r, a>>
    BY <2>2, <2>4, <2>7 DEF b
  <2> QED
    BY <2>3, <2>5, <2>6, <2>7
<1>14. PaidAreKnown'
  <2> SUFFICES ASSUME NEW x \in paid'
               PROVE  \/ reqs'[x[1]].at \in {"loop", "dead"}
                      \/ reqs'[x[1]].end \in {"failed", "left"}
                      \/ Crashed'
                      \/ x \in Known'
    BY DEF PaidAreKnown
  <2>1. CASE x \in paid /\ (x[1] # r \/ p.at # "loop")
    BY <1>1, <1>9, <2>1 DEF Rounded, PaidAreKnown, PaidAreOfTheirLoops, Goes, Crashed
  <2>2. CASE p.at = "loop" /\ (x \notin paid \/ x[1] = r)
    <3>1. x \in ours
      <4>1. x \in paid => x = <<x[1], x[2]>> /\ x[2] \in 1..reqs[x[1]].round
        BY <1>3 DEF Rounded, PaidAreOfTheirLoops
      <4>2. p.round \in 1..p.round
        BY <1>3, <2>2
      <4> QED
        BY <1>1, <2>2, <4>1, <4>2
    <3>2. x[1] = r
      BY <3>1
    <3> QED
      BY <1>2, <1>4, <1>9, <2>2, <3>1, <3>2
  <2> QED
    BY <1>1, <2>1, <2>2
<1>15. RoundsAreFetched'
  <2> SUFFICES ASSUME loops' # <<>>
               PROVE  \E s \in Requests : reqs'[s].at \in {"final", "answer", "tools", "collect"}
    BY <1>1 DEF RoundsAreFetched
  <2>1. q.at # "store" /\ loops' = bufs
    BY <1>6
  <2>2. CASE bufs = loops
    <3>1. PICK s \in Requests : reqs[s].at \in {"final", "answer", "tools", "collect"}
      BY <2>1, <2>2 DEF Rounded, RoundsAreFetched
    <3>2. CASE s = r
      BY <1>1, <2>1, <3>1, <3>2 DEF Goes
    <3>3. CASE s # r
      BY <1>1, <3>1, <3>3
    <3> QED
      BY <3>2, <3>3
  <2>3. CASE bufs # loops
    BY <1>2, <2>1, <2>3
  <2> QED
    BY <2>2, <2>3
<1> QED
  BY <1>11, <1>12, <1>13, <1>14, <1>15 DEF Rounded

LEMMA RoundsStore ==
    ASSUME InterceptionTypes, Rounded, NEW r \in Requests, Stores(r)
    PROVE  Rounded'
<1> DEFINE p == reqs[r]
           q == reqs'[r]
           e == Head(p.todo)
<1>1. /\ Requests' = Requests /\ loops' = loops /\ paid' = paid /\ left' = left
      /\ \A s \in Requests : s # r => reqs'[s] = reqs[s]
      /\ stored' = Append(stored, e) /\ q.todo = Tail(p.todo) /\ p.todo # <<>>
      /\ q.at \in {"done", "store"} /\ p.at = "store" /\ q.end = p.end /\ q.round = p.round
  BY DEF Stores, Requests, memory
<1>2. /\ stored \in Seq(Entries) /\ p.todo \in Seq(Entries)
  BY RecIsTyped DEF InterceptionTypes
<1>3. e \in Entries
  BY <1>1, <1>2, Rest
<1>4. /\ RoundsIn(p.todo) = RoundOf(e) \cup RoundsIn(q.todo)
      /\ Once(q.todo) /\ RoundOf(e) \cap RoundsIn(q.todo) = {}
  BY <1>1, <1>2, RoundsTaken DEF Rounded, RoundsAreApart
<1>5. /\ RoundsIn(stored') = RoundsIn(stored) \cup RoundOf(e)
      /\ Once(stored')
  <2>1. RoundsIn(stored) \cap RoundOf(e) = {}
    BY <1>4 DEF Rounded, RoundsAreApart
  <2> QED
    BY <1>1, <1>2, <1>3, <2>1, RoundsAppended DEF Rounded, RoundsAreApart
<1> HIDE DEF e
<1>6. Looped' = Looped
  BY <1>1 DEF Looped
<1>7. Known' = Known
  <2>1. \A n : n \in Todo <=> \E s \in Requests : n \in RoundsIn(reqs[s].todo)
    BY InTodo
  <2>2. \A n : n \in Todo' <=> \E s \in Requests : n \in RoundsIn(reqs'[s].todo)
    BY <1>1 DEF Todo
  <2>3. \A n : n \in Todo <=> n \in Todo' \/ n \in RoundOf(e)
    BY <1>1, <1>4, <2>1, <2>2
  <2> QED
    BY <1>5, <1>6, <2>3 DEF Known
<1>8. RoundsAreApart'
  <2>1. Once(stored') /\ \A s \in Requests : Once(reqs'[s].todo)
    BY <1>1, <1>4, <1>5 DEF Rounded, RoundsAreApart
  <2>2. \A i, j \in DOMAIN loops' : loops'[i] = loops'[j] => i = j
    BY <1>1 DEF Rounded, RoundsAreApart
  <2>3. \A s \in Requests : RoundsIn(reqs'[s].todo) \subseteq RoundsIn(reqs[s].todo)
    BY <1>1, <1>4
  <2>4. \A s, t \in Requests :
           s # t => RoundsIn(reqs[s].todo) \cap RoundsIn(reqs[t].todo) = {}
    BY DEF Rounded, RoundsAreApart
  <2>5. \A s, t \in Requests :
           s # t => RoundsIn(reqs'[s].todo) \cap RoundsIn(reqs'[t].todo) = {}
    BY <2>3, <2>4
  <2>6. /\ RoundsIn(stored) \cap RoundsIn(reqs[r].todo) = {}
        /\ \A s \in Requests : /\ RoundsIn(stored) \cap RoundsIn(reqs[s].todo) = {}
                               /\ Looped \cap RoundsIn(reqs[s].todo) = {}
        /\ Looped \cap RoundsIn(stored) = {}
    BY DEF Rounded, RoundsAreApart
  <2>7. \A s \in Requests : RoundOf(e) \cap RoundsIn(reqs'[s].todo) = {}
    BY <1>1, <1>4, <2>4
  <2>8. \A s \in Requests : RoundsIn(stored') \cap RoundsIn(reqs'[s].todo) = {}
    BY <1>5, <2>3, <2>6, <2>7
  <2>9. \A s \in Requests : Looped' \cap RoundsIn(reqs'[s].todo) = {}
    BY <1>6, <2>3, <2>6
  <2>10. Looped' \cap RoundsIn(stored') = {}
    BY <1>4, <1>5, <1>6, <2>6
  <2>11. Requests' = Requests
    BY <1>1
  <2> QED
    BY <2>1, <2>2, <2>5, <2>8, <2>9, <2>10, <2>11 DEF RoundsAreApart
<1>9. RoundsAreOfTheirLoops'
  BY <1>1, <1>7 DEF Rounded, RoundsAreOfTheirLoops
<1>10. PaidAreOfTheirLoops'
  BY <1>1 DEF Rounded, PaidAreOfTheirLoops
<1>11. PaidAreKnown'
  BY <1>1, <1>7 DEF Rounded, PaidAreKnown, PaidAreOfTheirLoops, Crashed
<1>12. RoundsAreFetched'
  BY <1>1 DEF Rounded, RoundsAreFetched
<1> QED
  BY <1>8, <1>9, <1>10, <1>11, <1>12 DEF Rounded

LEMMA RoundsDie ==
    ASSUME InterceptionTypes, Shaped, Rounded, Dies
    PROVE  Rounded'
<1>1. /\ Requests' = Requests /\ loops' = <<>> /\ paid' = paid /\ stored' = stored /\ Crashed'
  BY DEF Dies, Requests, Crashed
<1>2. ASSUME NEW r \in Requests
      PROVE  /\ reqs'[r].todo = <<>> /\ reqs'[r].at \in {"done", "dead"}
             /\ reqs'[r].round = reqs[r].round
  <2>1. reqs[r] \in Recs /\ Fits(reqs[r], way)
    BY RecIsTyped DEF InterceptionTypes, Shaped
  <2>2. "dead" \in Ats
    BY DEF Ats
  <2> QED
    BY <2>1, <2>2, OverIsTyped DEF Dies, Fits
<1>3. Looped' = {} /\ Todo' = {}
  BY <1>1, <1>2, NoRounds DEF Looped, Todo
<1>4. RoundsIn(stored)' = RoundsIn(stored) /\ Once(stored)' = Once(stored)
  BY <1>1
<1>5. Known' \subseteq Known
  BY <1>3, <1>4 DEF Known
<1>6. RoundsAreApart'
  <2>1. \A r \in Requests : Once(reqs'[r].todo) /\ RoundsIn(reqs'[r].todo) = {}
    BY <1>2, NoRounds
  <2>2. \A i, j \in DOMAIN loops' : loops'[i] = loops'[j] => i = j
    BY <1>1
  <2>3. Once(stored)'
    BY <1>4 DEF Rounded, RoundsAreApart
  <2>4. \A r, s \in Requests : /\ RoundsIn(reqs'[r].todo) \cap RoundsIn(reqs'[s].todo) = {}
                               /\ RoundsIn(stored)' \cap RoundsIn(reqs'[r].todo) = {}
                               /\ Looped' \cap RoundsIn(reqs'[r].todo) = {}
    BY <2>1
  <2>5. Looped' \cap RoundsIn(stored)' = {}
    BY <1>3
  <2>6. Requests' = Requests
    BY <1>1
  <2> QED
    BY <2>1, <2>2, <2>3, <2>4, <2>5, <2>6 DEF RoundsAreApart
<1>7. RoundsAreOfTheirLoops'
  BY <1>1, <1>2, <1>5 DEF Rounded, RoundsAreOfTheirLoops
<1>8. PaidAreOfTheirLoops'
  BY <1>1, <1>2 DEF Rounded, PaidAreOfTheirLoops
<1>9. PaidAreKnown'
  BY <1>1 DEF PaidAreKnown
<1>10. RoundsAreFetched'
  BY <1>1 DEF RoundsAreFetched
<1> QED
  BY <1>6, <1>7, <1>8, <1>9, <1>10 DEF Rounded

-----------------------------------------------------------------------------
(* The turns of the requests: each is stored once.                          *)

TurnsAreApart ==
    /\ \A i \in DOMAIN stored : stored[i].of \in Requests
    /\ \A r \in Requests : \A i, j \in Main(r) : i = j

\* What is to be stored: the turn first, while it is not stored yet, and its rounds.
TurnsAreFirst ==
    \A r \in Requests :
       LET t == reqs[r].todo IN
       /\ \A i \in DOMAIN t : i > 1 => t[i].round > 0
       /\ reqs[r].at \notin {"store", "done", "dead"} => Main(r) = {}
       /\ reqs[r].at = "store" =>
             /\ t # <<>>
             /\ IF t[1].round = 0 THEN t[1].of = r /\ Main(r) = {} ELSE Main(r) # {}

EntriesAreOfRequests ==
    \A r \in Requests : \A i \in DOMAIN reqs[r].todo : reqs[r].todo[i].of \in Requests

DoneAreStored ==
    \A r \in Requests :
       (reqs[r].at = "done" /\ ~(reqs[r].end = "failed" /\ reqs[r].kind = "pure" /\ way = "whole"))
       => Main(r) # {}

Stowed == TurnsAreApart /\ TurnsAreFirst /\ EntriesAreOfRequests /\ DoneAreStored

LEMMA TurnsStart ==
    Init => Stowed
<1> SUFFICES ASSUME Init PROVE Stowed
  OBVIOUS
<1>1. stored = <<>> /\ Requests = {}
  BY DEF Init, Requests
<1> QED
  BY <1>1 DEF Stowed, TurnsAreApart, TurnsAreFirst, EntriesAreOfRequests, DoneAreStored

LEMMA MainIs ==
    ASSUME stored \in Seq(Entries), NEW r
    PROVE  \A i : i \in Main(r) <=>
              i \in 1..Len(stored) /\ stored[i].of = r /\ stored[i].round = 0
<1>1. DOMAIN stored = 1..Len(stored)
  BY LenProperties
<1> QED
  BY <1>1 DEF Main

LEMMA MainKept ==
    ASSUME stored' = stored, NEW r
    PROVE  Main(r)' = Main(r)
BY DEF Main

LEMMA TurnsSend ==
    ASSUME InterceptionTypes, Stowed, Sends
    PROVE  Stowed'
<1> DEFINE new == Len(reqs) + 1
<1>1. /\ Requests' = Requests \cup {new} /\ new \notin Requests
      /\ reqs'[new].at = "sent" /\ reqs'[new].todo = <<>>
      /\ stored' = stored /\ way' = way /\ stored \in Seq(Entries)
  <2>1. Len(reqs) \in Nat /\ stored \in Seq(Entries)
    BY LenProperties DEF InterceptionTypes
  <2>2. /\ Len(reqs') = new
        /\ reqs'[new].at = "sent" /\ reqs'[new].todo = <<>>
        /\ stored' = stored /\ way' = way
    BY DEF Sends
  <2>3. 1..new = 1..Len(reqs) \cup {new} /\ new \notin 1..Len(reqs)
    BY <2>1
  <2> QED
    BY <2>1, <2>2, <2>3 DEF Requests
<1>2. ASSUME NEW r \in Requests
      PROVE  /\ reqs'[r].todo = reqs[r].todo /\ reqs'[r].kind = reqs[r].kind
             /\ \/ reqs'[r].at = reqs[r].at /\ reqs'[r].end = reqs[r].end
                \/ reqs'[r].at = "collect" /\ reqs[r].at \in Open \ {"sent"}
  <2>1. reqs[r] \in Recs
    BY RecIsTyped DEF InterceptionTypes
  <2> QED
    BY <2>1 DEF Sends, Recs
<1> HIDE DEF new
<1>3. \A r : Main(r)' = Main(r)
  BY <1>1 DEF Main
<1>4. Main(new) = {}
  <2>1. \A i : i \in Main(new) => i \in 1..Len(stored) /\ stored[i].of = new
    BY <1>1, MainIs
  <2>2. DOMAIN stored = 1..Len(stored)
    BY <1>1, LenProperties
  <2> QED
    BY <1>1, <2>1, <2>2 DEF Stowed, TurnsAreApart
<1>5. TurnsAreApart'
  BY <1>1, <1>3, <1>4 DEF Stowed, TurnsAreApart
<1>6. TurnsAreFirst'
  <2>1. ASSUME NEW r \in Requests
        PROVE  LET t == reqs'[r].todo
               IN /\ \A i \in DOMAIN t : i > 1 => t[i].round > 0
                  /\ reqs'[r].at \notin {"store", "done", "dead"} => Main(r) = {}
                  /\ reqs'[r].at = "store" =>
                        /\ t # <<>>
                        /\ IF t[1].round = 0 THEN t[1].of = r /\ Main(r) = {}
                           ELSE Main(r) # {}
    BY <1>2 DEF Stowed, TurnsAreFirst, Open
  <2>2. DOMAIN reqs'[new].todo = {}
    BY <1>1
  <2> QED
    BY <1>1, <1>3, <1>4, <2>1, <2>2 DEF TurnsAreFirst
<1>7. EntriesAreOfRequests'
  <2>1. DOMAIN reqs'[new].todo = {}
    BY <1>1
  <2> QED
    BY <1>1, <1>2, <2>1 DEF Stowed, EntriesAreOfRequests
<1>8. DoneAreStored'
  BY <1>1, <1>2, <1>3 DEF Stowed, DoneAreStored
<1> QED
  BY <1>5, <1>6, <1>7, <1>8 DEF Stowed

LEMMA TurnsPrepare ==
    ASSUME InterceptionTypes, Stowed, NEW r \in Requests, Prepares(r)
    PROVE  Stowed'
<1>1. /\ Requests' = Requests /\ stored' = stored /\ way' = way /\ reqs[r].at = "sent"
  BY DEF Prepares, Requests, agent
<1>2. \A s \in Requests :
         /\ reqs'[s].todo = reqs[s].todo /\ reqs'[s].kind = reqs[s].kind
         /\ reqs'[s].end = reqs[s].end
         /\ reqs'[s].at = IF s = r THEN "upstream" ELSE reqs[s].at
  BY DEF Prepares
<1>3. \A s : Main(s)' = Main(s)
  BY <1>1 DEF Main
<1>4. TurnsAreApart'
  BY <1>1, <1>3 DEF Stowed, TurnsAreApart
<1>5. TurnsAreFirst'
  BY <1>1, <1>2, <1>3 DEF Stowed, TurnsAreFirst
<1>6. EntriesAreOfRequests'
  BY <1>1, <1>2 DEF Stowed, EntriesAreOfRequests
<1>7. DoneAreStored'
  BY <1>1, <1>2, <1>3 DEF Stowed, DoneAreStored
<1> QED
  BY <1>4, <1>5, <1>6, <1>7 DEF Stowed

LEMMA TurnsHandle ==
    ASSUME InterceptionTypes, InterceptionTypes', Shaped, Rounded, Stowed,
           NEW r \in Requests, Handles(r)
    PROVE  Stowed'
<1> DEFINE p == reqs[r]
           q == reqs'[r]
<1>1. /\ Requests' = Requests /\ stored' = stored /\ way' = way
      /\ Goes(p, q) /\ \A s \in Requests : s # r => reqs'[s] = reqs[s]
  BY DEF Handles, Requests
<1>2. /\ loops \in Seq(Nat \X (Nat \ {0})) /\ reqs \in Seq(Recs) /\ splice' \in SUBSET Records
      /\ r \in Nat /\ p.round \in Nat
  <2>1. r \in Nat
    BY DEF Requests
  <2>2. loops \in Seq(Nat \X (Nat \ {0})) /\ reqs \in Seq(Recs) /\ splice' \in SUBSET Records
    BY DEF InterceptionTypes
  <2> QED
    BY <2>1, <2>2, RecIsTyped
<1>3. \A s : Main(s)' = Main(s)
  BY <1>1 DEF Main
<1>4. Main(r) = {}
  BY <1>1 DEF Goes, Stowed, TurnsAreFirst
<1>5. \/ q.at # "store" /\ q.todo = <<>>
      \/ /\ q.at = "store" /\ q.todo # <<>> /\ q.todo[1].of = r /\ q.todo[1].round = 0
         /\ \A i \in DOMAIN q.todo : i > 1 => q.todo[i].round > 0
         /\ \A i \in DOMAIN q.todo : q.todo[i].of \in Requests
  <2>1. PICK bufs \in {loops, loops \o Rounds(r)} :
           \/ q.at = "store" /\ q.todo = Turns(r, splice', bufs)
           \/ q.at # "store" /\ q.todo = <<>>
    BY DEF Handles
  <2>2. CASE q.at = "store"
    <3>1. bufs \in Seq(Nat \X (Nat \ {0})) /\ \A i \in 1..Len(bufs) : bufs[i][1] \in Requests
      <4>1. \A i \in DOMAIN loops : loops[i][1] \in Requests
        BY DEF Rounded, RoundsAreOfTheirLoops, Known, Looped
      <4>2. DOMAIN loops = 1..Len(loops)
        BY <1>2, LenProperties
      <4>3. CASE bufs = loops
        BY <1>2, <4>1, <4>2, <4>3
      <4>4. CASE bufs = loops \o Rounds(r)
        <5> DEFINE l == Len(loops)
                   m == p.round
        <5>1. /\ bufs \in Seq(Nat \X (Nat \ {0})) /\ Len(bufs) = l + m
              /\ \A i \in 1..l : bufs[i] = loops[i]
              /\ \A n \in 1..m : bufs[l + n] = <<r, n>>
          BY <1>2, <4>4, RoundsAre
        <5>2. l \in Nat /\ m \in Nat
          BY <1>2, LenProperties
        <5>3. DOMAIN loops = 1..l
          BY <4>2
        <5> HIDE DEF l, m
        <5>4. \A i \in 1..Len(bufs) : i \in 1..l \/ (i - l \in 1..m /\ i = l + (i - l))
          BY <5>1, <5>2
        <5>5. ASSUME NEW i \in 1..Len(bufs) PROVE bufs[i][1] \in Requests
          <6>1. CASE i \in 1..l
            BY <4>1, <5>1, <5>3, <6>1
          <6>2. CASE i - l \in 1..m /\ i = l + (i - l)
            <7>1. bufs[i] = <<r, i - l>>
              BY <5>1, <6>2
            <7> QED
              BY <7>1
          <6> QED
            BY <5>4, <6>1, <6>2
        <5> QED
          BY <5>1, <5>5
      <4> QED
        BY <4>3, <4>4
    <3> DEFINE t == Turns(r, splice', bufs)
    <3>2. /\ t \in Seq(Entries) /\ Len(t) = Len(bufs) + 1
          /\ t[1] = [of |-> r, round |-> 0, recs |-> NewInTurn(splice')]
          /\ \A i \in 1..Len(bufs) :
                t[i + 1] = [of |-> bufs[i][1], round |-> bufs[i][2], recs |-> {}]
      BY <1>2, <3>1, TurnsAre
    <3>3. q.todo = t
      BY <2>1, <2>2
    <3> HIDE DEF t
    <3>4. Len(bufs) \in Nat /\ DOMAIN t = 1..Len(t)
      BY <3>1, <3>2, LenProperties
    <3>5. t # <<>>
      <4>1. Len(t) > 0
        BY <3>2, <3>4
      <4> QED
        BY <3>2, <4>1, Rest
    <3>6. t[1].of = r /\ t[1].round = 0
      BY <3>2
    <3>7. ASSUME NEW i \in 1..Len(bufs)
          PROVE  t[i + 1].round > 0 /\ t[i + 1].of \in Requests
      <4>1. \A b \in Nat \X (Nat \ {0}) : b[2] > 0
        OBVIOUS
      <4>2. bufs[i] \in Nat \X (Nat \ {0})
        BY <3>1
      <4>3. t[i + 1] = [of |-> bufs[i][1], round |-> bufs[i][2], recs |-> {}]
        BY <3>2
      <4>4. \A a, b, c : LET e == [of |-> a, round |-> b, recs |-> c]
                         IN e.of = a /\ e.round = b
        OBVIOUS
      <4>5. t[i + 1].of = bufs[i][1] /\ t[i + 1].round = bufs[i][2]
        BY <4>3, <4>4
      <4> QED
        BY <3>1, <4>1, <4>2, <4>5
    <3>8. \A i \in 1..Len(t) : i = 1 \/ (i - 1 \in 1..Len(bufs) /\ i = (i - 1) + 1)
      BY <3>2, <3>4
    <3>9. \A i \in DOMAIN t : /\ i > 1 => t[i].round > 0
                              /\ t[i].of \in Requests
      <4> SUFFICES ASSUME NEW i \in 1..Len(t)
                   PROVE  (i > 1 => t[i].round > 0) /\ t[i].of \in Requests
        BY <3>4
      <4>1. CASE i = 1
        BY <3>6, <4>1
      <4>2. CASE i # 1
        <5>1. PICK k \in 1..Len(bufs) : i = k + 1
          BY <3>8, <4>2
        <5> QED
          BY <3>7, <5>1
      <4> QED
        BY <4>1, <4>2
    <3> QED
      BY <2>2, <3>3, <3>5, <3>6, <3>9
  <2> QED
    BY <2>1, <2>2
<1>6. TurnsAreApart'
  BY <1>1, <1>3 DEF Stowed, TurnsAreApart
<1>7. TurnsAreFirst'
  <2>1. DOMAIN <<>> = {}
    OBVIOUS
  <2> QED
    BY <1>1, <1>3, <1>4, <1>5, <2>1 DEF Stowed, TurnsAreFirst
<1>8. EntriesAreOfRequests'
  <2>1. DOMAIN <<>> = {}
    OBVIOUS
  <2> QED
    BY <1>1, <1>5, <2>1 DEF Stowed, EntriesAreOfRequests
<1>9. DoneAreStored'
  BY <1>1, <1>3 DEF Stowed, DoneAreStored, Goes
<1> QED
  BY <1>6, <1>7, <1>8, <1>9 DEF Stowed

LEMMA TurnsStore ==
    ASSUME InterceptionTypes, Stowed, NEW r \in Requests, Stores(r)
    PROVE  Stowed'
<1> DEFINE p == reqs[r]
           q == reqs'[r]
           e == Head(p.todo)
           u == Tail(p.todo)
           n == Len(stored)
<1>1. /\ Requests' = Requests /\ way' = way
      /\ \A s \in Requests : s # r => reqs'[s] = reqs[s]
      /\ stored' = Append(stored, e) /\ q.todo = u /\ p.todo # <<>> /\ p.at = "store"
      /\ q.at = (IF u = <<>> THEN "done" ELSE "store")
  BY DEF Stores, Requests
<1>2. stored \in Seq(Entries) /\ p.todo \in Seq(Entries)
  BY RecIsTyped DEF InterceptionTypes
<1>3. /\ e \in Entries /\ e = p.todo[1] /\ u \in Seq(Entries)
      /\ Len(u) = Len(p.todo) - 1 /\ Len(p.todo) \in Nat /\ Len(p.todo) > 0
      /\ \A i \in 1..Len(u) : u[i] = p.todo[i + 1]
      /\ DOMAIN p.todo = 1..Len(p.todo)
  BY <1>1, <1>2, Rest, LenProperties
<1>4. /\ DOMAIN u = 1..Len(u) /\ Len(u) \in Nat
      /\ \A i \in 1..Len(u) : i + 1 \in DOMAIN p.todo /\ i + 1 > 1
      /\ 1 \in DOMAIN p.todo /\ (u # <<>> => 1 \in 1..Len(u))
  <2>1. DOMAIN u = 1..Len(u) /\ Len(u) \in Nat
    BY <1>3, LenProperties
  <2>2. u # <<>> => Len(u) > 0
    BY <1>3, Rest
  <2>3. \A i \in 1..Len(u) : i + 1 \in 1..Len(p.todo) /\ i + 1 > 1
    BY <1>3, <2>1
  <2>4. 1 \in 1..Len(p.todo) /\ (u # <<>> => 1 \in 1..Len(u))
    BY <1>3, <2>1, <2>2
  <2> QED
    BY <1>3, <2>1, <2>3, <2>4
<1>5. /\ n \in Nat /\ stored' \in Seq(Entries) /\ Len(stored') = n + 1
      /\ stored'[n + 1] = e /\ \A i \in 1..n : stored'[i] = stored[i]
      /\ DOMAIN stored = 1..n /\ DOMAIN stored' = 1..(n + 1)
  <2>1. n \in Nat /\ DOMAIN stored = 1..n
    BY <1>2, LenProperties
  <2>2. /\ stored' \in Seq(Entries) /\ Len(stored') = n + 1
        /\ stored'[n + 1] = e /\ \A i \in 1..n : stored'[i] = stored[i]
    BY <1>1, <1>2, <1>3
  <2> QED
    BY <2>1, <2>2, LenProperties
<1> HIDE DEF e, u, n
<1>6. \A i : i \in 1..(n + 1) <=> i \in 1..n \/ i = n + 1
  BY <1>5
<1>7. /\ e.of \in Requests
      /\ e.round = 0 => e.of = r /\ Main(r) = {}
      /\ e.round # 0 => Main(r) # {}
  BY <1>1, <1>3, <1>4 DEF Stowed, EntriesAreOfRequests, TurnsAreFirst
<1>8. \A s : Main(s)' = Main(s) \cup (IF e.round = 0 /\ e.of = s THEN {n + 1} ELSE {})
  <2>1. \A s, i : i \in Main(s) <=> i \in 1..n /\ stored[i].of = s /\ stored[i].round = 0
    BY <1>2, MainIs DEF n
  <2>2. \A s, i : i \in Main(s)' <=>
           i \in 1..(n + 1) /\ stored'[i].of = s /\ stored'[i].round = 0
    BY <1>5 DEF Main
  <2> QED
    BY <1>5, <1>6, <2>1, <2>2
<1>9. Main(r)' # {} /\ \A s \in Requests : s # r => Main(s)' = Main(s)
  BY <1>7, <1>8
<1>10. TurnsAreApart'
  <2>1. \A i \in DOMAIN stored' : stored'[i].of \in Requests
    BY <1>5, <1>6, <1>7 DEF Stowed, TurnsAreApart
  <2>2. \A s \in Requests : \A i, j \in Main(s)' : i = j
    BY <1>7, <1>8 DEF Stowed, TurnsAreApart
  <2> QED
    BY <1>1, <2>1, <2>2 DEF TurnsAreApart
<1>11. \A i \in DOMAIN u : u[i].round > 0 /\ u[i].of \in Requests
  BY <1>3, <1>4 DEF Stowed, TurnsAreFirst, EntriesAreOfRequests
<1>12. \A i \in DOMAIN u : u[i].round # 0
  <2>1. ASSUME NEW i \in DOMAIN u PROVE u[i].round \in Nat
    <3>1. u[i] \in Entries
      BY <1>3, <1>4
    <3> QED
      BY <3>1 DEF Entries
  <2> QED
    BY <1>11, <2>1
<1>13. TurnsAreFirst'
  <2>1. u # <<>> => u[1].round # 0
    BY <1>4, <1>12
  <2> QED
    BY <1>1, <1>9, <1>11, <2>1 DEF Stowed, TurnsAreFirst
<1>14. EntriesAreOfRequests'
  BY <1>1, <1>11 DEF Stowed, EntriesAreOfRequests
<1>15. DoneAreStored'
  BY <1>1, <1>9 DEF Stowed, DoneAreStored
<1> QED
  BY <1>10, <1>13, <1>14, <1>15 DEF Stowed

LEMMA TurnsDie ==
    ASSUME InterceptionTypes, Shaped, Stowed, Dies
    PROVE  Stowed'
<1>1. Requests' = Requests /\ stored' = stored /\ way' = way
  BY DEF Dies, Requests
<1>2. ASSUME NEW r \in Requests
      PROVE  /\ reqs'[r].todo = <<>>
             /\ reqs'[r] = reqs[r] \/ reqs'[r].at = "dead"
             /\ reqs'[r].at \in {"done", "dead"}
  <2>1. reqs[r] \in Recs /\ Fits(reqs[r], way)
    BY RecIsTyped DEF InterceptionTypes, Shaped
  <2>2. "dead" \in Ats
    BY DEF Ats
  <2> QED
    BY <2>1, <2>2, OverIsTyped DEF Dies, Fits
<1>3. \A s : Main(s)' = Main(s)
  BY <1>1 DEF Main
<1>4. TurnsAreApart'
  BY <1>1, <1>3 DEF Stowed, TurnsAreApart
<1>5. DOMAIN <<>> = {}
  OBVIOUS
<1>6. TurnsAreFirst'
  BY <1>1, <1>2, <1>5 DEF TurnsAreFirst
<1>7. EntriesAreOfRequests'
  BY <1>1, <1>2, <1>5 DEF EntriesAreOfRequests
<1>8. DoneAreStored'
  BY <1>1, <1>2, <1>3 DEF Stowed, DoneAreStored
<1> QED
  BY <1>4, <1>6, <1>7, <1>8 DEF Stowed

-----------------------------------------------------------------------------
(* The records: what the table holds is in a turn, or is to be.             *)

\* The request has its answer, and its own calls have run.
Past(r) ==
    /\ reqs[r].at \in {"answer", "collect", "store", "done", "dead"}
    /\ ~(reqs[r].at = "answer" /\ way = "chunks" /\ reqs[r].kind = "mixed")

KeptIn(seq) == UNION {seq[i].recs : i \in DOMAIN seq}
Kept == KeptIn(stored) \cup UNION {KeptIn(reqs[r].todo) : r \in Requests}

RecordsArePast == \A a \in Kept \cup Anchors(splice) : a[1] \in Requests /\ Past(a[1])

RecordsAreKept ==
    \A x \in splice :
       \/ x.anchor \in Kept
       \/ reqs[x.anchor[1]].met
       \/ x.fresh /\ reqs[x.anchor[1]].at \in {"answer", "collect"}

Recorded == RecordsArePast /\ RecordsAreKept

LEMMA InKept ==
    /\ KeptIn(<<>>) = {}
    /\ \A seq, a : a \in KeptIn(seq) <=> \E i \in DOMAIN seq : a \in seq[i].recs
    /\ \A a : a \in Kept <=>
          a \in KeptIn(stored) \/ \E r \in Requests : a \in KeptIn(reqs[r].todo)
    /\ \A x \in splice : x.anchor \in Anchors(splice)
    /\ \A a : a \in Anchors(splice) <=> \E x \in splice : a = x.anchor
BY DEF KeptIn, Kept, Anchors

LEMMA InKeptNext ==
    /\ \A a : a \in Kept' <=>
          a \in KeptIn(stored') \/ \E r \in Requests' : a \in KeptIn(reqs'[r].todo)
    /\ \A a : a \in Anchors(splice)' <=> \E x \in splice' : a = x.anchor
BY DEF Kept, Anchors

LEMMA KeptAppended ==
    ASSUME NEW s \in Seq(Entries), NEW e \in Entries
    PROVE  KeptIn(Append(s, e)) = KeptIn(s) \cup e.recs
<1> DEFINE t == Append(s, e)
<1>1. /\ t \in Seq(Entries) /\ Len(t) = Len(s) + 1 /\ Len(s) \in Nat
      /\ t[Len(s) + 1] = e /\ \A i \in 1..Len(s) : t[i] = s[i]
      /\ DOMAIN s = 1..Len(s)
  OBVIOUS
<1> HIDE DEF t
<1>2. DOMAIN t = 1..Len(t)
  BY <1>1, LenProperties
<1>3. \A i : i \in DOMAIN t <=> i \in DOMAIN s \/ i = Len(s) + 1
  BY <1>1, <1>2
<1>4. \A a : a \in KeptIn(t) <=> a \in KeptIn(s) \/ a \in e.recs
  BY <1>1, <1>3, InKept
<1> QED
  BY <1>4 DEF t

LEMMA KeptTaken ==
    ASSUME NEW t \in Seq(Entries), t # <<>>
    PROVE  KeptIn(t) = Head(t).recs \cup KeptIn(Tail(t))
<1> DEFINE e == Head(t)
           u == Tail(t)
<1>1. /\ Len(t) \in Nat /\ Len(t) > 0 /\ e = t[1] /\ u \in Seq(Entries)
      /\ Len(u) = Len(t) - 1 /\ \A i \in 1..Len(u) : u[i] = t[i + 1]
      /\ DOMAIN t = 1..Len(t)
  BY Rest, LenProperties
<1> HIDE DEF e, u
<1>2. DOMAIN u = 1..Len(u)
  BY <1>1, LenProperties
<1>3. \A i \in 1..Len(t) : i = 1 \/ (i - 1 \in 1..Len(u) /\ t[i] = u[i - 1])
  BY <1>1
<1>4. \A i \in 1..Len(u) : i + 1 \in 1..Len(t)
  BY <1>1
<1>5. 1 \in 1..Len(t)
  BY <1>1
<1>6. \A a : a \in KeptIn(t) <=> a \in KeptIn(u) \/ a \in e.recs
  BY <1>1, <1>2, <1>3, <1>4, <1>5, InKept
<1> QED
  BY <1>6 DEF e, u

LEMMA KeptTurned ==
    ASSUME NEW r \in Nat, NEW recs \in SUBSET Records,
           NEW bufs \in Seq(Nat \X (Nat \ {0}))
    PROVE  KeptIn(Turns(r, recs, bufs)) = NewInTurn(recs)
<1> DEFINE t == Turns(r, recs, bufs)
<1>1. /\ t \in Seq(Entries) /\ Len(t) = Len(bufs) + 1
      /\ t[1] = [of |-> r, round |-> 0, recs |-> NewInTurn(recs)]
      /\ \A i \in 1..Len(bufs) :
            t[i + 1] = [of |-> bufs[i][1], round |-> bufs[i][2], recs |-> {}]
  BY TurnsAre
<1> HIDE DEF t
<1>2. Len(bufs) \in Nat /\ DOMAIN t = 1..Len(t)
  BY <1>1, LenProperties
<1>3. t[1].recs = NewInTurn(recs)
  BY <1>1
<1>4. ASSUME NEW i \in 1..Len(bufs) PROVE t[i + 1].recs = {}
  <2>1. t[i + 1] = [of |-> bufs[i][1], round |-> bufs[i][2], recs |-> {}]
    BY <1>1
  <2>2. \A a, b, c : [of |-> a, round |-> b, recs |-> c].recs = c
    OBVIOUS
  <2> QED
    BY <2>1, <2>2
<1>5. \A i \in 1..Len(t) : i = 1 \/ (i - 1 \in 1..Len(bufs) /\ i = (i - 1) + 1)
  BY <1>1, <1>2
<1>6. 1 \in 1..Len(t)
  BY <1>1, <1>2
<1>7. \A i \in 1..Len(t) : i = 1 \/ t[i].recs = {}
  <2> SUFFICES ASSUME NEW i \in 1..Len(t), i # 1 PROVE t[i].recs = {}
    OBVIOUS
  <2>1. PICK k \in 1..Len(bufs) : i = k + 1
    BY <1>5
  <2> QED
    BY <1>4, <2>1
<1>8. \A a : a \in KeptIn(t) <=> a \in NewInTurn(recs)
  <2> SUFFICES ASSUME NEW a PROVE a \in KeptIn(t) <=> a \in NewInTurn(recs)
    OBVIOUS
  <2>1. a \in KeptIn(t) <=> \E i \in 1..Len(t) : a \in t[i].recs
    BY <1>2, InKept
  <2>2. a \in t[1].recs <=> a \in NewInTurn(recs)
    BY <1>3
  <2> QED
    BY <1>6, <1>7, <2>1, <2>2
<1> QED
  BY <1>8 DEF t

LEMMA RecordsStart ==
    Init => Recorded
<1> SUFFICES ASSUME Init PROVE Recorded
  OBVIOUS
<1>1. stored = <<>> /\ Requests = {} /\ splice = {}
  BY DEF Init, Requests
<1>2. Kept = {} /\ Anchors(splice) = {}
  BY <1>1, InKept DEF Kept, Anchors
<1> QED
  BY <1>1, <1>2 DEF Recorded, RecordsArePast, RecordsAreKept

LEMMA RecordsSend ==
    ASSUME InterceptionTypes, Recorded, Sends
    PROVE  Recorded'
<1> DEFINE new == Len(reqs) + 1
<1>1. /\ Requests' = Requests \cup {new} /\ new \notin Requests
      /\ reqs'[new].at = "sent" /\ reqs'[new].todo = <<>>
      /\ stored' = stored /\ way' = way /\ splice' = splice
  <2>1. Len(reqs) \in Nat
    BY LenProperties DEF InterceptionTypes
  <2>2. /\ Len(reqs') = new
        /\ reqs'[new].at = "sent" /\ reqs'[new].todo = <<>>
        /\ stored' = stored /\ way' = way /\ splice' = splice
    BY DEF Sends, memory
  <2>3. 1..new = 1..Len(reqs) \cup {new} /\ new \notin 1..Len(reqs)
    BY <2>1
  <2> QED
    BY <2>2, <2>3 DEF Requests
<1>2. ASSUME NEW r \in Requests
      PROVE  /\ reqs'[r].todo = reqs[r].todo /\ reqs'[r].kind = reqs[r].kind
             /\ reqs'[r].met = reqs[r].met
             /\ \/ reqs'[r].at = reqs[r].at
                \/ reqs'[r].at = "collect" /\ reqs[r].at \in Open \ {"sent"}
  <2>1. reqs[r] \in Recs
    BY RecIsTyped DEF InterceptionTypes
  <2> QED
    BY <2>1 DEF Sends, Recs
<1> HIDE DEF new
<1>3. Kept' = Kept /\ Anchors(splice)' = Anchors(splice)
  <2>1. \A a : a \in Kept' <=> a \in Kept
    BY <1>1, <1>2, InKept, InKeptNext
  <2> QED
    BY <1>1, <2>1
<1>4. \A r \in Requests : Past(r) => Past(r)'
  BY <1>1, <1>2 DEF Past
<1>5. RecordsArePast'
  BY <1>1, <1>3, <1>4 DEF Recorded, RecordsArePast
<1>6. RecordsAreKept'
  <2>1. \A x \in splice : x.anchor[1] \in Requests
    BY InKept DEF Recorded, RecordsArePast
  <2> QED
    BY <1>1, <1>2, <1>3, <2>1 DEF Recorded, RecordsAreKept, Open
<1> QED
  BY <1>5, <1>6 DEF Recorded

LEMMA RecordsPrepare ==
    ASSUME InterceptionTypes, Recorded, NEW r \in Requests, Prepares(r)
    PROVE  Recorded'
<1>1. /\ Requests' = Requests /\ stored' = stored /\ way' = way /\ reqs[r].at = "sent"
      /\ splice \in SUBSET Records /\ stored \in Seq(Entries)
  BY DEF Prepares, Requests, agent, InterceptionTypes
<1>2. \A s \in Requests :
         /\ reqs'[s].todo = reqs[s].todo /\ reqs'[s].kind = reqs[s].kind
         /\ reqs'[s].met = (reqs[s].met \/ reqs[s].at \in {"answer", "collect"})
         /\ reqs'[s].at = IF s = r THEN "upstream" ELSE reqs[s].at
  BY DEF Prepares
<1>3. PICK n \in 0..Len(stored) : splice' = Aged(Table(Held(n)))
  BY DEF Prepares
<1>4. Kept' = Kept
  <2>1. \A a : a \in Kept' <=> a \in Kept
    BY <1>1, <1>2, InKept, InKeptNext
  <2> QED
    BY <2>1
<1>5. Held(n) \in SUBSET Anchoring /\ Held(n) \subseteq Kept
  <2>1. /\ Held(n) \in SUBSET Anchoring
        /\ \A a \in Held(n) : \E i \in 1..Len(stored) : a \in stored[i].recs
    BY <1>1, HeldAreTyped
  <2>2. DOMAIN stored = 1..Len(stored)
    BY <1>1, LenProperties
  <2> QED
    BY <2>1, <2>2, InKept
<1>6. /\ Table(Held(n)) \in SUBSET Records
      /\ Restores => Anchors(Table(Held(n))) = Held(n)
      /\ ~Restores => Table(Held(n)) = splice
  BY <1>1, <1>5, TableIsTyped
<1>7. /\ Anchors(splice') = Anchors(Table(Held(n)))
      /\ \A x \in splice' : \E y \in Table(Held(n)) : y.anchor = x.anchor
  BY <1>3, <1>6, NewAreTyped
<1>8. \A x \in splice' :
         x.anchor \in Kept \/ \E y \in splice : y.anchor = x.anchor
  <2> SUFFICES ASSUME NEW x \in splice'
               PROVE  x.anchor \in Kept \/ \E y \in splice : y.anchor = x.anchor
    OBVIOUS
  <2>1. CASE Restores
    <3>1. x.anchor \in Anchors(Table(Held(n)))
      BY <1>7 DEF Anchors
    <3> QED
      BY <1>5, <1>6, <2>1, <3>1
  <2>2. CASE ~Restores
    BY <1>6, <1>7, <2>2
  <2> QED
    BY <2>1, <2>2
<1>9. \A a \in Anchors(splice)' : a \in Kept \cup Anchors(splice)
  BY <1>8, InKept, InKeptNext
<1>10. \A s \in Requests : Past(s) => Past(s)'
  BY <1>1, <1>2 DEF Past
<1>11. RecordsArePast'
  BY <1>1, <1>4, <1>9, <1>10 DEF Recorded, RecordsArePast
<1>12. RecordsAreKept'
  <2> SUFFICES ASSUME NEW x \in splice', x.anchor \notin Kept
               PROVE  reqs'[x.anchor[1]].met
    BY <1>4 DEF RecordsAreKept
  <2>1. PICK y \in splice : y.anchor = x.anchor
    BY <1>8
  <2>2. y.anchor[1] \in Requests
    BY InKept DEF Recorded, RecordsArePast
  <2> QED
    BY <1>2, <2>1, <2>2 DEF Recorded, RecordsAreKept
<1> QED
  BY <1>11, <1>12 DEF Recorded

LEMMA RecordsHandle ==
    ASSUME InterceptionTypes, InterceptionTypes', Shaped, Recorded,
           NEW r \in Requests, Handles(r)
    PROVE  Recorded'
<1> DEFINE p == reqs[r]
           q == reqs'[r]
           a0 == <<r, FALSE>>
<1>1. /\ Requests' = Requests /\ stored' = stored /\ way' = way
      /\ Goes(p, q) /\ \A s \in Requests : s # r => reqs'[s] = reqs[s]
      /\ splice' = IF p.at \in {"tools", "final"} /\ q.end # "left" THEN Added(r) ELSE splice
  BY DEF Handles, Requests
<1>2. /\ loops \in Seq(Nat \X (Nat \ {0})) /\ reqs \in Seq(Recs) /\ splice' \in SUBSET Records
      /\ r \in Nat /\ p.todo = <<>> /\ splice \in SUBSET Records
  <2>1. r \in Nat
    BY DEF Requests
  <2>2. p.at # "store"
    BY <1>1 DEF Goes
  <2>3. loops \in Seq(Nat \X (Nat \ {0})) /\ reqs \in Seq(Recs) /\ splice' \in SUBSET Records
        /\ splice \in SUBSET Records
    BY DEF InterceptionTypes
  <2> QED
    BY <2>1, <2>2, <2>3 DEF Shaped, Fits
<1>3. KeptIn(q.todo) = IF q.at = "store" THEN NewInTurn(splice') ELSE {}
  <2>1. PICK bufs \in {loops, loops \o Rounds(r)} :
           \/ q.at = "store" /\ q.todo = Turns(r, splice', bufs)
           \/ q.at # "store" /\ q.todo = <<>>
    BY DEF Handles
  <2>2. bufs \in Seq(Nat \X (Nat \ {0}))
    BY <1>2, RoundsAre
  <2> QED
    <3>1. KeptIn(Turns(r, splice', bufs)) = NewInTurn(splice')
      BY <1>2, <2>2, KeptTurned
    <3>2. KeptIn(<<>>) = {}
      BY InKept
    <3>3. CASE q.at = "store"
      BY <2>1, <3>1, <3>3
    <3>4. CASE q.at # "store"
      BY <2>1, <3>2, <3>4
    <3> QED
      BY <3>3, <3>4
<1>4. \A a : a \in Kept' <=> a \in Kept \/ (q.at = "store" /\ a \in NewInTurn(splice'))
  <2>1. KeptIn(p.todo) = {}
    BY <1>2, InKept
  <2>2. \A s \in Requests : s # r => KeptIn(reqs'[s].todo) = KeptIn(reqs[s].todo)
    BY <1>1
  <2>3. \A a : a \in Kept <=>
           a \in KeptIn(stored) \/ \E s \in Requests : a \in KeptIn(reqs[s].todo)
    BY InKept
  <2>4. \A a : a \in Kept' <=>
           a \in KeptIn(stored) \/ \E s \in Requests : a \in KeptIn(reqs'[s].todo)
    <3>1. Requests' = Requests /\ stored' = stored
      BY <1>1
    <3> QED
      BY <3>1, InKeptNext
  <2>5. \A a : a \in KeptIn(q.todo) <=> (q.at = "store" /\ a \in NewInTurn(splice'))
    BY <1>3
  <2> QED
    BY <2>1, <2>2, <2>3, <2>4, <2>5
<1>5. \A x \in splice' : x \in splice \/ (p.at \in {"tools", "final"} /\ x.anchor = a0 /\ x.fresh)
  <2>1. Record(<<r, FALSE>>).anchor = <<r, FALSE>> /\ Record(<<r, FALSE>>).fresh = TRUE
    BY DEF Record
  <2> QED
    BY <1>1, <2>1 DEF Added
<1>6. \A x \in splice' : x.fresh => x.anchor \in NewInTurn(splice')
  BY DEF NewInTurn
<1>7. \A a \in NewInTurn(splice') : a \in Anchors(splice)'
  BY InKeptNext DEF NewInTurn
<1>8. \A s \in Requests : Past(s) => Past(s)'
  BY <1>1 DEF Past, Goes
<1>9. p.at \in {"tools", "final"} => Past(r)'
  BY <1>1 DEF Past, Goes
<1>10. RecordsArePast'
  <2> SUFFICES ASSUME NEW a \in Kept' \cup Anchors(splice)' PROVE a[1] \in Requests /\ Past(a[1])'
    BY <1>1 DEF RecordsArePast
  <2>1. a \in Kept \/ a \in Anchors(splice) \/ (p.at \in {"tools", "final"} /\ a = a0)
    <3>1. a \in Kept \/ a \in Anchors(splice)'
      BY <1>4, <1>7
    <3>2. ASSUME a \in Anchors(splice)'
          PROVE  a \in Anchors(splice) \/ (p.at \in {"tools", "final"} /\ a = a0)
      <4>1. PICK x \in splice' : a = x.anchor
        BY <3>2, InKeptNext
      <4> QED
        BY <1>5, <4>1, InKept
    <3> QED
      BY <3>1, <3>2
  <2>2. a0[1] = r
    OBVIOUS
  <2> QED
    BY <1>8, <1>9, <2>1, <2>2 DEF Recorded, RecordsArePast
<1>11. RecordsAreKept'
  <2> SUFFICES ASSUME NEW x \in splice'
               PROVE  \/ x.anchor \in Kept'
                      \/ reqs'[x.anchor[1]].met
                      \/ x.fresh /\ reqs'[x.anchor[1]].at \in {"answer", "collect"}
    BY DEF RecordsAreKept
  <2>1. CASE x \in splice
    <3>1. x.anchor[1] \in Requests /\ Past(x.anchor[1])
      BY <2>1, InKept DEF Recorded, RecordsArePast
    <3>2. CASE x.anchor[1] # r
      BY <1>1, <1>4, <2>1, <3>1, <3>2 DEF Recorded, RecordsAreKept
    <3>3. CASE x.anchor[1] = r
      <4>1. p.at = "answer" => q.at = "collect"
        BY <1>1, <3>1, <3>3 DEF Past, Goes
      <4>2. p.at = "collect" => q.at = "store"
        BY <1>1 DEF Goes
      <4>3. q.met = p.met
        BY <1>1 DEF Goes
      <4> QED
        BY <1>4, <1>6, <2>1, <3>3, <4>1, <4>2, <4>3 DEF Recorded, RecordsAreKept
    <3> QED
      BY <3>2, <3>3
  <2>2. CASE x \notin splice
    <3>1. p.at \in {"tools", "final"} /\ x.anchor = a0 /\ x.fresh
      BY <1>5, <2>2
    <3>2. q.at \in {"store", "answer", "collect"}
      BY <1>1, <3>1 DEF Goes
    <3>3. x.anchor[1] = r
      BY <3>1
    <3> QED
      BY <1>4, <1>6, <3>1, <3>2, <3>3
  <2> QED
    BY <2>1, <2>2
<1> QED
  BY <1>10, <1>11 DEF Recorded

LEMMA RecordsStore ==
    ASSUME InterceptionTypes, Recorded, NEW r \in Requests, Stores(r)
    PROVE  Recorded'
<1> DEFINE p == reqs[r]
           q == reqs'[r]
           e == Head(p.todo)
           u == Tail(p.todo)
<1>1. /\ Requests' = Requests /\ way' = way /\ splice' = splice
      /\ \A s \in Requests : s # r => reqs'[s] = reqs[s]
      /\ stored' = Append(stored, e) /\ q.todo = u /\ p.todo # <<>> /\ p.at = "store"
      /\ q.at \in {"done", "store"} /\ q.met = p.met
  BY DEF Stores, Requests, memory
<1>2. stored \in Seq(Entries) /\ p.todo \in Seq(Entries)
  BY RecIsTyped DEF InterceptionTypes
<1>3. e \in Entries
  BY <1>1, <1>2, Rest
<1>4. KeptIn(stored') = KeptIn(stored) \cup e.recs
  BY <1>1, <1>2, <1>3, KeptAppended
<1>5. KeptIn(p.todo) = e.recs \cup KeptIn(q.todo)
  BY <1>1, <1>2, KeptTaken
<1> HIDE DEF e, u
<1>6. Kept' = Kept
  <2>1. \A a : a \in Kept' <=> a \in Kept
    BY <1>1, <1>4, <1>5, InKept, InKeptNext
  <2> QED
    BY <2>1
<1>7. Anchors(splice)' = Anchors(splice)
  BY <1>1
<1>8. \A s \in Requests : Past(s) => Past(s)'
  BY <1>1 DEF Past
<1>9. RecordsArePast'
  BY <1>1, <1>6, <1>7, <1>8 DEF Recorded, RecordsArePast
<1>10. RecordsAreKept'
  <2>1. \A x \in splice : x.anchor[1] \in Requests
    BY InKept DEF Recorded, RecordsArePast
  <2> QED
    BY <1>1, <1>6, <2>1 DEF Recorded, RecordsAreKept
<1> QED
  BY <1>9, <1>10 DEF Recorded

LEMMA RecordsDie ==
    ASSUME InterceptionTypes, Shaped, Recorded, Dies
    PROVE  Recorded'
<1>1. Requests' = Requests /\ stored' = stored /\ splice' = {}
  BY DEF Dies, Requests
<1>2. ASSUME NEW r \in Requests
      PROVE  reqs'[r].todo = <<>> /\ reqs'[r].at \in {"done", "dead"}
  <2>1. reqs[r] \in Recs /\ Fits(reqs[r], way)
    BY RecIsTyped DEF InterceptionTypes, Shaped
  <2>2. "dead" \in Ats
    BY DEF Ats
  <2> QED
    BY <2>1, <2>2, OverIsTyped DEF Dies, Fits
<1>3. \A a \in Kept' : a \in Kept
  BY <1>1, <1>2, InKept, InKeptNext
<1>4. \A a : a \notin Anchors(splice)'
  BY <1>1, InKeptNext
<1>5. \A r \in Requests : Past(r)'
  BY <1>2 DEF Past
<1>6. RecordsArePast'
  BY <1>1, <1>3, <1>4, <1>5 DEF Recorded, RecordsArePast
<1>7. RecordsAreKept'
  BY <1>1 DEF RecordsAreKept
<1> QED
  BY <1>6, <1>7 DEF Recorded

-----------------------------------------------------------------------------
(* What the agent holds: the calls that were cut out of it are in the table. *)

SaidIn(seq) == {seq[i] : i \in DOMAIN seq}
Said == SaidIn(hist) \cup UNION {SaidIn(reqs[r].hist) : r \in Requests}

\* The record of a request is in the table, unless a process died.
Tabled(r) == Crashed \/ <<r, FALSE>> \in Anchors(splice)

GivenAreTabled == given \subseteq Anchors(splice)

SaidWereAnswered == \A m \in Said : m.of \in Requests /\ m.of # waits

\* The client of a chat stream closed it before our calls had run.
HungUp(r) == way = "chunks" /\ reqs[r].kind = "mixed" /\ reqs[r].end = "left"

CutAreTabled ==
    \A m \in Said : m.cut /\ ~m.pre =>
       reqs[m.of].at = "tools" \/ HungUp(m.of) \/ Tabled(m.of)

\* A call of ours that the agent got was in the first reply of its stream.
SlipsAreFirst ==
    \A m \in Said : m.ours # {} =>
       /\ way # "whole" /\ reqs[m.of].round = 0
       /\ reqs[m.of].at \notin {"sent", "upstream", "loop"}

\* What is about to be sent is tabled too.
CutAnswer(q) ==
    /\ q.cut
    /\ \/ q.at = "answer" /\ ~(way = "chunks" /\ q.kind = "mixed")
       \/ q.at \in {"collect", "store"} /\ q.end = "open"
AnswersAreTabled == \A r \in Requests : CutAnswer(reqs[r]) => Tabled(r)

Recalled == /\ GivenAreTabled /\ SaidWereAnswered /\ CutAreTabled /\ AnswersAreTabled
            /\ SlipsAreFirst

LEMMA InSaid ==
    /\ SaidIn(<<>>) = {}
    /\ \A m : m \in Said <=> m \in SaidIn(hist) \/ \E r \in Requests : m \in SaidIn(reqs[r].hist)
    /\ \A m : m \in Said' <=>
          m \in SaidIn(hist') \/ \E r \in Requests' : m \in SaidIn(reqs'[r].hist)
BY DEF SaidIn, Said

LEMMA SaidAppended ==
    ASSUME NEW s \in Seq(Messages), NEW m \in Messages
    PROVE  SaidIn(Append(s, m)) = SaidIn(s) \cup {m}
<1> DEFINE t == Append(s, m)
<1>1. /\ t \in Seq(Messages) /\ Len(t) = Len(s) + 1 /\ Len(s) \in Nat
      /\ t[Len(s) + 1] = m /\ \A i \in 1..Len(s) : t[i] = s[i]
      /\ DOMAIN s = 1..Len(s)
  OBVIOUS
<1> HIDE DEF t
<1>2. DOMAIN t = 1..Len(t)
  BY <1>1, LenProperties
<1>3. \A i : i \in DOMAIN t <=> i \in DOMAIN s \/ i = Len(s) + 1
  BY <1>1, <1>2
<1>4. \A a : a \in SaidIn(t) <=> a \in SaidIn(s) \/ a = m
  BY <1>1, <1>3 DEF SaidIn
<1> QED
  BY <1>4 DEF t

LEMMA SaidHeard ==
    ASSUME InterceptionTypes, NEW r \in Requests, NEW good \in BOOLEAN, Hears(r, good),
           good => Slipped(reqs[r], way),
           reqs'[r].hist \in {reqs[r].hist, <<>>}, Requests' = Requests,
           \A s \in Requests : s # r => reqs'[s] = reqs[s]
    PROVE  /\ \A m \in Said' : m \in Said \/ (good /\ m = Message(r) /\ waits' = 0)
           /\ waits' \in {0, waits}
<1>1. good => Message(r) \in Messages /\ reqs[r].hist \in Seq(Messages)
  BY MessageIsTyped, RecIsTyped DEF InterceptionTypes
<1>2. good => SaidIn(Append(reqs[r].hist, Message(r))) = SaidIn(reqs[r].hist) \cup {Message(r)}
  BY <1>1, SaidAppended
<1>3. \A s \in Requests : \A m \in SaidIn(reqs'[s].hist) : m \in Said
  BY InSaid
<1>4. \A m \in SaidIn(hist') : m \in Said \/ (good /\ m = Message(r) /\ waits' = 0)
  <2>1. \A m : m \in SaidIn(hist) \/ m \in SaidIn(reqs[r].hist) => m \in Said
    BY InSaid
  <2> QED
    BY <1>2, <2>1 DEF Hears
<1> QED
  BY <1>3, <1>4, InSaid DEF Hears

LEMMA CallsStart ==
    Init => Recalled
<1> SUFFICES ASSUME Init PROVE Recalled
  OBVIOUS
<1>1. hist = <<>> /\ Requests = {} /\ given = {}
  BY DEF Init, Requests
<1>2. Said = {}
  BY <1>1, InSaid
<1> QED
  BY <1>1, <1>2
     DEF Recalled, GivenAreTabled, SaidWereAnswered, CutAreTabled, AnswersAreTabled,
         SlipsAreFirst

LEMMA CallsSend ==
    ASSUME InterceptionTypes, Recalled, Sends
    PROVE  Recalled'
<1> DEFINE new == Len(reqs) + 1
<1>1. /\ Requests' = Requests \cup {new} /\ new \notin Requests
      /\ reqs'[new].at = "sent" /\ ~reqs'[new].cut
      /\ reqs'[new].hist \in {<<>>, hist} \cup {reqs[r].hist : r \in Requests}
      /\ waits' \in {waits, new} /\ left'["crash"] = left["crash"]
      /\ hist' = hist /\ way' = way /\ splice' = splice /\ given' = given
  <2>1. Len(reqs) \in Nat
    BY LenProperties DEF InterceptionTypes
  <2>2. /\ Len(reqs') = new
        /\ reqs'[new].at = "sent" /\ ~reqs'[new].cut
        /\ reqs'[new].hist \in {<<>>, hist} \cup {reqs[r].hist : r \in Requests}
        /\ waits' \in {waits, new} /\ left'["crash"] = left["crash"]
        /\ hist' = hist /\ way' = way /\ splice' = splice /\ given' = given
    BY DEF Sends, memory
  <2>3. 1..new = 1..Len(reqs) \cup {new} /\ new \notin 1..Len(reqs)
    BY <2>1
  <2> QED
    BY <2>2, <2>3 DEF Requests
<1>2. ASSUME NEW r \in Requests
      PROVE  /\ reqs'[r].hist = reqs[r].hist /\ reqs'[r].kind = reqs[r].kind
             /\ reqs'[r].cut = reqs[r].cut /\ reqs'[r].round = reqs[r].round
             /\ \/ reqs'[r].at = reqs[r].at /\ reqs'[r].end = reqs[r].end
                \/ r = waits /\ reqs'[r].at = "collect" /\ reqs'[r].end = "left"
  <2>1. reqs[r] \in Recs
    BY RecIsTyped DEF InterceptionTypes
  <2> QED
    BY <2>1 DEF Sends, Recs
<1> HIDE DEF new
<1>3. \A m \in Said' : m \in Said
  <2>1. \A m \in SaidIn(reqs'[new].hist) : m \in Said
    BY <1>1, InSaid
  <2> QED
    BY <1>1, <1>2, <2>1, InSaid
<1>4. Anchors(splice)' = Anchors(splice) /\ (Crashed' <=> Crashed)
  <2>1. Anchors(splice)' = Anchors(splice)
    BY <1>1
  <2> QED
    BY <1>1, <2>1 DEF Crashed
<1>5. \A r : Tabled(r)' <=> Tabled(r)
  BY <1>4 DEF Tabled
<1>6. GivenAreTabled'
  BY <1>1, <1>4 DEF Recalled, GivenAreTabled
<1>7. SaidWereAnswered'
  BY <1>1, <1>3 DEF Recalled, SaidWereAnswered
<1>8. CutAreTabled'
  BY <1>1, <1>2, <1>3, <1>5 DEF Recalled, CutAreTabled, SaidWereAnswered, HungUp
<1>9. AnswersAreTabled'
  BY <1>1, <1>2, <1>5 DEF Recalled, AnswersAreTabled, CutAnswer
<1>10. SlipsAreFirst'
  BY <1>1, <1>2, <1>3 DEF Recalled, SlipsAreFirst, SaidWereAnswered
<1> QED
  BY <1>6, <1>7, <1>8, <1>9, <1>10 DEF Recalled

LEMMA CallsPrepare ==
    ASSUME InterceptionTypes, Recalled, NEW r \in Requests, Prepares(r)
    PROVE  /\ Recalled'
           /\ \A m \in Said :
                 m.cut /\ m.pre = FALSE =>
                    \/ Anchor(m) \in Anchors(splice')
                    \/ reqs[m.of].at = "tools" \/ HungUp(m.of)
                    \/ Crashed /\ Anchor(m) \notin given'
<1>1. /\ Requests' = Requests /\ way' = way /\ reqs[r].at = "sent" /\ hist' = hist
      /\ waits' = waits /\ left' = left /\ stored \in Seq(Entries) /\ splice \in SUBSET Records
  BY DEF Prepares, Requests, agent, InterceptionTypes
<1>2. \A s \in Requests :
         /\ reqs'[s].hist = reqs[s].hist /\ reqs'[s].kind = reqs[s].kind
         /\ reqs'[s].cut = reqs[s].cut /\ reqs'[s].end = reqs[s].end
         /\ reqs'[s].round = reqs[s].round
         /\ reqs'[s].at = IF s = r THEN "upstream" ELSE reqs[s].at
  BY DEF Prepares
<1>3. PICK n \in 0..Len(stored) :
         /\ splice' = Aged(Table(Held(n)))
         /\ given' = IF Restores THEN Held(n) ELSE given
  BY DEF Prepares
<1>4. \A m : m \in Said' <=> m \in Said
  BY <1>1, <1>2, InSaid
<1>5. /\ Anchors(splice) \subseteq Anchors(splice')
      /\ given' \subseteq Anchors(splice')
  <2>1. Held(n) \in SUBSET Anchoring
    BY <1>1, HeldAreTyped
  <2>2. /\ Table(Held(n)) \in SUBSET Records
        /\ Restores => Anchors(Table(Held(n))) = Held(n)
        /\ ~Restores => Table(Held(n)) = splice
    BY <1>1, <2>1, TableIsTyped
  <2>3. Anchors(splice') = Anchors(Table(Held(n)))
    BY <1>3, <2>2, NewAreTyped
  <2>4. CASE Restores
    <3>1. Anchors(splice) = {}
      BY <2>4 DEF Restores, Anchors
    <3> QED
      BY <1>3, <2>2, <2>3, <2>4, <3>1
  <2>5. CASE ~Restores
    BY <1>3, <2>2, <2>3, <2>5 DEF Recalled, GivenAreTabled
  <2> QED
    BY <2>4, <2>5
<1>6. \A s : Tabled(s) => Tabled(s)'
  BY <1>1, <1>5 DEF Tabled, Crashed
<1>7. GivenAreTabled'
  BY <1>5 DEF GivenAreTabled
<1>8. SaidWereAnswered'
  BY <1>1, <1>4 DEF Recalled, SaidWereAnswered
<1>9. CutAreTabled'
  BY <1>1, <1>2, <1>4, <1>6 DEF Recalled, CutAreTabled, SaidWereAnswered, HungUp
<1>10. AnswersAreTabled'
  BY <1>1, <1>2, <1>6 DEF Recalled, AnswersAreTabled, CutAnswer
<1>11. ASSUME NEW m \in Said, m.cut, m.pre = FALSE, reqs[m.of].at # "tools",
              ~HungUp(m.of), ~(Crashed /\ Anchor(m) \notin given')
       PROVE  Anchor(m) \in Anchors(splice')
  <2>1. Anchor(m) = <<m.of, FALSE>>
    BY <1>11 DEF Anchor
  <2>2. Crashed \/ <<m.of, FALSE>> \in Anchors(splice)
    BY <1>11 DEF Recalled, CutAreTabled, Tabled
  <2> QED
    BY <1>5, <1>11, <2>1, <2>2
<1>12. SlipsAreFirst'
  BY <1>1, <1>2, <1>4 DEF Recalled, SlipsAreFirst, SaidWereAnswered
<1> QED
  BY <1>7, <1>8, <1>9, <1>10, <1>11, <1>12 DEF Recalled

LEMMA CallsHandle ==
    ASSUME InterceptionTypes, Shaped, Recalled, NEW r \in Requests, Handles(r)
    PROVE  Recalled'
<1> DEFINE p == reqs[r]
           q == reqs'[r]
<1>1. /\ Requests' = Requests /\ given' = given /\ way' = way
      /\ Goes(p, q) /\ \A s \in Requests : s # r => reqs'[s] = reqs[s]
      /\ splice' = IF p.at \in {"tools", "final"} /\ q.end # "left" THEN Added(r) ELSE splice
      /\ left'["crash"] = left["crash"] /\ Hears(r, p.at = "answer")
  BY DEF Handles, Requests
<1>2. /\ \A m \in Said' : m \in Said \/ (p.at = "answer" /\ m = Message(r) /\ waits' = 0)
      /\ waits' \in {0, waits}
  <2>1. q.hist \in {p.hist, <<>>}
    BY <1>1 DEF Goes
  <2>2. (p.at = "answer") \in BOOLEAN
    OBVIOUS
  <2>3. p.at = "answer" => Slipped(p, way)
    BY DEF Shaped, Fits
  <2> QED
    BY <1>1, <2>1, <2>2, <2>3, SaidHeard
<1>3. /\ Anchors(splice) \subseteq Anchors(splice')
      /\ p.at \in {"tools", "final"} /\ q.end # "left" => <<r, FALSE>> \in Anchors(splice')
  <2>1. Record(<<r, FALSE>>).anchor = <<r, FALSE>>
    BY DEF Record
  <2>2. p.at \in {"tools", "final"} /\ q.end # "left" => splice' = splice \cup {Record(<<r, FALSE>>)}
    BY <1>1 DEF Added
  <2> QED
    BY <1>1, <2>1, <2>2 DEF Anchors
<1>4. \A s : Tabled(s) => Tabled(s)'
  BY <1>1, <1>3 DEF Tabled, Crashed
<1>5. /\ p.at \in {"tools", "final"} => Tabled(r)' \/ (HungUp(r)' /\ q.at = "collect")
      /\ p.end = "left" => q.end = "left"
      /\ p.at = "upstream" => p.end = "open"
  <2>1. /\ p.at \in {"upstream", "tools", "final", "loop"} => p.end = "open"
        /\ p.at = "tools" => p.kind = "mixed"
    BY DEF Shaped, Fits, Open
  <2>2. p.at \in {"tools", "final"} /\ q.end = "left" => HungUp(r)' /\ q.at = "collect"
    BY <1>1, <2>1 DEF Goes, HungUp
  <2>3. p.end = "left" => q.end = "left"
    BY <1>1, <2>1 DEF Goes
  <2> QED
    BY <1>3, <2>1, <2>2, <2>3 DEF Tabled
<1>6. /\ 0 \notin Requests /\ r # 0 /\ Message(r).of = r /\ Message(r).cut = p.cut
  BY DEF Requests, Message
<1>7. GivenAreTabled'
  BY <1>1, <1>3 DEF Recalled, GivenAreTabled
<1>8. SaidWereAnswered'
  BY <1>1, <1>2, <1>6 DEF Recalled, SaidWereAnswered
<1>9. CutAreTabled'
  <2> SUFFICES ASSUME NEW m \in Said', m.cut, ~m.pre, ~Tabled(m.of)', ~HungUp(m.of)'
               PROVE  reqs'[m.of].at = "tools"
    BY DEF CutAreTabled
  <2>1. CASE m \in Said
    <3>1. (reqs[m.of].at = "tools" \/ HungUp(m.of)) /\ m.of \in Requests
      BY <1>4, <2>1 DEF Recalled, CutAreTabled, SaidWereAnswered
    <3>2. m.of # r
      <4>1. HungUp(r) => HungUp(r)'
        <5>1. HungUp(r) => p.at # "upstream"
          BY <1>5 DEF HungUp
        <5> QED
          BY <1>1, <1>5, <5>1 DEF HungUp, Goes
      <4> QED
        BY <1>5, <3>1, <4>1
    <3>3. HungUp(m.of) => HungUp(m.of)'
      BY <1>1, <3>1, <3>2 DEF HungUp
    <3> QED
      BY <1>1, <3>1, <3>2, <3>3
  <2>2. CASE p.at = "answer" /\ m = Message(r)
    <3>1. ~Tabled(r) /\ p.cut
      BY <1>4, <1>6, <2>2
    <3>2. way = "chunks" /\ p.kind = "mixed"
      BY <2>2, <3>1 DEF Recalled, AnswersAreTabled, CutAnswer
    <3> QED
      BY <1>1, <1>6, <2>2, <3>2 DEF Goes
  <2> QED
    BY <1>2, <2>1, <2>2
<1>10. AnswersAreTabled'
  <2> SUFFICES ASSUME NEW s \in Requests, CutAnswer(reqs[s])' PROVE Tabled(s)'
    BY <1>1 DEF AnswersAreTabled
  <2>1. CASE s # r
    BY <1>1, <1>4, <2>1 DEF Recalled, AnswersAreTabled, CutAnswer
  <2>2. CASE s = r
    <3>1. CutAnswer(reqs[r])' /\ (p.at \in {"upstream", "loop"} => ~p.cut)
      BY <2>2 DEF Shaped, Fits
    <3>2. CASE p.at \in {"upstream", "loop"}
      BY <1>1, <3>1, <3>2 DEF Goes, CutAnswer
    <3>3. CASE p.at \in {"tools", "final"}
      <4>1. ~(HungUp(r)' /\ q.at = "collect")
        BY <3>1 DEF CutAnswer, HungUp
      <4> QED
        BY <1>5, <2>2, <3>3, <4>1
    <3>4. CASE p.at \in {"answer", "collect"}
      <4>1. CutAnswer(p)
        BY <1>1, <3>1, <3>4 DEF Goes, CutAnswer
      <4> QED
        BY <1>4, <2>2, <4>1 DEF Recalled, AnswersAreTabled
    <3> QED
      BY <1>1, <3>2, <3>3, <3>4 DEF Goes
  <2> QED
    BY <2>1, <2>2
<1>11. SlipsAreFirst'
  <2> SUFFICES ASSUME NEW m \in Said', m.ours # {}
               PROVE  /\ way # "whole" /\ reqs'[m.of].round = 0
                      /\ reqs'[m.of].at \notin {"sent", "upstream", "loop"}
    BY <1>1 DEF SlipsAreFirst
  <2>1. p.at \notin {"upstream", "loop"} =>
           q.round = p.round /\ q.at \notin {"sent", "upstream", "loop"}
    BY <1>1 DEF Goes
  <2>2. CASE m \in Said
    <3>1. /\ way # "whole" /\ reqs[m.of].round = 0 /\ m.of \in Requests
          /\ reqs[m.of].at \notin {"sent", "upstream", "loop"}
      BY <2>2 DEF Recalled, SlipsAreFirst, SaidWereAnswered
    <3> QED
      BY <1>1, <2>1, <3>1
  <2>3. CASE p.at = "answer" /\ m = Message(r)
    <3>1. Slipped(p, way) /\ m.ours = p.ours
      BY <2>3 DEF Shaped, Fits, Message
    <3> QED
      BY <1>6, <2>1, <2>3, <3>1 DEF Slipped
  <2> QED
    BY <1>2, <2>2, <2>3
<1> QED
  BY <1>7, <1>8, <1>9, <1>10, <1>11 DEF Recalled

LEMMA CallsStore ==
    ASSUME InterceptionTypes, Shaped, Recalled, NEW r \in Requests, Stores(r)
    PROVE  Recalled'
<1> DEFINE p == reqs[r]
           q == reqs'[r]
<1>1. /\ Requests' = Requests /\ given' = given /\ way' = way /\ splice' = splice
      /\ \A s \in Requests : s # r => reqs'[s] = reqs[s]
      /\ left' = left /\ Hears(r, p.end = "open") /\ p.at = "store"
      /\ q.at \in {"done", "store"} /\ q.cut = p.cut /\ q.end = p.end /\ q.kind = p.kind
      /\ q.hist \in {p.hist, <<>>} /\ q.round = p.round
  BY DEF Stores, Requests, memory
<1>2. /\ \A m \in Said' : m \in Said \/ (p.end = "open" /\ m = Message(r) /\ waits' = 0)
      /\ waits' \in {0, waits}
  <2>1. (p.end = "open") \in BOOLEAN
    OBVIOUS
  <2>2. p.end = "open" => Slipped(p, way)
    BY <1>1 DEF Shaped, Fits
  <2> QED
    BY <1>1, <2>1, <2>2, SaidHeard
<1>3. \A s : Tabled(s)' <=> Tabled(s)
  BY <1>1 DEF Tabled, Crashed, Anchors
<1>4. /\ 0 \notin Requests /\ r # 0 /\ Message(r).of = r /\ Message(r).cut = p.cut
  BY DEF Requests, Message
<1>5. GivenAreTabled'
  BY <1>1 DEF Recalled, GivenAreTabled, Anchors
<1>6. SaidWereAnswered'
  BY <1>1, <1>2, <1>4 DEF Recalled, SaidWereAnswered
<1>7. CutAreTabled'
  <2> SUFFICES ASSUME NEW m \in Said', m.cut, ~m.pre, ~Tabled(m.of), ~HungUp(m.of)'
               PROVE  reqs'[m.of].at = "tools"
    BY <1>3 DEF CutAreTabled
  <2>1. CASE m \in Said
    BY <1>1, <2>1 DEF Recalled, CutAreTabled, SaidWereAnswered, HungUp
  <2>2. CASE p.end = "open" /\ m = Message(r)
    BY <1>1, <1>4, <2>2 DEF Recalled, AnswersAreTabled, CutAnswer
  <2> QED
    BY <1>2, <2>1, <2>2
<1>8. AnswersAreTabled'
  BY <1>1, <1>3 DEF Recalled, AnswersAreTabled, CutAnswer
<1>9. SlipsAreFirst'
  <2> SUFFICES ASSUME NEW m \in Said', m.ours # {}
               PROVE  /\ way # "whole" /\ reqs'[m.of].round = 0
                      /\ reqs'[m.of].at \notin {"sent", "upstream", "loop"}
    BY <1>1 DEF SlipsAreFirst
  <2>1. CASE m \in Said
    BY <1>1, <2>1 DEF Recalled, SlipsAreFirst, SaidWereAnswered
  <2>2. CASE p.end = "open" /\ m = Message(r)
    <3>1. Slipped(p, way) /\ m.ours = p.ours
      BY <1>1, <2>2 DEF Shaped, Fits, Message
    <3> QED
      BY <1>1, <1>4, <2>2, <3>1 DEF Slipped
  <2> QED
    BY <1>2, <2>1, <2>2
<1> QED
  BY <1>5, <1>6, <1>7, <1>8, <1>9 DEF Recalled

LEMMA CallsDie ==
    ASSUME InterceptionTypes, Recalled, Dies
    PROVE  Recalled'
<1>1. /\ Requests' = Requests /\ given' = {} /\ hist' = hist /\ waits' = 0 /\ Crashed'
  BY DEF Dies, Requests, Crashed
<1>2. ASSUME NEW r \in Requests
      PROVE  /\ reqs'[r].hist \in {reqs[r].hist, <<>>} /\ reqs'[r].round = reqs[r].round
             /\ reqs'[r].at \in {"done", "dead"}
  <2>1. reqs[r] \in Recs
    BY RecIsTyped DEF InterceptionTypes
  <2>2. "dead" \in Ats
    BY DEF Ats
  <2> QED
    BY <2>1, <2>2, OverIsTyped DEF Dies
<1>3. \A m \in Said' : m \in Said
  BY <1>1, <1>2, InSaid
<1>4. \A r : Tabled(r)'
  BY <1>1 DEF Tabled
<1>5. GivenAreTabled'
  BY <1>1 DEF GivenAreTabled
<1>6. SaidWereAnswered'
  <2>1. 0 \notin Requests
    BY DEF Requests
  <2> QED
    BY <1>1, <1>3, <2>1 DEF Recalled, SaidWereAnswered
<1>7. CutAreTabled' /\ AnswersAreTabled'
  BY <1>4 DEF CutAreTabled, AnswersAreTabled
<1>8. SlipsAreFirst'
  <2>1. way' = way
    BY DEF Dies
  <2> QED
    BY <1>2, <1>3, <2>1 DEF Recalled, SlipsAreFirst, SaidWereAnswered
<1> QED
  BY <1>5, <1>6, <1>7, <1>8 DEF Recalled

-----------------------------------------------------------------------------
(* The theorems. *)

InterceptionInv ==
    InterceptionTypes /\ Shaped /\ Rounded /\ Stowed /\ Recorded /\ Recalled

LEMMA InterceptionStarts ==
    Init => InterceptionInv
<1> SUFFICES ASSUME Init PROVE InterceptionTypes /\ Shaped
  BY RoundsStart, TurnsStart, RecordsStart, CallsStart DEF InterceptionInv
<1>1. reqs = <<>> /\ Requests = {}
  BY DEF Init, Requests
<1>2. /\ <<>> \in Seq(Messages) /\ <<>> \in Seq(Recs) /\ <<>> \in Seq(Entries)
      /\ <<>> \in Seq(Nat \X (Nat \ {0}))
  OBVIOUS
<1>3. left \in [Faults -> Nat] /\ left["crash"] <= FaultBudget["crash"]
  BY SplicingAssumption DEF Init, Faults
<1>4. way \in {"whole", "events", "chunks"}
  BY SplicingAssumption DEF Init
<1> QED
  BY <1>1, <1>2, <1>3, <1>4 DEF Init, InterceptionTypes, Shaped

LEMMA InterceptionStands ==
    InterceptionInv /\ UNCHANGED vars => InterceptionInv'
<1> SUFFICES ASSUME InterceptionInv, UNCHANGED vars PROVE InterceptionInv'
  OBVIOUS
<1>1. /\ way' = way /\ hist' = hist /\ waits' = waits /\ reqs' = reqs /\ splice' = splice
      /\ loops' = loops /\ given' = given /\ stored' = stored /\ paid' = paid
      /\ left' = left
  BY DEF vars
<1>2. Requests' = Requests /\ Looped' = Looped /\ Crashed' = Crashed
  BY <1>1 DEF Requests, Looped, Crashed
<1>3. Todo' = Todo /\ RoundsIn(stored)' = RoundsIn(stored)
  BY <1>1 DEF Todo, Requests, RoundsIn
<1>4. Known' = Known
  BY <1>2, <1>3 DEF Known
<1>5. InterceptionTypes'
  BY <1>1, <1>2 DEF InterceptionInv, InterceptionTypes
<1>6. Shaped'
  BY <1>1, <1>2 DEF InterceptionInv, Shaped, Fits
<1>7. Rounded'
  <2>1. RoundsAreApart'
    BY <1>1 DEF InterceptionInv, Rounded, RoundsAreApart, Once, Looped, RoundsIn, Requests
  <2>2. RoundsAreOfTheirLoops'
    BY <1>1, <1>2, <1>4 DEF InterceptionInv, Rounded, RoundsAreOfTheirLoops
  <2>3. PaidAreOfTheirLoops' /\ PaidAreKnown' /\ RoundsAreFetched'
    BY <1>1, <1>2, <1>4
       DEF InterceptionInv, Rounded, PaidAreOfTheirLoops, PaidAreKnown, RoundsAreFetched
  <2> QED
    BY <2>1, <2>2, <2>3 DEF Rounded
<1>8. Stowed'
  <2>1. TurnsAreApart'
    BY <1>1 DEF InterceptionInv, Stowed, TurnsAreApart, Main, Requests
  <2>2. TurnsAreFirst'
    BY <1>1 DEF InterceptionInv, Stowed, TurnsAreFirst, Main, Requests
  <2>3. EntriesAreOfRequests' /\ DoneAreStored'
    BY <1>1 DEF InterceptionInv, Stowed, EntriesAreOfRequests, DoneAreStored, Main, Requests
  <2> QED
    BY <2>1, <2>2, <2>3 DEF Stowed
<1>9. Recorded'
  <2>1. Kept' = Kept /\ Anchors(splice)' = Anchors(splice)
    BY <1>1 DEF Kept, KeptIn, Requests, Anchors
  <2>2. \A r : Past(r)' <=> Past(r)
    BY <1>1 DEF Past
  <2>3. RecordsArePast'
    BY <1>2, <2>1, <2>2 DEF InterceptionInv, Recorded, RecordsArePast
  <2>4. RecordsAreKept'
    BY <1>1, <2>1 DEF InterceptionInv, Recorded, RecordsAreKept
  <2> QED
    BY <2>3, <2>4 DEF Recorded
<1>10. Recalled'
  <2>1. Said' = Said /\ Anchors(splice)' = Anchors(splice)
    BY <1>1 DEF Said, SaidIn, Requests, Anchors
  <2>2. \A r : Tabled(r)' <=> Tabled(r)
    BY <1>2, <2>1 DEF Tabled
  <2>3. GivenAreTabled'
    BY <1>1, <2>1 DEF InterceptionInv, Recalled, GivenAreTabled
  <2>4. SaidWereAnswered'
    BY <1>1, <1>2, <2>1 DEF InterceptionInv, Recalled, SaidWereAnswered
  <2>5. CutAreTabled'
    BY <1>1, <2>1, <2>2 DEF InterceptionInv, Recalled, CutAreTabled, HungUp
  <2>6. AnswersAreTabled'
    BY <1>1, <1>2, <2>2 DEF InterceptionInv, Recalled, AnswersAreTabled, CutAnswer
  <2>7. SlipsAreFirst'
    BY <1>1, <2>1 DEF InterceptionInv, Recalled, SlipsAreFirst
  <2> QED
    BY <2>3, <2>4, <2>5, <2>6, <2>7 DEF Recalled
<1> QED
  BY <1>5, <1>6, <1>7, <1>8, <1>9, <1>10 DEF InterceptionInv

LEMMA InterceptionSteps ==
    InterceptionInv /\ [Next]_vars => InterceptionInv'
<1> SUFFICES ASSUME InterceptionInv, [Next]_vars PROVE InterceptionInv'
  OBVIOUS
<1>1. /\ InterceptionTypes /\ Shaped /\ Rounded /\ Stowed /\ Recorded /\ Recalled
      /\ InterceptionTypes' /\ Shaped' /\ (Steps \/ UNCHANGED vars)
  BY StepKinds DEF InterceptionInv
<1>2. CASE UNCHANGED vars
  BY <1>2, InterceptionStands
<1>3. CASE Sends
  BY <1>1, <1>3, RoundsSend, TurnsSend, RecordsSend, CallsSend DEF InterceptionInv
<1>4. CASE Dies
  BY <1>1, <1>4, RoundsDie, TurnsDie, RecordsDie, CallsDie DEF InterceptionInv
<1>5. ASSUME NEW r \in Requests, Prepares(r) PROVE InterceptionInv'
  BY <1>1, <1>5, RoundsPrepare, TurnsPrepare, RecordsPrepare, CallsPrepare
     DEF InterceptionInv
<1>6. ASSUME NEW r \in Requests, Handles(r) PROVE InterceptionInv'
  BY <1>1, <1>6, RoundsHandle, TurnsHandle, RecordsHandle, CallsHandle DEF InterceptionInv
<1>7. ASSUME NEW r \in Requests, Stores(r) PROVE InterceptionInv'
  BY <1>1, <1>7, RoundsStore, TurnsStore, RecordsStore, CallsStore DEF InterceptionInv
<1> QED
  BY <1>1, <1>2, <1>3, <1>4, <1>5, <1>6, <1>7 DEF Steps

LEMMA InterceptionHolds ==
    Spec => []InterceptionInv
BY InterceptionStarts, InterceptionSteps, PTL DEF Spec

\* The rounds are accounted for: what the invariant says of them in the words of the run.
LEMMA RoundsAddUp ==
    InterceptionInv => RoundsAreAccounted
<1> SUFFICES ASSUME InterceptionInv PROVE RoundsAreAccounted
  OBVIOUS
<1>1. \A p \in paid :
         \/ reqs[p[1]].at \in {"loop", "dead"}
         \/ reqs[p[1]].end \in {"failed", "left"}
         \/ left["crash"] < FaultBudget["crash"]
         \/ p \in RoundsIn(stored) \cup Todo
         \/ \E i \in DOMAIN loops : loops[i] = p
  BY DEF InterceptionInv, Rounded, PaidAreKnown, Known, Looped, Crashed
<1>2. \A i, j \in DOMAIN stored :
         (/\ stored[i].round > 0
          /\ <<stored[i].of, stored[i].round>> = <<stored[j].of, stored[j].round>>)
         => i = j
  BY DEF InterceptionInv, Rounded, RoundsAreApart, Once
<1>3. (\A r \in Requests : reqs[r].at \in {"done", "dead"}) => loops = <<>>
  BY DEF InterceptionInv, Rounded, RoundsAreFetched
<1> QED
  BY <1>1, <1>2, <1>3 DEF RoundsAreAccounted

LEMMA RecordsAddUp ==
    InterceptionInv => RecordsAreComplete
<1> SUFFICES ASSUME InterceptionInv PROVE RecordsAreComplete
  OBVIOUS
<1>1. RecordsAreStored
  <2> SUFFICES ASSUME NEW x \in splice, reqs[x.anchor[1]].at = "done"
               PROVE  InSomeTurn(x.anchor) \/ reqs[x.anchor[1]].met
    BY DEF RecordsAreStored
  <2>1. x.anchor \in Kept \/ reqs[x.anchor[1]].met
    BY DEF InterceptionInv, Recorded, RecordsAreKept
  <2> QED
    BY <2>1 DEF Kept, KeptIn, InSomeTurn
<1>2. ASSUME NEW r \in Requests PROVE Cardinality(Main(r)) <= 1
  <2>1. \A i, j \in Main(r) : i = j
    BY DEF InterceptionInv, Stowed, TurnsAreApart
  <2>2. CASE Main(r) = {}
    BY <2>2, FS_EmptySet
  <2>3. CASE Main(r) # {}
    <3>1. PICK i : Main(r) = {i}
      BY <2>1, <2>3
    <3>2. Cardinality({i}) = 1
      BY FS_Singleton
    <3> QED
      BY <3>1, <3>2
  <2> QED
    BY <2>2, <2>3
<1>3. AnsweredIsStored
  BY <1>2 DEF AnsweredIsStored, InterceptionInv, Stowed, DoneAreStored
<1> QED
  BY <1>1, <1>3 DEF RecordsAreComplete

\* The agent of a session gets no call of BladeX's own, whichever way it is answered, but
\* one that is named late in the first reply of a stream (interception.py; agency/streams.py;
\* agency/runtime.py, _strip_execute_splice).
THEOREM AgentSeesItsOwn ==
    Spec => []AgentNeverSeesOurs
<1>1. InterceptionInv => AgentNeverSeesOurs
  <2> SUFFICES ASSUME InterceptionInv, NEW i \in DOMAIN hist, hist[i].ours # {}
               PROVE  /\ hist[i].ours = {"late"} /\ way # "whole"
                      /\ reqs[hist[i].of].round = 0
    BY DEF AgentNeverSeesOurs
  <2>1. hist \in Seq(Messages) /\ SlipsAreFirst
    BY DEF InterceptionInv, InterceptionTypes, Recalled
  <2>2. hist[i] \in Messages
    BY <2>1
  <2>3. hist[i] \in SaidIn(hist)
    BY DEF SaidIn
  <2>4. hist[i] \in Said
    BY <2>3, InSaid
  <2>5. hist[i].ours = {"late"}
    BY <2>2 DEF Messages
  <2> QED
    BY <2>1, <2>4, <2>5 DEF SlipsAreFirst
<1> QED
  BY <1>1, InterceptionHolds, PTL

\* The account of the model's calls adds up and the records of a session are complete,
\* however many of its requests overlap and whichever of them takes the rounds and the
\* records along (orchestration.py, _enqueue_turn; agency/loopledger.py).
THEOREM TurnsAddUp ==
    Spec => []TurnsAreComplete
<1>1. InterceptionInv => TurnsAreComplete
  BY RoundsAddUp, RecordsAddUp DEF TurnsAreComplete
<1> QED
  BY <1>1, InterceptionHolds, PTL

\* The model sees what it called: an answer that lost calls of BladeX's own gets them back
\* when the history comes in again (agency/splice.py; orchestration.py, _restore_splice).
THEOREM WhatWasCutReturns ==
    Spec => CallsComeBack
<1>1. ASSUME InterceptionInv, [Next]_vars, NEW r \in Requests,
             reqs[r].at = "sent", reqs'[r].at = "upstream",
             NEW i \in DOMAIN reqs[r].hist, reqs[r].hist[i].cut
      PROVE  ComesBack(reqs[r].hist[i], reqs'[r].sees, given')
  <2> DEFINE m == reqs[r].hist[i]
  <2>1. InterceptionTypes /\ Shaped /\ Recalled /\ (Steps \/ UNCHANGED vars)
    BY <1>1, StepKinds DEF InterceptionInv
  <2>2. Prepares(r)
    <3>1. ~UNCHANGED vars
      BY <1>1 DEF vars
    <3>2. ~Sends
      <4> SUFFICES ASSUME Sends PROVE FALSE
        OBVIOUS
      <4>1. reqs[r] \in Recs
        BY <2>1, RecIsTyped DEF InterceptionTypes
      <4> QED
        BY <1>1, <4>1 DEF Sends, Recs
    <3>3. ~Dies
      <4> SUFFICES ASSUME Dies PROVE FALSE
        OBVIOUS
      <4>1. reqs[r] \in Recs /\ "dead" \in Ats
        BY <2>1, RecIsTyped DEF InterceptionTypes, Ats
      <4> QED
        BY <1>1, <4>1, OverIsTyped DEF Dies
    <3>4. ASSUME NEW s \in Requests, Handles(s) PROVE FALSE
      BY <1>1, <3>4 DEF Handles, Goes
    <3>5. ASSUME NEW s \in Requests, Stores(s) PROVE FALSE
      BY <1>1, <3>5 DEF Stores
    <3>6. ASSUME NEW s \in Requests, Prepares(s) PROVE s = r
      BY <1>1, <3>6 DEF Prepares
    <3> QED
      BY <2>1, <3>1, <3>2, <3>3, <3>4, <3>5, <3>6 DEF Steps
  <2>3. /\ reqs[r].hist \in Seq(Messages) /\ splice \in SUBSET Records
        /\ stored \in Seq(Entries)
    BY <2>1, RecIsTyped DEF InterceptionTypes
  <2>4. m \in Messages /\ m \in Said
    <3>1. m \in Messages
      BY <2>3
    <3>2. m \in SaidIn(reqs[r].hist)
      BY DEF SaidIn
    <3> QED
      BY <3>1, <3>2, InSaid
  <2>5. m.pre \in BOOLEAN /\ m.cut
    BY <1>1, <2>4 DEF Messages
  <2>6. PICK n \in 0..Len(stored) :
           /\ reqs'[r].sees = Spliced(reqs[r].hist, Table(Held(n)))
           /\ splice' = Aged(Table(Held(n)))
    BY <2>2 DEF Prepares
  <2>7. Anchors(splice') = Anchors(Table(Held(n)))
    <3>1. Held(n) \in SUBSET Anchoring
      BY <2>3, HeldAreTyped
    <3>2. Table(Held(n)) \in SUBSET Records
      BY <2>3, <3>1, TableIsTyped
    <3> QED
      BY <2>6, <3>2, NewAreTyped
  <2>8. Anchor(m) \in Anchors(splice') => m.split \/ Anchor(m) \in reqs'[r].sees
    BY <2>6, <2>7 DEF Spliced, InOnePiece
  <2>9. m.pre = FALSE => \/ Anchor(m) \in Anchors(splice')
                         \/ reqs[m.of].at = "tools" \/ HungUp(m.of)
                         \/ Crashed /\ Anchor(m) \notin given'
    BY <2>1, <2>2, <2>4, <2>5, CallsPrepare
  <2> HIDE DEF m
  <2>10. ComesBack(m, reqs'[r].sees, given')
    BY <2>5, <2>8, <2>9 DEF ComesBack, Crashed, HungUp, Lost
  <2> QED
    BY <2>10 DEF m
<1>2. InterceptionInv /\ [Next]_vars =>
         [\A r \in Requests :
             (reqs[r].at = "sent" /\ reqs'[r].at = "upstream") =>
                \A i \in DOMAIN reqs[r].hist :
                   reqs[r].hist[i].cut =>
                      ComesBack(reqs[r].hist[i], reqs'[r].sees, given')]_vars
  BY <1>1
<1> QED
  BY <1>2, InterceptionHolds, PTL DEF Spec, CallsComeBack

-----------------------------------------------------------------------------
(***************************************************************************)
(* Routing.  What is known of the sticky entry, and of the requests that   *)
(* are under way, whichever of them writes it next.                        *)
(***************************************************************************)

\* An entry of the sticky table, and a request that is under way.
IsEntry(e) ==
    e = NoEntry \/ e = [model |-> e.model, origin |-> e.origin, due |-> e.due]
IsCall(c) ==
    /\ c = [via |-> c.via, ask |-> c.ask, plan |-> c.plan, rest |-> c.rest, kept |-> c.kept,
            pick |-> c.pick]
    /\ c.kept \in BOOLEAN /\ c.pick \in BOOLEAN

CallsShaped ==
    /\ IsEntry(sticky)
    /\ call = [r \in SessionRequests |-> call[r]]
    /\ \A r \in SessionRequests : call[r] = Idle \/ IsCall(call[r])

\* The entry of a request that is still there is for the first model of its plan.
KeptIsPrimary ==
    \A r \in SessionRequests : call[r] # Idle /\ ~Strays(r) => sticky.model = Primary(r)

RoutingInv == CallsShaped /\ KeptIsPrimary /\ OnlyPicksStay

-----------------------------------------------------------------------------
(* What the steps do. *)

LEMMA Updating ==
  ASSUME NEW e, NEW m, NEW origin, IsEntry(e)
  PROVE  /\ IsEntry(UpdateSticky(e, m, origin))
         /\ UpdateSticky(e, m, origin).model = m
         /\ e.model = m => UpdateSticky(e, m, origin) = e
         /\ e.model # m => UpdateSticky(e, m, origin).origin = origin
BY DEF UpdateSticky, IsEntry

\* Whoever writes an entry for another model, the requests under way learn of it.
LEMMA Remembering ==
  ASSUME CallsShaped, KeptIsPrimary, NEW e, NEW r \in SessionRequests, call[r] # Idle
  PROVE  LET c == Remember(call, e)[r] IN
         /\ IsCall(c)
         /\ c.via = call[r].via /\ c.plan = call[r].plan /\ c.rest = call[r].rest
         /\ c.kept /\ c.via # "auxiliary" => e.model = Head(c.plan)
<1>. DEFINE c == Remember(call, e)[r]
<1>1. call[r] = [via |-> call[r].via, ask |-> call[r].ask, plan |-> call[r].plan,
                 rest |-> call[r].rest, kept |-> call[r].kept, pick |-> call[r].pick]
  BY DEF CallsShaped, IsCall
<1>2. c = [call[r] EXCEPT !.kept = call[r].kept /\ e.model = sticky.model]
  BY DEF Remember
<1>3. c = [via |-> call[r].via, ask |-> call[r].ask, plan |-> call[r].plan, rest |-> call[r].rest,
           kept |-> (call[r].kept /\ e.model = sticky.model), pick |-> call[r].pick]
  BY <1>1, <1>2
<1>4. (call[r].kept /\ e.model = sticky.model) \in BOOLEAN /\ call[r].pick \in BOOLEAN
  BY DEF CallsShaped, IsCall
<1>5. c.kept = (call[r].kept /\ e.model = sticky.model)
  BY <1>3
<1>6. IsCall(c) /\ c.via = call[r].via /\ c.plan = call[r].plan /\ c.rest = call[r].rest
  BY <1>3, <1>4 DEF IsCall
<1>7. c.kept /\ c.via # "auxiliary" => e.model = Head(c.plan)
  BY <1>5, <1>6 DEF KeptIsPrimary, Strays, Primary
<1>. QED  BY <1>6, <1>7

\* A request starts with an entry for the first model of its plan, unless it is auxiliary.
LEMMA Starting ==
  ASSUME CallsShaped, KeptIsPrimary, NEW r \in SessionRequests, NEW q, NEW via, NEW plan, NEW e,
         NEW pick \in BOOLEAN, Starts(r, q, via, plan, e, pick),
         IsEntry(e), via # "auxiliary" => e.model = Head(plan)
  PROVE  CallsShaped' /\ KeptIsPrimary'
<1>1. /\ call' = [o \in SessionRequests |-> call'[o]] /\ sticky' = e
      /\ \A o \in SessionRequests \ {r} : call'[o] = Remember(call, e)[o]
      /\ call'[r] = [via |-> via, ask |-> Needs(q), plan |-> plan, rest |-> plan,
                     kept |-> TRUE, pick |-> pick]
  BY DEF Starts, Remember
<1>2. \A o \in SessionRequests \ {r} : call[o] = Idle => call'[o] = Idle
  BY <1>1 DEF Remember
<1>3. IsCall(call'[r])
  BY <1>1 DEF IsCall
<1>4. CallsShaped'
  BY <1>1, <1>2, <1>3, Remembering DEF CallsShaped
<1>5. ~Strays(r)' => sticky'.model = Primary(r)'
  BY <1>1 DEF Strays, Primary
<1>6. \A o \in SessionRequests \ {r} : (call[o] # Idle /\ ~Strays(o))' => sticky'.model = Primary(o)'
  BY <1>1, <1>2, Remembering DEF Strays, Primary
<1>7. KeptIsPrimary'
  BY <1>5, <1>6 DEF KeptIsPrimary
<1>. QED  BY <1>4, <1>7

LEMMA ConsHead == ASSUME NEW m, NEW pool PROVE Head(<<m>> \o pool) = m
  OBVIOUS

LEMMA PlanHead == ASSUME NEW pool PROVE Head(Plan(pool)) = Head(pool)
  BY DEF Plan

-----------------------------------------------------------------------------
(* The invariant, a decision at a time. *)

LEMMA RequestedStep ==
  ASSUME RoutingInv, NEW r \in SessionRequests, NEW q \in Asks, RouteRequested(r, q)
  PROVE  RoutingInv'
<1>. DEFINE pool == <<q.names>> \o Capable(OfTier(Tier[q.names]), q)
            entry == UpdateSticky(sticky, q.names, "routed")
<1>1. Starts(r, q, "requested", Plan(pool), entry, TRUE)
  BY DEF RouteRequested
<1>2. Head(pool) = q.names
  BY ConsHead
<1>3. IsEntry(entry) /\ entry.model = q.names
  BY Updating DEF RoutingInv, CallsShaped
<1>. HIDE DEF pool, entry
<1>4. CallsShaped' /\ KeptIsPrimary'
  BY <1>1, <1>2, <1>3, PlanHead, Starting DEF RoutingInv
<1>. QED  BY <1>4 DEF RoutingInv, OnlyPicksStay, RouteRequested

\* A pick that is not the first of its pool is marked as a failover.
LEMMA PicksStep ==
  ASSUME RoutingInv, NEW r \in SessionRequests, NEW q, NEW via, NEW pool, NEW e,
         e = sticky \/ e = NoEntry, Picks(r, q, via, pool, e)
  PROVE  RoutingInv'
<1>. DEFINE first == Head(Healthy(pool))
            entry == UpdateSticky(e, first, Origin(pool))
            pick == first = Head(pool)
<1>1. IsEntry(e)
  BY DEF RoutingInv, CallsShaped, IsEntry
<1>2. Starts(r, q, via, Plan(Healthy(pool)), entry, pick)
  BY DEF Picks
<1>3. CallsShaped' /\ KeptIsPrimary'
  <2>1. IsEntry(entry) /\ entry.model = Head(Plan(Healthy(pool)))
    BY <1>1, Updating, PlanHead
  <2>2. pick \in BOOLEAN
    OBVIOUS
  <2>. HIDE DEF pick, entry
  <2>. QED  BY <1>2, <2>1, <2>2, Starting DEF RoutingInv
<1>4. OnlyPicksStay'
  <2>1. sticky' = entry
    BY <1>2 DEF Starts
  <2>2. CASE pick
    BY <2>2 DEF Picks, OnlyPicksStay
  <2>3. CASE ~pick /\ e.model = first
    BY <1>1, <2>1, <2>3, Updating DEF Picks, OnlyPicksStay, RoutingInv
  <2>4. CASE ~pick /\ e.model # first
    BY <1>1, <2>1, <2>4, Updating DEF Picks, OnlyPicksStay, Origin
  <2>. QED  BY <2>2, <2>3, <2>4
<1>. QED  BY <1>3, <1>4 DEF RoutingInv

LEMMA DecisionStep ==
  ASSUME RoutingInv, NEW r \in SessionRequests, NEW q \in Asks,
         RouteRequested(r, q) \/ RouteStatic(r, q) \/ RouteAuxiliary(r, q) \/ RouteDynamic(r, q)
  PROVE  RoutingInv'
<1>1. CASE RouteRequested(r, q)
  BY <1>1, RequestedStep
<1>2. CASE RouteStatic(r, q)
  BY <1>2, PicksStep DEF RouteStatic
<1>3. CASE RouteAuxiliary(r, q)
  <2>1. Starts(r, q, "auxiliary", Plan(AuxPools[q]), sticky, FALSE) /\ UNCHANGED <<sticky, how>>
    BY <1>3 DEF RouteAuxiliary, Starts
  <2>2. CallsShaped' /\ KeptIsPrimary'
    BY <2>1, Starting DEF RoutingInv, CallsShaped
  <2>. QED  BY <2>1, <2>2 DEF RoutingInv, OnlyPicksStay
<1>4. CASE RouteDynamic(r, q)
  <2>1. PICK pool :
          IF Sticks(q, Healthy(pool))
          THEN /\ Starts(r, q, "sticky", Plan(<<sticky.model>> \o Healthy(pool)), sticky, FALSE)
               /\ UNCHANGED how
          ELSE Picks(r, q, "dynamic", pool, IF Released THEN NoEntry ELSE sticky)
    BY <1>4 DEF RouteDynamic
  <2>2. CASE Sticks(q, Healthy(pool))
    <3>. DEFINE rest == Healthy(pool)
    <3>1. Starts(r, q, "sticky", Plan(<<sticky.model>> \o rest), sticky, FALSE) /\ UNCHANGED how
      BY <2>1, <2>2
    <3>2. UNCHANGED sticky
      BY <3>1 DEF Starts
    <3>3. Head(Plan(<<sticky.model>> \o rest)) = sticky.model
      BY PlanHead, ConsHead
    <3>. HIDE DEF rest
    <3>4. CallsShaped' /\ KeptIsPrimary'
      BY <3>1, <3>3, Starting DEF RoutingInv, CallsShaped
    <3>. QED  BY <3>1, <3>2, <3>4 DEF RoutingInv, OnlyPicksStay
  <2>3. CASE ~Sticks(q, Healthy(pool))
    BY <2>1, <2>3, PicksStep
  <2>. QED  BY <2>2, <2>3
<1>. QED  BY <1>1, <1>2, <1>3, <1>4

\* A call that comes back writes "routed" only for the first of its plan: where the
\* entry is, unless it strays, or picked.
LEMMA SucceedsStep ==
  ASSUME RoutingInv, NEW r \in SessionRequests, NEW more \in BOOLEAN, Succeeds(r, more)
  PROVE  RoutingInv'
<1>. DEFINE calls == Remember(call, EntryAfter(r))
<1>1. IsEntry(sticky') /\ sticky'.model = Used(r) /\ sticky' = EntryAfter(r)
  BY Updating DEF Succeeds, EntryAfter, RoutingInv, CallsShaped
<1>2. IsCall(calls[r]) /\ (calls[r].kept /\ calls[r].via # "auxiliary" => sticky'.model = Head(calls[r].plan))
  BY <1>1, Remembering DEF Succeeds, Busy, RoutingInv
<1>3. /\ call' = [o \in SessionRequests |-> call'[o]]
      /\ \A o \in SessionRequests \ {r} : call'[o] = calls[o]
      /\ call'[r] = IF more THEN [calls[r] EXCEPT !.rest = call[r].plan] ELSE Idle
  BY DEF Succeeds, Remember
<1>4. CallsShaped'
  <2>1. call'[r] = Idle \/ IsCall(call'[r])
    BY <1>2, <1>3 DEF IsCall
  <2>2. \A o \in SessionRequests \ {r} : call[o] # Idle => IsCall(call'[o])
    BY <1>3, Remembering DEF RoutingInv
  <2>3. \A o \in SessionRequests \ {r} : call[o] = Idle => call'[o] = Idle
    BY <1>3 DEF Remember
  <2>. QED  BY <1>1, <1>3, <2>1, <2>2, <2>3 DEF CallsShaped
<1>5. KeptIsPrimary'
  <2>1. \A o \in SessionRequests \ {r} : call'[o] # Idle => call[o] # Idle
    BY <1>3 DEF Remember
  <2>2. \A o \in SessionRequests \ {r} : (call[o] # Idle /\ ~Strays(o))' => sticky'.model = Primary(o)'
    BY <1>1, <1>3, <2>1, Remembering DEF Strays, Primary, RoutingInv
  <2>3. (call[r] # Idle /\ ~Strays(r))' => sticky'.model = Primary(r)'
    <3>1. more => call'[r].kept = calls[r].kept /\ call'[r].via = calls[r].via /\ call'[r].plan = calls[r].plan
      BY <1>2, <1>3 DEF IsCall
    <3>. QED  BY <1>2, <1>3, <3>1 DEF Strays, Primary
  <2>. QED  BY <2>2, <2>3 DEF KeptIsPrimary
<1>6. OnlyPicksStay'
  <2>1. CASE sticky.model = Used(r)
    <3>1. sticky' = sticky /\ how' = how
      BY <1>1, <2>1, Updating DEF Succeeds, EntryAfter, RoutingInv, CallsShaped
    <3>. QED  BY <3>1 DEF OnlyPicksStay, RoutingInv
  <2>2. CASE sticky.model # Used(r) /\ Used(r) = Primary(r)
    <3>1. Strays(r)
      BY <2>2 DEF RoutingInv, KeptIsPrimary, Succeeds, Busy
    <3>. QED  BY <2>2, <3>1 DEF OnlyPicksStay, Succeeds
  <2>3. CASE sticky.model # Used(r) /\ Used(r) # Primary(r)
    <3>1. sticky'.origin = "failover"
      BY <1>1, <2>3, Updating DEF EntryAfter, RoutingInv, CallsShaped
    <3>. QED  BY <3>1 DEF OnlyPicksStay
  <2>. QED  BY <2>1, <2>2, <2>3
<1>. QED  BY <1>4, <1>5, <1>6 DEF RoutingInv

\* What ends or shortens a request, or is none.
LEMMA OtherStep ==
  ASSUME RoutingInv,
         \/ \E r \in SessionRequests, limited \in BOOLEAN : Fails(r, limited)
         \/ \E r \in SessionRequests : Refused(r)
         \/ \E m \in Models : CoolsDown(m)
         \/ CacheExpires \/ HoldElapses \/ Flush
  PROVE  RoutingInv'
<1>. USE DEF RoutingInv
<1>1. ASSUME NEW r \in SessionRequests, NEW limited \in BOOLEAN, Fails(r, limited) \/ Refused(r) PROVE RoutingInv'
  <2>1. UNCHANGED <<sticky, how>>
    BY <1>1 DEF Fails, Refused
  <2>2. IsCall(call[r])
    BY <1>1 DEF Fails, Refused, Busy, CallsShaped
  <2>3. /\ call' = [o \in SessionRequests |-> call'[o]]
        /\ \A o \in SessionRequests \ {r} : call'[o] = call[o]
        /\ \/ call'[r] = Idle
           \/ /\ IsCall(call'[r]) /\ call'[r].kept = call[r].kept
              /\ call'[r].via = call[r].via /\ call'[r].plan = call[r].plan
    BY <1>1, <2>2 DEF Fails, Refused, CallsShaped, IsCall
  <2>4. CallsShaped'
    BY <2>1, <2>3 DEF CallsShaped
  <2>5. KeptIsPrimary'
    BY <1>1, <2>1, <2>3 DEF KeptIsPrimary, Strays, Primary, Fails, Refused, Busy
  <2>. QED  BY <2>1, <2>4, <2>5 DEF OnlyPicksStay
<1>2. CASE (\E m \in Models : CoolsDown(m)) \/ CacheExpires
  BY <1>2 DEF CoolsDown, CacheExpires, CallsShaped, KeptIsPrimary, OnlyPicksStay, Strays, Primary
<1>3. CASE HoldElapses
  <2>1. /\ sticky'.model = sticky.model /\ sticky'.origin = "failover" /\ IsEntry(sticky')
        /\ UNCHANGED <<call, how>>
    BY <1>3 DEF HoldElapses, CallsShaped, IsEntry
  <2>. QED  BY <2>1 DEF CallsShaped, KeptIsPrimary, OnlyPicksStay, Strays, Primary
<1>4. CASE Flush
  <2>1. sticky' = NoEntry /\ call' = Remember(call, NoEntry)
    BY <1>4 DEF Flush
  <2>2. call' = [o \in SessionRequests |-> call'[o]] /\ \A o \in SessionRequests : call[o] = Idle => call'[o] = Idle
    BY <2>1 DEF Remember
  <2>3. CallsShaped'
    BY <2>1, <2>2, Remembering DEF CallsShaped, IsEntry
  <2>4. KeptIsPrimary'
    BY <2>1, <2>2, Remembering DEF KeptIsPrimary, Strays, Primary
  <2>. QED  BY <2>1, <2>3, <2>4 DEF OnlyPicksStay
<1>. QED  BY <1>1, <1>2, <1>3, <1>4

-----------------------------------------------------------------------------
(* The theorem. *)

LEMMA RoutingInvInit == RoutingInit => RoutingInv
  BY DEF RoutingInit, RoutingInv, CallsShaped, IsEntry, KeptIsPrimary, OnlyPicksStay

LEMMA RoutingInvStep == RoutingInv /\ [RoutingNext]_routingVars => RoutingInv'
<1>1. RoutingInv /\ RoutingNext => RoutingInv'
  BY DecisionStep, SucceedsStep, OtherStep DEF RoutingNext
<1>2. RoutingInv /\ UNCHANGED routingVars => RoutingInv'
  BY DEF RoutingInv, routingVars, CallsShaped, KeptIsPrimary, OnlyPicksStay, Strays, Primary
<1>. QED  BY <1>1, <1>2

\* A session that is said to stay is where a decision wanted it (OnlyPicksStay), for
\* any models, configuration and number of requests that overlap.
THEOREM PicksStay == RoutingSpec => []OnlyPicksStay
<1>1. RoutingInv => OnlyPicksStay
  BY DEF RoutingInv
<1>. QED  BY <1>1, RoutingInvInit, RoutingInvStep, PTL DEF RoutingSpec
=============================================================================
