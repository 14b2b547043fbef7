------------------------- MODULE ConsolidatorProofs -------------------------
(***************************************************************************)
(* Theorems about Consolidator, for every value of its constants.          *)
(*                                                                         *)
(* None of the five invariants is inductive by itself.  That a consumed    *)
(* turn has its fact needs what the round carries (KeysAreSettled), and    *)
(* there a step that stores nothing, because the user corrected the fact,  *)
(* needs that the correction was replayed before (CorrectedBefore,         *)
(* CaughtUp) and that the Index shows it (EditsAreShown).  That a deleted  *)
(* fact stays away needs that the daemon has seen the tombstone of each    *)
(* before it stores or replays (GoneIsSeen).  That the daemon backs off    *)
(* only when idle needs which round found nothing (WaitsWhenDrained).      *)
(* IInv is their conjunction, with the types and with who knows how much   *)
(* of the Hub (Horizons).                                                  *)
(***************************************************************************)
EXTENDS Consolidator, FiniteSetTheorems, WellFoundedInduction, TLAPS

Steps == {"down", "top", "sleep", "fetch", "replay", "replayed", "scan", "distil", "judge",
          "wipe", "restore", "restored", "store", "consume", "end"}
Ops == {"put", "delete", "forget", "remember", "correct"}
\* The pipeline puts turns, users enter notes.
Entries == {e \in [op : Ops, about : Facts] :
                /\ e.op = "put" => e.about \in Turns
                /\ e.op = "remember" => e.about \in Notes}
Rounds == [manual : BOOLEAN, full : BOOLEAN, found : BOOLEAN, backlog : BOOLEAN,
           batch : SUBSET Turns, keys : SUBSET Turns, new : SUBSET Turns]

Typed ==
    /\ hub \in Seq(Entries)
    /\ facts \in [Facts -> Nat \cup {Original}]
    /\ consumed \subseteq Turns /\ corrected \subseteq Facts
    /\ retry \in [Turns -> Nat] /\ blame \in [Turns -> Nat]
    /\ pc \in Steps /\ jobs \in Seq(BOOLEAN)
    /\ view \in Nat /\ seen \in Nat /\ cachedAt \in Nat /\ watermark \in Nat
    /\ idle \in [rounds : Nat, interval : Nat] /\ erred \in BOOLEAN
    /\ round \in Rounds /\ IsFiniteSet(round.batch)
    /\ swallowed \subseteq Nat \ {0}

\* Who knows how much of the Hub.
Horizons ==
    /\ view <= Len(hub) /\ seen <= view /\ cachedAt <= Len(hub)
    /\ watermark <= Len(hub) /\ (Up => watermark <= view)

-----------------------------------------------------------------------------
(* Numbers. *)

LEMMA MinNat ==
  ASSUME NEW T, T \subseteq Nat, T # {}
  PROVE  \E x \in T : \A y \in T : ~(y < x)
<1>1. \E x \in T : \A y \in T : ~(<<y, x>> \in OpToRel(<, Nat))
  BY NatLessThanWellFounded, WFMin
<1>. QED  BY <1>1 DEF OpToRel

LEMMA LatestIsLast ==
  ASSUME NEW n \in Nat, NEW S, S \subseteq 1..n, S # {}
  PROVE  Latest(S) \in S /\ \A j \in S : j <= Latest(S)
<1>. DEFINE T == {n - i : i \in S}
<1>1. T \subseteq Nat /\ T # {}
  <2>1. \A i \in S : i \in 1..n /\ n - i \in Nat
    OBVIOUS
  <2>. QED  BY <2>1
<1>2. PICK x \in T : \A y \in T : ~(y < x)
  BY <1>1, MinNat
<1>3. PICK i \in S : x = n - i
  BY <1>2
<1>4. \A j \in S : j <= i
  BY <1>2, <1>3
<1>. QED  BY <1>3, <1>4 DEF Latest

LEMMA LatestOfNone == Latest({}) = 0
  BY DEF Latest

-----------------------------------------------------------------------------
(* The Hub. *)

LEMMA Constants ==
    /\ Turns \subseteq Facts /\ Notes \subseteq Facts /\ Auxiliary \subseteq Turns
    /\ \A t \in Turns : t \notin Notes
    /\ MaxTurns \in Nat \ {0} /\ RetryMax \in Nat /\ Base \in Nat \ {0} /\ MaxInterval \in Nat
    /\ IdleAfter \in Nat
  BY ConsolidatorAssumption DEF ConsolidatorAssumption, Facts

\* Of the steps of the system the proxy's append, at the end.
Appends == \E e \in Entries : hub' = Append(hub, e)

LEMMA WhoAppends ==
  ASSUME [Next]_vars, hub' # hub
  PROVE  Appends
<1>1. ASSUME NEW t \in Turns, PutTurn(t) \/ DeleteTurn(t) PROVE Appends
  BY <1>1, Constants DEF PutTurn, DeleteTurn, HubAppend, Appends, Entries, Ops
<1>2. ASSUME NEW f \in Facts, ForgetFact(f) \/ RememberFact(f) \/ CorrectFact(f) PROVE Appends
  BY <1>2 DEF ForgetFact, RememberFact, CorrectFact, HubAppend, Appends, Entries, Ops
<1>3. DaemonSteps => UNCHANGED hub
  BY DEF DaemonSteps, Begin, TakeJob, Fetch, End, Wake, Doze, WakeInTime, Replay, ReplayEnd, Scan,
     DistilOutage, Distil, Judge, AbortRound, WipeMark, StoreFact, StoreFails, Consume, WipeFact, WipeEnd,
     Restore, RestoreEnd, StoreEnd, ConsumeEnd
<1>. QED
  BY <1>1, <1>2, <1>3 DEF Next, Proxy, SubmitJob, Start, Crash, PollRaises, Raise, Die, vars

LEMMA HubGrows ==
  ASSUME Typed, [Next]_vars
  PROVE  /\ hub' \in Seq(Entries)
         /\ Len(hub) \in Nat /\ Len(hub') \in Nat /\ Len(hub) <= Len(hub') /\ Len(hub') <= Len(hub) + 1
         /\ \A i \in 1..Len(hub) : hub'[i] = hub[i]
<1>1. hub \in Seq(Entries) /\ Len(hub) \in Nat
  BY DEF Typed
<1>. QED  BY <1>1, WhoAppends DEF Appends

\* How the daemon follows the Hub.
LEMMA ViewGrows ==
  ASSUME Typed, Horizons, [Next]_vars
  PROVE  Horizons'
<1>1. /\ Len(hub) \in Nat /\ Len(hub') \in Nat /\ Len(hub) <= Len(hub') /\ Len(hub') <= Len(hub) + 1
      /\ \A i \in 1..Len(hub) : hub'[i] = hub[i]
  BY HubGrows
<1>3. Len(hub) \in Nat /\ view \in Nat /\ seen \in Nat /\ cachedAt \in Nat /\ watermark \in Nat
  BY <1>1 DEF Typed
<1>4. CASE Proxy
  <2>1. UNCHANGED <<view, seen, cachedAt, watermark, pc>>
    BY <1>4 DEF Proxy, PutTurn, DeleteTurn, ForgetFact, RememberFact, CorrectFact, SubmitJob, index, daemon
  <2>. QED  BY <1>1, <1>3, <2>1 DEF Horizons, Up
<1>5. CASE Start
  BY <1>3, <1>5 DEF Start, index, Horizons, Up
<1>6. CASE Begin \/ TakeJob \/ Fetch \/ End \/ Wake \/ Doze \/ WakeInTime
  <2>1. UNCHANGED <<hub, watermark, cachedAt>> /\ Up /\ view' \in {view, Len(hub)} /\ seen' \in {seen, view'}
    <3>1. CatchUp => view' \in {view, Len(hub)}
      BY DEF CatchUp
    <3>2. CASE Begin \/ Fetch
      BY <3>1, <3>2 DEF Begin, Fetch, index, Go, Up
    <3>3. CASE Wake \/ Doze
      BY <3>1, <3>3 DEF Wake, Doze, index, Up
    <3>4. CASE TakeJob \/ End \/ WakeInTime
      BY <3>4 DEF TakeJob, End, WakeInTime, index, Go, Up
    <3>. QED  BY <1>6, <3>2, <3>3, <3>4
  <2>. QED  BY <1>3, <2>1 DEF Horizons
<1>7. CASE Scan
  BY <1>3, <1>7 DEF Scan, index, Horizons, Up
<1>8. CASE MoveWatermark /\ (ReplayEnd \/ RestoreEnd)
  <2>1. Replayable \subseteq 1..view
    BY DEF Replayable, Writes
  <2>2. Latest(Replayable) \in Nat /\ Latest(Replayable) <= view
    <3>1. CASE Replayable = {}
      BY <1>3, <3>1, LatestOfNone
    <3>2. CASE Replayable # {}
      <4>1. Latest(Replayable) \in Replayable
        BY <1>3, <2>1, <3>2, LatestIsLast
      <4>2. \A i \in Replayable : i \in Nat /\ i <= view
        BY <1>3, <2>1
      <4>. QED  BY <4>1, <4>2
    <3>. QED  BY <3>1, <3>2
  <2>3. watermark' \in {watermark, Latest(Replayable)}
    BY <1>8 DEF MoveWatermark
  <2>. QED  BY <1>3, <1>8, <2>2, <2>3 DEF ReplayEnd, RestoreEnd, Go, Horizons, Up
<1>9. ASSUME UNCHANGED <<hub, view, seen, cachedAt, watermark>>, Up
      PROVE  Horizons'
  BY <1>3, <1>9 DEF Horizons
<1>10. CASE Replay \/ Judge \/ AbortRound \/ WipeEnd \/ Restore \/ StoreEnd \/ ConsumeEnd
  BY <1>9, <1>10 DEF Replay, Judge, AbortRound, WipeEnd, Restore, StoreEnd, ConsumeEnd, index, Go, Up
<1>11. ASSUME NEW t \in Facts, WipeMark(t) \/ StoreFact(t) \/ StoreFails(t) \/ Consume(t) \/ WipeFact(t)
       PROVE  UNCHANGED <<hub, view, seen, cachedAt, watermark>> /\ Up
  BY <1>11 DEF WipeMark, StoreFact, StoreFails, Consume, WipeFact, index, daemon, Up
<1>12. ASSUME NEW fails, NEW bad, Distil(fails, bad) \/ DistilOutage(fails, bad)
       PROVE  UNCHANGED <<hub, view, seen, cachedAt, watermark>> /\ Up
  BY <1>12 DEF Distil, DistilOutage, Go, Up
<1>13. CASE Crash \/ PollRaises \/ Raise
  BY <1>3, <1>9, <1>13 DEF Crash, PollRaises, Raise, Die, index, Horizons, Up
<1>14. CASE UNCHANGED vars
  BY <1>3, <1>14 DEF vars, index, daemon, Horizons, Up
<1>15. ReplayEnd \/ RestoreEnd => MoveWatermark
  BY DEF ReplayEnd, RestoreEnd
<1>. QED
  BY <1>4, <1>5, <1>6, <1>7, <1>8, <1>9, <1>10, <1>11, <1>12, <1>13, <1>14, <1>15, Constants
     DEF Next, DaemonSteps

\* Finitely many turns are in the Hub.
LEMMA StoredIsFinite ==
  ASSUME Typed, NEW n \in Nat, n <= Len(hub)
  PROVE  IsFiniteSet(Stored(n))
<1>. DEFINE S == {hub[i].about : i \in 1..n}
            f == [i \in 1..n |-> hub[i].about]
<1>1. f \in Surjection(1..n, S)
  BY DEF Surjection
<1>2. IsFiniteSet(1..n)
  BY FS_Interval
<1>3. IsFiniteSet(S)
  <2>. HIDE DEF f, S
  <2>. QED  BY <1>1, <1>2, FS_Surjection
<1>4. Stored(n) \subseteq S
  BY DEF Stored, Written, Writes
<1>. QED  BY <1>3, <1>4, FS_Subset

\* A replay leaves a fact with the last event that wrote, or as it was; what
\* raised is noted.
LEMMA ReplayShows ==
  ASSUME Typed, NEW lo \in Nat, Replays(lo)
  PROVE  /\ facts' \in [Facts -> Nat \cup {Original}]
         /\ corrected \subseteq corrected' /\ corrected' \subseteq Facts
         /\ \A f \in corrected' : f \in corrected \/ \E i \in Applicable(f, lo) : hub[i].op = "correct"
         /\ \A f \in Facts : \A i \in Applicable(f, lo) :
               hub[i].op = "correct" => f \in corrected' \/ i \in swallowed'
         /\ \A f \in Facts :
               \/ facts'[f] = facts[f] /\ \A i \in Applicable(f, lo) : i \in swallowed'
               \/ \E i \in Applicable(f, lo) :
                     /\ \A j \in Applicable(f, lo) : j <= i \/ j \in swallowed'
                     /\ facts'[f] = IF hub[i].op = "remember" THEN Original ELSE i
         /\ swallowed' \subseteq Nat \ {0} /\ \A i \in swallowed : i <= lo => i \in swallowed'
<1>1. \A f \in Facts : Applicable(f, lo) \subseteq 1..view /\ view \in Nat
  BY DEF Applicable, Writes, Typed
<1>. DEFINE events == UNION {Applicable(f, lo) : f \in Facts}
<1>0. PICK out \in SUBSET events : \E half \in SUBSET (events \ out) : Replayed(lo, out, half)
  BY DEF Replays
<1>2. PICK half \in SUBSET (events \ out) : Replayed(lo, out, half)
  BY <1>0
<1>3. swallowed' = {i \in swallowed : i <= lo} \cup out \cup half
  BY <1>2 DEF Replayed
<1>4. events \subseteq Nat \ {0}
  BY <1>1
<1>5. swallowed' \subseteq Nat \ {0} /\ \A i \in swallowed : i <= lo => i \in swallowed'
  <2>1. out \subseteq Nat \ {0} /\ half \subseteq Nat \ {0}
    <3>. HIDE DEF events
    <3>. QED  BY <1>4
  <2>2. {i \in swallowed : i <= lo} \subseteq Nat \ {0}
    BY DEF Typed
  <2>. QED  BY <1>3, <2>1, <2>2
<1>6. ASSUME NEW f \in Facts, Applicable(f, lo) \ out # {}
      PROVE  /\ Latest(Applicable(f, lo) \ out) \in Applicable(f, lo)
             /\ \A j \in Applicable(f, lo) : j <= Latest(Applicable(f, lo) \ out) \/ j \in swallowed'
             /\ Latest(Applicable(f, lo) \ out) # 0 /\ Latest(Applicable(f, lo) \ out) \in Nat
  <2>. DEFINE A == Applicable(f, lo) \ out
  <2>1. A \subseteq 1..view /\ view \in Nat /\ A # {}
    BY <1>1, <1>6
  <2>2. Latest(A) \in A /\ \A j \in A : j <= Latest(A)
    <3>. HIDE DEF A
    <3>. QED  BY <2>1, LatestIsLast
  <2>3. Latest(A) # 0 /\ Latest(A) \in Nat
    <3>1. \A i \in A : i # 0 /\ i \in Nat
      BY <1>1
    <3>. HIDE DEF A
    <3>. QED  BY <2>2, <3>1
  <2>4. \A j \in Applicable(f, lo) : j \in A \/ j \in swallowed'
    BY <1>3
  <2>. QED  BY <2>2, <2>3, <2>4
<1>7. facts' = [f \in Facts |->
         IF Latest(Applicable(f, lo) \ out) = 0 THEN facts[f]
         ELSE IF hub[Latest(Applicable(f, lo) \ out)].op = "remember" THEN Original
         ELSE Latest(Applicable(f, lo) \ out)]
  BY <1>2 DEF Replayed
<1>8. ASSUME NEW f \in Facts, Applicable(f, lo) \ out = {}
      PROVE  facts'[f] = facts[f] /\ \A i \in Applicable(f, lo) : i \in swallowed'
  BY <1>3, <1>7, <1>8, LatestOfNone
<1>9. ASSUME NEW f \in Facts, Applicable(f, lo) \ out # {}
      PROVE  facts'[f] = IF hub[Latest(Applicable(f, lo) \ out)].op = "remember" THEN Original
                         ELSE Latest(Applicable(f, lo) \ out)
  BY <1>6, <1>7, <1>9
<1>10. \A f \in Facts : facts'[f] \in Nat \cup {Original}
  BY <1>6, <1>8, <1>9 DEF Typed
<1>11. corrected' = corrected \cup
         {f \in Facts : \E i \in Applicable(f, lo) \ (out \cup half) : hub[i].op = "correct"}
  BY <1>2 DEF Replayed
<1>12. /\ corrected \subseteq corrected' /\ corrected' \subseteq Facts
       /\ \A f \in corrected' : f \in corrected \/ \E i \in Applicable(f, lo) : hub[i].op = "correct"
       /\ \A f \in Facts : \A i \in Applicable(f, lo) :
             hub[i].op = "correct" => f \in corrected' \/ i \in swallowed'
  <2>. HIDE DEF Applicable
  <2>. QED  BY <1>3, <1>11 DEF Typed
<1>13. facts' \in [Facts -> Nat \cup {Original}]
  BY <1>7, <1>10
<1>. QED  BY <1>5, <1>6, <1>8, <1>9, <1>12, <1>13

LEMMA RoundTyped ==
  ASSUME Typed, Horizons, [Next]_vars
  PROVE  round' \in Rounds /\ IsFiniteSet(round'.batch)
<1>1. round \in Rounds /\ IsFiniteSet(round.batch)
  BY DEF Typed
<1>2. NoRound \in Rounds /\ NoRound.batch = {} /\ IsFiniteSet({})
  BY FS_EmptySet DEF NoRound, Rounds
<1>3. ASSUME round' \in Rounds, round'.batch \in {round.batch, {}}
      PROVE  round' \in Rounds /\ IsFiniteSet(round'.batch)
  BY <1>1, <1>2, <1>3
<1>4. CASE UNCHANGED round
  BY <1>1, <1>4
<1>5. CASE round' = NoRound
  BY <1>2, <1>5
<1>6. CASE TakeJob
  <2>1. round' = [NoRound EXCEPT !.manual = TRUE, !.full = Head(jobs)]
    BY <1>6 DEF TakeJob
  <2>2. Head(jobs) \in BOOLEAN
    BY <1>6 DEF TakeJob, Typed
  <2>3. round' \in Rounds /\ round'.batch = {}
    BY <1>2, <2>1, <2>2 DEF Rounds
  <2>. QED  BY <1>3, <2>3
<1>7. CASE Scan
  <2>. DEFINE all == Candidates(cachedAt')
              real == all \ Auxiliary
              limited == ~round.manual /\ Cardinality(real) >= MaxTurns
              batch == IF limited THEN {t \in real : Cardinality(Before(t, real)) < MaxTurns} ELSE real
              keys == IF limited THEN {t \in all : \E u \in batch : u = t \/ t \in Before(u, all)} ELSE all
  <2>1. round' = [round EXCEPT !.found = all # {}, !.backlog = limited, !.batch = batch, !.keys = keys]
    BY <1>7 DEF Scan
  <2>2. all \subseteq Stored(view)
    BY DEF Candidates
  <2>3. IsFiniteSet(Stored(view)) /\ Stored(view) \subseteq Turns
    <3>1. IsFiniteSet(Stored(view))
      BY StoredIsFinite DEF Typed, Horizons
    <3>2. \A i \in 1..Len(hub) : hub[i] \in Entries
      BY DEF Typed
    <3>3. \A i \in 1..view : i \in 1..Len(hub)
      BY DEF Typed, Horizons
    <3>4. Stored(view) \subseteq Turns
      BY <3>2, <3>3 DEF Stored, Written, Writes, Entries
    <3>. QED  BY <3>1, <3>4
  <2>4. batch \subseteq all /\ keys \subseteq all /\ limited \in BOOLEAN
    OBVIOUS
  <2>. HIDE DEF all, batch, limited, keys
  <2>5. IsFiniteSet(batch) /\ batch \subseteq Turns /\ keys \subseteq Turns
    BY <2>2, <2>3, <2>4, FS_Subset
  <2>6. (all # {}) \in BOOLEAN
    OBVIOUS
  <2>7. round' \in Rounds /\ round'.batch = batch
    BY <1>1, <2>1, <2>4, <2>5, <2>6 DEF Rounds
  <2>. QED  BY <2>5, <2>7
<1>8. ASSUME NEW b \in BOOLEAN, round' = [round EXCEPT !.backlog = b]
      PROVE  round' \in Rounds /\ round'.batch = round.batch
  BY <1>1, <1>8 DEF Rounds
<1>9. ASSUME NEW S \in SUBSET Turns, round' = [round EXCEPT !.new = S]
      PROVE  round' \in Rounds /\ round'.batch = round.batch
  BY <1>1, <1>9 DEF Rounds
<1>10. ASSUME NEW S \in SUBSET Turns, round' = [round EXCEPT !.keys = S]
      PROVE  round' \in Rounds /\ round'.batch = round.batch
  BY <1>1, <1>10 DEF Rounds
<1>11. round.new \subseteq Turns /\ round.keys \subseteq Turns /\ round.batch \subseteq Turns
  BY <1>1 DEF Rounds
<1>12. ASSUME NEW fails, NEW bad, Distil(fails, bad) PROVE round' \in Rounds /\ round'.batch = round.batch
  <2>1. \E K \in SUBSET Turns, N \in SUBSET Turns : round' = [round EXCEPT !.keys = K, !.new = N]
    <3>1. round' = [round EXCEPT !.keys = @ \ ((fails \cup bad) \ GaveUp(fails \cup bad)),
                                 !.new = round.batch \ (fails \cup bad)]
      BY <1>12 DEF Distil
    <3>. QED  BY <1>1, <1>11, <3>1 DEF Rounds
  <2>. QED  BY <1>1, <2>1 DEF Rounds
<1>13. ASSUME NEW fails, NEW bad, DistilOutage(fails, bad) PROVE round' \in Rounds /\ round'.batch = round.batch
  BY <1>8, <1>13 DEF DistilOutage
<1>14. CASE Judge \/ AbortRound
  <2>1. CASE Judge
    <3>1. round' = [round EXCEPT !.new = round.new \ Forgotten(view)]
      BY <1>1, <2>1 DEF Judge, Rounds
    <3>. QED  BY <1>3, <1>9, <1>11, <3>1
  <2>. QED  BY <1>3, <1>8, <1>14, <2>1 DEF AbortRound
<1>15. ASSUME NEW t, StoreFact(t) \/ StoreFails(t) \/ Consume(t)
       PROVE  round' \in Rounds /\ round'.batch = round.batch
  <2>1. CASE StoreFact(t) \/ StoreFails(t)
    <3>1. round' = [round EXCEPT !.new = round.new \ {t}]
      BY <1>1, <2>1 DEF StoreFact, StoreFails, Rounds
    <3>. QED  BY <1>9, <1>11, <3>1
  <2>2. CASE Consume(t)
    <3>1. round' = [round EXCEPT !.keys = round.keys \ {t}]
      BY <1>1, <2>2 DEF Consume, Rounds
    <3>. QED  BY <1>10, <1>11, <3>1
  <2>. QED  BY <1>15, <2>1, <2>2
<1>16. CASE Proxy
  BY <1>4, <1>16 DEF Proxy, PutTurn, DeleteTurn, ForgetFact, RememberFact, CorrectFact, SubmitJob, daemon
<1>17. CASE Start \/ Begin \/ End \/ Crash \/ PollRaises \/ Raise
  BY <1>5, <1>17 DEF Start, Begin, End, Crash, PollRaises, Raise, Die
<1>18. CASE Fetch \/ Wake \/ Doze \/ WakeInTime \/ Replay \/ ReplayEnd \/ WipeEnd \/ Restore \/ RestoreEnd
            \/ StoreEnd \/ ConsumeEnd \/ UNCHANGED vars
  BY <1>4, <1>18 DEF Fetch, Wake, Doze, WakeInTime, Replay, ReplayEnd, WipeEnd, Restore, RestoreEnd, StoreEnd,
     ConsumeEnd, vars, daemon
<1>19. ASSUME NEW t, WipeMark(t) \/ WipeFact(t) PROVE UNCHANGED round
  BY <1>19 DEF WipeMark, WipeFact, daemon
<1>. QED
  BY <1>3, <1>4, <1>6, <1>7, <1>12, <1>13, <1>14, <1>15, <1>16, <1>17, <1>18, <1>19 DEF Next, DaemonSteps

IndexTyped ==
    /\ facts \in [Facts -> Nat \cup {Original}]
    /\ consumed \subseteq Turns /\ corrected \subseteq Facts
    /\ retry \in [Turns -> Nat] /\ blame \in [Turns -> Nat]
    /\ swallowed \subseteq Nat \ {0}

LoopTyped ==
    /\ pc \in Steps /\ jobs \in Seq(BOOLEAN)
    /\ view \in Nat /\ seen \in Nat /\ cachedAt \in Nat /\ watermark \in Nat
    /\ idle \in [rounds : Nat, interval : Nat] /\ erred \in BOOLEAN

LEMMA CallIsFinite ==
  ASSUME Typed
  PROVE  Call \subseteq round.batch /\ Call \subseteq Turns /\ IsFiniteSet(Call)
<1>1. Call \subseteq round.batch /\ round.batch \subseteq Turns /\ IsFiniteSet(round.batch)
  BY DEF Call, Typed, Rounds
<1>. QED  BY <1>1, FS_Subset

LEMMA IndexTypedStep ==
  ASSUME Typed, Horizons, [Next]_vars
  PROVE  IndexTyped'
<1>1. IndexTyped
  BY DEF Typed, IndexTyped
<1>2. UNCHANGED <<facts, consumed, corrected, retry, blame, swallowed>> => IndexTyped'
  BY <1>1 DEF IndexTyped
<1>3. CASE Proxy
  <2>1. ASSUME NEW f \in Facts, ForgetFact(f) PROVE IndexTyped'
    BY <1>1, <2>1 DEF ForgetFact, index, IndexTyped, None
  <2>2. ASSUME NEW f \in Facts, RememberFact(f) PROVE IndexTyped'
    BY <1>1, <2>2 DEF RememberFact, IndexTyped
  <2>3. ASSUME NEW f \in Facts, CorrectFact(f) PROVE IndexTyped'
    BY <1>1, <2>3, HubGrows DEF CorrectFact, history, IndexTyped
  <2>. QED  BY <1>2, <1>3, <2>1, <2>2, <2>3 DEF Proxy, PutTurn, DeleteTurn, SubmitJob, index, history
<1>4. CASE Start \/ Begin \/ TakeJob \/ Fetch \/ End \/ Wake \/ Doze \/ WakeInTime \/ ReplayEnd \/ Scan \/ Judge
           \/ AbortRound \/ RestoreEnd \/ StoreEnd \/ ConsumeEnd \/ Crash \/ PollRaises \/ Raise \/ UNCHANGED vars
  BY <1>2, <1>4 DEF Start, Begin, TakeJob, Fetch, End, Wake, Doze, WakeInTime, ReplayEnd, Scan, Judge,
     AbortRound, RestoreEnd, StoreEnd, ConsumeEnd, Crash, PollRaises, Raise, Die, vars, index, history
<1>5. CASE Replay
  <2>1. Replays(watermark) /\ UNCHANGED <<consumed, retry, blame>>
    BY <1>5 DEF Replay, history
  <2>. QED  BY <1>1, <2>1, ReplayShows DEF IndexTyped, Typed
<1>6. CASE Restore
  <2>1. Replays(0) /\ UNCHANGED <<consumed, retry, blame>>
    BY <1>6 DEF Restore
  <2>. QED  BY <1>1, <2>1, ReplayShows DEF IndexTyped
<1>7. ASSUME NEW fails \in SUBSET Call, NEW bad \in SUBSET (Call \ fails),
             Distil(fails, bad) \/ DistilOutage(fails, bad)
      PROVE  IndexTyped'
  <2>1. Call \subseteq Turns
    BY CallIsFinite
  <2>2. \A S \in SUBSET Turns : Ticked(S) \in [Turns -> Nat] /\ Blamed(S) \in [Turns -> Nat]
    BY <1>1 DEF Ticked, Blamed, IndexTyped
  <2>3. \A S \in SUBSET Turns : GaveUp(S) \subseteq Turns
    BY DEF GaveUp
  <2>4. fails \cup bad \in SUBSET Turns /\ bad \in SUBSET Turns
    BY <2>1
  <2>5. blame' \in [Turns -> Nat]
    BY <1>7, <2>2, <2>4 DEF Distil, DistilOutage, Answer
  <2>6. retry' \in [Turns -> Nat]
    BY <1>7, <2>2, <2>4 DEF Distil, DistilOutage
  <2>7. consumed' \subseteq Turns /\ UNCHANGED <<facts, corrected, swallowed>>
    BY <1>1, <1>7, <2>3, <2>4 DEF Distil, DistilOutage, IndexTyped
  <2>. QED  BY <1>1, <2>5, <2>6, <2>7 DEF IndexTyped
<1>8. ASSUME NEW t \in Turns, WipeMark(t) \/ StoreFact(t) \/ StoreFails(t) \/ Consume(t) PROVE IndexTyped'
  BY <1>1, <1>8, Constants DEF WipeMark, StoreFact, StoreFails, Consume, history, index, IndexTyped
<1>9. ASSUME NEW f \in Facts, WipeFact(f) PROVE IndexTyped'
  BY <1>1, <1>9 DEF WipeFact, IndexTyped, history, None
<1>10. CASE WipeEnd
  BY <1>1, <1>10 DEF WipeEnd, IndexTyped, history
<1>. QED  BY <1>3, <1>4, <1>5, <1>6, <1>7, <1>8, <1>9, <1>10 DEF Next, DaemonSteps

LEMMA LoopTypedStep ==
  ASSUME Typed, Horizons, [Next]_vars
  PROVE  LoopTyped'
<1>1. LoopTyped
  BY DEF Typed, LoopTyped
<1>2. Len(hub) \in Nat
  BY HubGrows
<1>3. Awake \in [rounds : Nat, interval : Nat] /\ \A b \in BOOLEAN : Settle(b) \in [rounds : Nat, interval : Nat]
  BY <1>1, Constants DEF Awake, Settle, LoopTyped
<1>4. ASSUME pc' \in Steps, view' \in Nat, seen' \in Nat, cachedAt' \in Nat, idle' \in {idle, Awake},
             erred' \in {erred, TRUE, FALSE}, UNCHANGED <<jobs, watermark>>
      PROVE  LoopTyped'
  BY <1>1, <1>3, <1>4 DEF LoopTyped
<1>5. CatchUp => view' \in Nat
  BY <1>1, <1>2 DEF CatchUp, LoopTyped
<1>6. CASE Proxy
  <2>1. UNCHANGED <<pc, view, seen, cachedAt, idle, erred, watermark>>
    BY <1>6 DEF Proxy, PutTurn, DeleteTurn, ForgetFact, RememberFact, CorrectFact, SubmitJob, daemon, index
  <2>2. jobs' = jobs \/ \E full \in BOOLEAN : jobs' = Append(jobs, full)
    BY <1>6 DEF Proxy, PutTurn, DeleteTurn, ForgetFact, RememberFact, CorrectFact, SubmitJob
  <2>3. jobs' \in Seq(BOOLEAN)
    BY <1>1, <2>2 DEF LoopTyped
  <2>. QED  BY <1>1, <2>1, <2>3 DEF LoopTyped
<1>7. CASE TakeJob
  <2>1. jobs' \in Seq(BOOLEAN)
    BY <1>1, <1>7 DEF TakeJob, LoopTyped
  <2>. QED  BY <1>1, <1>7, <2>1 DEF TakeJob, Go, index, LoopTyped, Steps
<1>8. CASE End
  <2>1. idle' \in [rounds : Nat, interval : Nat]
    BY <1>3, <1>8 DEF End, Typed, Rounds
  <2>2. pc' \in Steps
    BY <1>8 DEF End, Steps
  <2>. QED  BY <1>1, <1>8, <2>1, <2>2 DEF End, index, LoopTyped
<1>9. CASE Start \/ Begin \/ Fetch \/ Wake \/ Doze \/ WakeInTime
  <2>1. CASE Start
    BY <1>2, <1>4, <2>1 DEF Start, index, Steps
  <2>2. CASE Begin
    BY <1>1, <1>4, <1>5, <2>2 DEF Begin, Go, index, LoopTyped, Steps
  <2>3. CASE Fetch
    BY <1>1, <1>4, <1>5, <2>3 DEF Fetch, Go, index, LoopTyped, Steps
  <2>4. CASE Wake
    BY <1>1, <1>4, <1>5, <2>4 DEF Wake, index, LoopTyped, Steps
  <2>5. CASE Doze
    BY <1>1, <1>4, <1>5, <2>5 DEF Doze, index, LoopTyped, Steps
  <2>6. CASE WakeInTime
    BY <1>1, <1>4, <2>6 DEF WakeInTime, Go, index, LoopTyped, Steps
  <2>. QED  BY <1>9, <2>1, <2>2, <2>3, <2>4, <2>5, <2>6
<1>10. CASE Scan
  BY <1>1, <1>4, <1>10 DEF Scan, index, LoopTyped, Steps
<1>11. ASSUME pc' \in Steps, UNCHANGED <<view, seen, cachedAt, idle, erred, jobs>>, watermark' \in Nat
       PROVE  LoopTyped'
  BY <1>1, <1>11 DEF LoopTyped
<1>12. CASE ReplayEnd \/ RestoreEnd
  <2>1. watermark' \in Nat
    <3>1. Replayable \subseteq 1..view
      BY DEF Replayable, Writes
    <3>2. CASE Replayable = {}
      BY <1>1, <1>12, <3>2, LatestOfNone DEF ReplayEnd, RestoreEnd, MoveWatermark, LoopTyped
    <3>3. CASE Replayable # {}
      <4>1. Latest(Replayable) \in Replayable
        BY <1>1, <3>1, <3>3, LatestIsLast DEF LoopTyped
      <4>2. \A i \in Replayable : i \in Nat
        BY <3>1
      <4>. QED  BY <1>1, <1>12, <4>1, <4>2 DEF ReplayEnd, RestoreEnd, MoveWatermark, LoopTyped
    <3>. QED  BY <3>2, <3>3
  <2>. QED  BY <1>11, <1>12, <2>1 DEF ReplayEnd, RestoreEnd, Go, Steps
<1>13. CASE Replay \/ Judge \/ AbortRound \/ WipeEnd \/ Restore \/ StoreEnd \/ ConsumeEnd
  BY <1>1, <1>11, <1>13 DEF Replay, Judge, AbortRound, WipeEnd, Restore, StoreEnd, ConsumeEnd, Go, Steps, index, LoopTyped
<1>14. ASSUME NEW fails, NEW bad, Distil(fails, bad) \/ DistilOutage(fails, bad) PROVE LoopTyped'
  BY <1>1, <1>11, <1>14 DEF Distil, DistilOutage, Go, Steps, LoopTyped
<1>15. ASSUME NEW t, WipeMark(t) \/ StoreFact(t) \/ StoreFails(t) \/ Consume(t) \/ WipeFact(t) PROVE LoopTyped'
  BY <1>1, <1>11, <1>15 DEF WipeMark, StoreFact, StoreFails, Consume, WipeFact, daemon, index, LoopTyped
<1>16. CASE Crash \/ PollRaises \/ Raise
  <2>1. CASE Die
    BY <1>1, <1>4, <2>1 DEF Die, index, LoopTyped, Steps
  <2>2. CASE Raise
    <3>1. pc' \in {"top", "sleep"} /\ idle' \in {idle, Awake} /\ erred' \in {erred, TRUE}
      BY <2>2 DEF Raise
    <3>. QED  BY <1>1, <1>4, <2>2, <3>1 DEF Raise, index, LoopTyped, Steps
  <2>. QED  BY <1>16, <2>1, <2>2 DEF Crash, PollRaises
<1>17. CASE UNCHANGED vars
  BY <1>1, <1>11, <1>17 DEF vars, index, daemon, LoopTyped
<1>. QED
  BY <1>6, <1>7, <1>8, <1>9, <1>10, <1>12, <1>13, <1>14, <1>15, <1>16, <1>17 DEF Next, DaemonSteps

LEMMA TypedStep ==
  ASSUME Typed, Horizons, [Next]_vars
  PROVE  Typed'
BY HubGrows, RoundTyped, IndexTypedStep, LoopTypedStep DEF Typed, IndexTyped, LoopTyped

-----------------------------------------------------------------------------
(* An outage burns nothing. *)

\* A turn is retried no more often than failures of its own are counted.
Counted ==
    /\ givenUp \subseteq Turns
    /\ \A t \in Turns : retry[t] <= blame[t] /\ (t \in givenUp => blame[t] > RetryMax)

LEMMA CountedStep ==
  ASSUME Typed, Counted, [Next]_vars
  PROVE  Counted'
<1>1. RetryMax \in Nat /\ retry \in [Turns -> Nat] /\ blame \in [Turns -> Nat]
  BY Constants DEF Typed
<1>2. UNCHANGED <<blame, givenUp, retry>> => Counted'
  BY DEF Counted
<1>3. ASSUME UNCHANGED <<blame, givenUp>>, \A t \in Turns : retry'[t] \in {0, retry[t]} PROVE Counted'
  BY <1>1, <1>3 DEF Counted
<1>4. ASSUME NEW S \in SUBSET Turns, NEW B \in SUBSET Turns, S \subseteq B, retry' = Ticked(S), blame' = Blamed(B),
             givenUp' = givenUp \cup GaveUp(S)
      PROVE  Counted'
  <2>1. ASSUME NEW t \in Turns PROVE retry'[t] <= blame'[t] /\ (t \in givenUp' => blame'[t] > RetryMax)
    <3>1. retry[t] \in Nat /\ blame[t] \in Nat /\ retry[t] <= blame[t] /\ (t \in givenUp => blame[t] > RetryMax)
      BY <1>1 DEF Counted
    <3>2. /\ retry'[t] = IF t \notin S THEN retry[t] ELSE IF retry[t] + 1 > RetryMax THEN 0 ELSE retry[t] + 1
          /\ blame'[t] = IF t \in B /\ blame[t] <= RetryMax THEN blame[t] + 1 ELSE blame[t]
          /\ t \in givenUp' => t \in givenUp \/ (t \in S /\ retry[t] + 1 > RetryMax)
      BY <1>4 DEF Ticked, Blamed, GaveUp
    <3>. QED  BY <1>1, <1>4, <3>1, <3>2
  <2>2. givenUp' \subseteq Turns
    BY <1>4 DEF Counted, GaveUp
  <2>. QED  BY <2>1, <2>2 DEF Counted
<1>5. ASSUME NEW fails \in SUBSET Call, NEW bad \in SUBSET (Call \ fails), Distil(fails, bad) PROVE Counted'
  <2>1. Call \subseteq Turns /\ IsFiniteSet(Call) /\ Cardinality(Call) \in Nat
    BY CallIsFinite, FS_CardinalityType
  <2>2. fails \cup bad = Call => bad = fails \cup bad
    <3>1. ASSUME fails \cup bad = Call PROVE Call = {}
      <4>1. ~Outage(Call)
        BY <1>5, <3>1 DEF Distil
      <4>. QED  BY <2>1, <4>1 DEF Outage
    <3>. QED  BY <3>1
  <2>3. blame' = Blamed(fails \cup bad)
    BY <1>5, <2>2 DEF Distil, Answer
  <2>. QED  BY <1>4, <1>5, <2>1, <2>3 DEF Distil
<1>6. ASSUME NEW fails \in SUBSET Call, NEW bad \in SUBSET (Call \ fails), DistilOutage(fails, bad) PROVE Counted'
  <2>1. Call \subseteq Turns
    BY CallIsFinite
  <2>2. \E B \in SUBSET Turns : bad \subseteq B /\ blame' = Blamed(B)
    BY <1>6, <2>1 DEF DistilOutage, Answer
  <2>. QED  BY <1>4, <1>6, <2>1, <2>2 DEF DistilOutage
<1>7. ASSUME NEW t \in Turns, Consume(t) PROVE Counted'
  BY <1>1, <1>3, <1>7 DEF Consume, history
<1>8. CASE (\E f \in Facts : WipeFact(f)) \/ WipeEnd
  BY <1>3, <1>8 DEF WipeFact, WipeEnd, history
<1>9. ASSUME NEW t, WipeMark(t) \/ StoreFact(t) \/ StoreFails(t) PROVE Counted'
  BY <1>2, <1>9 DEF WipeMark, StoreFact, StoreFails, history, index
<1>10. CASE Proxy
  BY <1>2, <1>10 DEF Proxy, PutTurn, DeleteTurn, ForgetFact, RememberFact, CorrectFact, SubmitJob, history, index
<1>11. CASE Start \/ Begin \/ TakeJob \/ Fetch \/ End \/ Wake \/ Doze \/ WakeInTime \/ Replay \/ ReplayEnd \/ Scan
            \/ Judge \/ AbortRound
  BY <1>2, <1>11 DEF Start, Begin, TakeJob, Fetch, End, Wake, Doze, WakeInTime, Replay, ReplayEnd, Scan, Judge,
     AbortRound, index, history
<1>12. CASE Restore \/ RestoreEnd \/ StoreEnd \/ ConsumeEnd \/ Crash \/ PollRaises \/ Raise \/ UNCHANGED vars
  BY <1>2, <1>12 DEF Restore, RestoreEnd, StoreEnd, ConsumeEnd, Crash, PollRaises, Raise, Die, vars, index, history
<1>. QED
  BY <1>5, <1>6, <1>7, <1>8, <1>9, <1>10, <1>11, <1>12 DEF Next, DaemonSteps

-----------------------------------------------------------------------------
(* The Hub's writes about a fact. *)

Said(h, op, f, n) == \E i \in 1..n : h[i].op = op /\ h[i].about = f

LEMMA SaidStays ==
  ASSUME Typed, [Next]_vars, NEW op, NEW f, NEW n \in Nat, n <= Len(hub)
  PROVE  Said(hub', op, f, n) <=> Said(hub, op, f, n)
<1>1. \A i \in 1..n : hub'[i] = hub[i]
  BY HubGrows
<1>. QED  BY <1>1 DEF Said

LEMMA SaidGrows ==
  ASSUME NEW h, NEW op, NEW f, NEW m \in Nat, NEW n \in Nat, m <= n, Said(h, op, f, m)
  PROVE  Said(h, op, f, n)
BY DEF Said

\* What the Hub says once, it says for ever.
LEMMA SaidForEver ==
  ASSUME Typed, [Next]_vars, NEW op, NEW f, Said(hub, op, f, Len(hub))
  PROVE  Said(hub', op, f, Len(hub'))
<1>1. Len(hub) \in Nat /\ Len(hub') \in Nat /\ Len(hub) <= Len(hub')
  BY HubGrows
<1>. QED  BY <1>1, SaidStays, SaidGrows

LEMMA WhatIsSaid ==
  ASSUME NEW n \in Nat
  PROVE  /\ \A f \in Facts : f \in Forgotten(n) <=> Said(hub, "forget", f, n)
         /\ \A f \in Facts : f \in Stored(n) <=> Said(hub, "put", f, n)
         /\ \A f \in Facts : f \in Deleted(n) <=> Said(hub, "delete", f, n)
         /\ Forgotten(n) \subseteq Facts /\ Stored(n) \subseteq Facts /\ Deleted(n) \subseteq Facts
BY DEF Forgotten, Stored, Deleted, Written, Writes, Said

-----------------------------------------------------------------------------
(* What a round carries from step to step. *)

RoundShape ==
    /\ round.full => round.manual
    /\ pc \in {"wipe", "restore", "restored"} => round.full
    /\ pc \in {"distil", "judge", "store"} => round.manual \/ round.found
    /\ pc \notin {"judge", "wipe", "restore", "restored", "store", "end"} => round.new = {}
    /\ pc = "distil" => round.keys \ Auxiliary \subseteq round.batch
    /\ pc = "restore" => consumed = {}

\* The turns the scan will mark are auxiliary or about to be distilled: a
\* turn before one of the batch has fewer turns before it.
LEMMA ScanKeys ==
  ASSUME Typed, Horizons, NEW all, all \subseteq Stored(view),
         NEW u \in all \ Auxiliary, Cardinality(Before(u, all \ Auxiliary)) < MaxTurns,
         NEW t \in all \ Auxiliary, t \in Before(u, all)
  PROVE  Cardinality(Before(t, all \ Auxiliary)) < MaxTurns
<1>. DEFINE real == all \ Auxiliary
<1>1. view \in Nat /\ view <= Len(hub)
  BY DEF Typed, Horizons
<1>2. IsFiniteSet(real)
  BY <1>1, StoredIsFinite, FS_Subset
<1>3. \A w : PutAt(w) \in Nat
  <2>1. SUFFICES ASSUME NEW w PROVE PutAt(w) \in Nat
    OBVIOUS
  <2>2. Writes(w, {"put"}, 0, view) \subseteq 1..view
    BY <1>1 DEF Writes
  <2>3. CASE Writes(w, {"put"}, 0, view) = {}
    BY <2>3, LatestOfNone DEF PutAt
  <2>4. CASE Writes(w, {"put"}, 0, view) # {}
    <3>1. Latest(Writes(w, {"put"}, 0, view)) \in 1..view
      BY <1>1, <2>2, <2>4, LatestIsLast
    <3>. QED  BY <3>1 DEF PutAt
  <2>. QED  BY <2>3, <2>4
<1>4. Before(t, real) \subseteq Before(u, real) /\ Before(u, real) \subseteq real
  BY <1>3 DEF Before
<1>5. IsFiniteSet(Before(u, real))
  BY <1>2, <1>4, FS_Subset
<1>6. Cardinality(Before(t, real)) <= Cardinality(Before(u, real))
  BY <1>4, <1>5, FS_Subset
<1>7. Cardinality(Before(t, real)) \in Nat /\ Cardinality(Before(u, real)) \in Nat
  BY <1>4, <1>5, FS_Subset, FS_CardinalityType
<1>. QED  BY <1>6, <1>7, Constants

\* What a scan puts in the round.
LEMMA ScanShape ==
  ASSUME Typed, Horizons, Scan
  PROVE  /\ round'.manual = round.manual /\ round'.full = round.full /\ round'.new = round.new
         /\ round'.keys \ Auxiliary \subseteq round'.batch
         /\ round'.found <=> Candidates(cachedAt') # {}
         /\ round'.batch \subseteq Candidates(cachedAt')
         /\ pc' = IF round'.batch # {} THEN "distil" ELSE IF round.full THEN "wipe" ELSE "consume"
<1>. DEFINE all == Candidates(cachedAt')
            real == all \ Auxiliary
            limited == ~round.manual /\ Cardinality(real) >= MaxTurns
            batch == IF limited THEN {t \in real : Cardinality(Before(t, real)) < MaxTurns} ELSE real
            keys == IF limited THEN {t \in all : \E u \in batch : u = t \/ t \in Before(u, all)} ELSE all
<1>1. /\ round' = [round EXCEPT !.found = all # {}, !.backlog = limited, !.batch = batch, !.keys = keys]
      /\ pc' = IF batch # {} THEN "distil" ELSE IF round.full THEN "wipe" ELSE "consume"
  BY DEF Scan
<1>2. round \in Rounds
  BY DEF Typed
<1>3. all \subseteq Stored(view)
  BY DEF Candidates
<1>4. keys \ Auxiliary \subseteq batch
  <2>1. SUFFICES ASSUME NEW t \in keys, t \notin Auxiliary PROVE t \in batch
    OBVIOUS
  <2>2. t \in all \ Auxiliary /\ (limited => \E u \in batch : u = t \/ t \in Before(u, all))
    BY <2>1
  <2>3. CASE limited
    <3>1. PICK u \in batch : u = t \/ t \in Before(u, all)
      BY <2>2, <2>3
    <3>2. u \in all \ Auxiliary /\ Cardinality(Before(u, all \ Auxiliary)) < MaxTurns
      BY <2>3, <3>1
    <3>3. Cardinality(Before(t, all \ Auxiliary)) < MaxTurns
      <4>. HIDE DEF all
      <4>. QED  BY <1>3, <2>2, <3>1, <3>2, ScanKeys
    <3>. QED  BY <2>2, <2>3, <3>3
  <2>. QED  BY <2>2, <2>3
<1>5. batch \subseteq all
  OBVIOUS
<1>6. /\ round'.manual = round.manual /\ round'.full = round.full /\ round'.new = round.new
      /\ round'.keys = keys /\ round'.batch = batch /\ round'.found = (all # {})
  <2>. HIDE DEF all, limited, batch, keys
  <2>. QED  BY <1>1, <1>2 DEF Rounds
<1>. HIDE DEF limited, batch, keys
<1>. QED  BY <1>1, <1>4, <1>5, <1>6

LEMMA RoundShapeStep ==
  ASSUME Typed, Horizons, RoundShape, [Next]_vars
  PROVE  RoundShape'
<1>1. round \in Rounds /\ pc \in Steps
  BY DEF Typed
<1>2. ASSUME round' = NoRound, pc' \in {"down", "top", "sleep", "fetch"} PROVE RoundShape'
  BY <1>2 DEF RoundShape, NoRound
<1>3. ASSUME UNCHANGED <<round, pc>>, consumed' \subseteq consumed \/ pc # "restore" PROVE RoundShape'
  BY <1>3 DEF RoundShape
<1>4. CASE Proxy
  <2>1. UNCHANGED <<round, pc, consumed>>
    BY <1>4 DEF Proxy, PutTurn, DeleteTurn, ForgetFact, RememberFact, CorrectFact, SubmitJob, daemon, index
  <2>. QED  BY <1>3, <2>1
<1>5. CASE Start \/ Begin \/ Crash \/ PollRaises \/ Raise \/ End
  <2>1. round' = NoRound
    BY <1>5 DEF Start, Begin, Crash, PollRaises, Raise, Die, End
  <2>2. pc' \in {"down", "top", "sleep", "fetch"}
    BY <1>5 DEF Start, Begin, Crash, PollRaises, Raise, Die, End, Go
  <2>. QED  BY <1>2, <2>1, <2>2
<1>6. CASE TakeJob
  <2>1. round' = [NoRound EXCEPT !.manual = TRUE, !.full = Head(jobs)] /\ pc' = "fetch"
    BY <1>6 DEF TakeJob, Go
  <2>2. round'.manual = TRUE /\ round'.new = {}
    BY <2>1 DEF NoRound
  <2>. QED  BY <2>1, <2>2 DEF RoundShape
<1>7. CASE Fetch \/ Wake \/ WakeInTime \/ Replay \/ ReplayEnd
  <2>1. UNCHANGED round /\ pc \in {"fetch", "sleep", "replay", "replayed"} /\ pc' \in {"scan", "replay", "top", "replayed"}
    BY <1>7 DEF Fetch, Wake, WakeInTime, Replay, ReplayEnd, Go
  <2>. QED  BY <2>1 DEF RoundShape
<1>8. CASE Doze \/ UNCHANGED vars
  BY <1>3, <1>8 DEF Doze, vars, daemon, index
<1>9. CASE Scan
  <2>1. pc = "scan" /\ round.new = {}
    BY <1>9 DEF Scan, RoundShape
  <2>2. round'.batch \subseteq Candidates(cachedAt')
    BY <1>9, ScanShape
  <2>3. round'.batch # {} => round'.found
    BY <1>9, <2>2, ScanShape
  <2>. QED  BY <1>9, <2>1, <2>3, ScanShape DEF RoundShape
<1>10. ASSUME NEW fails, NEW bad, Distil(fails, bad) PROVE RoundShape'
  <2>1. pc = "distil" /\ pc' = "judge"
    BY <1>10 DEF Distil, Go
  <2>2. round'.manual = round.manual /\ round'.full = round.full /\ round'.found = round.found
    BY <1>1, <1>10 DEF Distil, Rounds
  <2>. QED  BY <2>1, <2>2 DEF RoundShape
<1>11. ASSUME round' = [round EXCEPT !.backlog = FALSE], pc' = "end" PROVE RoundShape'
  <2>1. round'.manual = round.manual /\ round'.full = round.full
    BY <1>1, <1>11 DEF Rounds
  <2>. QED  BY <1>11, <2>1 DEF RoundShape
<1>12. ASSUME NEW fails, NEW bad, DistilOutage(fails, bad) PROVE RoundShape'
  BY <1>11, <1>12 DEF DistilOutage, Go
<1>13. CASE AbortRound
  BY <1>11, <1>13 DEF AbortRound, Go
<1>14. CASE Judge
  <2>1. pc = "judge" /\ pc' = IF round.full THEN "wipe" ELSE "store"
    BY <1>14 DEF Judge, Go
  <2>2. round'.manual = round.manual /\ round'.full = round.full /\ round'.found = round.found
    BY <1>1, <1>14 DEF Judge, Rounds
  <2>. QED  BY <2>1, <2>2 DEF RoundShape
<1>15. ASSUME NEW t, WipeMark(t) \/ WipeFact(t) PROVE RoundShape'
  BY <1>3, <1>15 DEF WipeMark, WipeFact, daemon
<1>16. CASE WipeEnd \/ Restore \/ RestoreEnd
  <2>1. /\ UNCHANGED round /\ pc \in {"wipe", "restore", "restored"} /\ pc' \in {"restore", "restored", "store"}
        /\ pc' = "restore" => consumed' = {}
    BY <1>16 DEF WipeEnd, Restore, RestoreEnd, Go
  <2>. QED  BY <2>1 DEF RoundShape
<1>17. ASSUME NEW t, StoreFact(t) \/ StoreFails(t) PROVE RoundShape'
  <2>1. pc = "store" /\ pc' = "store"
    BY <1>17 DEF StoreFact, StoreFails
  <2>2. round'.manual = round.manual /\ round'.full = round.full /\ round'.found = round.found
    BY <1>1, <1>17 DEF StoreFact, StoreFails, Rounds
  <2>. QED  BY <2>1, <2>2 DEF RoundShape
<1>18. CASE StoreEnd
  BY <1>18 DEF StoreEnd, Go, RoundShape
<1>19. ASSUME NEW t, Consume(t) PROVE RoundShape'
  <2>1. pc = "consume" /\ pc' = "consume"
    BY <1>19 DEF Consume
  <2>2. round'.manual = round.manual /\ round'.full = round.full /\ round'.new = round.new
    BY <1>1, <1>19 DEF Consume, Rounds
  <2>. QED  BY <2>1, <2>2 DEF RoundShape
<1>20. CASE ConsumeEnd
  BY <1>20 DEF ConsumeEnd, Go, RoundShape
<1>. QED
  BY <1>4, <1>5, <1>6, <1>7, <1>8, <1>9, <1>10, <1>12, <1>13, <1>14, <1>15, <1>16, <1>17, <1>18, <1>19, <1>20
     DEF Next, DaemonSteps

-----------------------------------------------------------------------------
(* What users deleted stays deleted. *)

\* Write i of h is what a user did to f.
IsLabour(h, i, f) == h[i].op \in {"remember", "correct"} /\ h[i].about = f

\* What is deleted is seen by the daemon before it runs again.
GoneIsSeen ==
    \A t \in gone \cap Turns :
        /\ facts[t] = None
        /\ Said(hub, "forget", t, Len(hub))
        /\ Up => Said(hub, "forget", t, view)
        /\ pc \notin {"judge", "end"} => t \notin round.new

\* Only an entered note is an event of a fact under a tombstone.
LEMMA ForgottenIsSkipped ==
  ASSUME Typed, Horizons, NEW lo \in Nat, NEW t \in Turns, Said(hub, "forget", t, view)
  PROVE  Applicable(t, lo) = {}
<1>1. t \in Forgotten(view) /\ t \notin Notes
  BY WhatIsSaid, Constants DEF Typed
<1>2. \A i \in lo + 1 .. view : i \in 1..Len(hub)
  BY DEF Typed, Horizons
<1>3. \A i \in 1..Len(hub) : hub[i] \in Entries
  BY DEF Typed
<1>4. Writes(t, {"remember"}, lo, view) = {}
  BY <1>1, <1>2, <1>3 DEF Writes, Entries
<1>. QED  BY <1>1, <1>4 DEF Applicable

LEMMA GoneIsSeenStep ==
  ASSUME Typed, Horizons, RoundShape, GoneIsSeen, [Next]_vars
  PROVE  GoneIsSeen'
<1>1. /\ view \in Nat /\ Len(hub) \in Nat /\ Len(hub') \in Nat /\ view <= Len(hub) /\ Len(hub) <= Len(hub')
      /\ round \in Rounds /\ facts \in [Facts -> Nat \cup {Original}] /\ Turns \subseteq Facts
      /\ pc \in Steps
  BY HubGrows, Constants DEF Typed, Horizons
<1>2. ASSUME NEW t, Said(hub, "forget", t, Len(hub)) PROVE Said(hub', "forget", t, Len(hub'))
  BY <1>2, SaidForEver
<1>3. ASSUME NEW t, Said(hub, "forget", t, view), view' \in {view, Len(hub)} PROVE Said(hub', "forget", t, view')
  <2>1. Said(hub, "forget", t, view')
    BY <1>1, <1>3, SaidGrows
  <2>. QED  BY <1>1, <1>3, <2>1, SaidStays
<1>4. ASSUME gone' \subseteq gone, \A t \in gone \cap Turns : facts'[t] = None,
             view' \in {view, Len(hub)}, Up' => Up,
             \A t \in gone \cap Turns : pc' \notin {"judge", "end"} => t \notin round'.new
      PROVE  GoneIsSeen'
  <2>1. SUFFICES ASSUME NEW t \in gone' \cap Turns
                 PROVE  /\ facts'[t] = None /\ Said(hub', "forget", t, Len(hub'))
                        /\ Up' => Said(hub', "forget", t, view')
                        /\ pc' \notin {"judge", "end"} => t \notin round'.new
    BY DEF GoneIsSeen
  <2>2. t \in gone \cap Turns
    BY <1>4, <2>1
  <2>3. Said(hub, "forget", t, Len(hub)) /\ (Up => Said(hub, "forget", t, view))
    BY <2>2 DEF GoneIsSeen
  <2>. QED  BY <1>2, <1>3, <1>4, <2>2, <2>3
<1>5. \A t \in gone \cap Turns : facts[t] = None /\ (pc \notin {"judge", "end"} => t \notin round.new)
  BY DEF GoneIsSeen
<1>6. CASE Proxy
  <2>1. UNCHANGED <<view, pc, round>>
    BY <1>6 DEF Proxy, PutTurn, DeleteTurn, ForgetFact, RememberFact, CorrectFact, SubmitJob, daemon
  <2>2. CASE UNCHANGED <<facts, gone>>
    BY <1>4, <1>5, <2>1, <2>2 DEF Up
  <2>3. ASSUME NEW f \in Facts, ForgetFact(f) PROVE GoneIsSeen'
    <3>1. CASE Up
      BY <1>4, <1>5, <2>1, <2>3, <3>1 DEF ForgetFact, index, Up
    <3>2. CASE ~Up
      <4>1. /\ hub' = Append(hub, [op |-> "forget", about |-> f]) /\ gone' = gone \cup {f}
            /\ facts' = [facts EXCEPT ![f] = None]
        BY <2>3, <3>2 DEF ForgetFact, HubAppend
      <4>2. Said(hub', "forget", f, Len(hub'))
        <5>1. Len(hub') = Len(hub) + 1 /\ hub'[Len(hub')] = [op |-> "forget", about |-> f]
          BY <4>1 DEF Typed
        <5>. QED  BY <1>1, <5>1 DEF Said
      <4>3. pc = "down" /\ round.new = {}
        BY <3>2 DEF RoundShape, Up
      <4>4. SUFFICES ASSUME NEW t \in gone' \cap Turns
                     PROVE  facts'[t] = None /\ Said(hub', "forget", t, Len(hub')) /\ t \notin round'.new
        BY <2>1, <3>2 DEF GoneIsSeen, Up
      <4>5. CASE t = f
        BY <1>1, <2>1, <4>1, <4>2, <4>3, <4>5
      <4>6. CASE t # f
        <5>1. t \in gone \cap Turns
          BY <4>1, <4>4, <4>6
        <5>2. facts[t] = None /\ Said(hub, "forget", t, Len(hub))
          BY <5>1 DEF GoneIsSeen
        <5>. QED  BY <1>1, <1>2, <2>1, <4>1, <4>3, <5>2, <4>6
      <4>. QED  BY <4>5, <4>6
    <3>. QED  BY <3>1, <3>2
  <2>4. ASSUME NEW f \in Facts, RememberFact(f) PROVE GoneIsSeen'
    <3>1. f \notin Turns /\ gone' \subseteq gone
      BY <2>4, Constants DEF RememberFact
    <3>2. \A t \in gone \cap Turns : facts'[t] = None
      BY <1>5, <2>4, <3>1 DEF RememberFact
    <3>. QED  BY <1>4, <1>5, <2>1, <3>1, <3>2 DEF Up
  <2>5. ASSUME NEW f \in Facts, CorrectFact(f) PROVE GoneIsSeen'
    <3>1. facts[f] # None /\ gone' \subseteq gone
      BY <2>5 DEF CorrectFact, history
    <3>2. \A t \in gone \cap Turns : facts'[t] = None
      BY <1>1, <1>5, <2>5, <3>1 DEF CorrectFact
    <3>. QED  BY <1>4, <1>5, <2>1, <3>1, <3>2 DEF Up
  <2>. QED  BY <1>6, <2>2, <2>3, <2>4, <2>5 DEF Proxy, PutTurn, DeleteTurn, SubmitJob, index, history
<1>7. CASE Start
  <2>1. \A t \in gone \cap Turns : Said(hub', "forget", t, Len(hub')) /\ facts[t] = None
    BY <1>2 DEF GoneIsSeen
  <2>2. view' = Len(hub') /\ round'.new = {} /\ UNCHANGED <<gone, facts>>
    BY <1>7 DEF Start, index, history, NoRound
  <2>. QED  BY <2>1, <2>2 DEF GoneIsSeen
<1>8. ASSUME UNCHANGED <<gone, facts>>, Up, view' \in {view, Len(hub)},
             round'.new \subseteq round.new, pc \notin {"judge", "end"} \/ pc' \in {"judge", "end"} \/ round'.new = {}
      PROVE  GoneIsSeen'
  BY <1>4, <1>5, <1>8
<1>9. CASE Begin \/ TakeJob \/ Fetch \/ End \/ Wake \/ Doze \/ WakeInTime \/ Replay \/ ReplayEnd
  <2>1. CatchUp => view' \in {view, Len(hub)}
    BY DEF CatchUp
  <2>2. UNCHANGED gone /\ Up /\ view' \in {view, Len(hub)}
    BY <1>9, <2>1 DEF Begin, TakeJob, Fetch, End, Wake, Doze, WakeInTime, Replay, ReplayEnd, history, Up
  <2>3. round'.new \subseteq round.new
    <3>1. NoRound.new = {} /\ \A b \in BOOLEAN, c \in BOOLEAN : [NoRound EXCEPT !.manual = b, !.full = c].new = {}
      BY DEF NoRound
    <3>2. TakeJob => Head(jobs) \in BOOLEAN
      BY DEF TakeJob, Typed
    <3>. QED  BY <1>9, <3>1, <3>2 DEF Begin, TakeJob, Fetch, End, Wake, Doze, WakeInTime, Replay, ReplayEnd
  <2>4. pc \notin {"judge", "end"} \/ round'.new = {}
    <3>1. CASE End
      BY <3>1 DEF End, NoRound
    <3>2. CASE ~End
      BY <1>9, <3>2 DEF Begin, TakeJob, Fetch, Wake, Doze, WakeInTime, Replay, ReplayEnd
    <3>. QED  BY <3>1, <3>2
  <2>5. CASE Replay
    <3>1. Replays(watermark)
      BY <2>5 DEF Replay
    <3>2. \A t \in gone \cap Turns : Said(hub, "forget", t, view) /\ facts[t] = None
      BY <2>2 DEF GoneIsSeen
    <3>3. watermark \in Nat /\ \A t \in gone \cap Turns : t \in Facts
      BY <1>1 DEF Typed
    <3>4. \A t \in gone \cap Turns : facts'[t] = None
      BY <3>1, <3>2, <3>3, ForgottenIsSkipped, ReplayShows
    <3>. QED  BY <1>4, <1>5, <2>2, <2>3, <2>4, <3>4
  <2>6. CASE ~Replay
    <3>1. UNCHANGED facts
      BY <1>9, <2>6 DEF Begin, TakeJob, Fetch, End, Wake, Doze, WakeInTime, ReplayEnd, index
    <3>. QED  BY <1>8, <2>2, <2>3, <2>4, <3>1
  <2>. QED  BY <2>5, <2>6
<1>10. CASE Scan
  <2>1. UNCHANGED <<gone, facts, view>> /\ pc = "scan" /\ Up
    BY <1>10 DEF Scan, index, history, Up
  <2>. QED  BY <1>8, <1>10, <2>1, ScanShape
<1>11. ASSUME NEW fails, NEW bad, Distil(fails, bad) PROVE GoneIsSeen'
  <2>1. UNCHANGED <<gone, facts, view>> /\ pc = "distil" /\ pc' = "judge" /\ Up
    BY <1>11 DEF Distil, Go, Up
  <2>. QED  BY <1>4, <1>5, <2>1
<1>12. ASSUME UNCHANGED <<gone, facts, view>>, round' = [round EXCEPT !.backlog = FALSE], Up, pc' = "end"
       PROVE  GoneIsSeen'
  BY <1>4, <1>5, <1>12
<1>13. ASSUME NEW fails, NEW bad, DistilOutage(fails, bad) PROVE GoneIsSeen'
  BY <1>12, <1>13 DEF DistilOutage, Go, Up
<1>14. CASE AbortRound
  BY <1>12, <1>14 DEF AbortRound, Go, Up, index, history
<1>15. CASE Judge
  <2>1. UNCHANGED <<gone, facts, view>> /\ Up
    BY <1>15 DEF Judge, index, history, Up
  <2>2. round'.new = round.new \ Forgotten(view)
    BY <1>1, <1>15 DEF Judge, Rounds
  <2>3. \A t \in gone \cap Turns : t \in Forgotten(view)
    BY <1>1, <2>1, WhatIsSaid DEF GoneIsSeen
  <2>. QED  BY <1>4, <1>5, <2>1, <2>2, <2>3
<1>16. ASSUME NEW t, WipeMark(t) \/ WipeFact(t) PROVE GoneIsSeen'
  <2>1. UNCHANGED <<gone, view, pc, round>> /\ Up
    BY <1>16 DEF WipeMark, WipeFact, daemon, history, Up
  <2>2. \A u \in gone \cap Turns : facts'[u] = None
    BY <1>1, <1>5, <1>16 DEF WipeMark, WipeFact, None
  <2>. QED  BY <1>4, <1>5, <2>1, <2>2
<1>17. CASE WipeEnd \/ RestoreEnd \/ StoreEnd \/ ConsumeEnd
  <2>1. UNCHANGED <<gone, facts, view, round>> /\ pc \notin {"judge", "end"} /\ Up
    BY <1>17 DEF WipeEnd, RestoreEnd, StoreEnd, ConsumeEnd, history, index, Up
  <2>. QED  BY <1>8, <2>1
<1>18. CASE Restore
  <2>1. UNCHANGED <<gone, view, round>> /\ pc = "restore" /\ Up /\ Replays(0)
    BY <1>18 DEF Restore, history, Up
  <2>2. \A t \in gone \cap Turns : Said(hub, "forget", t, view) /\ facts[t] = None /\ t \in Facts
    BY <1>1, <2>1 DEF GoneIsSeen
  <2>3. \A t \in gone \cap Turns : facts'[t] = None
    BY <2>1, <2>2, ForgottenIsSkipped, ReplayShows
  <2>. QED  BY <1>4, <1>5, <2>1, <2>3
<1>19. ASSUME NEW t \in Turns, StoreFact(t) \/ StoreFails(t) PROVE GoneIsSeen'
  <2>1. UNCHANGED <<gone, view, pc>> /\ pc = "store" /\ t \in round.new /\ Up
    BY <1>19 DEF StoreFact, StoreFails, history, index, Up
  <2>2. t \notin gone
    BY <1>5, <2>1
  <2>3. \A u \in gone \cap Turns : facts'[u] = None
    BY <1>1, <1>5, <1>19, <2>2 DEF StoreFact, StoreFails, index
  <2>4. round'.new = round.new \ {t}
    BY <1>1, <1>19 DEF StoreFact, StoreFails, Rounds
  <2>. QED  BY <1>4, <1>5, <2>1, <2>3, <2>4
<1>20. ASSUME NEW t, Consume(t) PROVE GoneIsSeen'
  <2>1. UNCHANGED <<gone, facts, view, pc>> /\ Up
    BY <1>20 DEF Consume, history, Up
  <2>2. round'.new = round.new
    BY <1>1, <1>20 DEF Consume, Rounds
  <2>. QED  BY <1>4, <1>5, <2>1, <2>2
<1>21. CASE Crash \/ PollRaises
  <2>1. UNCHANGED <<gone, facts>> /\ ~Up' /\ round'.new = {}
    BY <1>21 DEF Crash, PollRaises, Die, index, Up, NoRound
  <2>2. \A t \in gone \cap Turns : Said(hub', "forget", t, Len(hub')) /\ facts[t] = None
    BY <1>2 DEF GoneIsSeen
  <2>. QED  BY <2>1, <2>2 DEF GoneIsSeen
<1>22. CASE Raise
  <2>1. UNCHANGED <<gone, facts, view>> /\ Up /\ round'.new = {}
    BY <1>22 DEF Raise, index, Up, NoRound
  <2>. QED  BY <1>4, <1>5, <2>1
<1>23. CASE UNCHANGED vars
  BY <1>23 DEF vars, index, daemon, history, GoneIsSeen, Up
<1>. QED
  BY <1>6, <1>7, <1>9, <1>10, <1>11, <1>13, <1>14, <1>15, <1>16, <1>17, <1>18, <1>19, <1>20, <1>21, <1>22, <1>23
     DEF Next, DaemonSteps
-----------------------------------------------------------------------------
(* The daemon has what it replayed. *)

Known == IF Up THEN view ELSE Len(hub)

\* A turn's fact counts as corrected when a correction is known to the daemon.
CorrectedBefore == \A f \in corrected \cap Turns : \E i \in 1..Known : IsLabour(hub, i, f)

\* Past the replay of a round, every event of the view is behind the watermark.
PastReplay == pc \in {"store", "consume"} \/ (pc \in {"scan", "distil", "judge"} /\ ~round.full)
CaughtUp == PastReplay => \A i \in 1..view : hub[i].op \in {"remember", "correct"} => i <= watermark

\* What is known of the Hub does not shrink.
LEMMA KnownGrows ==
  ASSUME Typed, Horizons, [Next]_vars
  PROVE  /\ Known \in Nat /\ Known' \in Nat /\ Known <= Known' /\ Known <= Len(hub) /\ Known' <= Len(hub')
         /\ view \in Nat /\ view <= Len(hub) /\ (Up /\ Up' => view <= view')
<1>1. /\ view \in Nat /\ Len(hub) \in Nat /\ Len(hub') \in Nat /\ view <= Len(hub) /\ Len(hub) <= Len(hub')
      /\ view' \in Nat /\ view' <= Len(hub')
  BY HubGrows, TypedStep, ViewGrows DEF Typed, Horizons
<1>2. CASE Proxy \/ UNCHANGED vars
  <2>1. UNCHANGED <<view, pc>>
    BY <1>2 DEF Proxy, PutTurn, DeleteTurn, ForgetFact, RememberFact, CorrectFact, SubmitJob, daemon, vars
  <2>. QED  BY <1>1, <2>1 DEF Known, Up
<1>3. CASE Start
  BY <1>1, <1>3 DEF Start, Known, Up
<1>4. CASE Crash \/ PollRaises
  BY <1>1, <1>4 DEF Crash, PollRaises, Die, Known, Up
<1>5. ASSUME Up, view' \in {view, Len(hub)}, pc' # "down" PROVE Known <= Known' /\ view <= view'
  BY <1>1, <1>5 DEF Known, Up
<1>6. CatchUp => view' \in {view, Len(hub)}
  BY DEF CatchUp
<1>7. CASE Begin \/ TakeJob \/ Fetch \/ End \/ Wake \/ Doze \/ WakeInTime \/ Replay \/ ReplayEnd \/ Scan
           \/ Judge \/ AbortRound \/ WipeEnd \/ Restore \/ RestoreEnd \/ StoreEnd \/ ConsumeEnd \/ Raise
  <2>1. Up /\ view' \in {view, Len(hub)}
    BY <1>6, <1>7 DEF Begin, TakeJob, Fetch, End, Wake, Doze, WakeInTime, Replay, ReplayEnd, Scan, Judge,
       AbortRound, WipeEnd, Restore, RestoreEnd, StoreEnd, ConsumeEnd, Raise, Up
  <2>2. pc' # "down"
    BY <1>7 DEF Begin, TakeJob, Fetch, End, Wake, Doze, WakeInTime, Replay, ReplayEnd, Scan, Judge,
       AbortRound, WipeEnd, Restore, RestoreEnd, StoreEnd, ConsumeEnd, Raise, Go
  <2>. QED  BY <1>1, <1>5, <2>1, <2>2 DEF Known
<1>8. ASSUME NEW fails, NEW bad, Distil(fails, bad) \/ DistilOutage(fails, bad)
      PROVE  Known <= Known' /\ view <= view'
  BY <1>5, <1>8 DEF Distil, DistilOutage, Go, Up
<1>9. ASSUME NEW t, WipeMark(t) \/ StoreFact(t) \/ StoreFails(t) \/ Consume(t) \/ WipeFact(t)
      PROVE  Known <= Known' /\ view <= view'
  BY <1>5, <1>9 DEF WipeMark, StoreFact, StoreFails, Consume, WipeFact, daemon, Up
<1>10. Known <= Known' /\ (Up /\ Up' => view <= view')
  BY <1>2, <1>3, <1>4, <1>7, <1>8, <1>9, <1>1 DEF Next, DaemonSteps, Known
<1>. QED  BY <1>1, <1>10 DEF Known

\* Who corrects a fact: its user while the daemon is down, or a replay.
LEMMA WhoCorrects ==
  ASSUME [Next]_vars, corrected' # corrected
  PROVE  \/ \E f \in Facts : CorrectFact(f) /\ ~Up /\ corrected' = corrected \cup {f}
         \/ Replay \/ Restore
<1>1. UNCHANGED index => UNCHANGED corrected
  BY DEF index
<1>2. ASSUME NEW t, PutTurn(t) \/ DeleteTurn(t) \/ ForgetFact(t) \/ RememberFact(t) PROVE UNCHANGED corrected
  BY <1>1, <1>2 DEF PutTurn, DeleteTurn, ForgetFact, RememberFact
<1>3. ASSUME NEW f \in Facts, CorrectFact(f)
      PROVE  UNCHANGED corrected \/ (~Up /\ corrected' = corrected \cup {f})
  BY <1>3 DEF CorrectFact
<1>4. Start \/ Begin \/ TakeJob \/ Fetch \/ End \/ Wake \/ Doze \/ WakeInTime \/ ReplayEnd \/ Scan \/ Judge
      \/ AbortRound \/ WipeEnd \/ RestoreEnd \/ StoreEnd \/ ConsumeEnd \/ Crash \/ PollRaises \/ Raise
      \/ UNCHANGED vars => UNCHANGED corrected
  BY <1>1 DEF Start, Begin, TakeJob, Fetch, End, Wake, Doze, WakeInTime, ReplayEnd, Scan, Judge, AbortRound, WipeEnd,
     RestoreEnd, StoreEnd, ConsumeEnd, Crash, PollRaises, Raise, Die, vars
<1>5. ASSUME NEW t, NEW fails, NEW bad,
             Distil(fails, bad) \/ DistilOutage(fails, bad) \/ WipeMark(t) \/ StoreFact(t) \/ StoreFails(t)
             \/ Consume(t) \/ WipeFact(t)
      PROVE  UNCHANGED corrected
  BY <1>1, <1>5 DEF Distil, DistilOutage, WipeMark, StoreFact, StoreFails, Consume, WipeFact
<1>. QED
  BY <1>1, <1>2, <1>3, <1>4, <1>5 DEF Next, DaemonSteps, Proxy, SubmitJob

LEMMA CorrectedBeforeStep ==
  ASSUME Typed, Horizons, CorrectedBefore, [Next]_vars
  PROVE  CorrectedBefore'
<1>1. /\ Known \in Nat /\ Known' \in Nat /\ Known <= Known' /\ Known <= Len(hub) /\ view <= Len(hub)
      /\ view \in Nat /\ Len(hub) \in Nat /\ \A i \in 1..Len(hub) : hub'[i] = hub[i]
  BY KnownGrows, HubGrows
<1>2. SUFFICES ASSUME NEW f \in corrected' \cap Turns PROVE \E i \in 1..Known' : IsLabour(hub', i, f)
  BY DEF CorrectedBefore
<1>3. ASSUME NEW i \in 1..Len(hub), i <= Known', IsLabour(hub, i, f) PROVE \E j \in 1..Known' : IsLabour(hub', j, f)
  BY <1>1, <1>3 DEF IsLabour
<1>4. CASE f \in corrected
  <2>1. PICK i \in 1..Known : IsLabour(hub, i, f)
    BY <1>2, <1>4 DEF CorrectedBefore
  <2>2. i \in 1..Len(hub) /\ i <= Known'
    BY <1>1
  <2>. QED  BY <1>3, <2>1, <2>2
<1>5. ASSUME NEW g \in Facts, CorrectFact(g), ~Up, corrected' = corrected \cup {g}, f \notin corrected
      PROVE  \E i \in 1..Known' : IsLabour(hub', i, f)
  <2>1. f = g /\ hub' = Append(hub, [op |-> "correct", about |-> g])
    BY <1>2, <1>5 DEF CorrectFact, HubAppend
  <2>2. Len(hub') = Len(hub) + 1 /\ hub'[Len(hub')] = [op |-> "correct", about |-> g]
    BY <2>1 DEF Typed
  <2>3. Known' = Len(hub')
    BY <1>5 DEF CorrectFact, daemon, Known, Up
  <2>. QED  BY <1>1, <2>1, <2>2, <2>3 DEF IsLabour
<1>6. ASSUME NEW lo \in Nat, Replays(lo), UNCHANGED <<hub, view>>, Up, Up', f \notin corrected
      PROVE  \E i \in 1..Known' : IsLabour(hub', i, f)
  <2>1. PICK i \in Applicable(f, lo) : hub[i].op = "correct"
    BY <1>2, <1>6, ReplayShows
  <2>2. i \in 1..view /\ hub[i].about = f
    BY <1>1, <2>1 DEF Applicable, Writes
  <2>. QED  BY <1>1, <1>3, <1>6, <2>1, <2>2 DEF IsLabour, Known
<1>7. CASE Replay /\ f \notin corrected
  BY <1>6, <1>7 DEF Replay, Go, Up, Typed
<1>8. CASE Restore /\ f \notin corrected
  BY <1>6, <1>8 DEF Restore, Go, Up
<1>. QED  BY <1>2, <1>4, <1>5, <1>7, <1>8, WhoCorrects

\* The watermark is moved behind every event of the view.
LEMMA MoveCatchesUp ==
  ASSUME Typed, Horizons, MoveWatermark, NEW i \in 1..view, hub[i].op \in {"remember", "correct"}
  PROVE  i <= watermark'
<1>1. view \in Nat /\ watermark \in Nat /\ view <= Len(hub) /\ Len(hub) \in Nat
  BY DEF Typed, Horizons
<1>2. hub[i].about \in Facts
  <2>1. hub[i] \in Entries
    BY <1>1 DEF Typed
  <2>. QED  BY <2>1 DEF Entries
<1>3. i \in Replayable /\ Replayable \subseteq 1..view
  BY <1>1, <1>2 DEF Replayable, Writes
<1>4. Latest(Replayable) \in 1..view /\ i <= Latest(Replayable)
  BY <1>1, <1>3, LatestIsLast
<1>. QED  BY <1>1, <1>4 DEF MoveWatermark

LEMMA CaughtUpStep ==
  ASSUME Typed, Horizons, RoundShape, CaughtUp, [Next]_vars
  PROVE  CaughtUp'
<1>1. /\ view \in Nat /\ view <= Len(hub) /\ Len(hub) \in Nat /\ \A i \in 1..Len(hub) : hub'[i] = hub[i]
      /\ round \in Rounds
  BY HubGrows DEF Typed, Horizons
<1>2. ASSUME UNCHANGED <<view, watermark>>, PastReplay' => PastReplay PROVE CaughtUp'
  BY <1>1, <1>2 DEF CaughtUp
<1>3. ASSUME ~PastReplay' PROVE CaughtUp'
  BY <1>3 DEF CaughtUp
<1>4. CASE Proxy \/ UNCHANGED vars
  <2>1. UNCHANGED <<view, watermark, pc, round>>
    BY <1>4 DEF Proxy, PutTurn, DeleteTurn, ForgetFact, RememberFact, CorrectFact, SubmitJob, daemon, vars, index
  <2>. QED  BY <1>2, <2>1 DEF PastReplay
<1>5. CASE Start \/ Begin \/ TakeJob \/ End \/ Wake \/ Doze \/ WakeInTime \/ Replay \/ Crash \/ PollRaises \/ Raise
  <2>1. pc' \in {"top", "fetch", "sleep", "replayed", "down"}
    BY <1>5 DEF Start, Begin, TakeJob, End, Wake, Doze, WakeInTime, Replay, Crash, PollRaises, Raise, Die, Go
  <2>. QED  BY <1>3, <2>1 DEF PastReplay
<1>6. CASE Fetch
  <2>1. UNCHANGED round /\ pc' = IF round.full THEN "scan" ELSE "replay"
    BY <1>6 DEF Fetch, Go
  <2>. QED  BY <1>3, <2>1 DEF PastReplay
<1>7. CASE ReplayEnd \/ RestoreEnd
  <2>1. MoveWatermark /\ UNCHANGED <<hub, view>>
    BY <1>7 DEF ReplayEnd, RestoreEnd
  <2>. QED  BY <2>1, MoveCatchesUp DEF CaughtUp
<1>8. CASE Scan
  <2>1. UNCHANGED <<view, watermark>> /\ pc = "scan"
    BY <1>8 DEF Scan, index
  <2>2. round'.full = round.full /\ (pc' = "distil" \/ (pc' = "wipe" /\ round.full) \/ (pc' = "consume" /\ ~round.full))
    BY <1>8, ScanShape
  <2>3. PastReplay' => PastReplay
    BY <2>1, <2>2 DEF PastReplay
  <2>. QED  BY <1>2, <2>1, <2>3
<1>9. ASSUME NEW fails, NEW bad, Distil(fails, bad) PROVE CaughtUp'
  <2>1. UNCHANGED <<view, watermark>> /\ pc = "distil" /\ pc' = "judge"
    BY <1>9 DEF Distil, Go
  <2>2. round'.full = round.full
    BY <1>1, <1>9 DEF Distil, Rounds
  <2>. QED  BY <1>2, <2>1, <2>2 DEF PastReplay
<1>10. ASSUME NEW fails, NEW bad, DistilOutage(fails, bad) PROVE CaughtUp'
  BY <1>3, <1>10 DEF DistilOutage, Go, PastReplay
<1>11. CASE AbortRound \/ ConsumeEnd
  BY <1>3, <1>11 DEF AbortRound, ConsumeEnd, Go, PastReplay
<1>12. CASE Judge
  <2>1. UNCHANGED <<view, watermark>> /\ pc = "judge" /\ pc' = IF round.full THEN "wipe" ELSE "store"
    BY <1>12 DEF Judge, Go, index
  <2>. QED  BY <1>2, <2>1 DEF PastReplay
<1>13. ASSUME NEW t, WipeMark(t) \/ WipeFact(t) PROVE CaughtUp'
  BY <1>3, <1>13 DEF WipeMark, WipeFact, daemon, PastReplay
<1>14. CASE WipeEnd \/ Restore
  BY <1>3, <1>14 DEF WipeEnd, Restore, Go, PastReplay
<1>15. ASSUME NEW t, StoreFact(t) \/ StoreFails(t) PROVE CaughtUp'
  BY <1>2, <1>15 DEF StoreFact, StoreFails, index, PastReplay
<1>16. CASE StoreEnd
  BY <1>2, <1>16 DEF StoreEnd, Go, index, PastReplay
<1>17. ASSUME NEW t, Consume(t) PROVE CaughtUp'
  BY <1>2, <1>17 DEF Consume, PastReplay
<1>. QED
  BY <1>4, <1>5, <1>6, <1>7, <1>8, <1>9, <1>10, <1>11, <1>12, <1>13, <1>14, <1>15, <1>16, <1>17 DEF Next, DaemonSteps
-----------------------------------------------------------------------------
(* What users did is shown. *)

\* How far the Index is with what users did.
Reach == IF pc \in {"replayed", "restored"} THEN view ELSE watermark

\* A turn's fact that a user edited is a corrected one, unless the edit raised.
EditedIsCorrected ==
    \A f \in Turns : ~Said(hub, "forget", f, Len(hub)) =>
        \A i \in 1..Reach : IsLabour(hub, i, f) => f \in corrected \/ i \in swallowed

\* The Index shows the last of the edits that did not.
EditsAreShown ==
    pc \notin {"wipe", "restore"} =>
        \A f \in Facts : f \notin wiped /\ ~Said(hub, "forget", f, Len(hub)) =>
            \A i \in 1..Reach : IsLabour(hub, i, f) /\ i \notin swallowed =>
                facts[f] # None /\ (f \in Turns => facts[f] >= i)

\* The replays alone make mistakes, and forget those they will make good.
LEMMA WhoSwallows ==
  ASSUME [Next]_vars
  PROVE  UNCHANGED swallowed \/ Replay \/ Restore
<1>1. UNCHANGED history => UNCHANGED swallowed
  BY DEF history
<1>2. ASSUME NEW t, PutTurn(t) \/ DeleteTurn(t) \/ ForgetFact(t) \/ RememberFact(t) \/ CorrectFact(t)
      PROVE  UNCHANGED swallowed
  BY <1>1, <1>2 DEF PutTurn, DeleteTurn, ForgetFact, RememberFact, CorrectFact
<1>3. Start \/ Begin \/ TakeJob \/ Fetch \/ End \/ Wake \/ Doze \/ WakeInTime \/ ReplayEnd \/ Scan \/ Judge
      \/ AbortRound \/ WipeEnd \/ RestoreEnd \/ StoreEnd \/ ConsumeEnd \/ Crash \/ PollRaises \/ Raise
      \/ UNCHANGED vars => UNCHANGED swallowed
  BY <1>1 DEF Start, Begin, TakeJob, Fetch, End, Wake, Doze, WakeInTime, ReplayEnd, Scan, Judge, AbortRound,
     WipeEnd, RestoreEnd, StoreEnd, ConsumeEnd, Crash, PollRaises, Raise, Die, vars
<1>4. ASSUME NEW t, NEW fails, NEW bad,
             Distil(fails, bad) \/ DistilOutage(fails, bad) \/ WipeMark(t) \/ StoreFact(t) \/ StoreFails(t)
             \/ Consume(t) \/ WipeFact(t)
      PROVE  UNCHANGED swallowed
  BY <1>1, <1>4 DEF Distil, DistilOutage, WipeMark, StoreFact, StoreFails, Consume, WipeFact
<1>. QED
  BY <1>1, <1>2, <1>3, <1>4 DEF Next, DaemonSteps, Proxy, SubmitJob

LEMMA ReachMoves ==
  ASSUME Typed, Horizons, [Next]_vars
  PROVE  /\ Reach \in Nat /\ Reach' \in Nat /\ Reach <= Len(hub) /\ Len(hub) \in Nat
         /\ Reach' <= Len(hub)
         /\ Replay \/ Restore \/ Reach' <= Reach
<1>1. /\ view \in Nat /\ Len(hub) \in Nat /\ view <= Len(hub) /\ watermark \in Nat /\ watermark <= Len(hub)
      /\ (Up => watermark <= view) /\ Len(hub') \in Nat /\ Len(hub) <= Len(hub')
      /\ view' \in Nat /\ watermark' \in Nat
  BY HubGrows, TypedStep DEF Typed, Horizons
<1>2. Reach \in Nat /\ Reach <= Len(hub) /\ Reach' \in Nat /\ watermark <= Reach
  BY <1>1 DEF Reach, Up
<1>3. CASE UNCHANGED <<view, watermark, pc>>
  BY <1>2, <1>3, <1>1 DEF Reach
<1>4. ASSUME UNCHANGED watermark, pc' \notin {"replayed", "restored"} PROVE Reach' <= Reach /\ Reach' <= Len(hub)
  BY <1>1, <1>2, <1>4 DEF Reach
<1>5. CASE ReplayEnd \/ RestoreEnd
  <2>1. pc \in {"replayed", "restored"} /\ pc' \in {"scan", "store"} /\ UNCHANGED <<view, hub>>
    BY <1>5 DEF ReplayEnd, RestoreEnd, Go
  <2>2. watermark' <= view
    BY <2>1, ViewGrows DEF Horizons, Up
  <2>. QED  BY <1>1, <1>2, <2>1, <2>2 DEF Reach
<1>6. CASE Replay \/ Restore
  BY <1>1, <1>2, <1>6 DEF Replay, Restore, Go, Reach
<1>7. CASE Proxy \/ UNCHANGED vars
  <2>1. UNCHANGED <<view, watermark, pc>>
    BY <1>7 DEF Proxy, PutTurn, DeleteTurn, ForgetFact, RememberFact, CorrectFact, SubmitJob, daemon, vars, index
  <2>. QED  BY <1>2, <1>1, <1>3, <2>1
<1>8. CASE Start \/ Begin \/ TakeJob \/ Fetch \/ End \/ Wake \/ Doze \/ WakeInTime \/ Scan
           \/ Judge \/ AbortRound \/ WipeEnd \/ StoreEnd \/ ConsumeEnd \/ Raise \/ Crash \/ PollRaises
  <2>1. UNCHANGED watermark
    BY <1>8 DEF Start, Begin, TakeJob, Fetch, End, Wake, Doze, WakeInTime, Scan, Judge, AbortRound, WipeEnd, StoreEnd,
       ConsumeEnd, Raise, Crash, PollRaises, Die, index
  <2>2. pc' \notin {"replayed", "restored"}
    <3>1. CASE Doze
      BY <3>1 DEF Doze
    <3>2. CASE ~Doze
      BY <1>8, <3>2 DEF Start, Begin, TakeJob, Fetch, End, Wake, WakeInTime, Scan, Judge, AbortRound, WipeEnd, StoreEnd,
       ConsumeEnd, Raise, Crash, PollRaises, Die, Go
    <3>. QED  BY <3>1, <3>2
  <2>. QED  BY <1>2, <1>1, <1>4, <2>1, <2>2
<1>9. ASSUME NEW t, NEW fails, NEW bad,
             Distil(fails, bad) \/ DistilOutage(fails, bad) \/ WipeMark(t) \/ StoreFact(t) \/ StoreFails(t)
             \/ Consume(t) \/ WipeFact(t)
      PROVE  Reach' <= Reach /\ Reach' <= Len(hub)
  BY <1>4, <1>9 DEF Distil, DistilOutage, WipeMark, StoreFact, StoreFails, Consume, WipeFact, daemon, index, Go
<1>. QED  BY <1>1, <1>2, <1>5, <1>6, <1>7, <1>8, <1>9 DEF Next, DaemonSteps

\* The edits of a fact nobody forgot are all replayed.
LEMMA EditsAreApplicable ==
  ASSUME Typed, Horizons, NEW f \in Facts, ~Said(hub, "forget", f, Len(hub)), NEW lo \in Nat,
         NEW i \in 1..view, i > lo, IsLabour(hub, i, f)
  PROVE  /\ i \in Applicable(f, lo)
         /\ \A j \in Applicable(f, lo) : j \in 1..view /\ hub[j].about = f
         /\ f \in Turns => \A j \in Applicable(f, lo) : hub[j].op = "correct"
<1>1. view \in Nat /\ view <= Len(hub) /\ Len(hub) \in Nat /\ \A j \in 1..Len(hub) : hub[j] \in Entries
  BY DEF Typed, Horizons
<1>2. f \notin Forgotten(view)
  BY <1>1, WhatIsSaid, SaidGrows
<1>3. i \in Applicable(f, lo)
  BY <1>1, <1>2 DEF Applicable, Writes, IsLabour
<1>4. \A j \in Applicable(f, lo) : j \in 1..view /\ hub[j].about = f /\ hub[j].op \in {"remember", "correct"}
  BY <1>1 DEF Applicable, Writes
<1>5. f \in Turns => \A j \in Applicable(f, lo) : hub[j].op = "correct"
  BY <1>1, <1>4, Constants DEF Entries
<1>. QED  BY <1>3, <1>4, <1>5

LEMMA EditedIsCorrectedStep ==
  ASSUME Typed, Horizons, EditedIsCorrected, [Next]_vars
  PROVE  EditedIsCorrected'
<1>1. /\ Reach \in Nat /\ Reach' \in Nat /\ Reach <= Len(hub) /\ Reach' <= Len(hub)
      /\ Len(hub) \in Nat /\ \A i \in 1..Len(hub) : hub'[i] = hub[i]
  BY ReachMoves, HubGrows
<1>2. SUFFICES ASSUME NEW f \in Turns, ~Said(hub', "forget", f, Len(hub')), NEW i \in 1..Reach', IsLabour(hub', i, f),
                      i \notin swallowed'
               PROVE  f \in corrected'
  BY DEF EditedIsCorrected
<1>3. ~Said(hub, "forget", f, Len(hub)) /\ i \in 1..Len(hub) /\ IsLabour(hub, i, f) /\ f \in Facts
  BY <1>1, <1>2, SaidForEver, Constants DEF IsLabour
<1>4. i <= Reach /\ i \notin swallowed => f \in corrected
  BY <1>1, <1>3 DEF EditedIsCorrected
<1>5. corrected \subseteq corrected'
  <2>1. Replay => Replays(watermark) /\ watermark \in Nat
    BY DEF Replay, Typed
  <2>2. Restore => Replays(0)
    BY DEF Restore
  <2>. QED  BY WhoCorrects, <2>1, <2>2, ReplayShows
<1>6. ASSUME NEW lo \in Nat, Replays(lo), i > lo \/ i \in swallowed, i \in 1..view PROVE f \in corrected'
  <2>0. i > lo
    BY <1>1, <1>2, <1>6, ReplayShows
  <2>1. i \in Applicable(f, lo) /\ hub[i].op = "correct"
    BY <1>2, <1>3, <1>6, <2>0, EditsAreApplicable
  <2>. QED  BY <1>2, <1>3, <1>6, <2>1, ReplayShows
<1>7. CASE Replay
  <2>1. Replays(watermark) /\ Reach' = view /\ Reach = watermark /\ watermark \in Nat
    BY <1>7 DEF Replay, Go, Reach, Typed
  <2>. QED  BY <1>1, <1>2, <1>4, <1>5, <1>6, <2>1
<1>8. CASE Restore
  <2>1. Replays(0) /\ Reach' = view
    BY <1>8 DEF Restore, Go, Reach
  <2>. QED  BY <1>1, <1>2, <1>6, <2>1
<1>9. CASE Reach' <= Reach /\ UNCHANGED swallowed
  BY <1>1, <1>2, <1>4, <1>5, <1>9
<1>. QED  BY <1>7, <1>8, <1>9, ReachMoves, WhoSwallows

\* Who changes the facts of the Index.
LEMMA WhoEdits ==
  ASSUME [Next]_vars, facts' # facts
  PROVE  \/ \E f \in Facts : ForgetFact(f) \/ RememberFact(f) \/ CorrectFact(f) \/ WipeFact(f)
         \/ \E t \in Turns : StoreFact(t)
         \/ Replay \/ Restore
<1>1. UNCHANGED index => UNCHANGED facts
  BY DEF index
<1>2. ASSUME NEW t, PutTurn(t) \/ DeleteTurn(t) PROVE UNCHANGED facts
  BY <1>1, <1>2 DEF PutTurn, DeleteTurn
<1>3. Start \/ Begin \/ TakeJob \/ Fetch \/ End \/ Wake \/ Doze \/ WakeInTime \/ ReplayEnd \/ Scan \/ Judge
      \/ AbortRound \/ WipeEnd \/ RestoreEnd \/ StoreEnd \/ ConsumeEnd \/ Crash \/ PollRaises \/ Raise
      \/ UNCHANGED vars => UNCHANGED facts
  BY <1>1 DEF Start, Begin, TakeJob, Fetch, End, Wake, Doze, WakeInTime, ReplayEnd, Scan, Judge, AbortRound, WipeEnd,
     RestoreEnd, StoreEnd, ConsumeEnd, Crash, PollRaises, Raise, Die, vars
<1>4. ASSUME NEW t, NEW fails, NEW bad,
             Distil(fails, bad) \/ DistilOutage(fails, bad) \/ WipeMark(t) \/ StoreFails(t) \/ Consume(t)
      PROVE  UNCHANGED facts
  BY <1>1, <1>4 DEF Distil, DistilOutage, WipeMark, StoreFails, Consume
<1>. QED
  BY <1>1, <1>2, <1>3, <1>4 DEF Next, DaemonSteps, Proxy, SubmitJob

\* The end of a replay alone moves the watermark.
LEMMA WhoMarks ==
  ASSUME [Next]_vars
  PROVE  UNCHANGED watermark \/ MoveWatermark
<1>1. UNCHANGED index => UNCHANGED watermark
  BY DEF index
<1>2. ASSUME NEW t, PutTurn(t) \/ DeleteTurn(t) \/ ForgetFact(t) \/ RememberFact(t) \/ CorrectFact(t)
      PROVE  UNCHANGED watermark
  BY <1>1, <1>2 DEF PutTurn, DeleteTurn, ForgetFact, RememberFact, CorrectFact
<1>3. Start \/ Begin \/ TakeJob \/ Fetch \/ End \/ Wake \/ Doze \/ WakeInTime \/ Replay \/ Restore \/ Scan
      \/ Judge \/ AbortRound \/ WipeEnd \/ StoreEnd \/ ConsumeEnd \/ Crash \/ PollRaises \/ Raise
      \/ UNCHANGED vars => UNCHANGED watermark
  BY <1>1 DEF Start, Begin, TakeJob, Fetch, End, Wake, Doze, WakeInTime, Replay, Restore, Scan, Judge, AbortRound,
     WipeEnd, StoreEnd, ConsumeEnd, Crash, PollRaises, Raise, Die, vars
<1>4. ASSUME NEW t, NEW fails, NEW bad,
             Distil(fails, bad) \/ DistilOutage(fails, bad) \/ WipeMark(t) \/ StoreFact(t) \/ StoreFails(t)
             \/ Consume(t) \/ WipeFact(t)
      PROVE  UNCHANGED watermark
  BY <1>1, <1>4 DEF Distil, DistilOutage, WipeMark, StoreFact, StoreFails, Consume, WipeFact
<1>5. ReplayEnd \/ RestoreEnd => MoveWatermark
  BY DEF ReplayEnd, RestoreEnd
<1>. QED
  BY <1>1, <1>2, <1>3, <1>4, <1>5 DEF Next, DaemonSteps, Proxy, SubmitJob

\* An interrupted rebuild is the only way to lose an edit ...
LEMMA WhoWipes ==
  ASSUME [Next]_vars
  PROVE  wiped \subseteq wiped' \/ Restore
<1>1. UNCHANGED history => UNCHANGED wiped
  BY DEF history
<1>2. ASSUME NEW t, PutTurn(t) \/ DeleteTurn(t) \/ ForgetFact(t) \/ RememberFact(t) \/ CorrectFact(t)
      PROVE  UNCHANGED wiped
  BY <1>1, <1>2 DEF PutTurn, DeleteTurn, ForgetFact, RememberFact, CorrectFact
<1>3. Start \/ Begin \/ TakeJob \/ Fetch \/ End \/ Wake \/ Doze \/ WakeInTime \/ Replay \/ ReplayEnd \/ Scan \/ Judge
      \/ AbortRound \/ WipeEnd \/ RestoreEnd \/ StoreEnd \/ ConsumeEnd \/ UNCHANGED vars => UNCHANGED wiped
  BY <1>1 DEF Start, Begin, TakeJob, Fetch, End, Wake, Doze, WakeInTime, Replay, ReplayEnd, Scan, Judge, AbortRound,
     WipeEnd, RestoreEnd, StoreEnd, ConsumeEnd, vars
<1>4. Crash \/ PollRaises \/ Raise => wiped \subseteq wiped'
  BY DEF Crash, PollRaises, Raise, Die
<1>5. ASSUME NEW t, NEW fails, NEW bad,
             Distil(fails, bad) \/ DistilOutage(fails, bad) \/ WipeMark(t) \/ StoreFact(t) \/ StoreFails(t)
             \/ Consume(t) \/ WipeFact(t)
      PROVE  UNCHANGED wiped
  BY <1>1, <1>5 DEF Distil, DistilOutage, WipeMark, StoreFact, StoreFails, Consume, WipeFact
<1>. QED
  BY <1>1, <1>2, <1>3, <1>4, <1>5 DEF Next, DaemonSteps, Proxy, SubmitJob

\* ... and nothing else leaves it half done.
LEMMA WhoLeavesTheWipe ==
  ASSUME [Next]_vars, pc \in {"wipe", "restore"}, pc' \notin {"wipe", "restore"}
  PROVE  Restore \/ ((Crash \/ Raise) /\ wiped' = wiped \cup Unrestored /\ UNCHANGED <<facts, hub, watermark>>)
<1>1. Crash \/ Raise => wiped' = wiped \cup Unrestored /\ UNCHANGED <<facts, hub, watermark>>
  BY DEF Crash, Raise, Die, index
<1>2. ASSUME NEW t, PutTurn(t) \/ DeleteTurn(t) \/ ForgetFact(t) \/ RememberFact(t) \/ CorrectFact(t) \/ SubmitJob(t)
      PROVE  FALSE
  BY <1>2 DEF PutTurn, DeleteTurn, ForgetFact, RememberFact, CorrectFact, SubmitJob, daemon
<1>3. ~(Start \/ Begin \/ TakeJob \/ Fetch \/ End \/ Wake \/ Doze \/ WakeInTime \/ Replay \/ ReplayEnd \/ Scan \/ Judge
        \/ AbortRound \/ WipeEnd \/ RestoreEnd \/ StoreEnd \/ ConsumeEnd \/ PollRaises \/ UNCHANGED vars)
  BY DEF Start, Begin, TakeJob, Fetch, End, Wake, Doze, WakeInTime, Replay, ReplayEnd, Scan, Judge, AbortRound,
     WipeEnd, RestoreEnd, StoreEnd, ConsumeEnd, PollRaises, vars, daemon, Go, Up
<1>4. ASSUME NEW t, NEW fails, NEW bad,
             Distil(fails, bad) \/ DistilOutage(fails, bad) \/ WipeMark(t) \/ StoreFact(t) \/ StoreFails(t)
             \/ Consume(t) \/ WipeFact(t)
      PROVE  FALSE
  BY <1>4 DEF Distil, DistilOutage, WipeMark, StoreFact, StoreFails, Consume, WipeFact, daemon
<1>. QED
  BY <1>1, <1>2, <1>3, <1>4 DEF Next, DaemonSteps, Proxy

\* The last edit up to the watermark is at or after each of them.
LEMMA LabourIsLast ==
  ASSUME Typed, NEW f, NEW i \in 1..watermark, IsLabour(hub, i, f), i \notin swallowed
  PROVE  Labour(f) \in Nat /\ i <= Labour(f) /\ Labour(f) > 0
<1>1. watermark \in Nat
  BY DEF Typed
<1>2. Writes(f, {"remember", "correct"}, 0, watermark) \ swallowed \subseteq 1..watermark
      /\ i \in Writes(f, {"remember", "correct"}, 0, watermark) \ swallowed
  BY <1>1 DEF Writes, IsLabour
<1>3. Labour(f) \in 1..watermark /\ i <= Labour(f)
  BY <1>1, <1>2, LatestIsLast DEF Labour
<1>. QED  BY <1>1, <1>3

LEMMA EditsAreShownStep ==
  ASSUME Typed, Horizons, EditedIsCorrected, EditsAreShown, [Next]_vars
  PROVE  EditsAreShown'
<1>1. /\ Reach \in Nat /\ Reach' \in Nat /\ Reach <= Len(hub) /\ Reach' <= Len(hub)
      /\ Len(hub) \in Nat /\ Len(hub) <= Len(hub') /\ Len(hub') \in Nat /\ \A i \in 1..Len(hub) : hub'[i] = hub[i]
      /\ facts \in [Facts -> Nat \cup {Original}]
  BY ReachMoves, HubGrows DEF Typed
<1>2. SUFFICES ASSUME pc' \notin {"wipe", "restore"}, NEW f \in Facts, f \notin wiped',
                      ~Said(hub', "forget", f, Len(hub')), NEW i \in 1..Reach', IsLabour(hub', i, f),
                      i \notin swallowed'
               PROVE  facts'[f] # None /\ (f \in Turns => facts'[f] >= i)
  BY DEF EditsAreShown
<1>3. ~Said(hub, "forget", f, Len(hub)) /\ i \in 1..Len(hub) /\ IsLabour(hub, i, f)
  BY <1>1, <1>2, SaidForEver DEF IsLabour
<1>4. i <= Reach /\ pc \notin {"wipe", "restore"} /\ f \notin wiped /\ i \notin swallowed =>
        facts[f] # None /\ (f \in Turns => facts[f] >= i)
  BY <1>1, <1>3 DEF EditsAreShown
<1>5. i <= Reach /\ i \notin swallowed /\ f \in Turns => f \in corrected
  BY <1>1, <1>3 DEF EditedIsCorrected
<1>6. ASSUME NEW lo \in Nat, Replays(lo), i \in 1..view, i > lo \/ facts'[f] # facts[f]
      PROVE  facts'[f] # None /\ (f \in Turns => facts'[f] >= i)
  <2>1. /\ \A j \in Applicable(f, lo) : j \in 1..view /\ j > lo
        /\ view \in Nat
    BY DEF Typed, Applicable, Writes
  <2>2. /\ i > lo => i \in Applicable(f, lo)
        /\ f \in Turns => \A j \in Applicable(f, lo) : hub[j].op = "correct"
    <3>1. i > lo => i \in Applicable(f, lo)
      BY <1>3, <1>6, EditsAreApplicable
    <3>2. \A j \in Applicable(f, lo) : IsLabour(hub, j, f)
      BY DEF Applicable, Writes, IsLabour
    <3>3. f \in Turns => \A j \in Applicable(f, lo) : hub[j].op = "correct"
      BY <1>3, <2>1, <3>2, EditsAreApplicable
    <3>. QED  BY <3>1, <3>3
  <2>3. ~(facts'[f] = facts[f] /\ \A j \in Applicable(f, lo) : j \in swallowed')
    BY <1>2, <1>6, <2>2
  <2>4. PICK k \in Applicable(f, lo) : /\ \A j \in Applicable(f, lo) : j <= k \/ j \in swallowed'
                                       /\ facts'[f] = IF hub[k].op = "remember" THEN Original ELSE k
    BY <1>6, <2>3, ReplayShows
  <2>5. k >= i
    <3>1. CASE i > lo
      BY <1>2, <2>2, <2>4, <3>1
    <3>2. CASE ~(i > lo)
      BY <1>1, <2>1, <2>4, <3>2
    <3>. QED  BY <3>1, <3>2
  <2>6. facts'[f] # None
    BY <2>1, <2>4 DEF None, Original
  <2>7. f \in Turns => facts'[f] = k
    BY <2>2, <2>4
  <2>. QED  BY <2>5, <2>6, <2>7
<1>7. CASE Replay
  <2>1. /\ Replays(watermark) /\ Reach' = view /\ Reach = watermark /\ watermark \in Nat
        /\ UNCHANGED wiped /\ pc = "replay"
    BY <1>7 DEF Replay, Go, Reach, Typed
  <2>2. CASE i > watermark \/ facts'[f] # facts[f]
    BY <1>6, <2>1, <2>2, <1>2
  <2>3. CASE ~(i > watermark) /\ facts'[f] = facts[f]
    <3>1. i <= Reach /\ i \notin swallowed
      BY <1>1, <1>2, <2>1, <2>3, ReplayShows
    <3>. QED  BY <1>2, <1>4, <2>1, <2>3, <3>1
  <2>. QED  BY <2>2, <2>3
<1>8. CASE Restore
  <2>1. Replays(0) /\ Reach' = view
    BY <1>8 DEF Restore, Go, Reach
  <2>. QED  BY <1>1, <1>2, <1>6, <2>1
<1>9. CASE pc \in {"wipe", "restore"} /\ ~Restore
  <2>1. wiped' = wiped \cup Unrestored /\ UNCHANGED <<facts, hub, watermark>>
    BY <1>2, <1>9, WhoLeavesTheWipe
  <2>2. Reach = watermark /\ i <= Reach
    <3>1. Reach' <= Reach
      BY <1>9, ReachMoves DEF Replay
    <3>. QED  BY <1>1, <1>9, <3>1 DEF Reach
  <2>3. f \notin Unrestored /\ Labour(f) \in Nat /\ i <= Labour(f) /\ Labour(f) > 0
    <3>1. i \notin swallowed
      BY <1>2, <1>9, WhoSwallows DEF Replay
    <3>. QED  BY <1>1, <1>2, <1>3, <2>1, <2>2, <3>1, LabourIsLast
  <2>4. facts[f] # None /\ ~(facts[f] < Labour(f))
    BY <1>9, <2>3 DEF Unrestored
  <2>5. facts[f] \in Nat \cup {-1}
    BY <1>1 DEF Original
  <2>. QED  BY <1>1, <2>1, <2>3, <2>4, <2>5
<1>10. CASE pc \notin {"wipe", "restore"} /\ ~Replay /\ ~Restore
  <2>1. i <= Reach /\ f \notin wiped /\ i \notin swallowed
    BY <1>1, <1>2, <1>10, ReachMoves, WhoWipes, WhoSwallows
  <2>2. facts[f] # None /\ (f \in Turns => facts[f] >= i /\ f \in corrected)
    BY <1>4, <1>5, <1>10, <2>1
  <2>3. CASE UNCHANGED facts
    BY <2>2, <2>3
  <2>4. ASSUME NEW g \in Facts, ForgetFact(g) PROVE facts'[f] = facts[f]
    <3>1. hub' = Append(hub, [op |-> "forget", about |-> g])
      BY <2>4 DEF ForgetFact, HubAppend
    <3>2. Len(hub') = Len(hub) + 1 /\ hub'[Len(hub')] = [op |-> "forget", about |-> g]
      BY <3>1 DEF Typed
    <3>3. f # g
      BY <1>1, <1>2, <3>2 DEF Said
    <3>. QED  BY <1>1, <2>4, <3>3 DEF ForgetFact, index
  <2>5. ASSUME NEW g \in Facts, RememberFact(g) PROVE facts'[f] = facts[f] \/ (facts'[f] = Original /\ f \notin Turns)
    BY <1>1, <2>5, Constants DEF RememberFact
  <2>6. ASSUME NEW g \in Facts, CorrectFact(g) PROVE facts'[f] = facts[f] \/ facts'[f] = Len(hub')
    BY <1>1, <2>6 DEF CorrectFact
  <2>7. ASSUME NEW t \in Turns, StoreFact(t) PROVE facts'[f] = facts[f]
    BY <1>1, <2>2, <2>7 DEF StoreFact
  <2>8. ~\E g : WipeFact(g)
    BY <1>10 DEF WipeFact
  <2>9. Len(hub') >= i /\ Len(hub') # None /\ Original # None
    BY <1>1, <1>3 DEF None, Original
  <2>. QED  BY <1>10, <2>2, <2>3, <2>4, <2>5, <2>6, <2>7, <2>8, <2>9, WhoEdits
<1>. QED  BY <1>7, <1>8, <1>9, <1>10

-----------------------------------------------------------------------------
(* Consumed is settled. *)

\* Why a turn may have no fact.
Excused == {t \in Facts : t \in Auxiliary \cup unadded \cup givenUp \/ Said(hub, "forget", t, Len(hub))}

\* What an interrupted rebuild or a skipped event took from the Index.
Lost == wiped \cup {f \in Facts : Skipped(f)}

\* A turn about to be consumed has its fact, is about to get it, or is excused.
KeysAreSettled ==
    pc \in {"judge", "wipe", "restore", "restored", "store", "consume"} =>
        \A t \in round.keys :
            t \in round.new \cup Excused \/ (pc \in {"store", "consume"} /\ (facts[t] # None \/ t \in Lost))

Settled == \A t \in consumed : facts[t] # None \/ t \in Excused \cup Lost

LEMMA LostStays ==
  ASSUME Typed, Horizons, [Next]_vars
  PROVE  Lost \subseteq Lost' \/ Restore
<1>. SUFFICES ASSUME ~Restore PROVE Lost \subseteq Lost'
  OBVIOUS
<1>1. wiped \subseteq wiped'
  BY WhoWipes
<1>2. /\ watermark \in Nat /\ watermark <= Len(hub) /\ Len(hub) \in Nat
      /\ \A i \in 1..Len(hub) : hub'[i] = hub[i]
  BY HubGrows DEF Typed, Horizons
<1>3. watermark' \in Nat /\ watermark <= watermark'
  <2>1. watermark' \in Nat
    BY TypedStep DEF Typed
  <2>2. CASE UNCHANGED watermark
    BY <1>2, <2>2
  <2>3. CASE MoveWatermark
    BY <1>2, <2>1, <2>3 DEF MoveWatermark
  <2>. QED  BY <2>1, <2>2, <2>3, WhoMarks
<1>4. ASSUME NEW i \in swallowed, i <= watermark PROVE i \in swallowed' /\ i \in 1..Len(hub)
  <2>1. Replay => Replays(watermark)
    BY DEF Replay
  <2>2. i \in swallowed'
    BY <1>2, <1>4, <2>1, ReplayShows, WhoSwallows
  <2>3. i \in Nat /\ i # 0
    BY <1>4 DEF Typed
  <2>. QED  BY <1>2, <1>4, <2>2, <2>3
<1>5. ASSUME NEW f \in Facts, Skipped(f) PROVE Skipped(f)'
  <2>1. PICK i \in swallowed : i <= watermark /\ hub[i].about = f
    BY <1>5 DEF Skipped
  <2>2. i \in swallowed' /\ i \in 1..Len(hub)
    BY <1>4, <2>1
  <2>3. i <= watermark' /\ hub'[i].about = f
    BY <1>2, <1>3, <2>1, <2>2
  <2>. QED  BY <2>2, <2>3 DEF Skipped
<1>. QED  BY <1>1, <1>5 DEF Lost

LEMMA ExcusesStay ==
  ASSUME Typed, [Next]_vars
  PROVE  Excused \subseteq Excused' /\ unadded \subseteq unadded' /\ givenUp \subseteq givenUp'
<1>1. UNCHANGED history => UNCHANGED <<unadded, givenUp>>
  BY DEF history
<1>2. ASSUME NEW t, PutTurn(t) \/ DeleteTurn(t) \/ ForgetFact(t) \/ RememberFact(t) \/ CorrectFact(t) \/ SubmitJob(t)
      PROVE  UNCHANGED <<unadded, givenUp>>
  BY <1>1, <1>2 DEF PutTurn, DeleteTurn, ForgetFact, RememberFact, CorrectFact, SubmitJob
<1>3. Start \/ Begin \/ TakeJob \/ Fetch \/ End \/ Wake \/ Doze \/ WakeInTime \/ Replay \/ ReplayEnd \/ Scan \/ Judge
      \/ AbortRound \/ WipeEnd \/ Restore \/ RestoreEnd \/ StoreEnd \/ ConsumeEnd \/ Crash \/ PollRaises \/ Raise
      \/ UNCHANGED vars => UNCHANGED <<unadded, givenUp>>
  BY <1>1 DEF Start, Begin, TakeJob, Fetch, End, Wake, Doze, WakeInTime, Replay, ReplayEnd, Scan, Judge, AbortRound,
     WipeEnd, Restore, RestoreEnd, StoreEnd, ConsumeEnd, Crash, PollRaises, Raise, Die, vars
<1>4. ASSUME NEW t, NEW fails, NEW bad,
             Distil(fails, bad) \/ DistilOutage(fails, bad) \/ WipeMark(t) \/ StoreFact(t) \/ StoreFails(t)
             \/ Consume(t) \/ WipeFact(t)
      PROVE  unadded \subseteq unadded' /\ givenUp \subseteq givenUp'
  BY <1>1, <1>4 DEF Distil, DistilOutage, WipeMark, StoreFact, StoreFails, Consume, WipeFact
<1>5. unadded \subseteq unadded' /\ givenUp \subseteq givenUp'
  BY <1>1, <1>2, <1>3, <1>4 DEF Next, DaemonSteps, Proxy
<1>6. \A t : Said(hub, "forget", t, Len(hub)) => Said(hub', "forget", t, Len(hub'))
  BY SaidForEver
<1>. QED  BY <1>5, <1>6 DEF Excused

\* Who takes the fact of a turn away: its user, or a full rebuild.
LEMMA WhoRemoves ==
  ASSUME Typed, [Next]_vars, NEW t \in Turns, facts[t] # None, facts'[t] = None
  PROVE  t \in Excused' \/ \E f \in Facts : WipeFact(f)
<1>1. facts \in [Facts -> Nat \cup {Original}] /\ t \in Facts /\ Len(hub) \in Nat /\ Len(hub') \in Nat
  BY HubGrows, Constants DEF Typed
<1>2. ASSUME NEW f \in Facts, ForgetFact(f) PROVE t \in Excused'
  <2>1. f = t
    BY <1>1, <1>2 DEF ForgetFact, index
  <2>2. hub' = Append(hub, [op |-> "forget", about |-> t])
    BY <1>2, <2>1 DEF ForgetFact, HubAppend
  <2>3. Len(hub') = Len(hub) + 1 /\ hub'[Len(hub')] = [op |-> "forget", about |-> t]
    BY <2>2 DEF Typed
  <2>. QED  BY <1>1, <2>3 DEF Said, Excused
<1>3. ASSUME NEW f \in Facts, RememberFact(f) PROVE FALSE
  BY <1>1, <1>3 DEF RememberFact, None, Original
<1>4. ASSUME NEW f \in Facts, CorrectFact(f) PROVE FALSE
  <2>1. hub' = Append(hub, [op |-> "correct", about |-> f])
    BY <1>4 DEF CorrectFact, HubAppend
  <2>2. Len(hub') = Len(hub) + 1
    BY <2>1 DEF Typed
  <2>. QED  BY <1>1, <1>4, <2>2 DEF CorrectFact, None
<1>5. ASSUME NEW u \in Turns, StoreFact(u) PROVE FALSE
  BY <1>1, <1>5, Constants DEF StoreFact, None, Original
<1>6. ASSUME NEW lo \in Nat, Replays(lo) PROVE FALSE
  <2>1. PICK i \in Applicable(t, lo) : facts'[t] = IF hub[i].op = "remember" THEN Original ELSE i
    BY <1>1, <1>6, ReplayShows
  <2>2. i \in Int /\ i > 0
    BY DEF Applicable, Writes, Typed
  <2>. QED  BY <2>1, <2>2 DEF None, Original
<1>7. Replay => Replays(watermark) /\ watermark \in Nat
  BY DEF Replay, Typed
<1>8. Restore => Replays(0)
  BY DEF Restore
<1>. QED  BY <1>2, <1>3, <1>4, <1>5, <1>6, <1>7, <1>8, WhoEdits

\* Who consumes turns: the end of a round and a turn given up.
LEMMA WhoConsumes ==
  ASSUME [Next]_vars, NEW t, t \in consumed', t \notin consumed
  PROVE  Consume(t) \/ t \in givenUp'
<1>1. UNCHANGED index => UNCHANGED consumed
  BY DEF index
<1>2. ASSUME NEW u, PutTurn(u) \/ DeleteTurn(u) \/ ForgetFact(u) \/ RememberFact(u) \/ CorrectFact(u) \/ SubmitJob(u)
      PROVE  UNCHANGED consumed
  BY <1>1, <1>2 DEF PutTurn, DeleteTurn, ForgetFact, RememberFact, CorrectFact, SubmitJob
<1>3. Start \/ Begin \/ TakeJob \/ Fetch \/ End \/ Wake \/ Doze \/ WakeInTime \/ Replay \/ ReplayEnd \/ Scan \/ Judge
      \/ AbortRound \/ WipeEnd \/ Restore \/ RestoreEnd \/ StoreEnd \/ ConsumeEnd \/ Crash \/ PollRaises \/ Raise
      \/ UNCHANGED vars => UNCHANGED consumed
  BY <1>1 DEF Start, Begin, TakeJob, Fetch, End, Wake, Doze, WakeInTime, Replay, ReplayEnd, Scan, Judge, AbortRound,
     WipeEnd, Restore, RestoreEnd, StoreEnd, ConsumeEnd, Crash, PollRaises, Raise, Die, vars
<1>4. ASSUME NEW u, NEW fails, NEW bad,
             Distil(fails, bad) \/ WipeMark(u) \/ StoreFact(u) \/ StoreFails(u) \/ WipeFact(u)
      PROVE  consumed' \subseteq consumed
  BY <1>1, <1>4 DEF Distil, WipeMark, StoreFact, StoreFails, WipeFact
<1>5. ASSUME NEW fails, NEW bad, DistilOutage(fails, bad) PROVE t \in givenUp'
  BY <1>5 DEF DistilOutage
<1>6. ASSUME NEW u, Consume(u) PROVE Consume(t)
  BY <1>6 DEF Consume
<1>. QED
  BY <1>1, <1>2, <1>3, <1>4, <1>5, <1>6 DEF Next, DaemonSteps, Proxy

LEMMA SettledStep ==
  ASSUME Typed, Horizons, RoundShape, KeysAreSettled, Settled, [Next]_vars
  PROVE  Settled'
<1>1. consumed \subseteq Turns /\ Turns \subseteq Facts /\ round.keys \subseteq Turns
  BY Constants DEF Typed, Rounds
<1>2. SUFFICES ASSUME NEW t \in consumed', facts'[t] = None PROVE t \in Excused' \cup Lost'
  BY DEF Settled
<1>3. CASE Restore
  <2>1. consumed' = {}
    BY <1>3 DEF Restore, RoundShape
  <2>. QED  BY <1>2, <2>1
<1>4. CASE \E f \in Facts : WipeFact(f)
  <2>1. consumed' = {}
    BY <1>4 DEF WipeFact
  <2>. QED  BY <1>2, <2>1
<1>5. CASE t \in consumed /\ ~Restore /\ ~\E f \in Facts : WipeFact(f)
  <2>1. t \in Turns /\ (facts[t] # None \/ t \in Excused \cup Lost)
    BY <1>1, <1>5 DEF Settled
  <2>2. facts[t] # None => t \in Excused'
    BY <1>2, <1>5, <2>1, WhoRemoves
  <2>. QED  BY <1>5, <2>1, <2>2, ExcusesStay, LostStays
<1>6. CASE t \notin consumed /\ t \in givenUp'
  <2>1. t \in Turns
    BY <1>2, TypedStep DEF Typed
  <2>. QED  BY <1>1, <1>6, <2>1 DEF Excused
<1>7. CASE Consume(t)
  <2>1. pc = "consume" /\ t \in round.keys /\ UNCHANGED facts /\ round.new = {}
    BY <1>7 DEF Consume, RoundShape
  <2>2. t \in Excused \/ facts[t] # None \/ t \in Lost
    BY <2>1 DEF KeysAreSettled
  <2>3. ~Restore
    BY <2>1 DEF Restore
  <2>. QED  BY <1>2, <2>1, <2>2, <2>3, ExcusesStay, LostStays
<1>. QED  BY <1>2, <1>3, <1>4, <1>5, <1>6, <1>7, WhoConsumes

\* A fact the user corrected is in the Index by the time it would be stored.
LEMMA CorrectedHasItsFact ==
  ASSUME Typed, Horizons, CorrectedBefore, CaughtUp, EditsAreShown, pc = "store", NEW t \in Turns \cap corrected
  PROVE  facts[t] # None \/ t \in Excused \cup Lost
<1>1. PICK i \in 1..view : IsLabour(hub, i, t)
  BY DEF CorrectedBefore, Known, Up
<1>2. i \in 1..watermark /\ Reach = watermark
  BY <1>1 DEF CaughtUp, PastReplay, IsLabour, Reach, Typed
<1>3. t \in Facts
  BY Constants
<1>4. t \notin wiped /\ i \notin swallowed /\ ~Said(hub, "forget", t, Len(hub)) => facts[t] # None
  BY <1>1, <1>2, <1>3 DEF EditsAreShown
<1>5. i \in swallowed => t \in Lost
  BY <1>1, <1>2, <1>3 DEF Lost, Skipped, IsLabour, Typed
<1>. QED  BY <1>3, <1>4, <1>5 DEF Excused, Lost

LEMMA KeysAreSettledStep ==
  ASSUME Typed, Horizons, RoundShape, CorrectedBefore, CaughtUp, EditsAreShown, KeysAreSettled, [Next]_vars
  PROVE  KeysAreSettled'
<1>1. /\ round \in Rounds /\ round.keys \subseteq Turns /\ Turns \subseteq Facts /\ Excused \subseteq Excused'
      /\ Auxiliary \subseteq Excused' /\ facts \in [Facts -> Nat \cup {Original}] /\ view \in Nat
  BY ExcusesStay, Constants DEF Typed, Rounds, Excused
<1>2. ASSUME pc' \notin {"judge", "wipe", "restore", "restored", "store", "consume"} PROVE KeysAreSettled'
  BY <1>2 DEF KeysAreSettled
<1>3. ASSUME pc \in {"judge", "wipe", "restore", "restored", "store", "consume"}, round'.keys \subseteq round.keys,
             round'.new = round.new, pc' = pc \/ pc \notin {"store", "consume"} \/ pc' \in {"store", "consume"},
             ~Restore, pc \in {"store", "consume"} => ~\E f \in Facts : WipeFact(f)
      PROVE  KeysAreSettled'
  <2>1. SUFFICES ASSUME NEW t \in round'.keys
                 PROVE  t \in round'.new \cup Excused' \/ (pc' \in {"store", "consume"} /\ (facts'[t] # None \/ t \in Lost'))
    BY DEF KeysAreSettled
  <2>2. t \in round.new \cup Excused \/ (pc \in {"store", "consume"} /\ (facts[t] # None \/ t \in Lost))
    BY <1>3, <2>1 DEF KeysAreSettled
  <2>3. CASE t \in round.new \cup Excused
    BY <1>1, <1>3, <2>3
  <2>4. CASE pc \in {"store", "consume"} /\ (facts[t] # None \/ t \in Lost)
    <3>1. t \in Turns
      BY <1>1, <1>3, <2>1
    <3>2. facts[t] # None => facts'[t] # None \/ t \in Excused'
      BY <1>3, <2>4, <3>1, WhoRemoves
    <3>. QED  BY <1>3, <2>4, <3>2, LostStays
  <2>. QED  BY <2>2, <2>3, <2>4
<1>4. CASE Proxy \/ UNCHANGED vars
  <2>1. UNCHANGED <<pc, round>> /\ (pc = "restore" => ~Restore)
    <3>1. UNCHANGED <<pc, round>>
      BY <1>4 DEF Proxy, PutTurn, DeleteTurn, ForgetFact, RememberFact, CorrectFact, SubmitJob, daemon, vars
    <3>2. Restore => pc = "restore" /\ pc' = "restored"
      BY DEF Restore, Go
    <3>. QED  BY <3>1, <3>2
  <2>3. ~Restore
    BY <2>1 DEF Restore
  <2>2. pc \in {"store", "consume"} => ~\E f \in Facts : WipeFact(f)
    BY DEF WipeFact
  <2>. QED  BY <1>2, <1>3, <2>1, <2>2, <2>3
<1>5. CASE Start \/ Begin \/ TakeJob \/ Fetch \/ End \/ Wake \/ Doze \/ WakeInTime \/ Replay \/ ReplayEnd
           \/ Crash \/ PollRaises \/ Raise \/ AbortRound \/ ConsumeEnd
  <2>1. pc' \in {"top", "fetch", "sleep", "scan", "replay", "replayed", "down", "end"}
    BY <1>5 DEF Start, Begin, TakeJob, Fetch, End, Wake, Doze, WakeInTime, Replay, ReplayEnd, Crash, PollRaises, Raise,
       Die, AbortRound, ConsumeEnd, Go
  <2>. QED  BY <1>2, <2>1
<1>6. CASE Scan
  <2>1. round'.keys \ Auxiliary \subseteq round'.batch
    BY <1>6, ScanShape
  <2>2. CASE round'.batch # {}
    BY <1>2, <1>6, <2>2, ScanShape
  <2>3. CASE round'.batch = {}
    BY <1>1, <2>1, <2>3 DEF KeysAreSettled
  <2>. QED  BY <2>2, <2>3
<1>7. ASSUME NEW fails, NEW bad, Distil(fails, bad) PROVE KeysAreSettled'
  <2>. DEFINE failed == fails \cup bad
  <2>1. /\ pc = "distil" /\ pc' = "judge" /\ givenUp' = givenUp \cup GaveUp(failed)
        /\ round' = [round EXCEPT !.keys = round.keys \ (failed \ GaveUp(failed)), !.new = round.batch \ failed]
    BY <1>1, <1>7 DEF Distil, Go, Rounds
  <2>2. round'.keys = round.keys \ (failed \ GaveUp(failed)) /\ round'.new = round.batch \ failed
    BY <1>1, <2>1 DEF Rounds
  <2>3. round.keys \ Auxiliary \subseteq round.batch
    BY <2>1 DEF RoundShape
  <2>4. \A t \in round'.keys : t \in round'.new \cup Auxiliary \/ t \in givenUp'
    BY <2>1, <2>2, <2>3
  <2>5. givenUp' \cap Turns \subseteq Excused'
    BY <1>1 DEF Excused
  <2>6. round'.keys \subseteq Turns
    BY <1>1, <2>2
  <2>. QED  BY <1>1, <2>4, <2>5, <2>6 DEF KeysAreSettled
<1>8. ASSUME NEW fails, NEW bad, DistilOutage(fails, bad) PROVE KeysAreSettled'
  BY <1>2, <1>8 DEF DistilOutage, Go
<1>9. CASE Judge
  <2>1. pc = "judge" /\ UNCHANGED hub
    BY <1>9 DEF Judge
  <2>2. round'.keys = round.keys /\ round'.new = round.new \ Forgotten(view)
    BY <1>1, <1>9 DEF Judge, Rounds
  <2>3. \A t \in round.keys : t \in round.new \cup Excused
    BY <2>1 DEF KeysAreSettled
  <2>4. Forgotten(view) \subseteq Excused
    <3>1. SUFFICES ASSUME NEW t \in Forgotten(view) PROVE t \in Excused
      OBVIOUS
    <3>2. t \in Facts /\ Said(hub, "forget", t, view)
      BY <1>1, <3>1, WhatIsSaid
    <3>3. Said(hub, "forget", t, Len(hub))
      BY <1>1, <3>2, SaidGrows DEF Typed, Horizons
    <3>. QED  BY <3>2, <3>3 DEF Excused
  <2>5. \A t \in round'.keys : t \in round'.new \cup Excused'
    BY <1>1, <2>2, <2>3, <2>4
  <2>. QED  BY <2>5 DEF KeysAreSettled
<1>10. ASSUME NEW f, WipeMark(f) \/ WipeFact(f) PROVE KeysAreSettled'
  BY <1>3, <1>10 DEF WipeMark, WipeFact, daemon, Restore
<1>11. CASE WipeEnd \/ RestoreEnd \/ StoreEnd
  <2>1. /\ UNCHANGED <<round, facts>> /\ pc \in {"wipe", "restored", "store"} /\ ~Restore
        /\ pc = "store" => pc' = "consume"
    BY <1>11 DEF WipeEnd, RestoreEnd, StoreEnd, Go, index, Restore
  <2>2. pc = "store" => ~\E f \in Facts : WipeFact(f)
    BY DEF WipeFact
  <2>. QED  BY <1>3, <2>1, <2>2
<1>12. CASE Restore
  <2>1. UNCHANGED round /\ pc = "restore"
    BY <1>12 DEF Restore
  <2>2. \A t \in round.keys : t \in round.new \cup Excused
    BY <2>1 DEF KeysAreSettled
  <2>3. \A t \in round'.keys : t \in round'.new \cup Excused'
    BY <1>1, <2>1, <2>2
  <2>. QED  BY <2>3 DEF KeysAreSettled
<1>13. ASSUME NEW u \in Turns, StoreFact(u) \/ StoreFails(u) PROVE KeysAreSettled'
  <2>1. pc = "store" /\ pc' = "store" /\ Lost \subseteq Lost'
    BY <1>13, LostStays DEF StoreFact, StoreFails, Restore
  <2>2. round'.keys = round.keys /\ round'.new = round.new \ {u}
    BY <1>1, <1>13 DEF StoreFact, StoreFails, Rounds
  <2>3. facts'[u] # None \/ u \in Excused' \cup Lost'
    <3>1. CASE StoreFails(u)
      BY <1>1, <3>1 DEF StoreFails, Excused
    <3>2. CASE StoreFact(u) /\ u \notin corrected
      BY <1>1, <3>2 DEF StoreFact, None, Original
    <3>3. CASE StoreFact(u) /\ u \in corrected
      <4>1. facts[u] # None \/ u \in Excused \cup Lost
        BY <2>1, <3>3, CorrectedHasItsFact
      <4>. QED  BY <1>1, <2>1, <3>3, <4>1 DEF StoreFact
    <3>. QED  BY <1>13, <3>1, <3>2, <3>3
  <2>4. SUFFICES ASSUME NEW t \in round.keys, t # u PROVE t \in round'.new \cup Excused' \/ facts'[t] # None \/ t \in Lost'
    BY <2>1, <2>2, <2>3 DEF KeysAreSettled
  <2>5. t \in round.new \cup Excused \/ facts[t] # None \/ t \in Lost
    BY <2>1 DEF KeysAreSettled
  <2>6. ~\E f \in Facts : WipeFact(f)
    BY <2>1 DEF WipeFact
  <2>. QED  BY <1>1, <2>1, <2>2, <2>4, <2>5, <2>6, WhoRemoves
<1>14. ASSUME NEW u, Consume(u) PROVE KeysAreSettled'
  <2>1. pc = "consume" /\ UNCHANGED pc /\ ~Restore
    BY <1>14 DEF Consume, Restore
  <2>2. round'.keys = round.keys \ {u} /\ round'.new = round.new
    BY <1>1, <1>14 DEF Consume, Rounds
  <2>3. ~\E f \in Facts : WipeFact(f)
    BY <2>1 DEF WipeFact
  <2>. QED  BY <1>3, <2>1, <2>2, <2>3
<1>. QED
  BY <1>4, <1>5, <1>6, <1>7, <1>8, <1>9, <1>10, <1>11, <1>12, <1>13, <1>14 DEF Next, DaemonSteps

-----------------------------------------------------------------------------
(* The daemon backs off only when nothing is left. *)

\* Each turn the daemon took note of is consumed or under a tombstone.
Drained == \A t \in Turns : Said(hub, "put", t, seen) => t \in consumed \/ Said(hub, "delete", t, cachedAt)

WaitsWhenDrained ==
    /\ pc \in {"consume", "end"} /\ ~round.manual /\ ~round.found => Drained
    /\ pc = "sleep" /\ ~erred /\ idle.interval > Base => Drained

\* A scan that finds nothing has nothing left to find.
LEMMA NothingFound ==
  ASSUME Typed, Horizons, Scan, ~round.full, Candidates(cachedAt') = {}
  PROVE  Drained'
<1>1. UNCHANGED <<hub, seen, view, consumed>> /\ cachedAt' \in {view, cachedAt}
  BY DEF Scan, index
<1>2. seen \in Nat /\ view \in Nat /\ cachedAt \in Nat /\ seen <= view /\ cachedAt' \in Nat
  BY <1>1 DEF Typed, Horizons
<1>3. SUFFICES ASSUME NEW t \in Turns, Said(hub, "put", t, seen)
               PROVE  t \in consumed \/ Said(hub, "delete", t, cachedAt')
  BY <1>1 DEF Drained
<1>4. t \in Stored(view)
  BY <1>2, <1>3, SaidGrows, WhatIsSaid, Constants
<1>5. t \in Deleted(cachedAt') \/ t \in consumed
  BY <1>4 DEF Candidates
<1>6. t \in Deleted(cachedAt') => Said(hub, "delete", t, cachedAt')
  BY <1>2, <1>3, WhatIsSaid, Constants
<1>. QED  BY <1>5, <1>6

LEMMA WaitsWhenDrainedStep ==
  ASSUME Typed, Horizons, RoundShape, WaitsWhenDrained, [Next]_vars
  PROVE  WaitsWhenDrained'
<1>1. /\ round \in Rounds /\ seen \in Nat /\ cachedAt \in Nat /\ seen <= Len(hub) /\ cachedAt <= Len(hub)
      /\ Len(hub) \in Nat /\ Base \in Nat
  BY Constants DEF Typed, Horizons
<1>2. ASSUME Drained, UNCHANGED <<seen, cachedAt>>, consumed \subseteq consumed' PROVE Drained'
  <2>1. SUFFICES ASSUME NEW t \in Turns, Said(hub', "put", t, seen)
                 PROVE  t \in consumed' \/ Said(hub', "delete", t, cachedAt)
    BY <1>2 DEF Drained
  <2>2. Said(hub, "put", t, seen)
    BY <1>1, <2>1, SaidStays
  <2>3. t \in consumed \/ Said(hub, "delete", t, cachedAt)
    BY <2>2, <1>2 DEF Drained
  <2>. QED  BY <1>1, <1>2, <2>3, SaidStays
<1>3. ASSUME pc' \notin {"consume", "end", "sleep"} PROVE WaitsWhenDrained'
  BY <1>3 DEF WaitsWhenDrained
<1>4. CASE Proxy \/ UNCHANGED vars \/ Doze
  <2>1. UNCHANGED <<seen, cachedAt, pc, round, erred, idle, consumed>>
    BY <1>4 DEF Proxy, PutTurn, DeleteTurn, ForgetFact, RememberFact, CorrectFact, SubmitJob, Doze, daemon, vars, index
  <2>. QED  BY <1>2, <2>1 DEF WaitsWhenDrained
<1>5. CASE Start \/ Begin \/ TakeJob \/ Fetch \/ Wake \/ WakeInTime \/ Replay \/ ReplayEnd \/ Crash \/ PollRaises
           \/ Judge \/ WipeEnd \/ Restore \/ RestoreEnd
  <2>1. pc' \notin {"consume", "end", "sleep"}
    BY <1>5 DEF Start, Begin, TakeJob, Fetch, Wake, WakeInTime, Replay, ReplayEnd, Crash, PollRaises, Die,
       Judge, WipeEnd, Restore, RestoreEnd, Go
  <2>. QED  BY <1>3, <2>1
<1>6. CASE End
  <2>1. /\ pc = "end" /\ UNCHANGED <<hub, seen, cachedAt, consumed>> /\ pc' \in {"top", "sleep"}
        /\ pc' = "sleep" => ~round.manual /\ idle' = Settle(round.found)
    BY <1>6 DEF End, index
  <2>2. round.found => Settle(round.found).interval = Base
    BY DEF Settle, Awake
  <2>3. ~round.manual /\ ~round.found => Drained
    BY <2>1 DEF WaitsWhenDrained
  <2>4. pc' = "sleep" /\ idle'.interval > Base => Drained'
    BY <1>1, <1>2, <2>1, <2>2, <2>3
  <2>. QED  BY <2>1, <2>4 DEF WaitsWhenDrained
<1>7. CASE Scan
  <2>1. CASE pc' = "consume" /\ ~round'.found
    <3>1. ~round.full /\ Candidates(cachedAt') = {}
      BY <1>7, <2>1, ScanShape
    <3>. QED  BY <1>7, <2>1, <3>1, NothingFound DEF WaitsWhenDrained
  <2>2. CASE pc' # "consume" \/ round'.found
    <3>1. pc' \in {"distil", "wipe", "consume"}
      BY <1>7, ScanShape
    <3>. QED  BY <2>2, <3>1 DEF WaitsWhenDrained
  <2>. QED  BY <2>1, <2>2
<1>8. ASSUME NEW fails, NEW bad, Distil(fails, bad) PROVE WaitsWhenDrained'
  BY <1>3, <1>8 DEF Distil, Go
<1>9. ASSUME pc \in {"distil", "judge"}, round' = [round EXCEPT !.backlog = FALSE], pc' = "end" PROVE WaitsWhenDrained'
  <2>1. round'.manual \/ round'.found
    BY <1>1, <1>9 DEF RoundShape, Rounds
  <2>. QED  BY <1>9, <2>1 DEF WaitsWhenDrained
<1>10. ASSUME NEW fails, NEW bad, DistilOutage(fails, bad) PROVE WaitsWhenDrained'
  BY <1>9, <1>10 DEF DistilOutage, Go
<1>11. CASE AbortRound
  BY <1>9, <1>11 DEF AbortRound, Go
<1>12. ASSUME NEW t, WipeMark(t) \/ WipeFact(t) \/ StoreFact(t) \/ StoreFails(t) PROVE WaitsWhenDrained'
  BY <1>3, <1>12 DEF WipeMark, WipeFact, StoreFact, StoreFails, daemon
<1>13. CASE StoreEnd
  BY <1>13 DEF StoreEnd, Go, RoundShape, WaitsWhenDrained
<1>14. ASSUME NEW t, Consume(t) PROVE WaitsWhenDrained'
  <2>1. pc = "consume" /\ UNCHANGED <<pc, seen, cachedAt>> /\ consumed \subseteq consumed'
    BY <1>14 DEF Consume
  <2>2. round'.manual = round.manual /\ round'.found = round.found
    BY <1>1, <1>14 DEF Consume, Rounds
  <2>. QED  BY <1>2, <2>1, <2>2 DEF WaitsWhenDrained
<1>15. CASE ConsumeEnd
  <2>1. pc = "consume" /\ pc' = "end" /\ UNCHANGED <<seen, cachedAt, consumed, round>>
    BY <1>15 DEF ConsumeEnd, Go, index
  <2>. QED  BY <1>2, <2>1 DEF WaitsWhenDrained
<1>16. CASE Raise
  <2>1. pc' = "top" \/ (pc' = "sleep" /\ erred' = TRUE)
    BY <1>16 DEF Raise
  <2>. QED  BY <2>1 DEF WaitsWhenDrained
<1>. QED
  BY <1>4, <1>5, <1>6, <1>7, <1>8, <1>10, <1>11, <1>12, <1>13, <1>14, <1>15, <1>16 DEF Next, DaemonSteps

-----------------------------------------------------------------------------
(* The inductive invariant. *)

IInv ==
    /\ Typed /\ Horizons /\ Counted
    /\ RoundShape /\ GoneIsSeen
    /\ CorrectedBefore /\ CaughtUp /\ EditedIsCorrected /\ EditsAreShown
    /\ KeysAreSettled /\ Settled
    /\ WaitsWhenDrained

LEMMA Starting == Init => IInv
<1>. SUFFICES ASSUME Init PROVE IInv
  OBVIOUS
<1>1. Base \in Nat /\ RetryMax \in Nat /\ Len(hub) = 0 /\ Len(hub) \in Nat
  BY Constants DEF Init
<1>2. NoRound \in Rounds /\ NoRound.batch = {} /\ IsFiniteSet({}) /\ NoRound.new = {} /\ NoRound.full = FALSE
  BY FS_EmptySet DEF NoRound, Rounds
<1>3. Typed
  <2>1. hub \in Seq(Entries) /\ jobs \in Seq(BOOLEAN)
    BY DEF Init
  <2>2. IndexTyped
    BY DEF Init, IndexTyped, None
  <2>3. LoopTyped
    <3>1. idle \in [rounds : Nat, interval : Nat]
      BY <1>1 DEF Init, Awake
    <3>. QED  BY <2>1, <3>1 DEF Init, LoopTyped, Steps
  <2>4. round \in Rounds /\ IsFiniteSet(round.batch)
    BY <1>2 DEF Init
  <2>. QED  BY <2>1, <2>2, <2>3, <2>4 DEF Typed, IndexTyped, LoopTyped
<1>4. Horizons /\ Counted
  BY <1>1 DEF Init, Horizons, Counted, Up
<1>5. RoundShape /\ GoneIsSeen
  BY <1>2 DEF Init, RoundShape, GoneIsSeen
<1>6. CorrectedBefore /\ CaughtUp /\ EditedIsCorrected /\ EditsAreShown
  <2>1. Reach = 0
    BY DEF Init, Reach
  <2>. QED  BY <2>1 DEF Init, CorrectedBefore, CaughtUp, PastReplay, EditedIsCorrected, EditsAreShown
<1>7. KeysAreSettled /\ Settled /\ WaitsWhenDrained
  BY DEF Init, KeysAreSettled, Settled, WaitsWhenDrained
<1>. QED  BY <1>3, <1>4, <1>5, <1>6, <1>7 DEF IInv

LEMMA Stepping == IInv /\ [Next]_vars => IInv'
<1>. SUFFICES ASSUME IInv, [Next]_vars PROVE IInv'
  OBVIOUS
<1>1. /\ Typed /\ Horizons /\ Counted /\ RoundShape /\ GoneIsSeen
      /\ CorrectedBefore /\ CaughtUp /\ EditedIsCorrected /\ EditsAreShown
      /\ KeysAreSettled /\ Settled /\ WaitsWhenDrained
  BY DEF IInv
<1>2. Typed' /\ Horizons' /\ Counted'
  BY <1>1, TypedStep, ViewGrows, CountedStep
<1>3. RoundShape' /\ GoneIsSeen'
  BY <1>1, RoundShapeStep, GoneIsSeenStep
<1>4. CorrectedBefore' /\ CaughtUp' /\ EditedIsCorrected' /\ EditsAreShown'
  BY <1>1, CorrectedBeforeStep, CaughtUpStep, EditedIsCorrectedStep, EditsAreShownStep
<1>5. KeysAreSettled' /\ Settled' /\ WaitsWhenDrained'
  BY <1>1, KeysAreSettledStep, SettledStep, WaitsWhenDrainedStep
<1>. QED  BY <1>2, <1>3, <1>4, <1>5 DEF IInv

THEOREM Invariance == Spec => []IInv
BY Starting, Stepping, PTL DEF Spec

-----------------------------------------------------------------------------

\* Every turn marked consumed has its fact in the Index or one of the known
\* reasons to have none, through crashes, exceptions, full rebuilds and
\* users: the order in which clear() deletes and rebuild_from_hub writes.
THEOREM SettledIsForEver == Spec => []ConsumedIsSettled
<1>1. IInv => ConsumedIsSettled
  <2>1. SUFFICES ASSUME IInv, NEW t \in consumed
                 PROVE  \/ facts[t] # None \/ t \in Forgotten(Len(hub))
                        \/ t \in Auxiliary \cup unadded \cup givenUp \cup wiped \/ Skipped(t)
    BY DEF ConsumedIsSettled
  <2>2. facts[t] # None \/ t \in Excused \cup Lost
    BY <2>1 DEF IInv, Settled
  <2>3. Len(hub) \in Nat
    BY <2>1 DEF IInv, Typed
  <2>. QED  BY <2>2, <2>3, WhatIsSaid DEF Excused, Lost
<1>. QED  BY <1>1, Invariance, PTL

\* No outage of the language model, however long or often, burns a turn:
\* what is given up failed RetryMax + 1 times by itself.
THEOREM OutagesBurnNothing == Spec => []OutageBurnsNothing
<1>1. IInv => OutageBurnsNothing
  BY DEF IInv, Counted, OutageBurnsNothing
<1>. QED  BY <1>1, Invariance, PTL

\* What a user entered or corrected, up to the watermark, is in the Index in
\* its last form: neither a round nor a replay puts an older form in place.
THEOREM LabourIsKept == Spec => []LabourKept
<1>1. IInv => LabourKept
  <2>1. SUFFICES ASSUME IInv, pc \notin {"wipe", "restore"}, NEW f \in Facts \ (Forgotten(Len(hub)) \cup wiped), Labour(f) > 0
                 PROVE  facts[f] # None /\ (f \in Turns => facts[f] >= Labour(f))
    BY DEF LabourKept
  <2>2. watermark \in Nat /\ Len(hub) \in Nat /\ Reach \in Nat /\ watermark <= Reach
    BY <2>1 DEF IInv, Typed, Horizons, Reach, Up
  <2>3. Labour(f) \in 1..watermark /\ IsLabour(hub, Labour(f), f) /\ Labour(f) \notin swallowed
    <3>. DEFINE W == Writes(f, {"remember", "correct"}, 0, watermark) \ swallowed
    <3>1. W \subseteq 1..watermark /\ \A i \in W : IsLabour(hub, i, f) /\ i \notin swallowed
      BY <2>2 DEF Writes, IsLabour
    <3>2. W # {}
      <4>1. Labour(f) = Latest(W) /\ Labour(f) # 0
        BY <2>1 DEF Labour
      <4>. HIDE DEF W
      <4>. QED  BY <4>1, LatestOfNone
    <3>3. Latest(W) \in W
      <4>. HIDE DEF W
      <4>. QED  BY <2>2, <3>1, <3>2, LatestIsLast
    <3>. QED  BY <3>1, <3>3 DEF Labour
  <2>4. Labour(f) \in 1..Reach
    BY <2>2, <2>3
  <2>5. ~Said(hub, "forget", f, Len(hub)) /\ f \notin wiped
    BY <2>1, <2>2, WhatIsSaid
  <2>. QED  BY <2>1, <2>3, <2>4, <2>5 DEF IInv, EditsAreShown
<1>. QED  BY <1>1, Invariance, PTL

\* A fact of a turn whose DELETE was answered "deleted" never comes back,
\* from the turn or from a correction that is replayed later.
THEOREM DeletedIsGone == Spec => []DeletedFactStaysGone
<1>1. IInv => DeletedFactStaysGone
  BY DEF IInv, GoneIsSeen, DeletedFactStaysGone
<1>. QED  BY <1>1, Invariance, PTL

\* The daemon's sleep grows past its base interval only when every turn it
\* took note of is consumed or deleted.
THEOREM BackOffIsIdle == Spec => []BacksOffOnlyWhenIdle
<1>1. IInv => BacksOffOnlyWhenIdle
  <2>1. SUFFICES ASSUME IInv, pc = "sleep", ~erred, idle.interval > Base, NEW t \in Stored(seen)
                 PROVE  t \in consumed \cup Deleted(cachedAt)
    BY DEF BacksOffOnlyWhenIdle
  <2>2. /\ seen \in Nat /\ cachedAt \in Nat /\ seen <= Len(hub) /\ Len(hub) \in Nat
        /\ \A i \in 1..Len(hub) : hub[i] \in Entries
    BY <2>1 DEF IInv, Typed, Horizons
  <2>3. Said(hub, "put", t, seen) /\ t \in Facts
    BY <2>1, <2>2, WhatIsSaid
  <2>4. t \in Turns
    BY <2>2, <2>3 DEF Said, Entries
  <2>5. t \in consumed \/ Said(hub, "delete", t, cachedAt)
    BY <2>1, <2>3, <2>4 DEF IInv, WaitsWhenDrained, Drained
  <2>. QED  BY <2>2, <2>3, <2>5, WhatIsSaid
<1>. QED  BY <1>1, Invariance, PTL

=============================================================================
