--------------------------- MODULE ExportSyncProofs ---------------------------
(***************************************************************************)
(* Theorems about ExportSync, for every value of its constants: what is    *)
(* below the cursor is in the vault, what is deleted stays out of it, and  *)
(* the backflow takes for the user's only what the user did.               *)
(*                                                                         *)
(* The three properties speak of a scan or of the time between two runs;   *)
(* IInv says what makes them true in the middle of a run:                  *)
(*   JobShape         what is collected is newer than the cursor on disk,  *)
(*                    and nothing in the Index is newer than the next one  *)
(*   DoneIsGone       so a fact that is done with is never written again   *)
(*   Exported         a run leaves open only what it still has to write    *)
(*   SnapshotIsRight  a line differs from the snapshot, the one on disk    *)
(*                    after a crash, only by what a user typed             *)
(*   EditsAreUsers    and it stays so while the edits wait to be posted    *)
(***************************************************************************)
EXTENDS ExportSync, WellFoundedInduction, TLAPS

Steps == {"down", "boot", "sleep", "round", "due", "post", "collect", "write", "append", "tombs"}
Exporting == pc \in {"write", "append", "tombs"}

\* The functions from some of the facts to S.
Maps(S) == UNION {[D -> S] : D \in SUBSET Facts}
Events == [op : {"set", "delete"}, fact : Facts, text : Nat, at : Nat, by : {"admin", "vault"}]
Edits == [op : {"set", "delete"}, text : Nat]
Jobs == [edits : Maps(Edits), retry : BOOLEAN, batch : Maps(Nat), open : SUBSET Facts, at : SUBSET Facts,
         cursor : Nat, done : SUBSET Nat]
States == [cursor : Nat, done : SUBSET Nat, failed : BOOLEAN]

Typed ==
    /\ clock \in Nat /\ clock >= 1
    /\ events \in Seq(Events)
    /\ index \in Maps([text : Nat, at : Nat])
    /\ replayed \in Nat /\ view \in Nat /\ view <= Len(events)
    /\ vault \in Maps(Nat) /\ snap \in Maps(Nat) /\ saved \in Maps(Nat)
    /\ state \in States /\ st \in States
    /\ pc \in Steps /\ job \in Jobs
    /\ typed \in [Facts -> SUBSET Nat]

\* Nothing bears a time to come, and what is known was written at some time.
Times ==
    /\ \A i \in 1..Len(events) : events[i].at \in 1..clock
    /\ \A f \in Known : index[f].at \in 1..clock
    /\ state.cursor <= clock

\* The state in memory is the one on disk.
InStep == st = IF pc = "down" THEN Fresh ELSE state

\* What a run carries from step to step.
JobShape ==
    /\ pc # "post" => DOMAIN job.edits = {}
    /\ DOMAIN job.edits \subseteq DOMAIN snap
    /\ Exporting =>
        /\ job.cursor <= clock /\ \A f \in Known : index[f].at <= job.cursor
        /\ DOMAIN job.batch \subseteq Known
        /\ \A f \in DOMAIN job.batch : job.batch[f] = index[f].text /\ index[f].at > state.cursor
        /\ job.open \cup job.at \subseteq DOMAIN job.batch
        /\ pc = "tombs" => job.open = {}
        /\ pc # "append" => job.at = {}
        /\ pc # "tombs" => job.done = state.done
        /\ state.done \subseteq job.done

IsTomb(h, n, f) == \E i \in 1..n : h[i].op = "delete" /\ h[i].fact = f

\* What is done with has no line, and none to be written, unless it is stamped anew.
DoneIsGone ==
    /\ \A i \in state.done :
        /\ i \in Tombs(view)
        /\ events[i].fact \notin revived =>
            /\ events[i].fact \notin Lines
            /\ events[i].fact \in Known => index[events[i].fact].at <= state.cursor
    /\ pc = "tombs" =>
        \A i \in job.done \ state.done : i \in Tombs(view) /\ events[i].fact \notin Lines

\* Why a line may be missing, or not be the exporter's.
Missing == {f \in Facts : f \in erased \cup orphans \cup cut \cup behind \/ IsTomb(events, Len(events), f)}

InVault(f) ==
    \/ f \in Lines /\ (vault[f] = index[f].text \/ vault[f] \in typed[f])
    \/ f \notin Lines /\ f \in erased \cup orphans
    \/ f \in cut \cup behind \/ IsTomb(events, Len(events), f)
    \/ f \in late

Exported ==
    /\ \A f \in Known : index[f].at <= state.cursor => InVault(f)
    /\ Exporting => \A f \in Known : f \in job.open \cup job.at \/ InVault(f)

\* The snapshot that the next comparison will use.
Memo == IF pc = "down" THEN saved ELSE snap

\* It is what the exporter wrote, whatever is in the vault now.
SnapshotIsRight ==
    /\ pc # "down" => DOMAIN saved \subseteq DOMAIN snap
    /\ \A f \in DOMAIN Memo :
        \/ f \in Lines /\ (vault[f] = Memo[f] \/ vault[f] \in typed[f] \/ f \in behind)
        \/ f \notin Lines /\ f \in Missing

EditsAreUsers ==
    \A f \in DOMAIN job.edits :
        /\ job.edits[f].op = "delete" => f \in Missing
        /\ job.edits[f].op = "set" =>
              /\ job.edits[f].text \in typed[f] \/ f \in behind
              /\ f \in Lines => vault[f] = job.edits[f].text \/ vault[f] \in typed[f]

IInv ==
    /\ Typed /\ Times /\ InStep /\ JobShape
    /\ DoneIsGone /\ Exported
    /\ SnapshotIsRight /\ EditsAreUsers

-----------------------------------------------------------------------------
(* Maps and numbers. *)

LEMMA MapsAre ==
  ASSUME NEW S, NEW m
  PROVE  m \in Maps(S) <=> DOMAIN m \subseteq Facts /\ m \in [DOMAIN m -> S]
BY DEF Maps

LEMMA MapAt ==
  ASSUME NEW S, NEW m \in Maps(S), NEW f \in DOMAIN m
  PROVE  m[f] \in S /\ f \in Facts
BY MapsAre

LEMMA EmptyMap ==
  ASSUME NEW S
  PROVE  <<>> \in Maps(S) /\ DOMAIN <<>> = {}
<1>1. DOMAIN <<>> = {}
  OBVIOUS
<1>2. <<>> \in [{} -> S]
  OBVIOUS
<1>. QED  BY <1>1, <1>2 DEF Maps

LEMMA WithAt ==
  ASSUME NEW m, NEW f, NEW text
  PROVE  DOMAIN With(m, f, text) = DOMAIN m \cup {f}
BY DEF With

LEMMA WithoutAt ==
  ASSUME NEW m, NEW f
  PROVE  /\ DOMAIN Without(m, f) = DOMAIN m \ {f}
         /\ \A g \in DOMAIN m : g # f => Without(m, f)[g] = m[g]
BY DEF Without, Restrict

LEMMA WithIn ==
  ASSUME NEW S, NEW m \in Maps(S), NEW f \in Facts, NEW text \in S
  PROVE  With(m, f, text) \in Maps(S) /\ Without(m, f) \in Maps(S)
<1>1. DOMAIN m \subseteq Facts /\ m \in [DOMAIN m -> S]
  BY MapsAre
<1>2. With(m, f, text) \in [DOMAIN m \cup {f} -> S]
  <2>. DEFINE e(g) == IF g = f THEN text ELSE m[g]
  <2>1. \A g \in DOMAIN m \cup {f} : e(g) \in S
    BY <1>1
  <2>2. With(m, f, text) = [g \in DOMAIN m \cup {f} |-> e(g)]
    BY DEF With
  <2>. HIDE DEF e
  <2>. QED  BY <2>1, <2>2
<1>3. Without(m, f) \in [DOMAIN m \ {f} -> S]
  BY <1>1 DEF Without, Restrict
<1>4. DOMAIN m \cup {f} \subseteq Facts /\ DOMAIN m \ {f} \subseteq Facts
  BY <1>1
<1>. QED  BY <1>2, <1>3, <1>4 DEF Maps

LEMMA WithoutIn ==
  ASSUME NEW S, NEW m \in Maps(S), NEW f
  PROVE  Without(m, f) \in Maps(S)
<1>1. DOMAIN m \subseteq Facts /\ m \in [DOMAIN m -> S]
  BY MapsAre
<1>2. Without(m, f) \in [DOMAIN m \ {f} -> S]
  BY <1>1 DEF Without, Restrict
<1>. QED  BY <1>1, <1>2 DEF Maps

LEMMA RestrictIn ==
  ASSUME NEW S, NEW m \in Maps(S), NEW D, D \subseteq DOMAIN m
  PROVE  Restrict(m, D) \in Maps(S) /\ DOMAIN Restrict(m, D) = D /\ \A f \in D : Restrict(m, D)[f] = m[f]
<1>1. DOMAIN m \subseteq Facts /\ m \in [DOMAIN m -> S]
  BY MapsAre
<1>2. Restrict(m, D) \in [D -> S]
  BY <1>1 DEF Restrict
<1>. QED  BY <1>1, <1>2 DEF Maps, Restrict

LEMMA MinNat ==
  ASSUME NEW T, T \subseteq Nat, T # {}
  PROVE  \E x \in T : \A y \in T : ~(y < x)
<1>1. \E x \in T : \A y \in T : ~(<<y, x>> \in OpToRel(<, Nat))
  BY NatLessThanWellFounded, WFMin
<1>. QED  BY <1>1 DEF OpToRel

\* A bounded set of numbers has a greatest one.
LEMMA MaxIsLast ==
  ASSUME NEW n \in Nat, NEW S, S \subseteq 0..n, S # {}
  PROVE  Max(S) \in S /\ \A j \in S : j <= Max(S)
<1>. DEFINE T == {n - i : i \in S}
<1>1. T \subseteq Nat /\ T # {}
  <2>1. \A i \in S : i \in 0..n /\ n - i \in Nat
    OBVIOUS
  <2>. QED  BY <2>1
<1>2. PICK x \in T : \A y \in T : ~(y < x)
  BY <1>1, MinNat
<1>3. PICK i \in S : x = n - i
  BY <1>2
<1>4. ASSUME NEW j \in S PROVE i >= j
  <2>1. n - j \in T /\ j \in 0..n /\ i \in 0..n
    BY <1>3
  <2>2. ~(n - j < n - i)
    BY <1>2, <1>3, <2>1
  <2>. QED  BY <2>1, <2>2
<1>5. Max(S) \in S /\ \A j \in S : Max(S) >= j
  BY <1>3, <1>4 DEF Max
<1>. QED  BY <1>5

-----------------------------------------------------------------------------
(* The Hub. *)

LEMMA FactsAndPages ==
    /\ Home \in [Facts -> Pages] /\ Early \subseteq Facts
  BY ExportAssumption DEF ExportAssumption

\* An event is appended with the time it was written at.
Appends == \E e \in Events : e.at = clock' /\ clock' = clock + 1 /\ events' = Append(events, e)

LEMMA WhoAppends ==
  ASSUME Typed, [Next]_vars
  PROVE  \/ Appends
         \/ UNCHANGED hub
         \/ UNCHANGED events /\ clock' = clock + 1 /\ UNCHANGED state
<1>1. clock \in Nat
  BY DEF Typed
<1>2. ASSUME NEW f \in Facts, Correct(f) \/ Forget(f) PROVE Appends
  BY <1>1, <1>2 DEF Correct, Forget, Append1, Appends, Events
<1>3. ASSUME NEW f \in DOMAIN job.edits, Record(f, job.edits[f]) PROVE Appends \/ UNCHANGED hub
  <2>1. f \in Facts /\ job.edits[f] \in Edits
    BY MapsAre DEF Typed, Jobs
  <2>. QED  BY <1>1, <1>3, <2>1 DEF Record, Append1, Appends, Events, Edits
<1>4. ASSUME NEW f, Post(f) \/ PostFails(f) PROVE Appends \/ UNCHANGED hub
  BY <1>3, <1>4 DEF Post, PostFails
<1>5. ASSUME NEW f, Type(f) PROVE UNCHANGED <<events, state>> /\ clock' = clock + 1
  BY <1>5 DEF Type
<1>6. ASSUME NEW news, Round(news) PROVE UNCHANGED hub \/ (UNCHANGED <<events, state>> /\ clock' = clock + 1)
  BY <1>6 DEF Round, files, hub
<1>7. ASSUME NEW x, Erase(x) \/ TakeAway(x) \/ RemoveLine(x) \/ AppendLine(x) \/ HandleTombstone(x) PROVE UNCHANGED hub
  BY <1>7 DEF Erase, TakeAway, RemoveLine, AppendLine, HandleTombstone
<1>8. Collect \/ SaveSnapshot \/ Finish \/ Fail \/ Fetch \/ RoundRaises \/ Wake \/ Skip \/ Scan \/ PostsEnd
      \/ Crash \/ Start \/ UNCHANGED vars => UNCHANGED hub
  BY DEF Collect, SaveSnapshot, Finish, Fail, Fetch, RoundRaises, Wake, Skip, Scan, PostsEnd, Crash, Start, vars
<1>. QED
  BY <1>2, <1>4, <1>5, <1>6, <1>7, <1>8 DEF Next, Users, Consolidator, Export

LEMMA HubGrows ==
  ASSUME Typed, [Next]_vars
  PROVE  /\ events' \in Seq(Events) /\ clock \in Nat /\ clock' \in Nat /\ clock' \in {clock, clock + 1}
         /\ Len(events) \in Nat /\ Len(events') \in Nat /\ Len(events) <= Len(events')
         /\ Len(events') <= Len(events) + 1
         /\ \A i \in 1..Len(events) : events'[i] = events[i]
         /\ \A i \in 1..Len(events') : i \in 1..Len(events) \/ (clock' = clock + 1 /\ events'[i].at = clock')
<1>1. events \in Seq(Events) /\ clock \in Nat /\ Len(events) \in Nat
  BY DEF Typed
<1>. QED  BY <1>1, WhoAppends DEF Appends, hub

LEMMA TombStays ==
  ASSUME Typed, [Next]_vars, NEW f, NEW n \in Nat, n <= Len(events)
  PROVE  IsTomb(events', n, f) <=> IsTomb(events, n, f)
<1>1. \A i \in 1..n : events'[i] = events[i]
  BY HubGrows
<1>. QED  BY <1>1 DEF IsTomb

LEMMA TombGrows ==
  ASSUME NEW h, NEW f, NEW m \in Nat, NEW n \in Nat, m <= n, IsTomb(h, m, f)
  PROVE  IsTomb(h, n, f)
BY DEF IsTomb

LEMMA TombForEver ==
  ASSUME Typed, [Next]_vars, NEW f, IsTomb(events, Len(events), f)
  PROVE  IsTomb(events', Len(events'), f)
BY HubGrows, TombStays, TombGrows

LEMMA WhatIsDeleted ==
  ASSUME NEW n \in Nat, NEW f
  PROVE  f \in Deleted(n) <=> IsTomb(events, n, f)
BY DEF Deleted, FactsOf, Tombs, IsTomb

\* The Index changes in a round only.
LEMMA WhoIndexes ==
  ASSUME [Next]_vars
  PROVE  UNCHANGED memory \/ \E news \in SUBSET Facts : Round(news)
<1>1. ASSUME NEW f, Correct(f) \/ Forget(f) \/ Type(f) \/ Erase(f) \/ TakeAway(f) \/ Post(f) \/ PostFails(f)
                    \/ RemoveLine(f) \/ AppendLine(f) \/ HandleTombstone(f)
      PROVE  UNCHANGED memory
  BY <1>1 DEF Correct, Forget, Type, Erase, TakeAway, Post, PostFails, RemoveLine, AppendLine, HandleTombstone
<1>2. Collect \/ SaveSnapshot \/ Finish \/ Fail \/ Fetch \/ RoundRaises \/ Wake \/ Skip \/ Scan \/ PostsEnd
      \/ Crash \/ Start \/ UNCHANGED vars => UNCHANGED memory
  BY DEF Collect, SaveSnapshot, Finish, Fail, Fetch, RoundRaises, Wake, Skip, Scan, PostsEnd, Crash, Start, vars
<1>. QED
  BY <1>1, <1>2 DEF Next, Users, Consolidator, Export

\* What a round makes of the Index.
LEMMA RoundIndexes ==
  ASSUME Typed, Times, NEW news \in SUBSET Facts, Round(news)
  PROVE  /\ index' \in Maps([text : Nat, at : Nat]) /\ replayed' \in Nat
         /\ \A f \in DOMAIN index' :
               /\ index'[f].at \in 1..clock'
               /\ \/ f \in Known /\ index'[f] = index[f] /\ (f \in late' <=> f \in late)
                  \/ index'[f].at > st.cursor
                  \/ f \in late'
                  \/ index'[f].at = clock' /\ clock' = clock + 1
         /\ revived \subseteq revived'
         /\ \A f \in FactsOf(st.done) \cap Deleted(view) :
               f \in DOMAIN index' => f \in revived' \/ (f \in Known /\ index'[f] = index[f])
<1>. DEFINE gone == Deleted(view)
            set == {f \in Facts \ gone : LastSet(f, replayed, view) # 0}
            kept == Known \cup set
            now(f) == IF f \in news THEN [text |-> 0, at |-> clock']
                      ELSE IF f \in set THEN SetAt(LastSet(f, replayed, view)) ELSE index[f]
<1>1. /\ news \cap (kept \cup gone) = {}
      /\ clock' = IF news = {} THEN clock ELSE clock + 1
      /\ replayed' = view /\ UNCHANGED st
  BY DEF Round
<1>2. \E touched \in SUBSET kept :
        /\ news = {} => touched = {}
        /\ index' = [f \in kept \cup news |->
                        IF f \in touched THEN [text |-> now(f).text, at |-> clock'] ELSE now(f)]
        /\ late' = (late \ (set \cup news \cup touched)) \cup {f \in set : index'[f].at <= st.cursor}
        /\ revived' = revived \cup (touched \cap FactsOf(st.done))
  <2>. DEFINE was(f) == CASE f \in news -> [text |-> 0, at |-> clock']
                          [] f \in set  -> SetAt(LastSet(f, replayed, view))
                          [] OTHER      -> index[f]
  <2>1. PICK touched \in SUBSET kept :
          /\ news = {} => touched = {}
          /\ index' = [f \in kept \cup news |->
                          IF f \in touched THEN [text |-> was(f).text, at |-> clock'] ELSE was(f)]
          /\ late' = (late \ (set \cup news \cup touched)) \cup {f \in set : index'[f].at <= st.cursor}
          /\ revived' = revived \cup (touched \cap FactsOf(st.done))
    BY DEF Round
  <2>2. \A f \in kept \cup news : was(f) = now(f)
    <3>. HIDE DEF set, gone
    <3>. QED  BY <1>1
  <2>. HIDE DEF was, now, set, gone, kept
  <2>. QED  BY <2>1, <2>2
<1>3. PICK touched \in SUBSET kept :
        /\ news = {} => touched = {}
        /\ index' = [f \in kept \cup news |->
                        IF f \in touched THEN [text |-> now(f).text, at |-> clock'] ELSE now(f)]
        /\ late' = (late \ (set \cup news \cup touched)) \cup {f \in set : index'[f].at <= st.cursor}
        /\ revived' = revived \cup (touched \cap FactsOf(st.done))
  BY <1>2
<1>4. clock \in Nat /\ clock >= 1 /\ view \in Nat /\ replayed \in Nat /\ view <= Len(events)
      /\ \A i \in 1..Len(events) : events[i] \in Events /\ events[i].at \in 1..clock
  BY DEF Typed, Times
<1>5. ASSUME NEW f \in set
      PROVE  SetAt(LastSet(f, replayed, view)) \in [text : Nat, at : Nat] /\ SetAt(LastSet(f, replayed, view)).at \in 1..clock
  <2>. DEFINE is == {i \in replayed + 1 .. view : events[i].op = "set" /\ events[i].fact = f}
  <2>1. LastSet(f, replayed, view) = IF is = {} THEN 0 ELSE Max(is)
    BY DEF LastSet
  <2>2. is # {} /\ is \subseteq 0..view
    BY <1>4, <1>5, <2>1
  <2>3. Max(is) \in is
    <3>. HIDE DEF is
    <3>. QED  BY <1>4, <2>2, MaxIsLast
  <2>4. LastSet(f, replayed, view) \in 1..Len(events)
    BY <1>4, <2>1, <2>2, <2>3
  <2>. QED  BY <1>4, <2>4 DEF SetAt, Events
<1>6. Known \subseteq Facts /\ \A f \in Known : index[f] \in [text : Nat, at : Nat] /\ index[f].at \in 1..clock
  <2>1. DOMAIN index \subseteq Facts /\ index \in [DOMAIN index -> [text : Nat, at : Nat]]
    BY MapsAre DEF Typed
  <2>2. \A f \in Known : index[f].at \in 1..clock
    BY DEF Times
  <2>. QED  BY <2>1, <2>2 DEF Known
<1>7. clock' \in Nat /\ clock' >= clock /\ (news # {} => clock' = clock + 1)
  BY <1>1, <1>4
<1>8. kept \cup news \subseteq Facts /\ kept = Known \cup set
  BY <1>6
<1>9. \A f \in set : f \notin gone
  OBVIOUS
<1>10. ASSUME NEW f \in kept \cup news
       PROVE  now(f) \in [text : Nat, at : Nat] /\ now(f).at \in 1..clock'
  <2>1. CASE f \in news
    BY <1>4, <1>7, <2>1
  <2>2. CASE f \in set /\ f \notin news
    <3>1. now(f) = SetAt(LastSet(f, replayed, view))
      BY <2>2
    <3>. HIDE DEF now, gone, set
    <3>. QED  BY <1>4, <1>5, <1>7, <2>2, <3>1
  <2>3. CASE f \notin set /\ f \notin news
    <3>1. now(f) = index[f] /\ f \in Known
      BY <1>10, <2>3
    <3>. HIDE DEF now, gone, set
    <3>. QED  BY <1>4, <1>6, <1>7, <3>1
  <2>. QED  BY <2>1, <2>2, <2>3
<1>11. \A f \in kept \cup news : f \notin news /\ f \notin set => f \in Known /\ now(f) = index[f]
  OBVIOUS
<1>12. \A f \in news : now(f).at = clock'
  OBVIOUS
<1>. HIDE DEF now, gone, set, kept
<1>13. /\ DOMAIN index' = kept \cup news
       /\ \A f \in kept \cup news :
             index'[f] = IF f \in touched THEN [text |-> now(f).text, at |-> clock'] ELSE now(f)
  BY <1>3
<1>14. ASSUME NEW f \in DOMAIN index'
       PROVE  index'[f] \in [text : Nat, at : Nat] /\ index'[f].at \in 1..clock'
  <2>1. CASE f \in touched
    <3>1. index'[f] = [text |-> now(f).text, at |-> clock'] /\ now(f) \in [text : Nat, at : Nat]
      BY <1>10, <1>13, <1>14, <2>1
    <3>. QED  BY <1>4, <1>7, <3>1
  <2>2. CASE f \notin touched
    BY <1>10, <1>13, <1>14, <2>2
  <2>. QED  BY <2>1, <2>2
<1>15. index' \in Maps([text : Nat, at : Nat])
  <2>1. index' = [f \in DOMAIN index' |-> index'[f]]
    BY <1>3, <1>13
  <2>. QED  BY <1>8, <1>13, <1>14, <2>1 DEF Maps
<1>16. st.cursor \in Nat
  BY DEF Typed, States
<1>17. ASSUME NEW f \in DOMAIN index'
       PROVE  \/ f \in Known /\ index'[f] = index[f] /\ (f \in late' <=> f \in late)
              \/ index'[f].at > st.cursor
              \/ f \in late'
              \/ index'[f].at = clock' /\ clock' = clock + 1
  <2>1. CASE f \in touched
    <3>1. news # {} /\ index'[f].at = clock'
      BY <1>3, <1>13, <1>17, <2>1
    <3>. QED  BY <1>7, <3>1
  <2>2. CASE f \in news /\ f \notin touched
    <3>1. index'[f].at = clock' /\ news # {}
      BY <1>12, <1>13, <1>17, <2>2
    <3>. QED  BY <1>7, <3>1
  <2>3. CASE f \in set
    <3>1. index'[f].at <= st.cursor => f \in late'
      BY <1>3, <2>3
    <3>2. index'[f].at \in Nat
      BY <1>14, <1>17
    <3>. QED  BY <1>16, <3>1, <3>2
  <2>4. CASE f \notin set /\ f \notin news /\ f \notin touched
    <3>1. f \in Known /\ index'[f] = index[f]
      BY <1>11, <1>13, <1>17, <2>4
    <3>2. f \in late' <=> f \in late
      BY <1>3, <2>4
    <3>. QED  BY <3>1, <3>2
  <2>. QED  BY <2>1, <2>2, <2>3, <2>4
<1>18. ASSUME NEW f \in FactsOf(st.done) \cap gone, f \in DOMAIN index'
       PROVE  f \in revived' \/ (f \in Known /\ index'[f] = index[f])
  <2>1. f \notin set /\ f \notin news
    BY <1>1, <1>9, <1>18
  <2>2. f \in touched => f \in revived'
    BY <1>3, <1>18
  <2>. QED  BY <1>11, <1>13, <1>18, <2>1, <2>2
<1>19. replayed' \in Nat /\ revived \subseteq revived'
  BY <1>1, <1>3, <1>4
<1>. QED  BY <1>14, <1>15, <1>17, <1>18, <1>19 DEF gone

-----------------------------------------------------------------------------
(* Types. *)

\* The files, and what users typed into them.
Written == vault \in Maps(Nat) /\ snap \in Maps(Nat) /\ saved \in Maps(Nat) /\ typed \in [Facts -> SUBSET Nat]

LEMMA FilesTyped ==
  ASSUME Typed, JobShape, [Next]_vars
  PROVE  Written'
<1>1. /\ vault \in Maps(Nat) /\ snap \in Maps(Nat) /\ saved \in Maps(Nat) /\ typed \in [Facts -> SUBSET Nat]
      /\ job \in Jobs /\ clock' \in Nat
  BY HubGrows DEF Typed
<1>2. /\ \A f \in Facts, m \in Maps(Nat), n \in Nat : With(m, f, n) \in Maps(Nat) /\ Without(m, f) \in Maps(Nat)
  BY WithIn
<1>3. DOMAIN vault \subseteq Facts /\ DOMAIN snap \subseteq Facts
  BY <1>1, MapsAre
<1>4. ASSUME UNCHANGED <<vault, snap, saved, typed>> PROVE Written'
  BY <1>1, <1>4 DEF Written
<1>5. ASSUME NEW f \in Facts, Type(f) PROVE Written'
  BY <1>1, <1>2, <1>5 DEF Type, worker, Written
<1>6. ASSUME NEW f \in Facts, Erase(f) PROVE Written'
  BY <1>1, <1>2, <1>6 DEF Erase, worker, Written
<1>7. ASSUME NEW p, TakeAway(p) PROVE Written'
  <2>1. vault' = Restrict(vault, Lines \ OnPage(p)) /\ UNCHANGED <<snap, saved, typed>>
    BY <1>7 DEF TakeAway, worker
  <2>2. Restrict(vault, Lines \ OnPage(p)) \in Maps(Nat)
    BY <1>1, RestrictIn DEF Lines
  <2>. QED  BY <1>1, <2>1, <2>2 DEF Written
<1>8. ASSUME NEW f \in Facts, Post(f) PROVE Written'
  <2>1. job.edits[f].text \in Nat
    <3>1. job.edits \in Maps(Edits) /\ f \in DOMAIN job.edits
      BY <1>1, <1>8 DEF Jobs, Post
    <3>2. job.edits[f] \in Edits
      BY <3>1, MapAt
    <3>. QED  BY <3>2 DEF Edits
  <2>2. Acked(f, job.edits[f]) \in Maps(Nat)
    BY <1>1, <1>2, <2>1 DEF Acked
  <2>. QED  BY <1>1, <1>8, <2>2 DEF Post, Written
<1>9. ASSUME NEW f \in Facts, RemoveLine(f) PROVE Written'
  BY <1>1, <1>2, <1>9 DEF RemoveLine, Written
<1>10. ASSUME NEW f \in Facts, AppendLine(f) PROVE Written'
  <2>1. job.batch[f] \in Nat
    <3>1. f \in DOMAIN job.batch
      BY <1>10 DEF AppendLine, JobShape, Exporting
    <3>. QED  BY <1>1, <3>1, MapsAre DEF Jobs
  <2>. QED  BY <1>1, <1>2, <1>10, <2>1 DEF AppendLine, Noted, Written
<1>11. ASSUME NEW f \in Facts, HandleTombstone(f) PROVE Written'
  BY <1>1, <1>2, <1>11 DEF HandleTombstone, WithoutLine, history, Written
<1>12. CASE Crash
  <2>1. \E lost \in SUBSET Lines : vault' = Restrict(vault, Lines \ lost)
    BY <1>12 DEF Crash
  <2>2. snap' = <<>> /\ UNCHANGED <<saved, typed>>
    BY <1>12 DEF Crash
  <2>3. \A lost \in SUBSET Lines : Restrict(vault, Lines \ lost) \in Maps(Nat)
    BY <1>1, RestrictIn DEF Lines
  <2>. QED  BY <1>1, <2>1, <2>2, <2>3, EmptyMap DEF Written
<1>13. CASE Start
  BY <1>1, <1>13 DEF Start, files, history, Written
<1>14. CASE SaveSnapshot
  BY <1>1, <1>14 DEF SaveSnapshot, history, Written
<1>15. ASSUME NEW x, Correct(x) \/ Forget(x) \/ Round(x) \/ PostFails(x) PROVE UNCHANGED <<vault, snap, saved, typed>>
  BY <1>15 DEF Correct, Forget, Round, PostFails, files, worker, history
<1>16. Collect \/ Finish \/ Fail \/ Fetch \/ RoundRaises \/ Wake \/ Skip \/ Scan \/ PostsEnd \/ UNCHANGED vars
       => UNCHANGED <<vault, snap, saved, typed>>
  BY DEF Collect, Finish, Fail, Fetch, RoundRaises, Wake, Skip, Scan, PostsEnd, vars, files, worker, history
<1>. QED
  BY <1>4, <1>5, <1>6, <1>7, <1>8, <1>9, <1>10, <1>11, <1>12, <1>13, <1>14, <1>15, <1>16
     DEF Next, Users, Consolidator, Export

\* The new cursor is that of the last fact.
LEMMA CursorIsLast ==
  ASSUME Typed, Times, st.cursor <= clock
  PROVE  NewCursor \in Nat /\ NewCursor <= clock /\ \A f \in Known : index[f].at <= NewCursor
<1>1. clock \in Nat /\ st.cursor \in 0..clock
  BY DEF Typed, States
<1>2. \A f \in Known : index[f].at \in 1..clock
  BY DEF Times
<1>. DEFINE S == {st.cursor} \cup {index[f].at : f \in Newer}
<1>3. S \subseteq 0..clock /\ S # {}
  BY <1>1, <1>2 DEF Newer
<1>4. Max(S) \in S /\ \A j \in S : j <= Max(S)
  <2>. HIDE DEF S
  <2>. QED  BY <1>1, <1>3, MaxIsLast
<1>5. NewCursor = Max(S)
  BY DEF NewCursor
<1>6. NewCursor \in 0..clock
  <2>. HIDE DEF S
  <2>. QED  BY <1>3, <1>4, <1>5
<1>7. ASSUME NEW f \in Known PROVE index[f].at <= NewCursor
  <2>1. st.cursor <= NewCursor /\ (f \in Newer => index[f].at <= NewCursor)
    BY <1>4, <1>5
  <2>. QED  BY <1>1, <1>2, <1>6, <2>1 DEF Newer
<1>. QED  BY <1>1, <1>6, <1>7

\* What a run collects.
LEMMA WhatIsCollected ==
  ASSUME Typed, Times, st.cursor <= clock, Collect
  PROVE  /\ job' \in Jobs /\ job'.edits = <<>> /\ job'.cursor = NewCursor /\ job'.done = st.done
         /\ job'.open = Newer /\ job'.at = {} /\ DOMAIN job'.batch = Newer
         /\ \A f \in Newer : job'.batch[f] = index[f].text
<1>. DEFINE batch == [f \in Newer |-> index[f].text]
<1>1. NoJob \in Jobs
  BY EmptyMap DEF NoJob, Jobs
<1>2. batch \in Maps(Nat) /\ Newer \subseteq Facts
  <2>1. \A f \in Known : f \in Facts /\ index[f] \in [text : Nat, at : Nat]
    BY MapAt DEF Known, Typed
  <2>2. Newer \subseteq Facts /\ \A f \in Newer : index[f].text \in Nat
    BY <2>1 DEF Newer
  <2>3. batch \in [Newer -> Nat]
    BY <2>2
  <2>. QED  BY <2>2, <2>3 DEF Maps
<1>3. NewCursor \in Nat /\ st.done \in SUBSET Nat
  BY CursorIsLast DEF Typed, States
<1>4. job' = [NoJob EXCEPT !.batch = batch, !.open = Newer, !.cursor = NewCursor, !.done = st.done]
  BY DEF Collect
<1>5. DOMAIN batch = Newer /\ \A f \in Newer : batch[f] = index[f].text
  OBVIOUS
<1>6. NoJob.edits = <<>> /\ NoJob.at = {}
  BY DEF NoJob
<1>. HIDE DEF batch
<1>7. /\ job' \in Jobs /\ job'.edits = NoJob.edits /\ job'.cursor = NewCursor /\ job'.done = st.done
      /\ job'.open = Newer /\ job'.at = NoJob.at /\ job'.batch = batch
  BY <1>1, <1>2, <1>3, <1>4 DEF Jobs
<1>. QED  BY <1>5, <1>6, <1>7

LEMMA JobTyped ==
  ASSUME Typed, Times, st.cursor <= clock, [Next]_vars
  PROVE  job' \in Jobs
<1>1. /\ job \in Jobs /\ vault \in Maps(Nat) /\ index \in Maps([text : Nat, at : Nat]) /\ snap \in Maps(Nat)
      /\ st \in States
  BY DEF Typed
<1>2. NoJob \in Jobs
  BY EmptyMap DEF NoJob, Jobs
<1>3. job.edits \in Maps(Edits) /\ \A f \in Facts : Without(job.edits, f) \in Maps(Edits)
  <2>1. job.edits \in Maps(Edits)
    BY <1>1 DEF Jobs
  <2>2. \A f \in Facts : Without(job.edits, f) \in Maps(Edits)
    BY <2>1, WithoutIn
  <2>. QED  BY <2>1, <2>2
<1>4. ASSUME NEW f \in Facts, Post(f) \/ PostFails(f) PROVE job' \in Jobs
  BY <1>1, <1>3, <1>4 DEF Post, PostFails, Answered, Retried, Jobs
<1>5. CASE Scan
  <2>1. EditsFound \in Maps(Edits)
    <3>. DEFINE vanished == Observable \ Lines
                changed  == {f \in Observable \cap Lines : vault[f] # snap[f]}
                dropped  == IF Cardinality(vanished) > MaxVanished THEN {} ELSE vanished
                e(f) == IF f \in dropped THEN [op |-> "delete", text |-> 0] ELSE [op |-> "set", text |-> vault[f]]
    <3>1. EditsFound = [f \in changed \cup dropped |-> e(f)]
      BY DEF EditsFound
    <3>2. changed \subseteq Lines /\ changed \cup dropped \subseteq DOMAIN snap
      BY DEF Observable
    <3>3. \A f \in changed \cup dropped : e(f) \in Edits
      <4>1. \A f \in changed : vault[f] \in Nat
        BY <1>1, <3>2, MapAt DEF Lines
      <4>. HIDE DEF changed, dropped
      <4>. QED  BY <4>1 DEF Edits
    <3>4. DOMAIN snap \subseteq Facts
      BY <1>1, MapAt
    <3>. HIDE DEF changed, dropped, e
    <3>. QED  BY <3>1, <3>2, <3>3, <3>4 DEF Maps
  <2>2. job' = [NoJob EXCEPT !.edits = EditsFound]
    BY <1>5 DEF Scan
  <2>. QED  BY <1>2, <2>1, <2>2 DEF Jobs
<1>6. CASE Collect
  BY <1>6, WhatIsCollected
<1>7. ASSUME NEW f \in Facts, RemoveLine(f) \/ AppendLine(f) \/ HandleTombstone(f) PROVE job' \in Jobs
  <2>1. CASE RemoveLine(f)
    BY <1>1, <2>1 DEF RemoveLine, Jobs
  <2>2. CASE AppendLine(f)
    BY <1>1, <2>2 DEF AppendLine, Jobs
  <2>3. CASE HandleTombstone(f)
    <3>1. \E i \in Nat : job' = [job EXCEPT !.done = @ \cup {i}] /\ job.done \cup {i} \subseteq Nat
      <4>1. PICK i \in Pending : job' = [job EXCEPT !.done = @ \cup {i}]
        BY <2>3 DEF HandleTombstone
      <4>2. view \in Nat /\ i \in 1..view
        BY <4>1 DEF Typed, Pending, Tombs
      <4>3. i \in Nat /\ job.done \subseteq Nat
        BY <1>1, <4>2 DEF Jobs
      <4>. QED  BY <4>1, <4>3
    <3>. QED  BY <1>1, <3>1 DEF Jobs
  <2>. QED  BY <1>7, <2>1, <2>2, <2>3
<1>8. CASE Finish \/ Fail \/ Crash
  BY <1>2, <1>8 DEF Finish, Fail, Leave, Crash
<1>9. ASSUME NEW x, Correct(x) \/ Forget(x) \/ Type(x) \/ Erase(x) \/ TakeAway(x) \/ Round(x) PROVE UNCHANGED job
  BY <1>9 DEF Correct, Forget, Type, Erase, TakeAway, Round, worker
<1>10. SaveSnapshot \/ Fetch \/ RoundRaises \/ Wake \/ Skip \/ PostsEnd \/ Start \/ UNCHANGED vars => UNCHANGED job
  BY DEF SaveSnapshot, Fetch, RoundRaises, Wake, Skip, PostsEnd, Start, vars, worker
<1>. QED
  BY <1>1, <1>4, <1>5, <1>6, <1>7, <1>8, <1>9, <1>10 DEF Next, Users, Consolidator, Export

LEMMA StateTyped ==
  ASSUME Typed, [Next]_vars
  PROVE  state' \in States /\ st' \in States /\ pc' \in Steps /\ view' \in Nat /\ view' <= Len(events') /\ view <= view'
<1>1. state \in States /\ st \in States /\ pc \in Steps /\ job \in Jobs /\ view \in Nat /\ view <= Len(events)
      /\ Len(events) \in Nat /\ Len(events') \in Nat /\ Len(events) <= Len(events')
  BY HubGrows DEF Typed
<1>2. Fresh \in States
  BY DEF Fresh, States
<1>3. ASSUME UNCHANGED <<view, state, st>>, pc' \in Steps
      PROVE  state' \in States /\ st' \in States /\ pc' \in Steps /\ view' \in Nat /\ view' <= Len(events') /\ view <= view'
  BY <1>1, <1>3
<1>4. CASE Finish \/ Fail
  <2>1. Failed \in States /\ [cursor |-> job.cursor, done |-> job.done, failed |-> FALSE] \in States
    BY <1>1 DEF Failed, States, Jobs
  <2>2. st' \in States /\ state' \in States /\ pc' = "sleep" /\ view' = view
    <3>1. CASE Finish
      BY <2>1, <3>1 DEF Finish, Leave
    <3>2. CASE Fail
      BY <2>1, <3>2 DEF Fail, Leave
    <3>. QED  BY <1>4, <3>1, <3>2
  <2>. QED  BY <1>1, <2>2 DEF Steps
<1>5. CASE Crash \/ Start \/ Fetch
  BY <1>1, <1>2, <1>5 DEF Crash, Start, Fetch, Steps, files
<1>6. ASSUME NEW x, Correct(x) \/ Forget(x) \/ Type(x) \/ Erase(x) \/ TakeAway(x)
      PROVE  UNCHANGED <<view, state, st, pc>>
  BY <1>6 DEF Correct, Forget, Type, Erase, TakeAway, worker, files
<1>7. ASSUME NEW x, Round(x) \/ Post(x) \/ PostFails(x) \/ RemoveLine(x) \/ AppendLine(x) \/ HandleTombstone(x)
      PROVE  UNCHANGED <<view, state, st>> /\ pc' \in Steps
  BY <1>1, <1>7 DEF Round, Post, PostFails, RemoveLine, AppendLine, HandleTombstone, files, Steps
<1>8. CASE Collect \/ SaveSnapshot \/ RoundRaises \/ Wake \/ Skip \/ Scan \/ PostsEnd
  BY <1>3, <1>8 DEF Collect, SaveSnapshot, RoundRaises, Wake, Skip, Scan, PostsEnd, files, Steps
<1>9. UNCHANGED vars => UNCHANGED <<view, state, st, pc>>
  BY DEF vars, worker, files
<1>. QED
  BY <1>1, <1>3, <1>4, <1>5, <1>6, <1>7, <1>8, <1>9 DEF Next, Users, Consolidator, Export

LEMMA TypedStep ==
  ASSUME Typed, Times, InStep, JobShape, [Next]_vars
  PROVE  Typed'
<1>1. st.cursor <= clock
  BY DEF InStep, Fresh, Times, Typed
<1>2. clock' \in Nat /\ clock' >= 1
  BY HubGrows DEF Typed
<1>3. index' \in Maps([text : Nat, at : Nat]) /\ replayed' \in Nat
  BY WhoIndexes, RoundIndexes DEF Typed, memory
<1>. QED  BY <1>1, <1>2, <1>3, HubGrows, FilesTyped, JobTyped, StateTyped DEF Typed, Written

LEMMA TimesStep ==
  ASSUME Typed, Times, InStep, JobShape, [Next]_vars
  PROVE  Times'
<1>1. clock \in Nat /\ clock' \in Nat /\ clock <= clock' /\ clock >= 1
  BY HubGrows DEF Typed
<1>2. \A i \in 1..Len(events') : events'[i].at \in 1..clock'
  <2>1. SUFFICES ASSUME NEW i \in 1..Len(events') PROVE events'[i].at \in 1..clock'
    OBVIOUS
  <2>2. CASE i \in 1..Len(events)
    BY <1>1, <2>2, HubGrows DEF Times
  <2>3. CASE i \notin 1..Len(events)
    BY <1>1, <2>3, HubGrows
  <2>. QED  BY <2>2, <2>3
<1>3. \A f \in DOMAIN index' : index'[f].at \in 1..clock'
  <2>1. CASE UNCHANGED memory
    BY <1>1, <2>1 DEF memory, Times, Known
  <2>2. ASSUME NEW news \in SUBSET Facts, Round(news) PROVE \A f \in DOMAIN index' : index'[f].at \in 1..clock'
    BY <2>2, RoundIndexes
  <2>. QED  BY <2>1, <2>2, WhoIndexes
<1>4. state'.cursor <= clock'
  <2>1. CASE Finish
    <3>1. state'.cursor = job.cursor /\ job.cursor <= clock /\ job.cursor \in Nat
      BY <2>1 DEF Finish, Leave, JobShape, Exporting, Typed, Jobs
    <3>. QED  BY <1>1, <3>1
  <2>2. state'.cursor = state.cursor \/ Finish
    <3>1. CASE Fail
      <4>1. state' = [st EXCEPT !.failed = TRUE] /\ pc # "down" /\ st \in States
        BY <3>1 DEF Fail, Leave, Failed, Typed
      <4>. QED  BY <4>1 DEF InStep, States
    <3>2. ASSUME NEW x, Correct(x) \/ Forget(x) \/ Type(x) \/ Erase(x) \/ TakeAway(x) \/ Round(x) \/ Post(x)
                        \/ PostFails(x) \/ RemoveLine(x) \/ AppendLine(x) \/ HandleTombstone(x)
          PROVE  UNCHANGED state
      BY <3>2 DEF Correct, Forget, Type, Erase, TakeAway, Round, Post, PostFails, RemoveLine, AppendLine,
         HandleTombstone, files
    <3>3. Collect \/ SaveSnapshot \/ RoundRaises \/ Wake \/ Skip \/ Scan \/ PostsEnd \/ Fetch \/ Crash \/ Start
          \/ UNCHANGED vars => UNCHANGED state
      BY DEF Collect, SaveSnapshot, RoundRaises, Wake, Skip, Scan, PostsEnd, Fetch, Crash, Start, files, vars
    <3>. QED  BY <3>1, <3>2, <3>3 DEF Next, Users, Consolidator, Export
  <2>3. state.cursor <= clock /\ state.cursor \in Nat
    BY DEF Times, Typed, States
  <2>. QED  BY <1>1, <2>1, <2>2, <2>3
<1>. QED  BY <1>2, <1>3, <1>4 DEF Times, Known

-----------------------------------------------------------------------------
(* The state in memory, and the run in progress. *)

\* Users leave the worker and what is in its files alone, but for the vault.
LEMMA WhatUsersLeave ==
  ASSUME Users
  PROVE  UNCHANGED <<memory, saved, state, worker, cut, behind, late>>
BY DEF Users, Correct, Forget, Type, Erase, TakeAway, files, history

LEMMA InStepStep ==
  ASSUME Typed, InStep, [Next]_vars
  PROVE  InStep'
<1>1. CASE Users \/ UNCHANGED vars
  BY <1>1, WhatUsersLeave DEF InStep, worker, files, vars, Fresh
<1>2. CASE Crash \/ Start
  BY <1>2 DEF Crash, Start, InStep, Fresh, files
<1>3. CASE Finish \/ Fail
  BY <1>3 DEF Finish, Fail, Leave, InStep, Fresh
<1>4. ASSUME NEW f, RemoveLine(f) \/ AppendLine(f) \/ HandleTombstone(f) \/ Post(f) \/ PostFails(f) \/ Round(f)
      PROVE  InStep'
  BY <1>4 DEF RemoveLine, AppendLine, HandleTombstone, Post, PostFails, Round, InStep, Fresh, files
<1>5. CASE Collect \/ SaveSnapshot \/ Fetch \/ RoundRaises \/ Wake \/ Skip \/ Scan \/ PostsEnd
  BY <1>5 DEF Collect, SaveSnapshot, Fetch, RoundRaises, Wake, Skip, Scan, PostsEnd, InStep, Fresh, files
<1>. QED
  BY <1>1, <1>2, <1>3, <1>4, <1>5 DEF Next, Consolidator, Export

LEMMA WhatIsScanned ==
  ASSUME Typed, Scan
  PROVE  /\ job'.edits = EditsFound /\ pc' = "post"
         /\ DOMAIN EditsFound \subseteq Observable /\ DOMAIN EditsFound \subseteq DOMAIN snap
         /\ \A f \in DOMAIN EditsFound :
               \/ f \notin Lines /\ EditsFound[f] = [op |-> "delete", text |-> 0]
               \/ f \in Lines /\ vault[f] # snap[f] /\ EditsFound[f] = [op |-> "set", text |-> vault[f]]
<1>. DEFINE vanished == Observable \ Lines
            changed  == {f \in Observable \cap Lines : vault[f] # snap[f]}
            dropped  == IF Cardinality(vanished) > MaxVanished THEN {} ELSE vanished
            e(f) == IF f \in dropped THEN [op |-> "delete", text |-> 0] ELSE [op |-> "set", text |-> vault[f]]
<1>1. EditsFound = [f \in changed \cup dropped |-> e(f)]
  BY DEF EditsFound
<1>2. changed \cup dropped \subseteq Observable /\ Observable \subseteq DOMAIN snap
      /\ \A f \in changed : f \in Lines /\ vault[f] # snap[f] /\ f \notin dropped
  BY DEF Observable
<1>3. \A f \in dropped : f \notin Lines
  OBVIOUS
<1>4. job' = [NoJob EXCEPT !.edits = EditsFound] /\ pc' = "post"
  BY DEF Scan
<1>5. job'.edits = EditsFound
  BY <1>4 DEF NoJob
<1>6. DOMAIN EditsFound = changed \cup dropped /\ \A f \in changed \cup dropped : EditsFound[f] = e(f)
  <2>. HIDE DEF changed, dropped, e
  <2>. QED  BY <1>1
<1>7. \A f \in changed : e(f) = [op |-> "set", text |-> vault[f]]
  <2>. HIDE DEF changed, dropped
  <2>. QED  BY <1>2
<1>8. \A f \in dropped : e(f) = [op |-> "delete", text |-> 0]
  OBVIOUS
<1>. HIDE DEF changed, dropped, e
<1>. QED  BY <1>2, <1>3, <1>4, <1>5, <1>6, <1>7, <1>8

\* What the actions of a run make of the job.
LEMMA JobAfter ==
  ASSUME Typed, NEW f
  PROVE  /\ RemoveLine(f) => /\ job'.edits = job.edits /\ job'.batch = job.batch /\ job'.cursor = job.cursor
                             /\ job'.done = job.done /\ job'.open = job.open \ {f} /\ job'.at = {f}
         /\ AppendLine(f) => /\ job'.edits = job.edits /\ job'.batch = job.batch /\ job'.cursor = job.cursor
                             /\ job'.done = job.done /\ job'.open = job.open /\ job'.at = {}
         /\ HandleTombstone(f) => /\ job'.edits = job.edits /\ job'.batch = job.batch /\ job'.cursor = job.cursor
                                  /\ \E i \in Pending : events[i].fact = f /\ job'.done = job.done \cup {i}
                                  /\ job'.open = job.open /\ job'.at = job.at
         /\ Post(f) \/ PostFails(f) => job'.edits = Without(job.edits, f)
<1>. job \in Jobs
  BY DEF Typed
<1>1. RemoveLine(f) => /\ job'.edits = job.edits /\ job'.batch = job.batch /\ job'.cursor = job.cursor
                       /\ job'.done = job.done /\ job'.open = job.open \ {f} /\ job'.at = {f}
  BY DEF RemoveLine, Jobs
<1>2. AppendLine(f) => /\ job'.edits = job.edits /\ job'.batch = job.batch /\ job'.cursor = job.cursor
                       /\ job'.done = job.done /\ job'.open = job.open /\ job'.at = {}
  BY DEF AppendLine, Jobs
<1>3. HandleTombstone(f) => /\ job'.edits = job.edits /\ job'.batch = job.batch /\ job'.cursor = job.cursor
                            /\ \E i \in Pending : events[i].fact = f /\ job'.done = job.done \cup {i}
                                  /\ job'.open = job.open /\ job'.at = job.at
  BY DEF HandleTombstone, Jobs
<1>4. Post(f) \/ PostFails(f) => job'.edits = Without(job.edits, f)
  BY DEF Post, PostFails, Answered, Retried, Jobs
<1>. QED  BY <1>1, <1>2, <1>3, <1>4

\* The files after the writes that add or take one line.
LEMMA FilesAfter ==
  ASSUME NEW f
  PROVE  /\ Post(f) => DOMAIN snap \ {f} \subseteq DOMAIN snap'
         /\ AppendLine(f) => DOMAIN snap' = DOMAIN snap \cup {f}
<1>1. ASSUME Post(f) PROVE DOMAIN snap \ {f} \subseteq DOMAIN snap'
  <2>1. snap' = Without(snap, f) \/ snap' = With(snap, f, job.edits[f].text)
    BY <1>1 DEF Post, Acked
  <2>2. DOMAIN Without(snap, f) = DOMAIN snap \ {f}
    BY WithoutAt
  <2>3. DOMAIN With(snap, f, job.edits[f].text) = DOMAIN snap \cup {f}
    BY WithAt
  <2>. QED  BY <2>1, <2>2, <2>3
<1>2. ASSUME AppendLine(f) PROVE DOMAIN snap' = DOMAIN snap \cup {f}
  <2>1. snap' = With(snap, f, job.batch[f])
    BY <1>2 DEF AppendLine, Noted
  <2>2. DOMAIN With(snap, f, job.batch[f]) = DOMAIN snap \cup {f}
    BY WithAt
  <2>. QED  BY <2>1, <2>2
<1>. QED  BY <1>1, <1>2

LEMMA JobShapeStep ==
  ASSUME Typed, Times, InStep, JobShape, [Next]_vars
  PROVE  JobShape'
<1>1. clock \in Nat /\ clock' \in Nat /\ clock <= clock' /\ job.cursor \in Nat /\ job \in Jobs
  BY HubGrows DEF Typed, Jobs
<1>2. st.cursor <= clock
  BY DEF InStep, Fresh, Times, Typed
<1>3. NoJob.edits = <<>> /\ DOMAIN NoJob.edits = {}
  BY EmptyMap DEF NoJob
<1>4. CASE Users \/ UNCHANGED vars
  <2>1. UNCHANGED <<memory, state, worker>>
    BY <1>4, WhatUsersLeave DEF vars, files
  <2>. QED  BY <1>1, <2>1 DEF JobShape, Exporting, worker, memory, Known
<1>5. CASE Fetch \/ RoundRaises \/ Wake \/ Skip \/ Start \/ \E news \in SUBSET Facts : Round(news)
  <2>1. pc # "post" /\ UNCHANGED job /\ pc' \in {"round", "due", "sleep", "boot"}
    <3>1. Fetch \/ RoundRaises \/ Wake \/ Skip \/ Start => pc # "post" /\ UNCHANGED job /\ pc' \in {"round", "due", "sleep", "boot"}
      BY DEF Fetch, RoundRaises, Wake, Skip, Start
    <3>2. \A news \in SUBSET Facts : Round(news) => pc # "post" /\ UNCHANGED job /\ pc' \in {"round", "due", "sleep", "boot"}
      BY DEF Round
    <3>. QED  BY <1>5, <3>1, <3>2
  <2>2. DOMAIN job'.edits = {} /\ ~Exporting'
    BY <2>1 DEF JobShape, Exporting
  <2>. QED  BY <2>2 DEF JobShape
<1>7. CASE Scan
  <2>1. job'.edits = EditsFound /\ pc' = "post" /\ snap' = snap /\ DOMAIN EditsFound \subseteq DOMAIN snap
    BY <1>7, WhatIsScanned DEF Scan
  <2>2. ~Exporting'
    BY <2>1 DEF Exporting
  <2>. QED  BY <2>1, <2>2 DEF JobShape
<1>8. ASSUME NEW f \in Facts, Post(f) PROVE JobShape'
  <2>1. DOMAIN job'.edits = DOMAIN job.edits \ {f} /\ pc' = "post"
    <3>1. job'.edits = Without(job.edits, f)
      BY <1>8, JobAfter
    <3>2. DOMAIN Without(job.edits, f) = DOMAIN job.edits \ {f}
      BY WithoutAt
    <3>. QED  BY <1>8, <3>1, <3>2 DEF Post
  <2>2. DOMAIN snap \ {f} \subseteq DOMAIN snap'
    BY <1>8, FilesAfter
  <2>. QED  BY <2>1, <2>2 DEF JobShape, Exporting
<1>9. ASSUME NEW f \in Facts, PostFails(f) PROVE JobShape'
  <2>1. DOMAIN job'.edits = DOMAIN job.edits \ {f} /\ pc' = "post" /\ snap' = snap
    <3>1. job'.edits = Without(job.edits, f)
      BY <1>9, JobAfter
    <3>2. DOMAIN Without(job.edits, f) = DOMAIN job.edits \ {f}
      BY WithoutAt
    <3>. QED  BY <1>9, <3>1, <3>2 DEF PostFails
  <2>. QED  BY <2>1 DEF JobShape, Exporting
<1>10. CASE PostsEnd
  BY <1>10, EmptyMap DEF PostsEnd, AllRecorded, JobShape, Exporting
<1>11. CASE Collect
  <2>1. /\ job'.edits = <<>> /\ job'.cursor = NewCursor /\ job'.done = st.done
        /\ job'.open = Newer /\ job'.at = {} /\ DOMAIN job'.batch = Newer
        /\ \A f \in Newer : job'.batch[f] = index[f].text
    BY <1>2, <1>11, WhatIsCollected
  <2>2. pc' = "write" /\ UNCHANGED <<memory, state, clock, snap>> /\ st = state
    BY <1>11 DEF Collect, files, hub, InStep
  <2>3. NewCursor <= clock /\ \A f \in Known : index[f].at <= NewCursor
    BY <1>2, CursorIsLast
  <2>4. Newer \subseteq Known /\ \A f \in Newer : index[f].at > state.cursor
    BY <2>2 DEF Newer
  <2>. QED  BY <2>1, <2>2, <2>3, <2>4, EmptyMap DEF JobShape, Exporting, memory, Known
<1>12. ASSUME NEW f \in Facts, RemoveLine(f) PROVE JobShape'
  <2>1. pc = "write" /\ pc' = "append" /\ f \in job.open /\ UNCHANGED <<memory, state, clock, snap>>
    BY <1>12 DEF RemoveLine, hub
  <2>. QED  BY <1>12, <2>1, JobAfter DEF JobShape, Exporting, memory, Known
<1>13. ASSUME NEW f \in Facts, AppendLine(f) PROVE JobShape'
  <2>1. pc = "append" /\ pc' = "write" /\ UNCHANGED <<memory, state, clock>> /\ DOMAIN snap \subseteq DOMAIN snap'
    BY <1>13, FilesAfter DEF AppendLine, hub
  <2>. QED  BY <1>13, <2>1, JobAfter DEF JobShape, Exporting, memory, Known
<1>14. CASE SaveSnapshot
  <2>1. pc = "write" /\ job.open = {} /\ pc' = "tombs" /\ UNCHANGED <<memory, state, clock, snap, job>>
    BY <1>14 DEF SaveSnapshot, hub
  <2>. QED  BY <2>1 DEF JobShape, Exporting, memory, Known
<1>15. ASSUME NEW f \in Facts, HandleTombstone(f) PROVE JobShape'
  <2>1. pc = "tombs" /\ pc' = "tombs" /\ UNCHANGED <<memory, state, clock>> /\ DOMAIN job.edits = {}
    BY <1>15 DEF HandleTombstone, hub, JobShape
  <2>. QED  BY <1>15, <2>1, JobAfter DEF JobShape, Exporting, memory, Known
<1>16. CASE Finish \/ Fail \/ Crash
  BY <1>3, <1>16 DEF Finish, Fail, Crash, Leave, JobShape, Exporting
<1>. QED
  BY <1>4, <1>5, <1>7, <1>8, <1>9, <1>10, <1>11, <1>12, <1>13, <1>14, <1>15, <1>16
     DEF Next, Consolidator, Export

-----------------------------------------------------------------------------
(* The lines of the vault. *)

\* What happened in the vault is not forgotten, but a line written anew makes good
\* what a fault did to it.
LEMMA HistoryGrows ==
  ASSUME Typed, [Next]_vars, NEW f \in Facts
  PROVE  /\ typed[f] \subseteq typed'[f]
         /\ f \in erased => f \in erased'
         /\ f \in orphans => f \in orphans'
         /\ f \in cut => f \in cut' \/ AppendLine(f)
         /\ f \in behind => f \in behind' \/ AppendLine(f)
<1>. DEFINE Grown == /\ typed[f] \subseteq typed'[f]
                     /\ f \in erased => f \in erased'
                     /\ f \in orphans => f \in orphans'
                     /\ f \in cut => f \in cut' \/ AppendLine(f)
                     /\ f \in behind => f \in behind' \/ AppendLine(f)
<1>1. ASSUME UNCHANGED <<typed, erased, orphans, cut, behind>> PROVE Grown
  BY <1>1
<1>2. ASSUME NEW g \in Facts, Type(g) PROVE Grown
  <2>1. typed' = [typed EXCEPT ![g] = @ \cup {clock'}] /\ UNCHANGED <<erased, orphans, cut, behind>>
    BY <1>2 DEF Type
  <2>2. typed[f] \subseteq typed'[f]
    BY <2>1 DEF Typed
  <2>. QED  BY <2>1, <2>2
<1>3. ASSUME NEW g, Erase(g) \/ TakeAway(g) \/ RemoveLine(g) PROVE Grown
  BY <1>3 DEF Erase, TakeAway, RemoveLine
<1>4. ASSUME NEW g \in Facts, AppendLine(g) PROVE Grown
  <2>1. cut' = cut \ {g} /\ behind' = behind \ {g} /\ UNCHANGED <<typed, erased, orphans>>
    BY <1>4 DEF AppendLine
  <2>2. CASE f = g
    BY <1>4, <2>1, <2>2
  <2>3. CASE f # g
    BY <2>1, <2>3
  <2>. QED  BY <2>2, <2>3
<1>5. ASSUME Crash PROVE Grown
  <2>1. UNCHANGED <<typed, erased, orphans>> /\ cut \subseteq cut' /\ behind \subseteq behind'
    BY <1>5 DEF Crash
  <2>. QED  BY <2>1
<1>6. ASSUME NEW x, Correct(x) \/ Forget(x) \/ Round(x) \/ Post(x) \/ PostFails(x) \/ HandleTombstone(x)
      PROVE  Grown
  <2>1. UNCHANGED <<typed, erased, orphans, cut, behind>>
    BY <1>6 DEF Correct, Forget, Round, Post, PostFails, HandleTombstone, history
  <2>. HIDE DEF Grown
  <2>. QED  BY <1>1, <2>1
<1>7. ASSUME Collect \/ SaveSnapshot \/ Finish \/ Fail \/ Fetch \/ RoundRaises \/ Wake \/ Skip \/ Scan \/ PostsEnd
             \/ Start \/ UNCHANGED vars
      PROVE  Grown
  <2>1. UNCHANGED <<typed, erased, orphans, cut, behind>>
    BY <1>7 DEF Collect, SaveSnapshot, Finish, Fail, Fetch, RoundRaises, Wake, Skip, Scan, PostsEnd, Start, vars, history
  <2>. HIDE DEF Grown
  <2>. QED  BY <1>1, <2>1
<1>. HIDE DEF Grown
<1>8. Grown
  BY <1>1, <1>2, <1>3, <1>4, <1>5, <1>6, <1>7 DEF Next, Users, Consolidator, Export
<1>. QED  BY <1>8 DEF Grown

\* What a step makes of one line: nothing, what the user typed, what the exporter
\* wrote, or no line for a reason.
LEMMA LineAfter ==
  ASSUME Typed, JobShape, [Next]_vars, NEW f \in Facts
  PROVE  \/ f \in Lines /\ f \in DOMAIN vault' /\ vault'[f] = vault[f]
         \/ f \notin Lines /\ f \notin DOMAIN vault'
         \/ f \in Lines /\ f \in DOMAIN vault' /\ vault'[f] \in typed'[f]
         \/ f \notin DOMAIN vault' /\ f \in erased' \cup orphans' \cup cut'
         \/ AppendLine(f) /\ f \in DOMAIN vault' /\ vault'[f] = job.batch[f]
         \/ HandleTombstone(f) /\ f \notin DOMAIN vault'
<1>. DEFINE Told == \/ f \in Lines /\ f \in DOMAIN vault' /\ vault'[f] = vault[f]
                    \/ f \notin Lines /\ f \notin DOMAIN vault'
                    \/ f \in Lines /\ f \in DOMAIN vault' /\ vault'[f] \in typed'[f]
                    \/ f \notin DOMAIN vault' /\ f \in erased' \cup orphans' \cup cut'
                    \/ AppendLine(f) /\ f \in DOMAIN vault' /\ vault'[f] = job.batch[f]
                    \/ HandleTombstone(f) /\ f \notin DOMAIN vault'
<1>1. ASSUME UNCHANGED vault PROVE Told
  BY <1>1 DEF Lines
<1>2. ASSUME NEW g \in Facts, Type(g) PROVE Told
  <2>1. vault' = With(vault, g, clock') /\ typed' = [typed EXCEPT ![g] = @ \cup {clock'}] /\ g \in Lines
    BY <1>2 DEF Type
  <2>2. /\ DOMAIN vault' = Lines
        /\ vault'[g] = clock' /\ \A h \in Lines : h # g => vault'[h] = vault[h]
    <3>1. /\ DOMAIN With(vault, g, clock') = DOMAIN vault \cup {g}
          /\ With(vault, g, clock')[g] = clock'
          /\ \A h \in DOMAIN vault : h # g => With(vault, g, clock')[h] = vault[h]
      <4>1. With(vault, g, clock') = [h \in DOMAIN vault \cup {g} |-> IF h = g THEN clock' ELSE vault[h]]
        BY DEF With
      <4>. QED  BY <4>1
    <3>. QED  BY <2>1, <3>1 DEF Lines
  <2>3. clock' \in typed'[g]
    BY <2>1 DEF Typed
  <2>. QED  BY <2>2, <2>3
<1>3. ASSUME NEW g \in Facts, Erase(g) \/ RemoveLine(g) PROVE Told
  <2>1. vault' = Without(vault, g) /\ g \in erased' \cup cut'
    BY <1>3 DEF Erase, RemoveLine
  <2>2. /\ DOMAIN Without(vault, g) = DOMAIN vault \ {g}
        /\ \A h \in DOMAIN vault : h # g => Without(vault, g)[h] = vault[h]
    BY WithoutAt
  <2>. QED  BY <2>1, <2>2 DEF Lines
<1>4. ASSUME NEW p, TakeAway(p) PROVE Told
  <2>1. vault' = Restrict(vault, Lines \ OnPage(p)) /\ orphans' = orphans \cup OnPage(p)
    BY <1>4 DEF TakeAway
  <2>2. DOMAIN vault' = Lines \ OnPage(p) /\ \A h \in Lines \ OnPage(p) : vault'[h] = vault[h]
    BY <2>1 DEF Restrict
  <2>. QED  BY <2>1, <2>2
<1>5. ASSUME NEW g \in Facts, AppendLine(g) PROVE Told
  <2>1. vault' = With(vault, g, job.batch[g])
    BY <1>5 DEF AppendLine
  <2>2. /\ DOMAIN vault' = Lines \cup {g} /\ vault'[g] = job.batch[g]
        /\ \A h \in Lines : h # g => vault'[h] = vault[h]
    <3>1. /\ DOMAIN With(vault, g, job.batch[g]) = DOMAIN vault \cup {g}
          /\ With(vault, g, job.batch[g])[g] = job.batch[g]
          /\ \A h \in DOMAIN vault : h # g => With(vault, g, job.batch[g])[h] = vault[h]
      <4>1. With(vault, g, job.batch[g]) = [h \in DOMAIN vault \cup {g} |-> IF h = g THEN job.batch[g] ELSE vault[h]]
        BY DEF With
      <4>. QED  BY <4>1
    <3>. QED  BY <2>1, <3>1 DEF Lines
  <2>. QED  BY <1>5, <2>2
<1>6. ASSUME NEW g \in Facts, HandleTombstone(g) PROVE Told
  <2>1. vault' = Without(vault, g)
    BY <1>6 DEF HandleTombstone, WithoutLine
  <2>2. /\ DOMAIN Without(vault, g) = DOMAIN vault \ {g}
        /\ \A h \in DOMAIN vault : h # g => Without(vault, g)[h] = vault[h]
    BY WithoutAt
  <2>. QED  BY <1>6, <2>1, <2>2 DEF Lines
<1>7. ASSUME Crash PROVE Told
  <2>1. \E lost \in SUBSET Lines : vault' = Restrict(vault, Lines \ lost) /\ cut' = cut \cup lost
    BY <1>7 DEF Crash
  <2>2. PICK lost \in SUBSET Lines : vault' = Restrict(vault, Lines \ lost) /\ cut' = cut \cup lost
    BY <2>1
  <2>3. DOMAIN vault' = Lines \ lost /\ \A h \in Lines \ lost : vault'[h] = vault[h]
    BY <2>2 DEF Restrict
  <2>. QED  BY <2>2, <2>3
<1>8. ASSUME NEW x, Correct(x) \/ Forget(x) \/ Round(x) \/ Post(x) \/ PostFails(x) PROVE Told
  <2>1. UNCHANGED vault
    BY <1>8 DEF Correct, Forget, Round, Post, PostFails, files
  <2>. HIDE DEF Told
  <2>. QED  BY <1>1, <2>1
<1>9. ASSUME Collect \/ SaveSnapshot \/ Finish \/ Fail \/ Fetch \/ RoundRaises \/ Wake \/ Skip \/ Scan \/ PostsEnd
             \/ Start \/ UNCHANGED vars
      PROVE  Told
  <2>1. UNCHANGED vault
    BY <1>9 DEF Collect, SaveSnapshot, Finish, Fail, Fetch, RoundRaises, Wake, Skip, Scan, PostsEnd, Start, vars, files
  <2>. HIDE DEF Told
  <2>. QED  BY <1>1, <2>1
<1>. HIDE DEF Told
<1>10. Told
  BY <1>1, <1>2, <1>3, <1>4, <1>5, <1>6, <1>7, <1>8, <1>9 DEF Next, Users, Consolidator, Export
<1>. QED  BY <1>10 DEF Told

-----------------------------------------------------------------------------
(* Deleted facts. *)

LEMMA TombSeen ==
  ASSUME Typed, [Next]_vars, NEW f, IsTomb(events, view, f)
  PROVE  IsTomb(events', view', f) /\ IsTomb(events', Len(events'), f)
<1>1. view \in Nat /\ view <= Len(events) /\ view' \in Nat /\ view <= view' /\ view' <= Len(events') /\ Len(events') \in Nat
  BY StateTyped, HubGrows DEF Typed
<1>2. IsTomb(events', view, f)
  BY <1>1, TombStays
<1>. QED  BY <1>1, <1>2, TombGrows

\* A tombstone stays where it is.
LEMMA TombKept ==
  ASSUME Typed, [Next]_vars, NEW i \in Tombs(view)
  PROVE  i \in Tombs(view)' /\ events'[i].fact = events[i].fact
<1>1. view \in Nat /\ view <= Len(events) /\ view' \in Nat /\ view <= view' /\ Len(events) \in Nat
  BY StateTyped, HubGrows DEF Typed
<1>2. i \in 1..Len(events) /\ i \in 1..view' /\ events[i].op = "delete"
  BY <1>1 DEF Tombs
<1>3. events'[i] = events[i]
  BY <1>2, HubGrows
<1>. QED  BY <1>2, <1>3 DEF Tombs

\* Who changes what is stamped anew.
LEMMA WhoRevives ==
  ASSUME [Next]_vars
  PROVE  UNCHANGED revived \/ Finish \/ \E news \in SUBSET Facts : Round(news)
<1>1. ASSUME NEW x, Correct(x) \/ Forget(x) \/ Type(x) \/ Erase(x) \/ TakeAway(x) \/ Post(x) \/ PostFails(x)
                    \/ RemoveLine(x) \/ AppendLine(x) \/ HandleTombstone(x)
      PROVE  UNCHANGED revived
  BY <1>1 DEF Correct, Forget, Type, Erase, TakeAway, Post, PostFails, RemoveLine, AppendLine, HandleTombstone, history
<1>2. Collect \/ SaveSnapshot \/ Fail \/ Fetch \/ RoundRaises \/ Wake \/ Skip \/ Scan \/ PostsEnd
      \/ Crash \/ Start \/ UNCHANGED vars => UNCHANGED revived
  BY DEF Collect, SaveSnapshot, Fail, Fetch, RoundRaises, Wake, Skip, Scan, PostsEnd, Crash, Start, vars, history
<1>. QED  BY <1>1, <1>2 DEF Next, Users, Consolidator, Export

LEMMA DoneIsGoneStep ==
  ASSUME Typed, Times, InStep, JobShape, DoneIsGone, [Next]_vars
  PROVE  DoneIsGone'
<1>1. /\ job.done \subseteq Nat /\ state.done \subseteq Nat /\ job.cursor \in Nat
      /\ st \in States /\ state \in States /\ events \in Seq(Events) /\ view \in Nat /\ view <= Len(events)
  BY DEF Typed, Jobs, States
<1>2. \A i \in Tombs(view) : events[i].fact \in Facts
  <2>1. \A i \in 1..view : i \in 1..Len(events)
    BY <1>1
  <2>2. \A i \in 1..Len(events) : events[i] \in Events
    BY <1>1
  <2>. QED  BY <2>1, <2>2 DEF Tombs, Events
<1>3. ASSUME NEW i \in state.done, events[i].fact \notin revived, \A f \in Facts : AppendLine(f) => f # events[i].fact
      PROVE  events[i].fact \notin DOMAIN vault'
  <2>1. events[i].fact \in Facts /\ events[i].fact \notin Lines
    BY <1>2, <1>3 DEF DoneIsGone
  <2>. QED  BY <1>3, <2>1, LineAfter
<1>4. ASSUME NEW i \in state.done, events[i].fact \notin revived PROVE events[i].fact \notin DOMAIN vault'
  <2>1. events[i].fact \in Facts
    BY <1>2 DEF DoneIsGone
  <2>2. ASSUME NEW f \in Facts, AppendLine(f), f = events[i].fact PROVE FALSE
    <3>1. f \in DOMAIN job.batch /\ Exporting
      BY <2>2 DEF AppendLine, JobShape, Exporting
    <3>2. f \in Known /\ index[f].at > state.cursor
      BY <3>1 DEF JobShape
    <3>3. index[f].at <= state.cursor /\ index[f].at \in Nat /\ state.cursor \in Nat
      BY <1>1, <1>4, <2>2, <3>2 DEF DoneIsGone, States, Times
    <3>. QED  BY <3>2, <3>3
  <2>. QED  BY <1>3, <1>4, <2>2
<1>5. \A i \in state.done : i \in Tombs(view)' /\ events'[i].fact = events[i].fact
  BY TombKept DEF DoneIsGone
\* A fact that was done with is not newer, unless it is stamped anew.
<1>6. ASSUME NEW i \in state.done, events[i].fact \notin revived',
             ~Finish, events[i].fact \in DOMAIN index'
      PROVE  index'[events[i].fact].at <= state.cursor /\ events[i].fact \notin revived
  <2>1. CASE UNCHANGED memory /\ UNCHANGED revived
    BY <1>6, <2>1 DEF memory, DoneIsGone, Known
  <2>2. ASSUME NEW news \in SUBSET Facts, Round(news)
        PROVE  index'[events[i].fact].at <= state.cursor /\ events[i].fact \notin revived
    <3>1. st = state
      BY <2>2 DEF Round, InStep
    <3>2. events[i].fact \in FactsOf(st.done) \cap Deleted(view)
      BY <3>1 DEF DoneIsGone, FactsOf, Deleted
    <3>3. events[i].fact \in Known /\ index'[events[i].fact] = index[events[i].fact] /\ events[i].fact \notin revived
      BY <1>6, <2>2, <3>2, RoundIndexes
    <3>. QED  BY <3>3 DEF DoneIsGone
  <2>. QED  BY <1>6, <2>1, <2>2, WhoIndexes, WhoRevives
<1>7. ASSUME NEW i \in state.done, events[i].fact \notin revived', ~Finish
      PROVE  events[i].fact \notin revived
  <2>1. ASSUME NEW news \in SUBSET Facts, Round(news) PROVE events[i].fact \notin revived
    BY <1>7, <2>1, RoundIndexes
  <2>. QED  BY <1>7, <2>1, WhoRevives
<1>8. ASSUME ~Finish, state'.done = state.done, state'.cursor = state.cursor
      PROVE  \A i \in state'.done :
                /\ i \in Tombs(view)'
                /\ events'[i].fact \notin revived' =>
                     /\ events'[i].fact \notin DOMAIN vault'
                     /\ events'[i].fact \in DOMAIN index' => index'[events'[i].fact].at <= state'.cursor
  BY <1>4, <1>5, <1>6, <1>7, <1>8
<1>9. ASSUME ~Finish, state'.done = state.done, state'.cursor = state.cursor, pc' # "tombs" PROVE DoneIsGone'
  BY <1>8, <1>9 DEF DoneIsGone, Known, Lines
<1>10. ASSUME ~Finish, UNCHANGED <<pc, state, job>>, ~\E f \in Facts : AppendLine(f) PROVE DoneIsGone'
  <2>1. CASE pc = "tombs"
    <3>1. ASSUME NEW i \in job.done \ state.done
          PROVE  i \in Tombs(view)' /\ events'[i].fact \notin DOMAIN vault'
      <4>1. i \in Tombs(view) /\ events[i].fact \notin Lines /\ events[i].fact \in Facts
        BY <1>2, <2>1, <3>1 DEF DoneIsGone
      <4>. QED  BY <1>10, <4>1, LineAfter, TombKept
    <3>. QED  BY <1>8, <1>10, <3>1 DEF DoneIsGone, Known, Lines
  <2>2. CASE pc # "tombs"
    BY <1>9, <1>10, <2>2
  <2>. QED  BY <2>1, <2>2
<1>11. CASE Users \/ UNCHANGED vars
  <2>1. UNCHANGED <<pc, state, job, st>>
    BY <1>11, WhatUsersLeave DEF vars, files, worker
  <2>2. ~\E f \in Facts : AppendLine(f)
    <3>1. ASSUME NEW f \in Facts, AppendLine(f) PROVE FALSE
      BY <2>1, <3>1 DEF AppendLine
    <3>. QED  BY <3>1
  <2>3. ~Finish
    BY <2>1 DEF Finish, Leave
  <2>. QED  BY <1>10, <2>1, <2>2, <2>3
<1>12. CASE Crash \/ Start \/ Fetch \/ RoundRaises \/ Wake \/ Skip \/ Scan \/ PostsEnd \/ Collect
  <2>1. ~Finish /\ UNCHANGED state /\ pc' # "tombs"
    BY <1>12 DEF Crash, Start, Fetch, RoundRaises, Wake, Skip, Scan, PostsEnd, Collect, files, Finish, Leave
  <2>. QED  BY <1>9, <2>1
<1>13. ASSUME NEW x, Round(x) \/ Post(x) \/ PostFails(x) \/ RemoveLine(x) \/ AppendLine(x) PROVE DoneIsGone'
  <2>1. ~Finish /\ UNCHANGED state /\ pc' # "tombs"
    BY <1>13 DEF Round, Post, PostFails, RemoveLine, AppendLine, files, Finish
  <2>. QED  BY <1>9, <2>1
<1>14. CASE SaveSnapshot
  <2>1. UNCHANGED <<state, job, vault>> /\ job.done = state.done /\ pc' = "tombs" /\ ~Finish
    BY <1>14 DEF SaveSnapshot, JobShape, Exporting, Finish
  <2>. QED  BY <1>8, <2>1 DEF DoneIsGone, Known, Lines
<1>15. ASSUME NEW g \in Facts, HandleTombstone(g) PROVE DoneIsGone'
  <2>1. UNCHANGED <<state, pc>> /\ pc = "tombs" /\ ~Finish
    BY <1>15 DEF HandleTombstone, Finish, Leave
  <2>2. PICK k \in Pending : events[k].fact = g /\ job'.done = job.done \cup {k}
    BY <1>15, JobAfter
  <2>3. k \in Tombs(view)
    BY <2>2 DEF Pending
  <2>4. DOMAIN vault' = Lines \ {g}
    <3>1. vault' = Without(vault, g) /\ DOMAIN Without(vault, g) = DOMAIN vault \ {g}
      BY <1>15, WithoutAt DEF HandleTombstone, WithoutLine
    <3>. QED  BY <3>1 DEF Lines
  <2>5. ASSUME NEW i \in job'.done \ state.done
        PROVE  i \in Tombs(view)' /\ events'[i].fact \notin DOMAIN vault'
    <3>1. i \in Tombs(view) /\ (events[i].fact \notin Lines \/ events[i].fact = g)
      BY <2>1, <2>2, <2>3, <2>5 DEF DoneIsGone
    <3>. QED  BY <2>4, <3>1, TombKept
  <2>. QED  BY <1>8, <2>1, <2>5 DEF DoneIsGone, Known, Lines
<1>16. CASE Fail
  <2>1. state' = [st EXCEPT !.failed = TRUE] /\ pc' = "sleep" /\ st = state
    BY <1>16 DEF Fail, Leave, Failed, InStep
  <2>2. state'.done = state.done /\ state'.cursor = state.cursor
    BY <1>1, <2>1 DEF States
  <2>3. ~Finish
    <3>1. ASSUME Finish PROVE FALSE
      <4>1. state' = [cursor |-> job.cursor, done |-> job.done, failed |-> FALSE]
        BY <3>1 DEF Finish, Leave
      <4>2. state'.failed = FALSE
        BY <4>1
      <4>3. state'.failed = TRUE
        BY <1>1, <2>1 DEF States
      <4>. QED  BY <4>2, <4>3
    <3>. QED  BY <3>1
  <2>. QED  BY <1>9, <2>1, <2>2, <2>3
<1>17. CASE Finish
  <2>1. /\ state'.done = job.done /\ state'.cursor = job.cursor /\ pc = "tombs" /\ pc' = "sleep"
        /\ UNCHANGED <<vault, index, events, view>> /\ st = state
        /\ revived' = revived \ FactsOf(job.done \ st.done)
    BY <1>17 DEF Finish, Leave, memory, hub, InStep
  <2>2. \A f \in Known : index[f].at <= job.cursor
    BY <2>1 DEF JobShape, Exporting
  <2>3. ASSUME NEW i \in job.done
        PROVE  i \in Tombs(view) /\ (events[i].fact \notin revived' => events[i].fact \notin Lines)
    <3>1. CASE i \in state.done
      <4>1. i \in Tombs(view) /\ (events[i].fact \notin revived => events[i].fact \notin Lines)
        BY <3>1 DEF DoneIsGone
      <4>2. ASSUME events[i].fact \in FactsOf(job.done \ st.done) PROVE events[i].fact \notin Lines
        BY <2>1, <4>2 DEF FactsOf, DoneIsGone
      <4>. QED  BY <2>1, <4>1, <4>2
    <3>2. CASE i \notin state.done
      BY <2>1, <2>3, <3>2 DEF DoneIsGone
    <3>. QED  BY <3>1, <3>2
  <2>4. Tombs(view)' = Tombs(view)
    BY <2>1 DEF Tombs
  <2>. QED  BY <2>1, <2>2, <2>3, <2>4 DEF DoneIsGone, Known, Lines
<1>. QED
  BY <1>11, <1>12, <1>13, <1>14, <1>15, <1>16, <1>17 DEF Next, Consolidator, Export

-----------------------------------------------------------------------------
(* What is exported. *)

\* A fact that is in the vault as it should be stays so.
LEMMA InVaultStays ==
  ASSUME Typed, JobShape, [Next]_vars, NEW f \in Facts, f \in Known, InVault(f),
         index'[f] = index[f], f \in late => f \in late'
  PROVE  InVault(f)'
<1>1. /\ typed[f] \subseteq typed'[f] /\ (f \in erased => f \in erased') /\ (f \in orphans => f \in orphans')
      /\ (f \in cut => f \in cut' \/ AppendLine(f)) /\ (f \in behind => f \in behind' \/ AppendLine(f))
  BY HistoryGrows
<1>2. IsTomb(events, Len(events), f) => IsTomb(events', Len(events'), f)
  BY TombForEver
<1>3. CASE AppendLine(f)
  <2>1. f \in DOMAIN vault' /\ vault'[f] = job.batch[f]
    <3>1. vault' = With(vault, f, job.batch[f])
      BY <1>3 DEF AppendLine
    <3>. QED  BY <3>1 DEF With
  <2>2. job.batch[f] = index[f].text
    BY <1>3 DEF AppendLine, JobShape, Exporting
  <2>. QED  BY <2>1, <2>2 DEF InVault, Lines
<1>4. CASE HandleTombstone(f)
  <2>1. IsTomb(events, view, f)
    BY <1>4 DEF HandleTombstone, Pending, Tombs, IsTomb
  <2>2. IsTomb(events', Len(events'), f)
    BY <2>1, TombSeen
  <2>. QED  BY <2>2 DEF InVault
<1>5. CASE ~AppendLine(f) /\ ~HandleTombstone(f)
  <2>1. \/ f \in Lines /\ f \in DOMAIN vault' /\ vault'[f] = vault[f]
        \/ f \notin Lines /\ f \notin DOMAIN vault'
        \/ f \in Lines /\ f \in DOMAIN vault' /\ vault'[f] \in typed'[f]
        \/ f \notin DOMAIN vault' /\ f \in erased' \cup orphans' \cup cut'
    BY <1>5, LineAfter
  <2>2. CASE f \notin DOMAIN vault' /\ f \in erased' \cup orphans' \cup cut'
    BY <2>2 DEF InVault, Lines
  <2>3. CASE f \in DOMAIN vault' /\ vault'[f] \in typed'[f]
    BY <2>3 DEF InVault, Lines
  <2>4. CASE f \in Lines /\ f \in DOMAIN vault' /\ vault'[f] = vault[f]
    BY <1>1, <1>2, <1>5, <2>4 DEF InVault, Lines
  <2>5. CASE f \notin Lines /\ f \notin DOMAIN vault'
    BY <1>1, <1>2, <1>5, <2>5 DEF InVault, Lines
  <2>. QED  BY <2>1, <2>2, <2>3, <2>4, <2>5
<1>. QED  BY <1>3, <1>4, <1>5

LEMMA ExportedStep ==
  ASSUME Typed, Times, InStep, JobShape, Exported, [Next]_vars
  PROVE  Exported'
<1>1. clock \in Nat /\ state.cursor \in Nat /\ state.cursor <= clock /\ job.cursor \in Nat /\ st \in States /\ state \in States
  BY DEF Typed, States, Times, Jobs
<1>2. ASSUME NEW news \in SUBSET Facts, Round(news) PROVE Exported'
  <2>1. pc = "round" /\ pc' = "due" /\ state' = state /\ st = state
    BY <1>2 DEF Round, files, InStep
  <2>2. ASSUME NEW f \in DOMAIN index', index'[f].at <= state.cursor PROVE InVault(f)'
    <3>1. index' \in Maps([text : Nat, at : Nat])
      BY <1>2, RoundIndexes
    <3>2. f \in Facts
      BY <2>2, <3>1, MapAt
    <3>3. index'[f].at \in Nat
      BY <1>2, <2>2, RoundIndexes, HubGrows
    <3>4. \/ f \in Known /\ index'[f] = index[f] /\ (f \in late' <=> f \in late)
          \/ index'[f].at > state.cursor
          \/ f \in late'
          \/ index'[f].at = clock' /\ clock' = clock + 1
      BY <1>2, <2>1, <2>2, RoundIndexes
    <3>5. CASE f \in Known /\ index'[f] = index[f] /\ (f \in late' <=> f \in late)
      <4>1. InVault(f)
        BY <2>2, <3>5 DEF Exported
      <4>. QED  BY <3>2, <3>5, <4>1, InVaultStays
    <3>6. CASE f \in late'
      BY <3>6 DEF InVault
    <3>7. CASE index'[f].at > state.cursor \/ (index'[f].at = clock' /\ clock' = clock + 1)
      BY <1>1, <2>2, <3>3, <3>7
    <3>. QED  BY <3>4, <3>5, <3>6, <3>7
  <2>. QED  BY <2>1, <2>2 DEF Exported, Exporting, Known
<1>3. ASSUME UNCHANGED memory, late' = late PROVE Exported'
  <2>1. ASSUME NEW f \in Known, InVault(f) PROVE InVault(f)'
    <3>1. f \in Facts
      BY MapAt DEF Typed, Known
    <3>. QED  BY <1>3, <2>1, <3>1, InVaultStays DEF memory
  <2>2. Known' = Known /\ index' = index
    BY <1>3 DEF memory, Known
  <2>3. ASSUME state'.cursor = state.cursor, Exporting' => Exporting /\ job.open \cup job.at \subseteq job'.open \cup job'.at
        PROVE  Exported'
    BY <2>1, <2>2, <2>3 DEF Exported
  <2>4. ASSUME state'.cursor = state.cursor, ~Exporting' PROVE Exported'
    BY <2>3, <2>4
  <2>5. CASE Users \/ UNCHANGED vars
    <3>1. UNCHANGED <<pc, state, job>>
      BY <2>5, WhatUsersLeave DEF vars, files, worker
    <3>. QED  BY <2>3, <3>1 DEF Exporting
  <2>6. CASE Crash \/ Start \/ Fetch \/ RoundRaises \/ Wake \/ Skip \/ Scan \/ PostsEnd
    <3>1. UNCHANGED state /\ ~Exporting'
      BY <2>6 DEF Crash, Start, Fetch, RoundRaises, Wake, Skip, Scan, PostsEnd, files, Exporting
    <3>. QED  BY <2>4, <3>1
  <2>7. ASSUME NEW f, Post(f) \/ PostFails(f) PROVE Exported'
    <3>1. UNCHANGED state /\ ~Exporting'
      BY <2>7 DEF Post, PostFails, files, Exporting
    <3>. QED  BY <2>4, <3>1
  <2>8. CASE Collect
    <3>1. job'.open = Newer /\ state' = state /\ st = state
      BY <1>1, <2>8, WhatIsCollected DEF Collect, files, InStep
    <3>2. ASSUME NEW f \in Known, f \notin Newer PROVE index[f].at <= state.cursor
      BY <1>1, <3>1, <3>2 DEF Newer, Times
    <3>. QED  BY <2>1, <2>2, <3>1, <3>2 DEF Exported
  <2>9. ASSUME NEW g \in Facts, RemoveLine(g) PROVE Exported'
    <3>1. UNCHANGED state /\ Exporting /\ job.at = {}
      BY <2>9 DEF RemoveLine, Exporting, JobShape
    <3>2. job'.open = job.open \ {g} /\ job'.at = {g}
      BY <2>9, JobAfter
    <3>. QED  BY <2>3, <3>1, <3>2
  <2>10. ASSUME NEW g \in Facts, AppendLine(g) PROVE Exported'
    <3>1. UNCHANGED state /\ Exporting /\ job.at = {g}
      BY <2>10 DEF AppendLine, Exporting
    <3>2. job'.open = job.open
      BY <2>10, JobAfter
    <3>3. g \in DOMAIN vault' /\ vault'[g] = job.batch[g]
      <4>1. vault' = With(vault, g, job.batch[g])
        BY <2>10 DEF AppendLine
      <4>. QED  BY <4>1 DEF With
    <3>4. job.batch[g] = index'[g].text
      BY <2>2, <3>1 DEF JobShape
    <3>5. InVault(g)'
      BY <3>3, <3>4 DEF InVault, Lines
    <3>6. \A f \in Known : index[f].at <= state.cursor => InVault(f)'
      BY <2>1 DEF Exported
    <3>7. \A f \in Known : f \in job.open \/ InVault(f)'
      BY <2>1, <3>1, <3>5 DEF Exported
    <3>. QED  BY <2>2, <3>1, <3>2, <3>6, <3>7 DEF Exported
  <2>11. CASE SaveSnapshot
    BY <2>3, <2>11 DEF SaveSnapshot, Exporting
  <2>12. ASSUME NEW g \in Facts, HandleTombstone(g) PROVE Exported'
    <3>1. UNCHANGED <<state, pc>>
      BY <2>12 DEF HandleTombstone
    <3>2. job'.open = job.open /\ job'.at = job.at
      BY <2>12, JobAfter
    <3>. QED  BY <2>3, <3>1, <3>2 DEF Exporting
  <2>13. CASE Fail
    <3>1. state' = [st EXCEPT !.failed = TRUE] /\ pc' = "sleep" /\ st = state
      BY <2>13 DEF Fail, Leave, Failed, InStep
    <3>2. state'.cursor = state.cursor /\ ~Exporting'
      BY <1>1, <3>1 DEF States, Exporting
    <3>. QED  BY <2>4, <3>2
  <2>14. CASE Finish
    <3>1. pc = "tombs" /\ pc' = "sleep"
      BY <2>14 DEF Finish, Leave
    <3>2. job.open = {} /\ job.at = {} /\ Exporting /\ ~Exporting'
      BY <3>1 DEF JobShape, Exporting
    <3>3. \A f \in Known : InVault(f)'
      BY <2>1, <3>2 DEF Exported
    <3>. QED  BY <2>2, <3>2, <3>3 DEF Exported
  <2>15. ASSUME NEW news \in SUBSET Facts, Round(news) PROVE Exported'
    BY <1>2, <2>15
  <2>. QED
    BY <2>5, <2>6, <2>7, <2>8, <2>9, <2>10, <2>11, <2>12, <2>13, <2>14, <2>15 DEF Next, Consolidator, Export
<1>4. (UNCHANGED memory /\ late' = late) \/ \E news \in SUBSET Facts : Round(news)
  <2>1. ASSUME NEW x, Post(x) \/ PostFails(x) \/ RemoveLine(x) \/ AppendLine(x) \/ HandleTombstone(x)
        PROVE  late' = late
    BY <2>1 DEF Post, PostFails, RemoveLine, AppendLine, HandleTombstone, history
  <2>2. Collect \/ SaveSnapshot \/ Finish \/ Fail \/ Fetch \/ RoundRaises \/ Wake \/ Skip \/ Scan \/ PostsEnd
        \/ Crash \/ Start \/ UNCHANGED vars => late' = late
    BY DEF Collect, SaveSnapshot, Finish, Fail, Fetch, RoundRaises, Wake, Skip, Scan, PostsEnd, Crash, Start, vars, history
  <2>3. Users => late' = late
    BY WhatUsersLeave
  <2>4. late' = late \/ \E news \in SUBSET Facts : Round(news)
    BY <2>1, <2>2, <2>3 DEF Next, Consolidator, Export
  <2>. QED  BY <2>4, WhoIndexes
<1>. QED  BY <1>2, <1>3, <1>4

-----------------------------------------------------------------------------
(* The snapshot, and what is taken for an edit of a user. *)

\* A line stays as the exporter wrote it, unless a user touched it.
LEMMA LineStays ==
  ASSUME Typed, JobShape, [Next]_vars, NEW f \in Facts, ~AppendLine(f), NEW v,
         \/ f \in Lines /\ (vault[f] = v \/ vault[f] \in typed[f] \/ f \in behind)
         \/ f \notin Lines /\ f \in Missing
  PROVE  \/ f \in DOMAIN vault' /\ (vault'[f] = v \/ vault'[f] \in typed'[f] \/ f \in behind')
         \/ f \notin DOMAIN vault' /\ f \in Missing'
<1>1. /\ typed[f] \subseteq typed'[f] /\ (f \in erased => f \in erased') /\ (f \in orphans => f \in orphans')
      /\ (f \in cut => f \in cut') /\ (f \in behind => f \in behind')
  BY HistoryGrows
<1>2. f \in Missing => f \in Missing'
  BY <1>1, TombForEver DEF Missing
<1>3. f \in erased' \cup orphans' \cup cut' => f \in Missing'
  BY DEF Missing
<1>4. HandleTombstone(f) => f \in Missing'
  <2>1. ASSUME HandleTombstone(f) PROVE IsTomb(events', Len(events'), f)
    <3>1. IsTomb(events, view, f)
      BY <2>1 DEF HandleTombstone, Pending, Tombs, IsTomb
    <3>. QED  BY <3>1, TombSeen
  <2>. QED  BY <2>1 DEF Missing
<1>. QED  BY <1>1, <1>2, <1>3, <1>4, LineAfter

LEMMA SnapshotIsRightStep ==
  ASSUME Typed, JobShape, SnapshotIsRight, EditsAreUsers, [Next]_vars
  PROVE  SnapshotIsRight'
<1>1. DOMAIN vault \subseteq Facts /\ DOMAIN snap \subseteq Facts /\ DOMAIN saved \subseteq Facts
  BY MapAt DEF Typed
<1>2. DOMAIN Memo \subseteq Facts
  BY <1>1 DEF Memo
<1>. DEFINE Right(f) == \/ f \in DOMAIN vault' /\ (vault'[f] = Memo'[f] \/ vault'[f] \in typed'[f] \/ f \in behind')
                        \/ f \notin DOMAIN vault' /\ f \in Missing'
<1>3. ASSUME NEW f \in DOMAIN Memo, Memo'[f] = Memo[f], ~AppendLine(f) PROVE Right(f)
  <2>1. \/ f \in Lines /\ (vault[f] = Memo[f] \/ vault[f] \in typed[f] \/ f \in behind)
        \/ f \notin Lines /\ f \in Missing
    BY <1>3 DEF SnapshotIsRight
  <2>2. \/ f \in DOMAIN vault' /\ (vault'[f] = Memo[f] \/ vault'[f] \in typed'[f] \/ f \in behind')
        \/ f \notin DOMAIN vault' /\ f \in Missing'
    BY <1>2, <1>3, <2>1, LineStays
  <2>. QED  BY <1>3, <2>2
<1>4. ASSUME pc' # "down" => DOMAIN saved' \subseteq DOMAIN snap', \A f \in DOMAIN Memo' : Right(f) PROVE SnapshotIsRight'
  BY <1>4 DEF SnapshotIsRight, Lines
<1>. HIDE DEF Right
<1>5. ASSUME Memo' = Memo, pc' # "down" => DOMAIN saved' \subseteq DOMAIN snap', \A f \in Facts : ~AppendLine(f)
      PROVE  SnapshotIsRight'
  <2>1. \A f \in DOMAIN Memo : f \in Facts /\ Right(f)
    BY <1>2, <1>3, <1>5
  <2>. QED  BY <1>4, <1>5, <2>1
<1>6. CASE Crash
  <2>1. pc # "down" /\ pc' = "down" /\ UNCHANGED saved
    BY <1>6 DEF Crash
  <2>2. Memo = snap /\ Memo' = saved /\ DOMAIN saved \subseteq DOMAIN snap
    BY <2>1 DEF Memo, SnapshotIsRight
  <2>3. \A f \in Facts : ~AppendLine(f)
    <3>1. ASSUME NEW f \in Facts, AppendLine(f) PROVE FALSE
      BY <2>1, <3>1 DEF AppendLine
    <3>. QED  BY <3>1
  <2>4. ASSUME NEW f \in DOMAIN saved PROVE Right(f)
    <3>1. CASE saved[f] = snap[f]
      BY <1>3, <2>2, <2>3, <2>4, <3>1, <1>1
    <3>2. CASE saved[f] # snap[f]
      <4>1. f \in behind'
        BY <1>6, <2>2, <2>4, <3>2 DEF Crash
      <4>2. f \in Facts /\ f \in Missing'
        BY <1>1, <2>4, <4>1 DEF Missing
      <4>. QED  BY <4>1, <4>2 DEF Right
    <3>. QED  BY <3>1, <3>2
  <2>. QED  BY <1>4, <2>1, <2>2, <2>4
<1>7. CASE Start
  <2>1. snap' = saved /\ saved' = saved /\ pc = "down" /\ pc' = "boot"
    BY <1>7 DEF Start, files
  <2>2. \A f \in Facts : ~AppendLine(f)
    <3>1. ASSUME NEW f \in Facts, AppendLine(f) PROVE FALSE
      BY <2>1, <3>1 DEF AppendLine
    <3>. QED  BY <3>1
  <2>. QED  BY <1>5, <2>1, <2>2 DEF Memo
<1>8. CASE Users \/ UNCHANGED vars
  <2>1. UNCHANGED <<pc, saved, snap>>
    BY <1>8, WhatUsersLeave DEF vars, files, worker
  <2>2. \A f \in Facts : ~AppendLine(f)
    <3>1. ASSUME NEW f \in Facts, AppendLine(f) PROVE FALSE
      BY <2>1, <3>1 DEF AppendLine
    <3>. QED  BY <3>1
  <2>. QED  BY <1>5, <2>1, <2>2 DEF Memo, SnapshotIsRight
<1>9. ASSUME pc # "down", pc' # "down", snap' = snap, saved' = saved, pc # "append" PROVE SnapshotIsRight'
  <2>1. \A f \in Facts : ~AppendLine(f)
    BY <1>9 DEF AppendLine
  <2>. QED  BY <1>5, <1>9, <2>1 DEF Memo, SnapshotIsRight
<1>10. CASE Fetch \/ RoundRaises \/ Wake \/ Skip \/ Scan \/ PostsEnd \/ Collect \/ Finish
  <2>1. pc # "down" /\ pc' # "down" /\ snap' = snap /\ saved' = saved /\ pc # "append"
    BY <1>10 DEF Fetch, RoundRaises, Wake, Skip, Scan, PostsEnd, Collect, Finish, Leave, files
  <2>. QED  BY <1>9, <2>1
<1>11. ASSUME NEW x, Round(x) \/ PostFails(x) \/ RemoveLine(x) PROVE SnapshotIsRight'
  <2>1. pc # "down" /\ pc' # "down" /\ snap' = snap /\ saved' = saved /\ pc # "append"
    BY <1>11 DEF Round, PostFails, RemoveLine, files
  <2>. QED  BY <1>9, <2>1
<1>12. CASE Fail
  <2>1. pc # "down" /\ pc' = "sleep" /\ snap' = snap /\ saved' = saved
    BY <1>12 DEF Fail, Leave
  <2>2. \A f \in Facts : ~AppendLine(f)
    <3>1. ASSUME NEW f \in Facts, AppendLine(f) PROVE FALSE
      BY <2>1, <3>1 DEF AppendLine
    <3>. QED  BY <3>1
  <2>. QED  BY <1>5, <2>1, <2>2 DEF Memo, SnapshotIsRight
<1>13. CASE SaveSnapshot
  <2>1. pc = "write" /\ pc' = "tombs" /\ snap' = snap /\ (saved' = saved \/ saved' = snap)
    BY <1>13 DEF SaveSnapshot
  <2>2. \A f \in Facts : ~AppendLine(f)
    BY <2>1 DEF AppendLine
  <2>. QED  BY <1>5, <2>1, <2>2 DEF Memo, SnapshotIsRight
<1>14. ASSUME NEW g \in Facts, AppendLine(g) PROVE SnapshotIsRight'
  <2>1. pc = "append" /\ pc' = "write" /\ saved' = saved /\ job.at = {g}
    BY <1>14 DEF AppendLine
  <2>2. snap' = With(snap, g, job.batch[g]) /\ vault' = With(vault, g, job.batch[g])
    BY <1>14 DEF AppendLine, Noted
  <2>3. /\ DOMAIN snap' = DOMAIN snap \cup {g} /\ snap'[g] = job.batch[g]
        /\ \A f \in DOMAIN snap : f # g => snap'[f] = snap[f]
    BY <2>2 DEF With
  <2>4. g \in DOMAIN vault' /\ vault'[g] = job.batch[g]
    BY <2>2 DEF With
  <2>5. Memo = snap /\ Memo' = snap'
    BY <2>1 DEF Memo
  <2>6. Right(g)
    BY <2>3, <2>4, <2>5 DEF Right
  <2>7. \A f \in Facts : f # g => ~AppendLine(f)
    BY <2>1 DEF AppendLine
  <2>8. ASSUME NEW f \in DOMAIN snap, f # g PROVE Right(f)
    BY <1>1, <1>3, <2>3, <2>5, <2>7, <2>8
  <2>9. DOMAIN saved' \subseteq DOMAIN snap'
    BY <2>1, <2>3 DEF SnapshotIsRight
  <2>. QED  BY <1>4, <2>3, <2>5, <2>6, <2>8, <2>9
<1>15. ASSUME NEW g \in Facts, HandleTombstone(g) PROVE SnapshotIsRight'
  <2>1. pc = "tombs" /\ pc' = "tombs" /\ snap' = Without(snap, g) /\ saved' = snap'
    BY <1>15 DEF HandleTombstone
  <2>2. DOMAIN snap' = DOMAIN snap \ {g} /\ \A f \in DOMAIN snap : f # g => snap'[f] = snap[f]
    BY <2>1 DEF Without, Restrict
  <2>3. Memo = snap /\ Memo' = snap'
    BY <2>1 DEF Memo
  <2>4. \A f \in Facts : ~AppendLine(f)
    BY <2>1 DEF AppendLine
  <2>5. ASSUME NEW f \in DOMAIN snap' PROVE Right(f)
    BY <1>1, <1>3, <2>2, <2>3, <2>4, <2>5
  <2>. QED  BY <1>4, <2>1, <2>3, <2>5
<1>16. ASSUME NEW g \in Facts, Post(g) PROVE SnapshotIsRight'
  <2>1. pc = "post" /\ pc' = "post" /\ saved' = snap' /\ snap' = Acked(g, job.edits[g]) /\ g \in DOMAIN job.edits
        /\ UNCHANGED <<vault, typed, behind, erased, orphans, cut>>
    BY <1>16 DEF Post
  <2>2. Memo = snap /\ Memo' = snap'
    BY <2>1 DEF Memo
  <2>3. \A f \in Facts : ~AppendLine(f)
    BY <2>1 DEF AppendLine
  <2>4. CASE job.edits[g].op = "delete"
    <3>1. snap' = Without(snap, g)
      BY <2>1, <2>4 DEF Acked
    <3>2. DOMAIN snap' = DOMAIN snap \ {g} /\ \A f \in DOMAIN snap : f # g => snap'[f] = snap[f]
      BY <3>1 DEF Without, Restrict
    <3>3. ASSUME NEW f \in DOMAIN snap' PROVE Right(f)
      BY <1>1, <1>3, <2>2, <2>3, <3>2, <3>3
    <3>. QED  BY <1>4, <2>1, <2>2, <3>3
  <2>5. CASE job.edits[g].op # "delete"
    <3>1. snap' = With(snap, g, job.edits[g].text)
      BY <2>1, <2>5 DEF Acked
    <3>2. /\ DOMAIN snap' = DOMAIN snap \cup {g} /\ snap'[g] = job.edits[g].text
          /\ \A f \in DOMAIN snap : f # g => snap'[f] = snap[f]
      BY <3>1 DEF With
    <3>3. g \in DOMAIN snap /\ job.edits[g].op = "set"
      <4>1. job.edits[g] \in Edits
        BY <2>1, MapAt DEF Typed, Jobs
      <4>. QED  BY <2>1, <2>5, <4>1 DEF Edits, JobShape
    <3>4. ASSUME g \in Lines PROVE Right(g)
      <4>1. vault[g] = job.edits[g].text \/ vault[g] \in typed[g]
        BY <2>1, <3>3, <3>4 DEF EditsAreUsers
      <4>2. g \in DOMAIN vault' /\ (vault'[g] = Memo'[g] \/ vault'[g] \in typed'[g])
        BY <2>1, <2>2, <3>2, <3>4, <4>1 DEF Lines
      <4>. QED  BY <4>2 DEF Right
    <3>5. ASSUME g \notin Lines PROVE Right(g)
      <4>1. g \in Missing
        BY <2>2, <3>3, <3>5 DEF SnapshotIsRight
      <4>2. g \notin DOMAIN vault' /\ g \in Missing'
        BY <2>1, <3>5, <4>1, TombForEver DEF Missing, Lines
      <4>. QED  BY <4>2 DEF Right
    <3>6. Right(g)
      BY <3>4, <3>5
    <3>7. ASSUME NEW f \in DOMAIN snap, f # g PROVE Right(f)
      BY <1>1, <1>3, <2>2, <2>3, <3>2, <3>7
    <3>. QED
      <4>1. \A f \in DOMAIN snap' : Right(f)
        BY <3>2, <3>6, <3>7
      <4>. QED  BY <1>4, <2>1, <2>2, <4>1
  <2>. QED  BY <2>4, <2>5
<1>. QED
  BY <1>6, <1>7, <1>8, <1>10, <1>11, <1>12, <1>13, <1>14, <1>15, <1>16 DEF Next, Consolidator, Export

LEMMA EditsAreUsersStep ==
  ASSUME Typed, Times, InStep, JobShape, SnapshotIsRight, EditsAreUsers, [Next]_vars
  PROVE  EditsAreUsers'
<1>1. CASE pc' # "post"
  <2>1. DOMAIN job'.edits = {}
    BY <1>1, JobShapeStep DEF JobShape
  <2>. QED  BY <2>1 DEF EditsAreUsers
<1>2. CASE Scan
  <2>1. /\ job'.edits = EditsFound /\ DOMAIN EditsFound \subseteq DOMAIN snap
        /\ \A f \in DOMAIN EditsFound :
              \/ f \notin Lines /\ EditsFound[f] = [op |-> "delete", text |-> 0]
              \/ f \in Lines /\ vault[f] # snap[f] /\ EditsFound[f] = [op |-> "set", text |-> vault[f]]
    BY <1>2, WhatIsScanned
  <2>2. pc = "due" /\ UNCHANGED <<events, vault, typed, erased, orphans, cut, behind>>
    BY <1>2 DEF Scan, hub, files
  <2>3. Memo = snap
    BY <2>2 DEF Memo
  <2>4. Missing' = Missing /\ Lines' = Lines
    BY <2>2 DEF Missing, Lines
  <2>5. ASSUME NEW f \in DOMAIN EditsFound, f \notin Lines
        PROVE  EditsFound[f].op = "delete" /\ f \in Missing
    BY <2>1, <2>3, <2>5 DEF SnapshotIsRight
  <2>6. ASSUME NEW f \in DOMAIN EditsFound, f \in Lines
        PROVE  EditsFound[f].op = "set" /\ EditsFound[f].text = vault[f] /\ (vault[f] \in typed[f] \/ f \in behind)
    BY <2>1, <2>3, <2>6 DEF SnapshotIsRight
  <2>7. ASSUME NEW f \in DOMAIN EditsFound
        PROVE  /\ EditsFound[f].op = "delete" => f \in Missing
               /\ EditsFound[f].op = "set" => /\ EditsFound[f].text \in typed[f] \/ f \in behind
                                              /\ f \in Lines => vault[f] = EditsFound[f].text
    BY <2>5, <2>6
  <2>. QED  BY <2>1, <2>2, <2>4, <2>7 DEF EditsAreUsers
<1>3. ASSUME pc = "post", DOMAIN job'.edits \subseteq DOMAIN job.edits,
             \A f \in DOMAIN job'.edits : job'.edits[f] = job.edits[f]
      PROVE  EditsAreUsers'
  <2>1. SUFFICES ASSUME NEW f \in DOMAIN job.edits
        PROVE  /\ job.edits[f].op = "delete" => f \in Missing'
               /\ job.edits[f].op = "set" =>
                    /\ job.edits[f].text \in typed'[f] \/ f \in behind'
                    /\ f \in DOMAIN vault' => vault'[f] = job.edits[f].text \/ vault'[f] \in typed'[f]
    BY <1>3 DEF EditsAreUsers, Lines
  <2>2. f \in Facts
    BY MapAt DEF Typed, Jobs
  <2>3. ~AppendLine(f)
    BY <1>3 DEF AppendLine
  <2>4. /\ typed[f] \subseteq typed'[f] /\ (f \in erased => f \in erased') /\ (f \in orphans => f \in orphans')
        /\ (f \in cut => f \in cut') /\ (f \in behind => f \in behind')
    BY <2>2, <2>3, HistoryGrows
  <2>5. f \in Missing => f \in Missing'
    BY <2>2, <2>4, TombForEver DEF Missing
  <2>6. f \in DOMAIN vault' => f \in Lines /\ (vault'[f] = vault[f] \/ vault'[f] \in typed'[f])
    BY <2>2, <2>3, LineAfter
  <2>. QED  BY <2>4, <2>5, <2>6 DEF EditsAreUsers
<1>4. ASSUME NEW g \in Facts, Post(g) \/ PostFails(g) PROVE EditsAreUsers'
  <2>1. pc = "post" /\ job'.edits = Without(job.edits, g)
    BY <1>4, JobAfter DEF Post, PostFails
  <2>2. /\ DOMAIN Without(job.edits, g) = DOMAIN job.edits \ {g}
        /\ \A h \in DOMAIN job.edits : h # g => Without(job.edits, g)[h] = job.edits[h]
    BY WithoutAt
  <2>. QED  BY <1>3, <2>1, <2>2
<1>5. CASE (Users \/ UNCHANGED vars) /\ pc' = "post"
  <2>1. UNCHANGED <<pc, job>>
    BY <1>5, WhatUsersLeave DEF vars, worker
  <2>. QED  BY <1>3, <1>5, <2>1
<1>6. \/ pc' # "post"
      \/ Users \/ UNCHANGED vars
      \/ Scan
      \/ \E g \in Facts : Post(g) \/ PostFails(g)
  <2>1. ASSUME NEW x, Round(x) \/ RemoveLine(x) \/ AppendLine(x) PROVE pc' # "post"
    BY <2>1 DEF Round, RemoveLine, AppendLine
  <2>2. ASSUME NEW x, HandleTombstone(x) PROVE pc' # "post"
    BY <2>2 DEF HandleTombstone
  <2>3. Fetch \/ RoundRaises \/ Wake \/ Skip \/ PostsEnd \/ Collect \/ SaveSnapshot \/ Finish \/ Fail \/ Crash \/ Start
        => pc' # "post"
    BY DEF Fetch, RoundRaises, Wake, Skip, PostsEnd, Collect, SaveSnapshot, Finish, Fail, Leave, Crash, Start
  <2>. QED  BY <2>1, <2>2, <2>3 DEF Next, Consolidator, Export
<1>. QED  BY <1>1, <1>2, <1>4, <1>5, <1>6

-----------------------------------------------------------------------------
(* The invariant. *)

LEMMA Starting == Init => IInv
<1>. SUFFICES ASSUME Init PROVE IInv
  OBVIOUS
<1>1. /\ clock = 1 /\ events = <<>> /\ replayed = 0 /\ vault = <<>> /\ saved = <<>> /\ state = Fresh
      /\ pc = "sleep" /\ view = 0 /\ snap = <<>> /\ st = Fresh /\ job = NoJob /\ typed = [f \in Facts |-> {}]
      /\ index = [f \in Early |-> [text |-> 0, at |-> 1]]
  BY DEF Init
<1>2. Fresh \in States /\ Fresh.done = {} /\ Fresh.cursor = 0
  BY DEF Fresh, States
<1>3. NoJob \in Jobs /\ NoJob.edits = <<>> /\ NoJob.batch = <<>> /\ NoJob.at = {} /\ NoJob.open = {}
  BY EmptyMap DEF NoJob, Jobs
<1>4. index \in Maps([text : Nat, at : Nat]) /\ Known = Early /\ \A f \in Known : index[f].at = 1
  <2>1. index \in [Early -> [text : Nat, at : Nat]]
    BY <1>1
  <2>2. index \in Maps([text : Nat, at : Nat])
    BY <2>1, FactsAndPages DEF Maps
  <2>. QED  BY <1>1, <2>2 DEF Known
<1>5. events \in Seq(Events) /\ Len(events) = 0
  BY <1>1
<1>6. typed \in [Facts -> SUBSET Nat] /\ pc \in Steps
  BY <1>1 DEF Steps
<1>7. Typed
  BY <1>1, <1>2, <1>3, <1>4, <1>5, <1>6, EmptyMap DEF Typed
<1>8. Times
  BY <1>1, <1>2, <1>4, <1>5 DEF Times
<1>9. InStep /\ ~Exporting /\ pc # "down"
  BY <1>1 DEF InStep, Exporting
<1>10. JobShape
  BY <1>1, <1>3, <1>9, EmptyMap DEF JobShape
<1>11. DoneIsGone
  BY <1>1, <1>2 DEF DoneIsGone
<1>12. Exported
  BY <1>1, <1>2, <1>4, <1>9 DEF Exported
<1>13. SnapshotIsRight
  BY <1>1, <1>9, EmptyMap DEF SnapshotIsRight, Memo
<1>14. EditsAreUsers
  BY <1>1, <1>3, EmptyMap DEF EditsAreUsers
<1>. QED  BY <1>7, <1>8, <1>9, <1>10, <1>11, <1>12, <1>13, <1>14 DEF IInv

LEMMA Stepping == IInv /\ [Next]_vars => IInv'
<1>. SUFFICES ASSUME IInv, [Next]_vars PROVE IInv'
  OBVIOUS
<1>1. Typed /\ Times /\ InStep /\ JobShape /\ DoneIsGone /\ Exported /\ SnapshotIsRight /\ EditsAreUsers
  BY DEF IInv
<1>2. Typed' /\ Times' /\ InStep' /\ JobShape'
  BY <1>1, TypedStep, TimesStep, InStepStep, JobShapeStep
<1>3. DoneIsGone' /\ Exported' /\ SnapshotIsRight' /\ EditsAreUsers'
  BY <1>1, DoneIsGoneStep, ExportedStep, SnapshotIsRightStep, EditsAreUsersStep
<1>. QED  BY <1>2, <1>3 DEF IInv

\* The invariant on which everything else rests.
THEOREM Invariance == Spec => []IInv
BY Starting, Stepping, PTL DEF Spec

-----------------------------------------------------------------------------
(* The properties. *)

LEMMA RemovedHolds == IInv => DeletedAreRemoved
<1>. SUFFICES ASSUME IInv, ~InRun, NEW i \in st.done
              PROVE  events[i].fact \notin Lines \/ events[i].fact \in revived
  BY DEF DeletedAreRemoved, FactsOf
<1>1. pc # "down" /\ st = state
  <2>1. st = IF pc = "down" THEN Fresh ELSE state
    BY DEF IInv, InStep
  <2>. QED  BY <2>1 DEF Fresh
<1>. QED  BY <1>1 DEF IInv, DoneIsGone

LEMMA UpToCursorHolds == IInv => ExportedUpToCursor
<1>. SUFFICES ASSUME IInv, ~InRun, NEW f \in Known, index[f].at <= st.cursor
              PROVE  Settled(f) \/ f \in late
  BY DEF ExportedUpToCursor
<1>1. index[f].at \in 1..clock /\ clock \in Nat
  BY DEF IInv, Times, Typed
<1>2. pc # "down" /\ st = state
  <2>1. st = IF pc = "down" THEN Fresh ELSE state
    BY DEF IInv, InStep
  <2>2. Fresh.cursor = 0
    BY DEF Fresh
  <2>. QED  BY <1>1, <2>1, <2>2
<1>3. InVault(f)
  BY <1>2 DEF IInv, Exported
<1>4. Len(events) \in Nat
  BY DEF IInv, Typed
<1>5. IsTomb(events, Len(events), f) => f \in Deleted(Len(events))
  BY <1>4, WhatIsDeleted
<1>. QED  BY <1>3, <1>5 DEF InVault, Settled

LEMMA OwnHolds == IInv => UsersOwnTheVault
<1>. SUFFICES ASSUME IInv PROVE UsersOwnTheVault
  OBVIOUS
<1>1. Len(events) \in Nat
  BY DEF IInv, Typed
<1>2. Missing \subseteq erased \cup orphans \cup cut \cup behind \cup Deleted(Len(events))
  BY <1>1, WhatIsDeleted DEF Missing
<1>3. OnlyUsersDelete
  BY <1>2 DEF IInv, EditsAreUsers, OnlyUsersDelete
<1>4. OnlyTypedIsPosted
  BY DEF IInv, EditsAreUsers, OnlyTypedIsPosted
<1>. QED  BY <1>3, <1>4 DEF UsersOwnTheVault

\* A fact whose tombstone the exporter has dealt with has no line in the vault, and none
\* is written for it again, whatever fails, crashes or is exported later, unless a round
\* stamps it anew: what is collected is newer than the cursor, and neither a correction
\* nor a distillation brings a deleted fact's time forward.
THEOREM DeletedHaveNoLine == Spec => []DeletedAreRemoved
BY Invariance, RemovedHolds, PTL

\* Up to the cursor nothing is forgotten: a fact is in the vault with the text the
\* Index has or the user gave it, unless a user or a fault took the line away or the
\* fact entered the Index with a time below the cursor.
THEOREM NothingBelowTheCursorIsLost == Spec => []ExportedUpToCursor
BY Invariance, UpToCursorHolds, PTL

\* The backflow takes nothing of the exporter's own writing for the user's: what it
\* deletes was taken out of the vault, and what it corrects was typed there, but for
\* lines a fault or a crash disturbed.
THEOREM TheVaultIsTheUsers == Spec => []UsersOwnTheVault
BY Invariance, OwnHolds, PTL
=============================================================================
