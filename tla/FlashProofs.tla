----------------------------- MODULE FlashProofs -----------------------------
(* Theorems about FlashLedger, for every value of its constants. *)
EXTENDS FlashLedger, TLAPS

Optional == Texts \cup {None}
Places == {"down", "start", "idle", "capture", "post", "settle", "source", "files", "purge",
           "save"}
Returns == {"capture", "source", "purge"}
States ==
    [pc : Places, snap : Optional \cup {Edited}, base : Optional, pending : BOOLEAN,
     asha : Optional, arev : Nat \cup {None}, count : Nat, dirty : BOOLEAN, cur : Optional,
     resp : Optional, seen : Optional, back : Returns \cup {None}, edits : BOOLEAN,
     changed : BOOLEAN, heard : BOOLEAN]

FlashTypes ==
    /\ pool \in Optional /\ hub \in Optional /\ dead \in BOOLEAN /\ file \in Optional
    /\ saved \in [base : Optional, asha : Optional, arev : Nat \cup {None}]
    /\ d \in States
    /\ typed \in Nat /\ updated \in Nat /\ repeats \in Nat
    /\ spent \in [Kinds -> Nat]
    /\ d.pc \in {"post", "settle"} => d.cur # None /\ d.back \in Returns
    /\ d.pc = "settle" => d.resp # None

-----------------------------------------------------------------------------
(* The invariant. *)

\* What the proxy, the Hub and the daemon's snapshots hold was typed by nobody but a user
\* whose version the proxy has adopted; or, in the snapshots, by one whose text did not name
\* the ledger.
Known(x) == x \in Texts => x.u \in taken
KnownOrStray(x) == x \in Texts => x.u \in taken \cup strays
TextsAreTaken ==
    /\ Known(pool) /\ Known(hub) /\ KnownOrStray(saved.base)
    /\ Known(d.seen) /\ Known(d.resp) /\ KnownOrStray(d.base) /\ KnownOrStray(d.snap)
    /\ taken \subseteq 0..typed
    /\ file # None => file.u \in 0..typed
    /\ d.pc \in {"post", "settle"} => d.cur.u \in 0..typed

\* A deleted ledger stays out of the Hub.
GoneForGood ==
    /\ hub = None => dead
    /\ d.pc # "down" /\ d.seen = None => hub = None

\* While a text is on its way to the proxy and back, the file holds it or what was typed
\* since then.
OffersAreFile ==
    /\ d.pc \in {"post", "settle"} /\ file # None /\ file.u # d.cur.u => file.u \in raced
    /\ d.pc = "post" /\ file # None /\ file.u # d.cur.u => file.u \notin taken
    /\ d.pc = "settle" => d.cur.u \in taken

\* Until the Hub has caught up with an adoption the file holds what was adopted, or what
\* was typed since then.
AdoptionsAreFile == d.pending /\ d.arev # None /\ file # None => file.u \in taken \cup raced

\* Only a file the state does not know is without a snapshot.
SnapIsKnown ==
    d.pc \notin {"down", "start"} /\ d.snap = None => None \in {d.base, file, d.seen}

StartsFromState ==
    /\ d.pc = "down" => d = Off
    /\ d.pc = "start" => d.snap = None /\ d.base = saved.base /\ ~d.pending

\* The daemon may offer a version once more that the proxy has adopted: it is about to, or
\* its snapshot or its notes do not say so.
Due ==
    \/ d.pc = "down" /\ saved.base # None
    \/ d.pc = "start" /\ d.base # None
    \/ d.pc = "post" /\ d.cur.u \in taken
    \/ /\ d.pc \notin {"down", "start", "post", "settle"}
       /\ file # None /\ file.u \in taken
       /\ \/ d.snap # None /\ file # d.snap
          \/ d.pending /\ d.arev = None
Owed == IF Due THEN 1 ELSE 0
FaultsPaid == spent["crash"] + spent["reply"] + spent["write"]
Counted == repeats + Owed <= FaultsPaid

Inv ==
    /\ FlashTypes /\ TextsAreTaken /\ GoneForGood /\ OffersAreFile /\ AdoptionsAreFile
    /\ SnapIsKnown /\ StartsFromState /\ Counted

LEMMA Constants ==
    /\ None # Edited /\ None \notin Texts /\ Edited \notin Texts
    /\ None \notin Nat /\ Edited \notin Nat /\ Cap \in Nat /\ Budgets \subseteq [Kinds -> Nat]
  BY FlashAssumption DEF FlashAssumption

LEMMA Spending ==
  ASSUME FlashTypes, NEW k \in Kinds, Spend(k)
  PROVE  /\ spent' \in [Kinds -> Nat] /\ FaultsPaid \in Nat /\ FaultsPaid' \in Nat
         /\ FaultsPaid <= FaultsPaid'
         /\ k \in {"crash", "reply", "write"} => FaultsPaid' = FaultsPaid + 1
<1>1. spent' \in [Kinds -> Nat] /\ spent \in [Kinds -> Nat]
  BY DEF FlashTypes, Spend, Kinds
<1>2. /\ {"crash", "reply", "write"} \subseteq Kinds
      /\ \A j \in {"crash", "reply", "write"} : spent[j] \in Nat /\ spent'[j] \in Nat
      /\ \A j \in {"crash", "reply", "write"} :
            spent'[j] = IF j = k THEN spent[j] + 1 ELSE spent[j]
  BY <1>1 DEF Spend, Kinds
<1>. QED  BY <1>1, <1>2 DEF FaultsPaid

LEMMA InvInit == Init => Inv
<1>. SUFFICES ASSUME Init PROVE Inv
  OBVIOUS
<1>. USE Constants DEF Init
<1>1. FlashTypes
  BY DEF FlashTypes, Optional, Texts, Text, States, Places, Off, Kinds
<1>2. TextsAreTaken /\ GoneForGood /\ OffersAreFile /\ AdoptionsAreFile
  BY DEF TextsAreTaken, Known, KnownOrStray, GoneForGood, OffersAreFile, AdoptionsAreFile, Texts, Text, Off
<1>3. SnapIsKnown /\ StartsFromState
  BY DEF SnapIsKnown, StartsFromState, Off
<1>4. Counted
  BY DEF Counted, Owed, Due, FaultsPaid, Off, Kinds
<1>. QED  BY <1>1, <1>2, <1>3, <1>4 DEF Inv

-----------------------------------------------------------------------------
(* Kinds of steps. *)

Away == {"down", "start"}

\* What the daemon knows of its file and of an adoption that waits.
SameNotes == /\ d'.snap = d.snap /\ d'.base = d.base
             /\ d'.pending = d.pending /\ d'.arev = d.arev

LEMMA OwedType == Owed \in {0, 1} /\ Owed' \in {0, 1}
  BY DEF Owed

LEMMA PaidType ==
  ASSUME FlashTypes
  PROVE  FaultsPaid \in Nat
  BY DEF FlashTypes, FaultsPaid, Kinds

LEMMA SpentKept ==
  ASSUME FlashTypes, UNCHANGED spent
  PROVE  /\ spent' \in [Kinds -> Nat] /\ FaultsPaid \in Nat /\ FaultsPaid' \in Nat
         /\ FaultsPaid' = FaultsPaid
  BY PaidType DEF FlashTypes, FaultsPaid

\* The proxy and the Hub change, or nothing does.
LEMMA StoreMoves ==
  ASSUME Inv, FlashTypes', Known(pool)', Known(hub)', UNCHANGED <<file, saved, d, typed, strays, taken>>,
         raced \subseteq raced', repeats' = repeats, hub' = None => dead',
         hub = None => hub' = None, dead => dead', FaultsPaid <= FaultsPaid',
         FaultsPaid \in Nat, FaultsPaid' \in Nat
  PROVE  Inv'
<1>. USE DEF Inv
<1>1. TextsAreTaken' /\ GoneForGood'
  BY DEF TextsAreTaken, Known, KnownOrStray, GoneForGood
<1>2. OffersAreFile' /\ AdoptionsAreFile' /\ SnapIsKnown' /\ StartsFromState'
  BY DEF OffersAreFile, AdoptionsAreFile, SnapIsKnown, StartsFromState
<1>3. Owed' = Owed /\ repeats \in Nat
  BY DEF Owed, Due, FlashTypes
<1>4. Counted'
  BY <1>3, OwedType DEF Counted
<1>. QED  BY <1>1, <1>2, <1>4

\* A step of the daemon that neither starts nor ends an offer.
LEMMA DaemonMoves ==
  ASSUME Inv, FlashTypes', UNCHANGED <<pool, hub, dead, file, typed, strays, taken, raced, repeats>>,
         saved'.base \in {saved.base, d.base}, SameNotes,
         d'.seen \in {d.seen, hub}, d'.resp \in {d.resp, None},
         d.pc \notin Away \cup {"settle"}, d'.pc \notin Away \cup {"post", "settle"},
         FaultsPaid <= FaultsPaid', FaultsPaid \in Nat, FaultsPaid' \in Nat
  PROVE  Inv'
<1>. USE Constants DEF Inv, SameNotes, Away
<1>1. TextsAreTaken' /\ GoneForGood'
  BY DEF TextsAreTaken, Known, KnownOrStray, GoneForGood
<1>2. OffersAreFile' /\ AdoptionsAreFile' /\ StartsFromState'
  BY DEF OffersAreFile, AdoptionsAreFile, StartsFromState
<1>3. SnapIsKnown'
  <2>1. d.seen = None => d'.seen = None
    BY DEF GoneForGood
  <2>. QED  BY <2>1 DEF SnapIsKnown
<1>4. Due' => Due
  BY DEF Due, OffersAreFile
<1>5. Counted'
  BY <1>4, OwedType DEF Counted, Owed, FlashTypes
<1>. QED  BY <1>1, <1>2, <1>3, <1>5

\* An offer begins: of a text that was adopted, only if one was due.
LEMMA OfferMoves ==
  ASSUME Inv, FlashTypes',
         UNCHANGED <<pool, hub, dead, file, saved, typed, strays, taken, raced, repeats, spent>>,
         d'.base = d.base, d'.pending = d.pending, d'.arev = d.arev, d'.seen = d.seen,
         d'.resp = d.resp, d.pc # "down",
         (d.pc # "start" /\ d'.snap = d.snap) \/ (d'.snap = file /\ KnownOrStray(file)),
         d'.pc = "post", file # None, d'.cur = file, file.u \in taken => Due
  PROVE  Inv'
<1>. USE Constants DEF Inv
<1>1. TextsAreTaken' /\ GoneForGood'
  BY DEF TextsAreTaken, Known, KnownOrStray, GoneForGood
<1>2. OffersAreFile' /\ AdoptionsAreFile' /\ StartsFromState'
  BY DEF OffersAreFile, AdoptionsAreFile, StartsFromState
<1>3. SnapIsKnown'
  BY DEF SnapIsKnown
<1>4. Due' => Due
  BY DEF Due
<1>5. FaultsPaid' = FaultsPaid /\ repeats' = repeats /\ repeats \in Nat
  BY DEF FaultsPaid, FlashTypes
<1>6. Counted'
  BY <1>4, <1>5, PaidType DEF Counted, Owed
<1>. QED  BY <1>1, <1>2, <1>3, <1>6

-----------------------------------------------------------------------------
(* The proxy, the model and the user. *)

LEMMA TextType ==
  ASSUME NEW r \in Nat, NEW u \in Nat, NEW m \in Nat
  PROVE  Text(r, u, m) \in Texts /\ Text(r, u, m) # None /\ Text(r, u, m).u = u
  BY Constants DEF Text, Texts

\* A change of the pool whose event may be lost.
LEMMA Putting ==
  ASSUME Inv, NEW led \in Texts, Put(led)
  PROVE  /\ pool' = led /\ hub' \in {hub, led} /\ (dead => hub' = hub)
         /\ spent' \in [Kinds -> Nat]
         /\ FaultsPaid \in Nat /\ FaultsPaid' \in Nat /\ FaultsPaid <= FaultsPaid'
<1>. USE DEF Inv
<1>1. pool' = led /\ hub' \in {hub, led} /\ (dead => hub' = hub)
  BY DEF Put, Replayed
<1>2. CASE UNCHANGED spent
  <2>1. FaultsPaid \in Nat /\ spent \in [Kinds -> Nat]
    BY DEF FlashTypes, FaultsPaid, Kinds
  <2>. QED  BY <1>1, <1>2, <2>1 DEF FaultsPaid
<1>3. CASE Spend("append")
  BY <1>1, <1>3, Spending DEF Kinds
<1>. QED  BY <1>2, <1>3 DEF Put

LEMMA Updated ==
  ASSUME NEW p \in Texts, NEW m \in Nat
  PROVE  [p EXCEPT !.rev = @ + 1, !.m = m] \in Texts
         /\ [p EXCEPT !.rev = @ + 1, !.m = m].u = p.u
<1>. DEFINE r == p.rev + 1
<1>1. r \in Nat
  BY DEF Texts
<1>2. [p EXCEPT !.rev = @ + 1, !.m = m] = [p EXCEPT !.rev = r, !.m = m]
  OBVIOUS
<1>. HIDE DEF r
<1>3. [p EXCEPT !.rev = r, !.m = m] \in Texts
  BY <1>1 DEF Texts
<1>4. [p EXCEPT !.rev = r, !.m = m].u = p.u
  BY <1>1 DEF Texts
<1>. QED  BY <1>2, <1>3, <1>4

LEMMA ModelStep ==
  ASSUME Inv, Model
  PROVE  Inv'
<1>. USE DEF Inv
<1>. DEFINE led == [pool EXCEPT !.rev = @ + 1, !.m = updated + 1]
<1>1. pool \in Texts /\ led \in Texts /\ led.u = pool.u
  <2>1. pool \in Texts /\ updated + 1 \in Nat
    BY DEF Model, FlashTypes, Optional
  <2>. QED  BY <2>1, Updated
<1>2. Put(led)
  BY DEF Model
<1>. HIDE DEF led
<1>3. /\ pool' = led /\ hub' \in {hub, led} /\ (dead => hub' = hub)
      /\ spent' \in [Kinds -> Nat]
      /\ FaultsPaid \in Nat /\ FaultsPaid' \in Nat /\ FaultsPaid <= FaultsPaid'
  BY <1>1, <1>2, Putting
<1>4. FlashTypes'
  BY <1>1, <1>3 DEF Model, FlashTypes, Optional
<1>5. Known(pool)' /\ Known(hub)'
  BY <1>1, <1>3 DEF Model, TextsAreTaken, Known
<1>6. hub = None => hub' = None
  BY <1>3 DEF GoneForGood
<1>. QED  BY <1>1, <1>3, <1>4, <1>5, <1>6, StoreMoves, Constants DEF Model, GoneForGood

LEMMA StoreStep ==
  ASSUME Inv, Delete \/ RestartProxy \/ Ring \/ UNCHANGED vars
  PROVE  Inv'
<1>. USE DEF Inv
<1>1. FaultsPaid \in Nat
  BY PaidType
<1>2. CASE Delete
  <2>1. FlashTypes'
    BY <1>2 DEF Delete, FlashTypes, Optional, history
  <2>2. Known(pool)' /\ Known(hub)'
    BY <1>2, Constants DEF Delete, Known
  <2>3. FaultsPaid' = FaultsPaid
    BY <1>2 DEF Delete, FaultsPaid
  <2>. QED  BY <1>1, <1>2, <2>1, <2>2, <2>3, StoreMoves DEF Delete, history
<1>3. CASE RestartProxy
  <2>1. spent' \in [Kinds -> Nat] /\ FaultsPaid' \in Nat /\ FaultsPaid <= FaultsPaid'
    BY <1>3, Spending DEF RestartProxy, Kinds
  <2>2. FlashTypes'
    BY <1>3, <2>1 DEF RestartProxy, FlashTypes, history
  <2>3. Known(pool)' /\ Known(hub)'
    BY <1>3 DEF RestartProxy, Known, TextsAreTaken, history
  <2>. QED  BY <1>1, <1>3, <2>1, <2>2, <2>3, StoreMoves DEF RestartProxy, history, GoneForGood
<1>4. CASE Ring \/ UNCHANGED vars
  <2>1. UNCHANGED <<store, file, saved, d, history, spent>>
    BY <1>4 DEF Ring, vars
  <2>2. FlashTypes' /\ FaultsPaid' = FaultsPaid
    BY <2>1 DEF store, history, FlashTypes, FaultsPaid
  <2>3. Known(pool)' /\ Known(hub)'
    BY <2>1 DEF store, history, Known, TextsAreTaken
  <2>. QED  BY <1>1, <2>1, <2>2, <2>3, StoreMoves DEF store, history, GoneForGood
<1>. QED  BY <1>2, <1>3, <1>4

\* A version that is typed was not adopted yet.
LEMMA TypeStep ==
  ASSUME Inv, Type
  PROVE  Inv'
<1>. USE DEF Inv
<1>1. /\ file \in Texts /\ file' \in Texts /\ file' # None /\ file'.u = typed + 1
      /\ typed \in Nat /\ typed' = typed + 1 /\ typed + 1 \notin taken
  BY Constants DEF Type, FlashTypes, Optional, Texts, TextsAreTaken
<1>2. /\ UNCHANGED <<pool, hub, dead, saved, d, updated, taken, repeats>>
      /\ strays \subseteq strays'
  BY DEF Type, store
<1>9. /\ spent' \in [Kinds -> Nat] /\ FaultsPaid \in Nat /\ FaultsPaid' \in Nat
      /\ FaultsPaid <= FaultsPaid'
  <2>1. UNCHANGED spent \/ Spend("stray")
    BY DEF Type
  <2>. QED  BY <2>1, Spending, SpentKept DEF Kinds
<1>3. FlashTypes'
  BY <1>1, <1>2, <1>9 DEF FlashTypes, Optional
<1>4. TextsAreTaken' /\ GoneForGood'
  BY <1>1, <1>2 DEF TextsAreTaken, Known, KnownOrStray, GoneForGood
<1>5. AboutToWrite => typed + 1 \in raced'
  BY DEF Type
<1>6. OffersAreFile' /\ AdoptionsAreFile'
  BY <1>1, <1>2, <1>5 DEF OffersAreFile, AdoptionsAreFile, AboutToWrite
<1>7. SnapIsKnown' /\ StartsFromState'
  <2>1. file # None
    BY DEF Type
  <2>. QED  BY <1>1, <1>2, <2>1 DEF SnapIsKnown, StartsFromState
<1>8. Counted'
  <2>1. Due' => Due
    BY <1>1, <1>2 DEF Due
  <2>. QED  BY <1>2, <1>9, <2>1, OwedType DEF Counted, Owed, FlashTypes
<1>. QED  BY <1>3, <1>4, <1>6, <1>7, <1>8

-----------------------------------------------------------------------------
(* The daemon. *)

LEMMA TypesKept ==
  ASSUME FlashTypes, UNCHANGED <<pool, hub, dead, typed, updated, repeats>>,
         file' \in Optional, spent' \in [Kinds -> Nat],
         saved' \in [base : Optional, asha : Optional, arev : Nat \cup {None}], d' \in States,
         d'.pc \in {"post", "settle"} => d'.cur # None /\ d'.back \in Returns,
         d'.pc = "settle" => d'.resp # None
  PROVE  FlashTypes'
  BY DEF FlashTypes

\* Fields of a daemon's state.
LEMMA StateFields ==
  ASSUME FlashTypes
  PROVE  /\ d.pc \in Places /\ d.snap \in Optional \cup {Edited} /\ d.base \in Optional
         /\ d.pending \in BOOLEAN /\ d.asha \in Optional /\ d.arev \in Nat \cup {None}
         /\ d.count \in Nat /\ d.cur \in Optional /\ d.resp \in Optional
         /\ d.seen \in Optional /\ d.back \in Returns \cup {None} /\ d \in States
         /\ None \in Optional /\ spent \in [Kinds -> Nat] /\ file \in Optional
  BY DEF FlashTypes, States, Optional

LEMMA ForgottenFields ==
  ASSUME FlashTypes
  PROVE  /\ Forgotten(d) \in States
         /\ Forgotten(d).pc = d.pc /\ Forgotten(d).snap = d.snap /\ Forgotten(d).base = d.base
         /\ Forgotten(d).pending = FALSE /\ Forgotten(d).arev = None
         /\ Forgotten(d).seen = d.seen /\ Forgotten(d).resp = d.resp
         /\ Forgotten(d).cur = d.cur /\ Forgotten(d).back = d.back
         /\ Forgotten(d).changed = d.changed /\ Forgotten(d).edits = d.edits
  BY StateFields, Constants DEF Forgotten, States

LEMMA StartStep ==
  ASSUME Inv, Start
  PROVE  Inv'
<1>. USE DEF Inv
<1>1. /\ d.pc = "down" /\ d' = [Started EXCEPT !.seen = hub]
      /\ UNCHANGED <<pool, hub, dead, file, saved, typed, strays, updated, taken, raced, repeats, spent>>
  BY DEF Start, store, history
<1>2. /\ saved.base \in Optional /\ saved.asha \in Optional /\ saved.arev \in Nat \cup {None}
      /\ hub \in Optional /\ None \in Optional
  BY DEF FlashTypes, Optional
<1>3. d' = [pc |-> "start", snap |-> None, base |-> saved.base, pending |-> FALSE,
            asha |-> saved.asha, arev |-> saved.arev, count |-> 0, dirty |-> TRUE, cur |-> None,
            resp |-> None, seen |-> hub, back |-> None, edits |-> FALSE, changed |-> TRUE,
            heard |-> FALSE]
  BY <1>1 DEF Started, Off
<1>4. d' \in States
  BY <1>2, <1>3 DEF States, Places
<1>5. FlashTypes'
  BY <1>1, <1>3, <1>4, TypesKept DEF FlashTypes
<1>6. TextsAreTaken' /\ GoneForGood'
  BY <1>1, <1>3, Constants DEF TextsAreTaken, Known, KnownOrStray, GoneForGood
<1>7. OffersAreFile' /\ AdoptionsAreFile' /\ SnapIsKnown' /\ StartsFromState'
  BY <1>1, <1>3 DEF OffersAreFile, AdoptionsAreFile, SnapIsKnown, StartsFromState
<1>8. Counted'
  <2>1. Due' => Due
    BY <1>1, <1>3 DEF Due
  <2>. QED  BY <1>1, <2>1, OwedType, SpentKept DEF Counted, Owed, FlashTypes
<1>. QED  BY <1>5, <1>6, <1>7, <1>8

\* The steps between the others.
LEMMA QuietStep ==
  ASSUME Inv, Wake \/ WakeDegraded \/ ReadHub \/ NothingThere \/ Save
  PROVE  Inv'
<1>. USE DEF Inv
<1>1. /\ UNCHANGED <<pool, hub, dead, file, typed, strays, updated, taken, raced, repeats>>
      /\ saved' \in {saved, [base |-> d.base, asha |-> d.asha, arev |-> d.arev]}
  BY DEF Wake, WakeDegraded, ReadHub, NothingThere, Save, store, history
<1>2. /\ spent' \in [Kinds -> Nat]
      /\ FaultsPaid \in Nat /\ FaultsPaid' \in Nat /\ FaultsPaid <= FaultsPaid'
  <2>1. UNCHANGED spent \/ Spend("stream") \/ Spend("stale")
    BY DEF Wake, WakeDegraded, ReadHub, NothingThere, Save, Source
  <2>. QED  BY <2>1, Spending, SpentKept DEF Kinds
<1>3. /\ d.pc \in {"idle", "source", "files", "save"} /\ d' \in States /\ SameNotes
      /\ d'.pc \in {"capture", "files", "save", "purge", "idle"}
      /\ d'.seen \in {d.seen, hub} /\ d'.resp \in {d.resp, None}
  <2>1. /\ d.pc \in {"idle", "source", "files", "save"}
        /\ \/ d' = [d EXCEPT !.pc = "capture", !.dirty = TRUE, !.heard = TRUE]
           \/ d' = [d EXCEPT !.pc = "capture", !.dirty = TRUE, !.heard = FALSE]
           \/ \E pc \in {"capture", "files", "save", "purge"} : d' = [d EXCEPT !.pc = pc]
           \/ d' = [[d EXCEPT !.pc = "files"] EXCEPT !.seen = hub]
           \/ d' = [d EXCEPT !.pc = "idle", !.edits = FALSE, !.changed = FALSE,
                             !.cur = None, !.resp = None, !.back = None]
    BY DEF Wake, WakeDegraded, ReadHub, NothingThere, Save, Source
  <2>2. hub \in Optional
    BY DEF FlashTypes
  <2>3. /\ d' \in States /\ d'.seen \in {d.seen, hub} /\ d'.resp \in {d.resp, None}
        /\ d'.pc \in {"capture", "files", "save", "purge", "idle"}
        /\ SameNotes
    <3>. USE StateFields DEF States, Places, SameNotes
    <3>1. CASE d' = [d EXCEPT !.pc = "capture", !.dirty = TRUE, !.heard = TRUE]
      BY <3>1
    <3>2. CASE d' = [d EXCEPT !.pc = "capture", !.dirty = TRUE, !.heard = FALSE]
      BY <3>2
    <3>3. ASSUME NEW pc \in {"capture", "files", "save", "purge"}, d' = [d EXCEPT !.pc = pc]
          PROVE  /\ d' \in States /\ d'.seen = d.seen /\ d'.resp = d.resp
                 /\ d'.pc = pc /\ SameNotes
      BY <3>3
    <3>4. CASE d' = [[d EXCEPT !.pc = "files"] EXCEPT !.seen = hub]
      BY <2>2, <3>4
    <3>5. CASE d' = [d EXCEPT !.pc = "idle", !.edits = FALSE, !.changed = FALSE,
                             !.cur = None, !.resp = None, !.back = None]
      BY <3>5
    <3>. QED  BY <2>1, <3>1, <3>2, <3>3, <3>4, <3>5
  <2>. QED  BY <2>1, <2>3
<1>4. saved' \in [base : Optional, asha : Optional, arev : Nat \cup {None}]
  BY <1>1, StateFields DEF FlashTypes
<1>5. FlashTypes'
  BY <1>1, <1>2, <1>3, <1>4, StateFields, TypesKept
<1>. QED  BY <1>1, <1>2, <1>3, <1>5, DaemonMoves DEF Away

\* Startup knows the file from the saved state, or has no snapshot of it.
LEMMA Checked ==
  ASSUME Inv, FlashTypes', d.pc = "start",
         UNCHANGED <<pool, hub, dead, file, saved, typed, strays, taken, raced, repeats, spent>>,
         d'.pc = "capture", d'.base = d.base, ~d'.pending, d'.seen = d.seen, d'.resp = d.resp,
         \/ d'.snap = None /\ None \in {d.base, file, d.seen}
         \/ d'.snap = Edited /\ d.base # None
         \/ d'.snap = file /\ file = d.base
  PROVE  Inv'
<1>. USE Constants DEF Inv
<1>1. TextsAreTaken' /\ GoneForGood'
  BY DEF TextsAreTaken, Known, KnownOrStray, GoneForGood
<1>2. OffersAreFile' /\ AdoptionsAreFile' /\ StartsFromState' /\ SnapIsKnown'
  BY DEF OffersAreFile, AdoptionsAreFile, StartsFromState, SnapIsKnown
<1>3. Due' => Due
  BY DEF Due
<1>4. FaultsPaid' = FaultsPaid /\ repeats' = repeats /\ repeats \in Nat
  BY DEF FaultsPaid, FlashTypes
<1>5. Counted'
  BY <1>3, <1>4, PaidType DEF Counted, Owed
<1>. QED  BY <1>1, <1>2, <1>5

LEMMA CheckStep ==
  ASSUME Inv, Check
  PROVE  Inv'
<1>. USE DEF Inv
<1>1. /\ d.pc = "start" /\ ~d.pending /\ d.snap = None
      /\ UNCHANGED <<pool, hub, dead, file, saved, typed, strays, updated, taken, raced, repeats, spent>>
  BY DEF Check, store, history, StartsFromState
<1>2. CASE d.seen = None \/ d.base = None \/ file = None
  <2>1. d' = [d EXCEPT !.pc = "capture"]
    BY <1>2 DEF Check
  <2>2. /\ d' \in States /\ d'.pc = "capture" /\ d'.base = d.base /\ ~d'.pending
        /\ d'.seen = d.seen /\ d'.resp = d.resp /\ d'.snap = None
    BY <1>1, <2>1, StateFields DEF States, Places
  <2>. QED  BY <1>1, <1>2, <2>2, TypesKept, StateFields, Checked DEF FlashTypes
<1>3. CASE /\ ~(d.seen = None \/ d.base = None \/ file = None)
           /\ file # d.base
  <2>1. d' = [d EXCEPT !.snap = Edited, !.pc = "capture"]
    BY <1>3 DEF Check
  <2>2. /\ d' \in States /\ d'.pc = "capture" /\ d'.base = d.base /\ ~d'.pending
        /\ d'.seen = d.seen /\ d'.resp = d.resp /\ d'.snap = Edited
    BY <1>1, <2>1, StateFields DEF States, Places
  <2>. QED  BY <1>1, <1>3, <2>2, TypesKept, StateFields, Checked DEF FlashTypes
<1>4. CASE /\ ~(d.seen = None \/ d.base = None \/ file = None)
           /\ file = d.base
  <2>1. \/ d' = [Forgotten(d) EXCEPT !.snap = file, !.pc = "capture"]
        \/ d' = [d EXCEPT !.snap = file, !.cur = file, !.pc = "post", !.back = "capture"]
        \/ d' = [d EXCEPT !.snap = file, !.pc = "capture"]
    BY <1>4 DEF Check, Reconciled
  <2>2. CASE d' = [d EXCEPT !.snap = file, !.cur = file, !.pc = "post", !.back = "capture"]
    <3>1. /\ d' \in States /\ d'.pc = "post" /\ d'.base = d.base /\ d'.pending = d.pending
          /\ d'.arev = d.arev /\ d'.seen = d.seen /\ d'.resp = d.resp /\ d'.snap = file
          /\ d'.cur = file /\ d'.back = "capture"
      BY <2>2, StateFields DEF States, Places, Returns
    <3>2. FlashTypes'
      BY <1>1, <1>4, <3>1, TypesKept, StateFields, Constants DEF FlashTypes, Returns
    <3>3. Due /\ KnownOrStray(file)
      BY <1>1, <1>4 DEF Due, TextsAreTaken
    <3>. QED  BY <1>1, <1>4, <3>1, <3>2, <3>3, OfferMoves
  <2>3. CASE \/ d' = [Forgotten(d) EXCEPT !.snap = file, !.pc = "capture"]
             \/ d' = [d EXCEPT !.snap = file, !.pc = "capture"]
    <3>1. /\ d' \in States /\ d'.pc = "capture" /\ d'.base = d.base /\ ~d'.pending
          /\ d'.seen = d.seen /\ d'.resp = d.resp /\ d'.snap = file
      <4>1. CASE d' = [d EXCEPT !.snap = file, !.pc = "capture"]
        BY <1>1, <4>1, StateFields DEF States, Places
      <4>2. CASE d' = [Forgotten(d) EXCEPT !.snap = file, !.pc = "capture"]
        BY <4>2, StateFields, ForgottenFields DEF States, Places
      <4>. QED  BY <2>3, <4>1, <4>2
    <3>. QED  BY <1>1, <1>4, <3>1, TypesKept, StateFields, Checked DEF FlashTypes
  <2>. QED  BY <2>1, <2>2, <2>3
<1>. QED  BY <1>2, <1>3, <1>4

LEMMA CaptureStep ==
  ASSUME Inv, Capture
  PROVE  Inv'
<1>. USE DEF Inv
<1>1. /\ d.pc = "capture"
      /\ UNCHANGED <<pool, hub, dead, file, saved, typed, strays, updated, taken, raced, repeats, spent>>
  BY DEF Capture, store, history
<1>2. CASE d.snap = None \/ file = None \/ file = d.snap
  <2>1. d' = [d EXCEPT !.pc = "source"]
    BY <1>2 DEF Capture
  <2>2. d' \in States /\ d'.pc = "source" /\ SameNotes /\ d'.seen = d.seen /\ d'.resp = d.resp
    BY <2>1, StateFields DEF States, Places, SameNotes
  <2>3. FlashTypes'
    BY <1>1, <2>2, TypesKept, StateFields DEF FlashTypes
  <2>. QED  BY <1>1, <2>2, <2>3, SpentKept, DaemonMoves DEF Away
<1>4. CASE ~(d.snap = None \/ file = None \/ file = d.snap) /\ file.u \in strays
  <2>1. d' = [d EXCEPT !.snap = file, !.base = file, !.pc = "source"]
    BY <1>4 DEF Capture
  <2>2. /\ d' \in States /\ d'.pc = "source" /\ d'.seen = d.seen /\ d'.resp = d.resp
        /\ d'.snap = file /\ d'.base = file /\ d'.pending = d.pending /\ d'.arev = d.arev
    BY <2>1, StateFields DEF States, Places
  <2>3. FlashTypes'
    BY <1>1, <2>2, TypesKept, StateFields DEF FlashTypes
  <2>4. TextsAreTaken' /\ GoneForGood'
    BY <1>1, <1>4, <2>2 DEF TextsAreTaken, Known, KnownOrStray, GoneForGood
  <2>5. OffersAreFile' /\ AdoptionsAreFile' /\ SnapIsKnown' /\ StartsFromState'
    BY <1>1, <1>4, <2>2 DEF OffersAreFile, AdoptionsAreFile, SnapIsKnown, StartsFromState
  <2>6. Due' => Due
    BY <1>1, <2>2 DEF Due
  <2>7. Counted'
    BY <1>1, <2>6, OwedType, SpentKept DEF Counted, Owed, FlashTypes
  <2>. QED  BY <2>3, <2>4, <2>5, <2>7
<1>3. CASE ~(d.snap = None \/ file = None \/ file = d.snap) /\ file.u \notin strays
  <2>1. d' = [d EXCEPT !.pc = "post", !.cur = file, !.back = "source"]
    BY <1>3 DEF Capture
  <2>2. /\ d' \in States /\ d'.pc = "post" /\ SameNotes /\ d'.seen = d.seen
        /\ d'.resp = d.resp /\ d'.cur = file /\ d'.back = "source"
    BY <2>1, StateFields DEF States, Places, Returns, SameNotes
  <2>3. FlashTypes'
    BY <1>1, <1>3, <2>2, TypesKept, StateFields, Constants DEF FlashTypes, Returns
  <2>4. file.u \in taken => Due
    BY <1>1, <1>3 DEF Due
  <2>. QED  BY <1>1, <1>3, <2>2, <2>3, <2>4, OfferMoves DEF SameNotes
<1>. QED  BY <1>2, <1>3, <1>4

\* A request that is not answered leaves the daemon with what it knew.
LEMMA RefusedFields ==
  ASSUME Inv, d.pc = "post"
  PROVE  /\ Refused \in States /\ Refused.pc \in Returns
         /\ Refused.snap = d.snap /\ Refused.base = d.base /\ Refused.seen = d.seen
         /\ Refused.resp = d.resp
         /\ \/ Refused.arev = None
            \/ Refused.arev = d.arev /\ Refused.pending = d.pending
<1>. USE StateFields, Constants DEF Inv
<1>1. d.back \in Returns /\ d.cur \in Optional
  BY DEF FlashTypes
<1>2. CASE d.back = "capture"
  <2>1. Refused = [d EXCEPT !.pc = "capture", !.arev = None, !.asha = d.cur, !.pending = TRUE]
    BY <1>2 DEF Refused
  <2>. QED  BY <1>1, <2>1 DEF States, Places, Returns
<1>3. CASE d.back # "capture"
  <2>1. Refused = [d EXCEPT !.pc = d.back]
    BY <1>3 DEF Refused
  <2>. QED  BY <1>1, <2>1 DEF States, Places, Returns
<1>. QED  BY <1>2, <1>3

\* What follows an offer without an answer, however it fared.
LEMMA RefusedMoves ==
  ASSUME Inv, FlashTypes', d.pc = "post", d' = Refused, Known(pool)', Known(hub)',
         UNCHANGED <<dead, file, saved, typed, strays, raced>>,
         taken' = taken \cup {d.cur.u} \/ taken' = taken,
         hub' = None => dead', hub = None => hub' = None, Counted'
  PROVE  Inv'
<1>. USE RefusedFields DEF Inv, Returns
<1>1. TextsAreTaken' /\ GoneForGood'
  BY DEF TextsAreTaken, Known, KnownOrStray, GoneForGood
<1>2. OffersAreFile' /\ StartsFromState'
  BY DEF OffersAreFile, StartsFromState
<1>3. AdoptionsAreFile'
  BY DEF AdoptionsAreFile
<1>4. SnapIsKnown'
  BY DEF SnapIsKnown
<1>. QED  BY <1>1, <1>2, <1>3, <1>4

LEMMA AdoptedType ==
  ASSUME Inv, d.pc = "post"
  PROVE  Adopted \in Texts /\ Adopted # None /\ Adopted.u = d.cur.u /\ d.cur \in Texts
<1>. USE Constants DEF Inv
<1>1. d.cur \in Texts
  BY DEF FlashTypes, States, Optional
<1>2. d.cur.u \in Nat /\ d.cur.m \in Nat /\ (pool # None => pool.rev + 1 \in Nat)
  BY <1>1 DEF Texts, FlashTypes, Optional
<1>3. \E r \in Nat : Adopted = Text(r, d.cur.u, d.cur.m)
  BY <1>2 DEF Adopted
<1>. QED  BY <1>1, <1>2, <1>3, TextType

LEMMA PostStep ==
  ASSUME Inv, Post
  PROVE  Inv'
<1>. USE DEF Inv
<1>1. /\ d.pc = "post" /\ UNCHANGED <<dead, file, saved, typed, strays, updated, raced>>
      /\ \/ /\ \/ /\ IF Stray THEN UNCHANGED <<pool, hub, spent>> ELSE Put(Adopted)
                  /\ d' = [d EXCEPT !.pc = "settle", !.resp = Adopted]
               \/ /\ Spend("reply") /\ d' = Refused
                  /\ IF Stray THEN UNCHANGED <<pool, hub>>
                              ELSE pool' = Adopted /\ hub' = Replayed(Adopted)
            /\ taken' = taken \cup {d.cur.u}
            /\ repeats' = IF d.cur.u \in taken THEN repeats + 1 ELSE repeats
         \/ Spend("refuse") /\ d' = Refused /\ UNCHANGED <<pool, hub, taken, repeats>>
  BY DEF Post
<1>2. /\ Adopted \in Texts /\ Adopted # None /\ Adopted.u = d.cur.u /\ d.cur \in Texts
      /\ d.cur.u \in 0..typed /\ repeats \in Nat
  BY <1>1, AdoptedType DEF TextsAreTaken, FlashTypes
<1>3. CASE Spend("refuse") /\ d' = Refused /\ UNCHANGED <<pool, hub, taken, repeats>>
  <2>1. FlashTypes'
    BY <1>1, <1>3, RefusedFields, TypesKept, Spending, StateFields DEF FlashTypes, Kinds, Returns
  <2>2. Known(pool)' /\ Known(hub)' /\ (hub' = None => dead')
    BY <1>1, <1>3 DEF TextsAreTaken, Known, KnownOrStray, GoneForGood
  <2>3. Due' => Due
    BY <1>1, <1>3, RefusedFields DEF Due, OffersAreFile, Returns
  <2>4. Counted'
    BY <1>2, <1>3, <2>3, Spending DEF Counted, Owed, Kinds
  <2>. QED  BY <1>1, <1>3, <2>1, <2>2, <2>4, RefusedMoves
<1>4. ASSUME taken' = taken \cup {d.cur.u}, pool' \in {pool, Adopted}, hub' \in {hub, Adopted},
             dead => hub' = hub
      PROVE  /\ Known(pool)' /\ Known(hub)' /\ (hub' = None => dead')
             /\ (hub = None => hub' = None) /\ pool' \in Optional /\ hub' \in Optional
  <2>1. Known(pool)' /\ Known(hub)'
    BY <1>2, <1>4 DEF TextsAreTaken, Known, KnownOrStray
  <2>. QED  BY <1>1, <1>2, <1>4, <2>1 DEF GoneForGood, FlashTypes, Optional
<1>5. ASSUME repeats' = IF d.cur.u \in taken THEN repeats + 1 ELSE repeats
      PROVE  /\ repeats' \in Nat /\ repeats' <= FaultsPaid /\ FaultsPaid \in Nat
             /\ spent \in [Kinds -> Nat]
  BY <1>1, <1>2, <1>5, PaidType DEF Counted, Owed, Due, FlashTypes
<1>6. CASE /\ Spend("reply") /\ d' = Refused
           /\ IF Stray THEN UNCHANGED <<pool, hub>>
                       ELSE pool' = Adopted /\ hub' = Replayed(Adopted)
           /\ taken' = taken \cup {d.cur.u}
           /\ repeats' = IF d.cur.u \in taken THEN repeats + 1 ELSE repeats
  <2>1. pool' \in {pool, Adopted} /\ hub' \in {hub, Adopted} /\ (dead => hub' = hub)
    BY <1>6 DEF Replayed
  <2>2. spent' \in [Kinds -> Nat] /\ FaultsPaid' = FaultsPaid + 1
    BY <1>6, Spending DEF Kinds
  <2>3. FlashTypes'
    BY <1>1, <1>4, <1>5, <1>6, <2>1, <2>2, RefusedFields DEF FlashTypes, Returns
  <2>4. Counted'
    BY <1>5, <1>6, <2>2, OwedType DEF Counted
  <2>. QED  BY <1>1, <1>4, <1>6, <2>1, <2>3, <2>4, RefusedMoves
<1>7. CASE /\ IF Stray THEN UNCHANGED <<pool, hub, spent>> ELSE Put(Adopted)
           /\ d' = [d EXCEPT !.pc = "settle", !.resp = Adopted]
           /\ taken' = taken \cup {d.cur.u}
           /\ repeats' = IF d.cur.u \in taken THEN repeats + 1 ELSE repeats
  <2>1. /\ pool' \in {pool, Adopted} /\ hub' \in {hub, Adopted} /\ (dead => hub' = hub)
        /\ spent' \in [Kinds -> Nat] /\ FaultsPaid' \in Nat /\ FaultsPaid <= FaultsPaid'
    BY <1>2, <1>7, Putting, SpentKept
  <2>2. /\ d' \in States /\ d'.pc = "settle" /\ d'.resp = Adopted /\ SameNotes
        /\ d'.cur = d.cur /\ d'.back = d.back /\ d'.seen = d.seen
    BY <1>2, <1>7, StateFields DEF States, Places, Optional, SameNotes
  <2>3. FlashTypes'
    BY <1>1, <1>2, <1>4, <1>5, <1>7, <2>1, <2>2 DEF FlashTypes
  <2>4. TextsAreTaken' /\ GoneForGood'
    BY <1>1, <1>2, <1>4, <1>7, <2>1, <2>2 DEF TextsAreTaken, Known, KnownOrStray, GoneForGood, SameNotes
  <2>5. OffersAreFile' /\ AdoptionsAreFile' /\ StartsFromState' /\ SnapIsKnown'
    BY <1>1, <1>7, <2>2
    DEF OffersAreFile, AdoptionsAreFile, StartsFromState, SnapIsKnown, SameNotes
  <2>6. ~Due'
    BY <2>2 DEF Due
  <2>7. Counted'
    BY <1>5, <1>7, <2>1, <2>6 DEF Counted, Owed
  <2>. QED  BY <2>3, <2>4, <2>5, <2>7
<1>. QED  BY <1>1, <1>3, <1>6, <1>7

-----------------------------------------------------------------------------
(* The file is written. *)

\* The daemon writes a text that it then takes for the file.
LEMMA WriteMoves ==
  ASSUME Inv, NEW text \in Texts, Known(text), Write(text),
         UNCHANGED <<pool, hub, dead, saved, typed, strays, updated, taken, raced, repeats>>,
         d' \in States, d.pc \in {"settle", "files"}, d'.pc \in Returns,
         d'.snap = text, d'.base = text, d'.seen = d.seen, d'.resp = d.resp,
         ~d'.pending \/ (d'.arev # None /\ (file = None \/ file.u \in taken \cup raced))
  PROVE  Inv'
<1>. USE Constants DEF Inv, Returns
<1>1. /\ file' \in {text, file} /\ (file' # text => FaultsPaid' = FaultsPaid + 1)
      /\ spent' \in [Kinds -> Nat] /\ FaultsPaid \in Nat /\ FaultsPaid' \in Nat
      /\ FaultsPaid <= FaultsPaid'
  BY Spending, SpentKept DEF Write, Kinds
<1>2. FlashTypes'
  BY <1>1, TypesKept, StateFields DEF FlashTypes, Optional
<1>3. TextsAreTaken' /\ GoneForGood'
  BY <1>1 DEF TextsAreTaken, Known, KnownOrStray, GoneForGood
<1>4. OffersAreFile' /\ StartsFromState' /\ SnapIsKnown'
  BY <1>1 DEF OffersAreFile, StartsFromState, SnapIsKnown
<1>5. AdoptionsAreFile'
  BY <1>1 DEF AdoptionsAreFile, Known
<1>6. Counted'
  <2>1. file' = text => ~Due'
    BY DEF Due
  <2>2. repeats \in Nat /\ repeats <= FaultsPaid
    BY <1>1, OwedType DEF FlashTypes, Counted
  <2>. QED  BY <1>1, <2>1, <2>2, OwedType DEF Counted, Owed
<1>. QED  BY <1>2, <1>3, <1>4, <1>5, <1>6

LEMMA SettleStep ==
  ASSUME Inv, Settle
  PROVE  Inv'
<1>. USE DEF Inv
<1>1. /\ d.pc = "settle" /\ Write(d.resp)
      /\ d' = [Settled EXCEPT !.pc = d.back, !.edits = d.edits \/ d.back = "source"]
      /\ UNCHANGED <<pool, hub, dead, saved, typed, strays, updated, taken, raced, repeats>>
  BY DEF Settle, store, history
<1>2. /\ d.resp \in Texts /\ d.resp.rev \in Nat /\ d.resp \in Optional
      /\ Known(d.resp) /\ d.back \in Returns
  BY <1>1, StateFields DEF FlashTypes, Optional, Texts, TextsAreTaken
<1>3. /\ Settled \in States /\ Settled.snap = d.resp /\ Settled.base = d.resp
      /\ Settled.arev = d.resp.rev /\ Settled.seen = d.seen /\ Settled.resp = d.resp
  BY <1>2, ForgottenFields DEF Settled, States
<1>4. /\ d' \in States /\ d'.pc = d.back /\ d'.snap = d.resp /\ d'.base = d.resp
      /\ d'.arev = d.resp.rev /\ d'.seen = d.seen /\ d'.resp = d.resp
  <2>. DEFINE took == d.edits \/ d.back = "source"
  <2>1. d' = [Settled EXCEPT !.pc = d.back, !.edits = took] /\ took \in BOOLEAN
    BY <1>1
  <2>2. d.back \in Places
    BY <1>2 DEF Places, Returns
  <2>. HIDE DEF took
  <2>. QED  BY <1>3, <2>1, <2>2 DEF States
<1>5. file = None \/ file.u \in taken \cup raced
  BY <1>1 DEF OffersAreFile
<1>. QED  BY <1>1, <1>2, <1>4, <1>5, WriteMoves, Constants

LEMMA MaterializeStep ==
  ASSUME Inv, Materialize
  PROVE  Inv'
<1>. USE DEF Inv
<1>1. /\ d.pc = "files" /\ d.seen # None /\ d.seen \in Texts /\ Known(d.seen)
      /\ UNCHANGED <<pool, hub, dead, saved, typed, strays, updated, taken, raced, repeats>>
  BY StateFields DEF Materialize, store, history, Optional, TextsAreTaken
<1>2. CASE Write(d.seen) /\ d' = Materialized(IF d.pending THEN Forgotten(d) ELSE d)
  <2>. DEFINE e == IF d.pending THEN Forgotten(d) ELSE d
  <2>1. /\ e \in States /\ e.seen = d.seen /\ e.resp = d.resp /\ ~e.pending
    BY ForgottenFields, StateFields
  <2>. DEFINE wrote == e.changed \/ file' # file
  <2>2. /\ d' = [e EXCEPT !.snap = d.seen, !.base = d.seen, !.pc = "purge", !.changed = wrote]
        /\ wrote \in BOOLEAN
    BY <1>2 DEF Materialized
  <2>. HIDE DEF e, wrote
  <2>3. /\ d' \in States /\ d'.pc = "purge" /\ d'.snap = d.seen /\ d'.base = d.seen
        /\ d'.seen = d.seen /\ d'.resp = d.resp /\ ~d'.pending
    BY <2>1, <2>2, StateFields DEF States, Places
  <2>4. Write(d.seen) /\ d'.pc \in Returns
    BY <1>2, <2>3 DEF Returns
  <2>. QED  BY <1>1, <2>3, <2>4, WriteMoves
<1>3. CASE /\ d.pending /\ Reemits
           /\ d' = [d EXCEPT !.cur = file, !.count = @ + 1, !.pc = "post", !.back = "purge"]
           /\ UNCHANGED <<file, spent>>
  <2>. DEFINE n == d.count + 1
  <2>1. d' = [d EXCEPT !.cur = file, !.count = n, !.pc = "post", !.back = "purge"] /\ n \in Nat
    BY <1>3, StateFields
  <2>. HIDE DEF n
  <2>4. /\ d' \in States /\ d'.pc = "post" /\ SameNotes /\ d'.seen = d.seen
        /\ d'.resp = d.resp /\ d'.cur = file /\ d'.back = "purge"
    BY <2>1, StateFields DEF States, Places, Returns, SameNotes
  <2>2. FlashTypes'
    BY <1>1, <1>3, <2>4, TypesKept, StateFields DEF FlashTypes, Returns, Reemits
  <2>3. file # None /\ (file.u \in taken => Due)
    BY <1>1, <1>3 DEF Due, Reemits
  <2>. QED  BY <1>1, <1>3, <2>4, <2>2, <2>3, OfferMoves DEF SameNotes
<1>4. CASE d' = [d EXCEPT !.pc = "purge"] /\ UNCHANGED <<file, spent>>
  <2>1. d' \in States /\ d'.pc = "purge" /\ SameNotes /\ d'.seen = d.seen /\ d'.resp = d.resp
    BY <1>4, StateFields DEF States, Places, SameNotes
  <2>2. FlashTypes'
    BY <1>1, <1>4, <2>1, TypesKept, StateFields DEF FlashTypes
  <2>. QED  BY <1>1, <1>4, <2>1, <2>2, SpentKept, DaemonMoves DEF Away
<1>. QED  BY <1>2, <1>3, <1>4 DEF Materialize

LEMMA PurgeStep ==
  ASSUME Inv, Purge
  PROVE  Inv'
<1>. USE DEF Inv
<1>1. /\ d.pc = "purge"
      /\ UNCHANGED <<pool, hub, dead, saved, typed, strays, updated, taken, raced, repeats, spent>>
  BY DEF Purge, store, history
<1>2. CASE Purges
  <2>1. /\ file' = None
        /\ d' = [d EXCEPT !.snap = None, !.base = None, !.asha = None, !.arev = None,
                          !.changed = TRUE, !.dirty = FALSE, !.pc = "save"]
    BY <1>2 DEF Purge
  <2>2. /\ d' \in States /\ d'.pc = "save" /\ d'.snap = None /\ d'.base = None
        /\ d'.seen = d.seen /\ d'.resp = d.resp
    BY <2>1, StateFields DEF States, Places
  <2>3. FlashTypes'
    BY <1>1, <2>1, <2>2, TypesKept, StateFields DEF FlashTypes
  <2>4. TextsAreTaken' /\ GoneForGood'
    BY <1>1, <2>1, <2>2, Constants DEF TextsAreTaken, Known, KnownOrStray, GoneForGood
  <2>5. OffersAreFile' /\ AdoptionsAreFile' /\ StartsFromState' /\ SnapIsKnown'
    BY <2>1, <2>2 DEF OffersAreFile, AdoptionsAreFile, StartsFromState, SnapIsKnown
  <2>6. ~Due'
    BY <2>1, <2>2 DEF Due
  <2>7. Counted'
    BY <1>1, <2>6, OwedType, SpentKept DEF Counted, Owed, FlashTypes
  <2>. QED  BY <2>3, <2>4, <2>5, <2>7
<1>3. CASE ~Purges
  <2>1. d' = [d EXCEPT !.dirty = FALSE, !.pc = "save"] /\ UNCHANGED file
    BY <1>3 DEF Purge
  <2>2. d' \in States /\ d'.pc = "save" /\ SameNotes /\ d'.seen = d.seen /\ d'.resp = d.resp
    BY <2>1, StateFields DEF States, Places, SameNotes
  <2>3. FlashTypes'
    BY <1>1, <2>1, <2>2, TypesKept, StateFields DEF FlashTypes
  <2>. QED  BY <1>1, <2>1, <2>2, <2>3, SpentKept, DaemonMoves DEF Away
<1>. QED  BY <1>2, <1>3

LEMMA CrashStep ==
  ASSUME Inv, Crash
  PROVE  Inv'
<1>0. FlashTypes /\ TextsAreTaken /\ Counted
  BY DEF Inv
<1>1. d' = Off /\ UNCHANGED <<pool, hub, dead, file, saved, typed, strays, updated, taken, raced, repeats>>
  BY DEF Crash, store, history
<1>2. spent' \in [Kinds -> Nat] /\ FaultsPaid \in Nat /\ FaultsPaid' = FaultsPaid + 1
  BY <1>0, Spending DEF Crash, Kinds
<1>3. Off \in States /\ Off.pc = "down"
  BY Constants DEF Off, States, Places, Optional
<1>4. FlashTypes'
  BY <1>0, <1>1, <1>2, <1>3, TypesKept, StateFields DEF FlashTypes, Off
<1>5. TextsAreTaken' /\ GoneForGood'
  BY <1>0, <1>1, Constants DEF Inv, TextsAreTaken, Known, KnownOrStray, GoneForGood, Off
<1>6. OffersAreFile' /\ AdoptionsAreFile' /\ StartsFromState' /\ SnapIsKnown'
  BY <1>1 DEF OffersAreFile, AdoptionsAreFile, StartsFromState, SnapIsKnown, Off
<1>7. Counted'
  <2>1. repeats' \in Nat /\ repeats' <= FaultsPaid
    BY <1>0, <1>1, <1>2, OwedType DEF FlashTypes, Counted
  <2>2. FaultsPaid' = FaultsPaid + 1 /\ FaultsPaid \in Nat
    BY <1>2
  <2>3. \A r \in Nat, o \in {0, 1}, f \in Nat : r <= f => r + o <= f + 1
    OBVIOUS
  <2>4. repeats' + Owed' <= FaultsPaid + 1
    BY <2>1, <2>2, <2>3, OwedType
  <2>. QED  BY <2>2, <2>4 DEF Counted
<1>. QED  BY <1>4, <1>5, <1>6, <1>7 DEF Inv

-----------------------------------------------------------------------------
(* The theorems. *)

LEMMA InvStep ==
  ASSUME Inv, [Next]_vars
  PROVE  Inv'
BY StoreStep, ModelStep, TypeStep, StartStep, QuietStep, CheckStep, CaptureStep, PostStep,
   SettleStep, MaterializeStep, PurgeStep, CrashStep
DEF Next, Daemon, Environment

\* The proxy adopts no version of the user twice (POST /admin/ledgers/user-edit) but for a
\* crash of the daemon, a reply that is lost or a write of the file that fails.
THEOREM RepeatsArePaid == Spec => []RepeatsAreFaults
<1>1. Spec => []Inv
  BY InvInit, InvStep, PTL DEF Spec
<1>2. Inv => RepeatsAreFaults
  BY OwedType, PaidType DEF Inv, Counted, RepeatsAreFaults, FaultsPaid, FlashTypes
<1>. QED  BY <1>1, <1>2, PTL

\* One step of the daemon at most writes over the file; it knows the text, or it was raced.
LEMMA KeepsText ==
  ASSUME Inv, [Next]_vars, typed' = typed, file' # file, file # None
  PROVE  file.u \in taken \cup raced \cup strays \/ d.base = None
<1>. USE DEF Inv
<1>1. file \in Texts
  BY DEF FlashTypes, Optional
<1>2. CASE Settle
  BY <1>2 DEF Settle, OffersAreFile
<1>3. CASE Materialize
  <2>1. file' = d.seen /\ (IF d.pending THEN TakesOver ELSE Untouched) /\ d.pc = "files"
    BY <1>3 DEF Materialize, Write
  <2>2. CASE d.pending
    BY <2>1, <2>2 DEF TakesOver, AdoptionsAreFile
  <2>3. CASE ~d.pending
    <3>1. d.snap = None \/ file = d.snap
      BY <2>1, <2>3 DEF Untouched
    <3>2. CASE d.snap = None
      BY <1>3, <2>1, <3>2 DEF SnapIsKnown, Materialize
    <3>. QED  BY <1>1, <3>1, <3>2 DEF TextsAreTaken, Known, KnownOrStray
  <2>. QED  BY <2>2, <2>3
<1>4. CASE Purge
  <2>1. d.snap = None \/ file = d.snap
    BY <1>4 DEF Purge, Purges, UserTouched
  <2>2. d.snap = None => d.base = None \/ file = d.base
    BY <1>4 DEF Purge, Purges, UserTouched
  <2>. QED  BY <1>1, <2>1, <2>2 DEF TextsAreTaken, Known, KnownOrStray
<1>5. CASE Type
  BY <1>5 DEF Type, FlashTypes
<1>. QED
  BY <1>2, <1>3, <1>4, <1>5
  DEF Next, Daemon, Environment, Start, Check, Wake, Capture, Post, ReadHub, NothingThere, Save,
      Model, Delete, RestartProxy, Ring, WakeDegraded, Crash, vars

\* The daemon never writes over, and never deletes, a version the proxy does not have:
\* what it writes over was adopted, or was typed after it had compared the file,
\* or the saved state does not know the file (_settle_adoption, _materialize,
\* _purge_tombstoned).
THEOREM TypedIsKept == Spec => UserTextIsKept
<1>1. Spec => []Inv
  BY InvInit, InvStep, PTL DEF Spec
<1>2. ASSUME Inv, [Next]_vars
      PROVE  [typed' = typed /\ file' # file /\ file # None
              => file.u \in taken \cup raced \cup strays \/ d.base = None]_vars
  BY <1>2, KeepsText
<1>. QED  BY <1>1, <1>2, PTL DEF Spec, UserTextIsKept
=============================================================================
