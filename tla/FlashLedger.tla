----------------------------- MODULE FlashLedger -----------------------------
(***************************************************************************)
(* The flash daemon (flash_daemon.py, flash_wake.py) keeps the file of a   *)
(* ledger: it writes what the Hub says into it and takes what the user     *)
(* types into it to the proxy (POST /admin/ledgers/user-edit), who adopts  *)
(* it.  The file is told apart from what the user did to it by snapshots:  *)
(* of what the daemon wrote or read last, in memory, and of their digest,  *)
(* on disk.                                                                *)
(*                                                                         *)
(* One ledger.  Its text is a pair of numbers: the last version the user   *)
(* typed and the last update of the model in it; a digest stands for the   *)
(* text.  A step of the daemon is a call of the proxy, a read of the Hub   *)
(* or an access to a file.                                                 *)
(***************************************************************************)
EXTENDS Naturals, FiniteSets, FiniteSetsExt, TLC

CONSTANTS
    None,
    Edited,     \* the snapshot of a file that was changed while the daemon was down
    Cap,        \* REEMIT_CAP
    MaxOps,     \* bound on what users and the model do, per kind
    Budgets     \* the faults of a behaviour are bounded by one of these, per kind and in all

Kinds ==
    {"refuse", "reply", "append", "write", "stale", "stream", "crash", "proxy", "stray", "all"}

Texts == [rev : Nat, u : Nat, m : Nat]

ASSUME FlashAssumption ==
    /\ None # Edited /\ {None, Edited} \cap (Texts \cup Nat) = {}
    /\ Cap \in Nat
    /\ MaxOps \in [{"type", "model"} -> Nat]
    /\ Budgets \subseteq [Kinds -> Nat]

VARIABLES
    pool,     \* the ledger in AgencyRuntime.pool
    hub,      \* the ledger as replay_ledger_events gives it
    dead,     \* it has a tombstone
    file,     \* the text of the file, with the rev it was rendered with
    saved,    \* .flash_state.json
    d,        \* the daemon: its memory, and where it is in a round
    bell,     \* an unread message of the wake stream
    \* History.
    typed,    \* how many versions the user typed
    strays,   \* those among them whose text does not name this ledger
    updated,  \* how many updates the model made
    taken,    \* versions of the user that the proxy has adopted
    raced,    \* versions that were typed while the daemon was about to write
    repeats,  \* adoptions of a version that had been adopted before
    spent,    \* faults so far, per kind and in all
    budget

store == <<pool, hub, dead>>
history == <<typed, strays, updated, taken, raced, repeats>>
vars == <<store, file, saved, d, bell, history, spent, budget>>

Text(rev, u, m) == [rev |-> rev, u |-> u, m |-> m]

\* pending_wait_s: the adoption of a text is not known, and it may be offered again.
ReemitDue == d.pending /\ d.asha # None /\ d.count < Cap

Spend(k) ==
    /\ spent[k] < budget[k] /\ spent["all"] < budget["all"]
    /\ spent' = [spent EXCEPT ![k] = @ + 1, !["all"] = @ + 1]

-----------------------------------------------------------------------------
(* The proxy, the model and the user.                                      *)

\* A deleted ledger stays out of the replay.
Replayed(led) == IF dead THEN hub ELSE led

\* A change of the pool and its event, whose append may fail.
Put(led) ==
    /\ pool' = led
    /\ \/ hub' = Replayed(led) /\ UNCHANGED spent
       \/ Spend("append") /\ UNCHANGED hub

Model ==
    /\ pool # None /\ updated < MaxOps["model"]
    /\ updated' = updated + 1
    /\ Put([pool EXCEPT !.rev = @ + 1, !.m = updated + 1])
    /\ UNCHANGED <<dead, file, saved, d, bell, typed, strays, taken, raced, repeats>>

Delete ==
    /\ pool # None /\ ~dead
    /\ dead' = TRUE /\ pool' = None /\ hub' = None
    /\ UNCHANGED <<file, saved, d, bell, history, spent>>

\* The pool is loaded from the Hub again.
RestartProxy ==
    /\ Spend("proxy") /\ pool' = hub
    /\ UNCHANGED <<hub, dead, file, saved, d, bell, history>>

\* The daemon will write the file without comparing it: the answer of a POST, and the
\* Hub's text once the Hub has caught up with an adoption.
AboutToWrite == d.pc \in {"post", "settle"} \/ (d.pending /\ d.arev # None)

\* The user may damage the line with the ledger's id; it is mended by a version that is not
\* one of strays.
Type ==
    /\ file # None /\ typed < MaxOps["type"]
    /\ typed' = typed + 1
    /\ \/ UNCHANGED <<strays, spent>>
       \/ Spend("stray") /\ strays' = strays \cup {typed + 1}
    /\ file' = [file EXCEPT !.u = typed + 1]
    /\ raced' = IF AboutToWrite THEN raced \cup {typed + 1} ELSE raced
    /\ UNCHANGED <<store, saved, d, bell, updated, taken, repeats>>

\* The pipeline rings after a turn is stored.  From "$" on, only a reader that
\* waits hears it.
Ring ==
    /\ ~bell
    /\ bell' = (d.heard \/ d.pc = "idle")
    /\ bell' # bell
    /\ UNCHANGED <<store, file, saved, d, history, spent>>

-----------------------------------------------------------------------------
(* The daemon.                                                             *)

Off == [pc |-> "down", snap |-> None, base |-> None, pending |-> FALSE, asha |-> None,
        arev |-> None, count |-> 0, dirty |-> FALSE, cur |-> None, resp |-> None,
        seen |-> None, back |-> None, edits |-> FALSE, changed |-> FALSE, heard |-> FALSE]

\* The secondary follows the Hub, unless catch_up fails.
Source(d1) ==
    \/ d' = [d1 EXCEPT !.seen = hub] /\ UNCHANGED spent
    \/ Spend("stale") /\ d.seen # hub /\ d' = d1

Forgotten(d1) == [d1 EXCEPT !.pending = FALSE, !.asha = None, !.arev = None, !.count = 0]

\* startup_check: what the state knows of the file, and an adoption that is not settled.
Started ==
    [Off EXCEPT !.pc = "start", !.base = saved.base, !.asha = saved.asha, !.arev = saved.arev,
                !.dirty = TRUE, !.changed = TRUE]

Start ==
    /\ d.pc = "down"
    /\ d' = [Started EXCEPT !.seen = hub]
    /\ UNCHANGED <<store, file, saved, bell, history, spent>>

AdoptedRev == IF d.arev = None THEN file.rev + 1 ELSE d.arev

\* _reconcile_stale_adoption: the pool wins, or the text is offered again.
Reconciled ==
    IF d.seen.rev >= AdoptedRev
    THEN [Forgotten(d) EXCEPT !.snap = file, !.pc = "capture"]
    ELSE [d EXCEPT !.snap = file, !.cur = file, !.pc = "post", !.back = "capture"]

Check ==
    /\ d.pc = "start"
    /\ LET known == None \notin {d.seen, d.base, file}
       IN  d' = CASE ~known -> [d EXCEPT !.pc = "capture"]
                  [] known /\ file # d.base -> [d EXCEPT !.snap = Edited, !.pc = "capture"]
                  [] known /\ file = d.base /\ (d.asha # None \/ d.arev # None) -> Reconciled
                  [] OTHER -> [d EXCEPT !.snap = file, !.pc = "capture"]
    /\ UNCHANGED <<store, file, saved, bell, history, spent>>

\* run_once begins when the bell rang, the stream is away, or a re-emission is due.
Wake ==
    /\ d.pc = "idle"
    /\ \/ bell /\ bell' = FALSE /\ d' = [d EXCEPT !.pc = "capture", !.dirty = TRUE, !.heard = TRUE]
       \/ ReemitDue /\ d' = [d EXCEPT !.pc = "capture"] /\ UNCHANGED bell
    /\ UNCHANGED <<store, file, saved, history, spent>>

\* A stream that is away costs the place in it, and every wait ends in a round.
WakeDegraded ==
    /\ d.pc = "idle" /\ Spend("stream")
    /\ d' = [d EXCEPT !.pc = "capture", !.dirty = TRUE, !.heard = FALSE]
    /\ bell' = FALSE
    /\ UNCHANGED <<store, file, saved, history>>

\* _capture_user_edits.  A text that does not name the ledger is not offered, and from then
\* on it counts as what the daemon has written.
Capture ==
    /\ d.pc = "capture"
    /\ d' = IF d.snap = None \/ file = None \/ file = d.snap
            THEN [d EXCEPT !.pc = "source"]
            ELSE IF file.u \in strays
                 THEN [d EXCEPT !.snap = file, !.base = file, !.pc = "source"]
                 ELSE [d EXCEPT !.pc = "post", !.cur = file, !.back = "source"]
    /\ UNCHANGED <<store, file, saved, bell, history, spent>>

\* POST /admin/ledgers/user-edit adopts the text.  startup_check and a re-emission offer a
\* stray text too: parse_ledger_md gives it a new id, and it becomes a ledger of its own.
Stray == d.cur.u \in strays
Adopted == Text(IF pool = None \/ Stray THEN 0 ELSE pool.rev + 1, d.cur.u, d.cur.m)

\* No answer: an edit is tried again in the next round; what startup_check offered waits
\* to be emitted again.
Refused ==
    IF d.back = "capture"
    THEN [d EXCEPT !.pc = "capture", !.arev = None, !.asha = d.cur, !.pending = TRUE]
    ELSE [d EXCEPT !.pc = d.back]

Post ==
    /\ d.pc = "post"
    /\ \/ /\ \/ /\ IF Stray THEN UNCHANGED <<pool, hub, spent>> ELSE Put(Adopted)
                /\ d' = [d EXCEPT !.pc = "settle", !.resp = Adopted]
             \/ /\ Spend("reply") /\ d' = Refused
                /\ IF Stray THEN UNCHANGED <<pool, hub>>
                            ELSE pool' = Adopted /\ hub' = Replayed(Adopted)
          /\ taken' = taken \cup {d.cur.u}
          /\ repeats' = IF d.cur.u \in taken THEN repeats + 1 ELSE repeats
       \/ Spend("refuse") /\ d' = Refused /\ UNCHANGED <<pool, hub, taken, repeats>>
    /\ UNCHANGED <<dead, file, saved, bell, typed, strays, updated, raced>>

\* write_if_changed: an error is logged, and the caller goes on.
Write(text) ==
    \/ file' = text /\ UNCHANGED spent
    \/ file # text /\ Spend("write") /\ UNCHANGED file

BugSettled == [Forgotten(d) EXCEPT !.snap = d.cur, !.base = d.resp, !.arev = d.resp.rev,
                                   !.pending = TRUE]

\* _settle_adoption: what the proxy answered is what the daemon has written.
Settled == [Forgotten(d) EXCEPT !.snap = d.resp, !.base = d.resp, !.arev = d.resp.rev,
                                !.pending = TRUE]

Settle ==
    /\ d.pc = "settle"
    /\ Write(d.resp)
    /\ d' = [Settled EXCEPT !.pc = d.back, !.edits = d.edits \/ d.back = "source"]
    /\ UNCHANGED <<store, saved, bell, history>>

\* The Hub is read when there is something to do.
ReadHub ==
    /\ d.pc = "source"
    /\ IF d.dirty \/ d.edits \/ ReemitDue
       THEN Source([d EXCEPT !.pc = "files"])
       ELSE d' = [d EXCEPT !.pc = "save"] /\ UNCHANGED spent
    /\ UNCHANGED <<store, file, saved, bell, history>>

\* _materialize, on a file whose adoption is pending ...
BugTakesOver == d.seen = file
TakesOver == d.seen = file \/ (d.arev # None /\ d.seen.rev >= d.arev)

\* _reemit_pending.
Reemits == d.arev = None /\ file # None /\ d.count < Cap

\* ... and on one that is not: what the user has changed since is left alone.
BugUntouched == TRUE
Untouched == d.snap = None \/ file \in {None, d.snap, d.seen}

Materialized(d1) ==
    [d1 EXCEPT !.snap = d.seen, !.base = d.seen, !.pc = "purge",
               !.changed = d1.changed \/ file' # file]

Materialize ==
    /\ d.pc = "files" /\ d.seen # None
    /\ \/ /\ IF d.pending THEN TakesOver ELSE Untouched
          /\ Write(d.seen)
          /\ d' = Materialized(IF d.pending THEN Forgotten(d) ELSE d)
       \/ /\ d.pending /\ ~TakesOver /\ Reemits
          /\ d' = [d EXCEPT !.cur = file, !.count = @ + 1, !.pc = "post", !.back = "purge"]
          /\ UNCHANGED <<file, spent>>
       \/ /\ \/ d.pending /\ ~TakesOver /\ ~Reemits
             \/ ~d.pending /\ ~Untouched
          /\ d' = [d EXCEPT !.pc = "purge"]
          /\ UNCHANGED <<file, spent>>
    /\ UNCHANGED <<store, saved, bell, history>>

NothingThere ==
    /\ d.pc = "files" /\ d.seen = None
    /\ d' = [d EXCEPT !.pc = "purge"]
    /\ UNCHANGED <<store, file, saved, bell, history, spent>>

\* _purge_tombstoned: the file of a deleted ledger goes, unless the user has changed it.
UserTouched ==
    \/ d.pending
    \/ d.snap # None /\ file # d.snap
    \/ d.snap = None /\ d.base # None /\ file # d.base

Purges == dead /\ d.seen = None /\ file # None /\ ~UserTouched

Purge ==
    /\ d.pc = "purge"
    /\ IF Purges
       THEN /\ file' = None
            /\ d' = [d EXCEPT !.snap = None, !.base = None, !.asha = None, !.arev = None,
                              !.changed = TRUE, !.dirty = FALSE, !.pc = "save"]
       ELSE /\ d' = [d EXCEPT !.dirty = FALSE, !.pc = "save"]
            /\ UNCHANGED file
    /\ UNCHANGED <<store, saved, bell, history, spent>>

\* _save_state, when the round has written or taken something.
Save ==
    /\ d.pc = "save"
    /\ saved' = IF d.edits \/ d.changed
                THEN [base |-> d.base, asha |-> d.asha, arev |-> d.arev] ELSE saved
    /\ d' = [d EXCEPT !.pc = "idle", !.edits = FALSE, !.changed = FALSE,
                      !.cur = None, !.resp = None, !.back = None]
    /\ UNCHANGED <<store, file, bell, history, spent>>

Crash ==
    /\ d.pc # "down" /\ Spend("crash")
    /\ d' = Off
    /\ UNCHANGED <<store, file, saved, bell, history>>

Init ==
    /\ pool = Text(0, 0, 0) /\ hub = pool /\ dead = FALSE
    /\ file = None /\ saved = [base |-> None, asha |-> None, arev |-> None]
    /\ d = Off /\ bell = FALSE
    /\ typed = 0 /\ strays = {} /\ updated = 0 /\ taken = {0} /\ raced = {} /\ repeats = 0
    /\ spent = [k \in Kinds |-> 0] /\ budget \in Budgets

Daemon ==
    \/ Check \/ Wake \/ Capture \/ Post \/ Settle
    \/ ReadHub \/ Materialize \/ NothingThere \/ Purge \/ Save

\* Nothing but the user starts the daemon, and starts it again after a crash.
Environment ==
    Start \/ Model \/ Delete \/ RestartProxy \/ Type \/ Ring \/ WakeDegraded \/ Crash

Next == (Daemon \/ Environment) /\ UNCHANGED budget

Spec == Init /\ [][Next]_vars

\* A daemon that runs goes on, and turns go on to be stored.  Nobody has to start it.
FairSpec == Spec /\ WF_vars(Daemon /\ UNCHANGED budget) /\ WF_vars(Ring /\ UNCHANGED budget)

-----------------------------------------------------------------------------
(* Properties.                                                             *)

\* The daemon writes over what the user typed only when the proxy has adopted it, or when
\* it was typed while the daemon was about to write, or into a file that the saved state
\* does not know, or when the text did not name the ledger.
UserTextIsKept ==
    [][typed' = typed /\ file' # file /\ file # None
       => file.u \in taken \cup raced \cup strays \/ d.base = None]_vars

\* The same of every text: one that does not name the ledger is not offered, and is not
\* written over (the comment on the branch of _capture_user_edits for it).
StrayTextIsKept ==
    [][typed' = typed /\ file' # file /\ file # None
       => file.u \in taken \cup raced \/ d.base = None]_vars

\* What the model wrote gives way to what the user has typed since, and not to a text the
\* proxy has already adopted: a crash, a lost reply or a failed write of the file costs one
\* repetition each, a refused adoption and a lost event none.
RepeatsAreFaults ==
    repeats <= spent["crash"] + spent["reply"] + spent["write"]

\* The state no longer tells the file from a text of the user, or it is one.
Mistaken == typed > 0 \/ spent["crash"] + spent["write"] > 0

\* While turns are stored and the daemon runs, the file becomes what the Hub says and goes
\* when the ledger is deleted.  It may stay for what the daemon takes for a text of the
\* user: of a ledger that is deleted, one that was offered in vain too often, or one whose
\* event was lost.
Converges ==
    <>[](\/ d.pc = "down"
         \/ file = hub
         \/ Mistaken /\ (dead \/ d.count = Cap \/ spent["append"] > 0))
=============================================================================
