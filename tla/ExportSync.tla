----------------------------- MODULE ExportSync -----------------------------
(***************************************************************************)
(* The export of the Memory Index to an Obsidian vault, and the way back   *)
(* (export_sync.py, exporters/obsidian.py, export_backflow.py).            *)
(*                                                                         *)
(*   proxy       takes corrections and deletions into the Hub              *)
(*   consolidator  replays them into the Index, distils, and then runs     *)
(*               run_once: what the user changed in the vault goes to the  *)
(*               proxy, what changed in the Index goes to the vault        *)
(*   user        edits and deletes lines, moves pages away                 *)
(*                                                                         *)
(* The vault is told apart from what the user did to it only by the        *)
(* snapshot of the lines the exporter wrote last.  A step is one call of   *)
(* the proxy or one write of a file.                                       *)
(*                                                                         *)
(* A text is named by the time it was written; 0 is the text a fact was    *)
(* distilled with.  The clock counts what carries a time stamp.            *)
(***************************************************************************)
EXTENDS Naturals, Sequences, FiniteSets, FiniteSetsExt, Functions, TLC

CONSTANTS
    Facts,
    Pages,        \* the pages of the vault
    Home,         \* Home[f]: the page of f's matter, or the inbox
    Early,        \* the facts distilled before the first export
    MaxVanished,  \* BLADEX_BACKFLOW_MAX_DELETES
    MaxOps,       \* bound on what users do, per kind and in all
    MaxFaults     \* bound on faults, per kind and in all

ASSUME ExportAssumption ==
    /\ Home \in [Facts -> Pages] /\ Early \subseteq Facts
    /\ MaxVanished \in Nat
    /\ MaxOps \in [{"type", "erase", "page", "admin", "all"} -> Nat]
    /\ MaxFaults \in [{"reply", "down", "io", "round", "crash", "all"} -> Nat]

VARIABLES
    \* The Hub and the Index.
    clock,
    events,   \* corrections, entries and tombstones, in order, with their times
    index,    \* the facts of the Index: text and max(created_at, updated_at)
    replayed, \* the events that are in the Index
    \* The vault and what is on disk beside it.
    vault,    \* the lines: fact -> text
    pages,    \* the pages that exist
    saved,    \* .bladex/sync_snapshot.json: fact -> text
    state,    \* export_state.json: cursor, tombstones_done, whether it failed last
    \* The consolidator.
    pc,
    view,     \* how much of the Hub its secondary shows
    snap,     \* _snap: the snapshot in memory
    st,       \* the state in memory
    job,      \* the run_once in progress
    \* History.
    typed,    \* fact -> the texts users typed into its line
    erased,   \* the facts whose line a user deleted
    orphans,  \* the facts whose page a user took away
    cut,      \* facts a fault left without a line between removal and append
    behind,   \* facts a crash left out of the snapshot
    late,     \* facts that entered the Index with a time below the cursor
    revived,  \* deleted facts that a round stamped anew after the export had dealt with them
    spent

hub == <<clock, events>>
memory == <<index, replayed>>
files == <<vault, pages, saved, state>>
worker == <<pc, view, snap, st, job>>
history == <<typed, erased, orphans, cut, behind, late, revived>>
vars == <<hub, memory, files, worker, history, spent>>

Lines == DOMAIN vault
Known == DOMAIN index

With(fn, f, text) == [g \in DOMAIN fn \cup {f} |-> IF g = f THEN text ELSE fn[g]]
Without(fn, f) == Restrict(fn, DOMAIN fn \ {f})

NoJob == [edits |-> <<>>, retry |-> FALSE, batch |-> <<>>, open |-> {}, at |-> {},
          cursor |-> 0, done |-> {}]
Fresh == [cursor |-> 0, done |-> {}, failed |-> FALSE]

Spend(kind) ==
    /\ IF kind \in DOMAIN MaxOps
       THEN spent[kind] < MaxOps[kind] /\ spent.ops < MaxOps.all
       ELSE spent[kind] < MaxFaults[kind] /\ spent.faults < MaxFaults.all
    /\ spent' = [spent EXCEPT ![kind] = @ + 1,
                              !.ops = IF kind \in DOMAIN MaxOps THEN @ + 1 ELSE @,
                              !.faults = IF kind \in DOMAIN MaxOps THEN @ ELSE @ + 1]

\* Every tombstone has a key of its own, though it be of the same fact.
Tombs(n) == {i \in 1..n : events[i].op = "delete"}
FactsOf(is) == {events[i].fact : i \in is}
Deleted(n) == FactsOf(Tombs(n))

Outside == {"down", "boot", "sleep", "round", "due"}
InRun == pc \notin Outside

-----------------------------------------------------------------------------
(* What users do.                                                          *)

Append1(op, f, text, by) ==
    events' = Append(events, [op |-> op, fact |-> f, text |-> text, at |-> clock', by |-> by])

\* The dashboard, or bladex memory: an event or a tombstone in the Hub.
\* The consolidator holds the lock of the Index and takes it up in its next round.
Correct(f) ==
    /\ Spend("admin")
    /\ f \in Known
    /\ clock' = clock + 1
    /\ Append1("set", f, clock', "admin")
    /\ UNCHANGED <<memory, files, worker, history>>

Forget(f) ==
    /\ Spend("admin")
    /\ f \in Known
    /\ clock' = clock + 1
    /\ Append1("delete", f, clock', "admin")
    /\ UNCHANGED <<memory, files, worker, history>>

Type(f) ==
    /\ Spend("type")
    /\ f \in Lines
    /\ clock' = clock + 1
    /\ vault' = With(vault, f, clock')
    /\ typed' = [typed EXCEPT ![f] = @ \cup {clock'}]
    /\ UNCHANGED <<events, memory, pages, saved, state, worker, erased, orphans, cut,
                   behind, late, revived>>

Erase(f) ==
    /\ Spend("erase")
    /\ f \in Lines
    /\ vault' = Without(vault, f)
    /\ erased' = erased \cup {f}
    /\ UNCHANGED <<hub, memory, pages, saved, state, worker, typed, orphans, cut,
                   behind, late, revived>>

OnPage(p) == {f \in Facts : Home[f] = p}

\* A page is deleted or moved to another folder.
TakeAway(p) ==
    /\ Spend("page")
    /\ p \in pages
    /\ pages' = pages \ {p}
    /\ vault' = Restrict(vault, Lines \ OnPage(p))
    /\ orphans' = orphans \cup OnPage(p)
    /\ UNCHANGED <<hub, memory, saved, state, worker, typed, erased, cut, behind, late, revived>>

-----------------------------------------------------------------------------
(* The round of the consolidator, as far as the export sees it.            *)

\* catch_up.
Fetch ==
    /\ pc \in {"boot", "sleep"}
    /\ view' = Len(events)
    /\ pc' = "round"
    /\ UNCHANGED <<hub, memory, files, snap, st, job, history, spent>>

\* The last correction of f among the events to replay.
LastSet(f, lo, hi) ==
    LET is == {i \in lo+1..hi : events[i].op = "set" /\ events[i].fact = f}
    IN  IF is = {} THEN 0 ELSE Max(is)

\* The event carries the whole fact, created_at and updated_at included.
SetAt(i) == [text |-> events[i].text, at |-> events[i].at]

\* rebuild_from_hub: replay, then distil what is new (news), which takes the time now,
\* as do the facts that a new one supersedes or strengthens (touched).  Tombstones keep
\* out what is new and stop corrections; a fact that is stored stays, deleted or not.
Round(news) ==
    /\ pc = "round"
    /\ LET gone == Deleted(view)
           set == {f \in Facts \ gone : LastSet(f, replayed, view) # 0}
           kept == Known \cup set
           now(f) == CASE f \in news -> [text |-> 0, at |-> clock']
                       [] f \in set  -> SetAt(LastSet(f, replayed, view))
                       [] OTHER      -> index[f]
       IN  /\ news \cap (kept \cup gone) = {}
           /\ clock' = IF news = {} THEN clock ELSE clock + 1
           /\ \E touched \in SUBSET kept :
                /\ news = {} => touched = {}
                /\ index' = [f \in kept \cup news |->
                                IF f \in touched THEN [text |-> now(f).text, at |-> clock'] ELSE now(f)]
                /\ late' = (late \ (set \cup news \cup touched)) \cup
                             {f \in set : index'[f].at <= st.cursor}
                /\ revived' = revived \cup (touched \cap FactsOf(st.done))
           /\ replayed' = view
    /\ pc' = "due"
    /\ UNCHANGED <<events, files, view, snap, st, job, typed, erased, orphans,
                   cut, behind, spent>>

\* An exception ends the round; the export runs all the same.
RoundRaises ==
    /\ pc = "round"
    /\ Spend("round")
    /\ pc' = "due"
    /\ UNCHANGED <<hub, memory, files, view, snap, st, job, history>>

\* ExternalChangeProbe: the stat of a page changed while the daemon sleeps.
Wake ==
    /\ pc = "sleep"
    /\ pc' = "due"
    /\ UNCHANGED <<hub, memory, files, view, snap, st, job, history, spent>>

\* run_once after a failure: the back-off is not over.
Skip ==
    /\ pc = "due" /\ st.failed
    /\ pc' = "sleep"
    /\ UNCHANGED <<hub, memory, files, view, snap, st, job, history, spent>>

-----------------------------------------------------------------------------
(* _run_backflow: the vault against the snapshot.                          *)

Observable == {f \in DOMAIN snap : Home[f] \in pages}

\* collect_edits.  A page that is not there says nothing of its facts; too many
\* lines gone at once are left alone.
EditsFound ==
    LET vanished == Observable \ Lines
        changed  == {f \in Observable \cap Lines : vault[f] # snap[f]}
        dropped  == IF Cardinality(vanished) > MaxVanished THEN {} ELSE vanished
    IN  [f \in changed \cup dropped |->
            IF f \in dropped THEN [op |-> "delete", text |-> 0]
            ELSE [op |-> "set", text |-> vault[f]]]

Scan ==
    /\ pc = "due"
    /\ job' = [NoJob EXCEPT !.edits = EditsFound]
    /\ pc' = "post"
    /\ UNCHANGED <<hub, memory, files, view, snap, st, typed, erased, orphans, cut,
                   behind, late, revived, spent>>

\* What the administrative interface does with an edit: 404 without the fact,
\* "unchanged" when the Index has that text, else an event or a tombstone.
Writes(f, e) == f \in Known /\ (e.op = "delete" \/ index[f].text # e.text)

Record(f, e) ==
    IF Writes(f, e)
    THEN clock' = clock + 1 /\ Append1(e.op, f, e.text, "vault")
    ELSE UNCHANGED hub

Answered(f) == [job EXCEPT !.edits = Without(@, f)]

\* ack: the snapshot takes over what was recorded or refused for good.
Acked(f, e) ==
    IF e.op = "delete" THEN Without(snap, f) ELSE With(snap, f, e.text)

Post(f) ==
    /\ pc = "post" /\ f \in DOMAIN job.edits
    /\ LET e == job.edits[f] IN
        /\ Record(f, e)
        /\ snap' = Acked(f, e)
        /\ saved' = Acked(f, e)
        /\ job' = Answered(f)
    /\ UNCHANGED <<memory, vault, pages, state, pc, view, st, typed, erased, orphans,
                   cut, behind, late, revived, spent>>

Retried(f) == [job EXCEPT !.edits = Without(@, f), !.retry = TRUE]

\* The proxy is away, or its answer does not arrive: no ack.
PostFails(f) ==
    /\ pc = "post" /\ f \in DOMAIN job.edits
    /\ \/ Spend("down") /\ UNCHANGED hub
       \/ Spend("reply") /\ Record(f, job.edits[f])
    /\ job' = Retried(f)
    /\ UNCHANGED <<memory, files, pc, view, snap, st, history>>

\* Nothing is exported while an edit is not recorded.
AllRecorded == job.edits = <<>> /\ ~job.retry

PostsEnd ==
    /\ pc = "post" /\ AllRecorded
    /\ pc' = "collect"
    /\ UNCHANGED <<hub, memory, files, view, snap, st, job, history, spent>>

-----------------------------------------------------------------------------
(* The export proper.                                                      *)

\* _collect_since: what is newer than the cursor, and the new cursor.
Newer == {f \in Known : index[f].at > st.cursor}
NewCursor == Max({st.cursor} \cup {index[f].at : f \in Newer})

BugCollect ==
    /\ pc = "collect"
    /\ job' = [NoJob EXCEPT !.batch = [f \in Newer |-> index[f].text], !.open = Newer,
                            !.cursor = NewCursor, !.done = st.done]
    /\ snap' = [f \in Newer |-> index[f].text] @@ snap
    /\ pc' = "write"
    /\ UNCHANGED <<hub, memory, files, view, st, history, spent>>

Collect ==
    /\ pc = "collect"
    /\ job' = [NoJob EXCEPT !.batch = [f \in Newer |-> index[f].text], !.open = Newer,
                            !.cursor = NewCursor, !.done = st.done]
    /\ pc' = "write"
    /\ UNCHANGED <<hub, memory, files, view, snap, st, history, spent>>

\* _upsert_fact: _remove_fact_line, ...
RemoveLine(f) ==
    /\ pc = "write" /\ f \in job.open
    /\ vault' = Without(vault, f)
    /\ job' = [job EXCEPT !.open = @ \ {f}, !.at = {f}]
    /\ cut' = cut \cup {f}
    /\ pc' = "append"
    /\ UNCHANGED <<hub, memory, pages, saved, state, view, snap, st, typed, erased, orphans, behind, late,
                   revived, spent>>

BugNoted(f) == IF f \in DOMAIN snap THEN snap ELSE With(snap, f, job.batch[f])
Noted(f) == With(snap, f, job.batch[f])

PagesFor(f) == pages \cup {Home[f]}

\* ... and _append_fact_line, on a page made anew if there is none.
AppendLine(f) ==
    /\ pc = "append" /\ job.at = {f}
    /\ vault' = With(vault, f, job.batch[f])
    /\ pages' = PagesFor(f)
    /\ snap' = Noted(f)
    /\ job' = [job EXCEPT !.at = {}]
    /\ cut' = cut \ {f}
    /\ behind' = behind \ {f}
    /\ pc' = "write"
    /\ UNCHANGED <<hub, memory, saved, state, view, st, typed, erased, orphans,
                   late, revived, spent>>

\* The end of sync_incremental.
SaveSnapshot ==
    /\ pc = "write" /\ job.open = {}
    /\ saved' = IF job.batch = <<>> THEN saved ELSE snap
    /\ pc' = "tombs"
    /\ UNCHANGED <<hub, memory, vault, pages, state, view, snap, st, job, history, spent>>

Pending == Tombs(view) \ job.done

BugWithoutLine(f) == IF f \in DOMAIN job.batch THEN vault ELSE Without(vault, f)
WithoutLine(f) == Without(vault, f)

\* handle_tombstone.
HandleTombstone(f) ==
    /\ pc = "tombs"
    /\ vault' = WithoutLine(f)
    /\ snap' = Without(snap, f)
    /\ saved' = snap'
    /\ \E i \in Pending : events[i].fact = f /\ job' = [job EXCEPT !.done = @ \cup {i}]
    /\ UNCHANGED <<hub, memory, pages, state, pc, view, st, history, spent>>

Leave(outcome) ==
    /\ st' = outcome /\ state' = outcome
    /\ job' = NoJob
    /\ pc' = "sleep"

Finish ==
    /\ pc = "tombs" /\ Pending = {}
    /\ Leave([cursor |-> job.cursor, done |-> job.done, failed |-> FALSE])
    /\ revived' = revived \ FactsOf(job.done \ st.done)
    /\ UNCHANGED <<hub, memory, vault, pages, saved, view, snap, typed, erased, orphans,
                   cut, behind, late, spent>>

BugFailed == [st EXCEPT !.failed = TRUE, !.cursor = job.cursor]

\* A failed run leaves the cursor and the tombstones where they were.
Failed == [st EXCEPT !.failed = TRUE]

\* An edit was not recorded, or a file could not be read or written.
Fail ==
    /\ \/ pc = "post" /\ job.edits = <<>> /\ ~AllRecorded /\ UNCHANGED spent
       \/ pc \in {"write", "append", "tombs"} /\ Spend("io")
    /\ Leave(Failed)
    /\ UNCHANGED <<hub, memory, vault, pages, saved, view, snap, history>>

-----------------------------------------------------------------------------
(* The processes.                                                          *)

\* The page a worker is about to write: write_text empties the file first.
Torn == {Home[f] : f \in IF pc = "write" THEN job.open \cap Lines
                         ELSE job.at}

Crash ==
    /\ pc # "down"
    /\ Spend("crash")
    /\ \E ps \in {{}} \cup {{p} : p \in Torn} :
        LET lost == {f \in Lines : Home[f] \in ps}
        IN  /\ vault' = Restrict(vault, Lines \ lost)
            /\ cut' = cut \cup lost
    /\ behind' = behind \cup {f \in DOMAIN snap :
                                ~(f \in DOMAIN saved /\ saved[f] = snap[f])}
    /\ pc' = "down"
    /\ job' = NoJob /\ snap' = <<>> /\ st' = Fresh
    /\ UNCHANGED <<hub, memory, pages, saved, state, view, typed, erased, orphans, late, revived>>

Start ==
    /\ pc = "down"
    /\ snap' = saved /\ st' = state
    /\ view' = Len(events)
    /\ pc' = "boot"
    /\ UNCHANGED <<hub, memory, files, job, history, spent>>

Init ==
    /\ clock = 1
    /\ events = <<>> /\ replayed = 0
    /\ index = [f \in Early |-> [text |-> 0, at |-> 1]]
    /\ vault = <<>> /\ pages = {} /\ saved = <<>> /\ state = Fresh
    /\ pc = "sleep" /\ view = 0 /\ snap = <<>> /\ st = Fresh /\ job = NoJob
    /\ typed = [f \in Facts |-> {}]
    /\ erased = {} /\ orphans = {} /\ cut = {} /\ behind = {}
    /\ late = {} /\ revived = {}
    /\ spent = [k \in {"ops", "faults", "type", "erase", "page", "admin", "reply", "down", "io",
                       "round", "crash"} |-> 0]

Users ==
    \/ \E f \in Facts : Correct(f) \/ Forget(f) \/ Type(f) \/ Erase(f)
    \/ \E p \in Pages : TakeAway(p)

Export ==
    \/ Collect \/ SaveSnapshot \/ Finish \/ Fail
    \/ \E f \in Facts : RemoveLine(f) \/ AppendLine(f) \/ HandleTombstone(f)

Consolidator ==
    \/ Fetch \/ RoundRaises \/ Wake \/ Skip \/ Scan \/ PostsEnd
    \/ \E news \in SUBSET Facts : Round(news)
    \/ \E f \in Facts : Post(f) \/ PostFails(f)
    \/ Export

Next == Users \/ Consolidator \/ Crash \/ Start

Spec == Init /\ [][Next]_vars

-----------------------------------------------------------------------------
(* Properties.                                                             *)

\* A fact is forgotten by way of the vault only if a user deleted its line, or
\* took its page away, or a fault left it without a line between the removal of
\* the old one and the new one.
OnlyUsersDelete ==
    \A f \in DOMAIN job.edits :
        job.edits[f].op = "delete" =>
            f \in erased \cup orphans \cup cut \cup behind \cup Deleted(Len(events))

\* A correction that comes from the vault is what a user typed there; the
\* exporter takes its own lines for the user's only if it died before it saved
\* its snapshot.
OnlyTypedIsPosted ==
    \A f \in DOMAIN job.edits :
        job.edits[f].op = "set" =>
            job.edits[f].text \in typed[f] \/ f \in behind

Settled(f) ==
    \/ f \in Lines /\ (vault[f] = index[f].text \/ vault[f] \in typed[f])
    \/ f \notin Lines /\ f \in erased \cup orphans
    \/ f \in cut \cup behind \cup Deleted(Len(events))

\* Whatever failed in between, every fact up to the cursor is in the vault as the
\* Index has it, or as a user left it, but for facts that entered the Index with a
\* time that was already below the cursor.
ExportedUpToCursor ==
    ~InRun =>
        \A f \in Known : index[f].at <= st.cursor =>
            Settled(f) \/ f \in late

\* A deleted fact has no line in the vault once its tombstone is done with, and no
\* line of it comes back, whatever failed and was exported since, unless a round gave
\* the fact, which the Index still has, a new time stamp after the tombstone.
DeletedAreRemoved ==
    ~InRun =>
        \A f \in FactsOf(st.done) : f \notin Lines \/ f \in revived

\* What the backflow deletes and what it corrects is what a user did in the vault (backflow
\* scan).
UsersOwnTheVault == OnlyUsersDelete /\ OnlyTypedIsPosted

=============================================================================
