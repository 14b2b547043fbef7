----------------------------- MODULE LedgerPool -----------------------------
(***************************************************************************)
(* The task ledgers of the proxy: the pool and the table of active         *)
(* ledgers of AgencyRuntime (agency/handlers.py, agency/runtime.py,        *)
(* server/admin_api.py), the events of the Hub they are rebuilt from, and  *)
(* the two ways the events are read (bladex_core/ledger.py):               *)
(*                                                                         *)
(*   replay_ledger_events   the pool and the active ledgers as they are    *)
(*                          now: what a restart starts from                *)
(*   switch_timeline        the active ledger of a scope at a time: what   *)
(*                          a rebuild anchors the turns of that time to    *)
(*                                                                         *)
(* A handler has no await: it is one step of the event loop.  Its events   *)
(* are appended one by one; an append may fail, which is only logged, and  *)
(* the process may die between two.                                        *)
(*                                                                         *)
(* A scope is an (agent, project) pair.  The time of an event, and of a    *)
(* turn, is its place in the Hub.  An entry is a number, and the ledger    *)
(* it refers to when it is a sub-task's.                                   *)
(***************************************************************************)
EXTENDS Naturals, Sequences, SequencesExt, FiniteSets, Functions

CONSTANTS
    Ledgers,
    Scopes,
    SessionIds,
    None,
    MaxHub,     \* bound on the records of the Hub
    MaxEdits,   \* bound on edits by users
    MaxFaults   \* bound on appends that fail, crashes and restarts

ASSUME LedgerAssumption ==
    /\ None \notin Ledgers \cup Scopes /\ Ledgers \cap Scopes = {}
    /\ MaxHub \in Nat /\ MaxEdits \in Nat /\ MaxFaults \in [{"append", "crash"} -> Nat]

VARIABLES
    pool,     \* AgencyRuntime.pool: ledger -> rev, status, parent, ...
    active,   \* ActivationTable._active: scope -> ledger
    owner,    \* ActivationTable._last_switch_session: scope -> session
    hub,      \* events and tombstones of ledgers, in order
    view,     \* what each agent read last: a ledger, its rev and its entries
    \* History.
    entered,  \* how many entries were made
    unsaved,  \* ledgers and scopes that differ from the Hub since an append failed
    reissued, \* ledgers whose rev may be given out a second time
    removed,  \* removals by agents: the entry that was meant and the one that went
    replaced, \* entries of ledgers that the user replaced or deleted
    dropped,  \* entries that were lost since they were not saved
    faults     \* faults so far

process == <<pool, active, owner>>
gone == <<removed, replaced>>
poolHistory == <<entered, unsaved, reissued, gone, dropped, faults>>
poolVars == <<process, hub, view, poolHistory>>

\* A dictionary after an assignment, and after deletions.
With(fn, x, y) == [z \in DOMAIN fn \cup {x} |-> IF z = x THEN y ELSE fn[z]]
Minus(fn, xs) == Restrict(fn, DOMAIN fn \ xs)

NoView == [ledger |-> None, rev |-> 0, entries |-> <<>>]

Entry(n, ref) == [n |-> n, ref |-> ref]

\* A sub-task begins with the entry that obliges it to report to its parent.
New(parent) == [rev |-> 0, status |-> "active", parent |-> parent, succ |-> None,
                by |-> None, entries |-> <<Entry(entered + 1, parent)>>]

\* close_ledger and reopen_ledger, for the process and for the replay alike.
Closed(led, succ) ==
    [led EXCEPT !.status = "closed", !.succ = IF succ = None THEN @ ELSE succ]
Reopened(led) == [led EXCEPT !.status = "active", !.succ = None]

-----------------------------------------------------------------------------
(* The events, and what is read from them.                                 *)

Dumps == {"create", "update", "edit"}

NeverCreated(h, l) == ~\E i \in DOMAIN h : h[i].op \in Dumps /\ h[i].ledger = l

Dump(op, s, l, led) == [op |-> op, scope |-> s, ledger |-> l, led |-> led]
Switched(s, k, l) == [op |-> "switch", scope |-> s, sess |-> k, ledger |-> l]
Ended(l, succ) == [op |-> "close", ledger |-> l, succ |-> succ]
Begun(l) == [op |-> "reopen", ledger |-> l]

Tombs(h) == {h[i].ledger : i \in {j \in DOMAIN h : h[j].op = "tomb"}}

\* Only the first tombstone of a ledger counts.
TombAt(h, l) ==
    CHOOSE i \in DOMAIN h :
        /\ h[i].op = "tomb" /\ h[i].ledger = l
        /\ \A j \in 1..i-1 : ~(h[j].op = "tomb" /\ h[j].ledger = l)

Before(h, i) == h[i].ledger \in Tombs(h) => i < TombAt(h, h[i].ledger)

BugClosedAnchor(h, s, cur, i) ==
    LET e == h[i]
    IN  CASE e.op = "switch" /\ e.scope = s -> IF Before(h, i) THEN e.ledger ELSE None
          [] e.op = "create" /\ e.scope = s /\ e.ledger \notin Tombs(h) -> e.ledger
          [] e.op = "tomb" /\ e.ledger = cur -> None
          [] OTHER -> cur

\* A switch to a ledger that is deleted later stands until then; a ledger is
\* active from its creation on; one that is closed or deleted is active nowhere.
AnchorStep(h, s, cur, i) ==
    LET e == h[i]
    IN  CASE e.op = "switch" /\ e.scope = s -> IF Before(h, i) THEN e.ledger ELSE None
          [] e.op = "create" /\ e.scope = s /\ e.ledger \notin Tombs(h) -> e.ledger
          [] e.op = "close" /\ e.ledger = cur /\ Before(h, i) -> None
          [] e.op = "tomb" /\ e.ledger = cur -> None
          [] OTHER -> cur

\* ledger_active_at on switch_timeline.
Anchor(h, s, t) ==
    LET at[i \in 0..t] == IF i = 0 THEN None ELSE AnchorStep(h, s, at[i-1], i)
    IN  at[t]

Empty == [pool |-> <<>>, bound |-> <<>>, from |-> <<>>]

BugUnbind(st, l) == st

\* A closed ledger is bound nowhere.
Unbind(st, l) ==
    LET ss == {s \in DOMAIN st.bound : st.bound[s] = l}
    IN  [st EXCEPT !.bound = Minus(@, ss), !.from = Minus(@, ss)]

ReplayStep(h, st, i) ==
    LET e == h[i]
    IN  CASE e.op \in Dumps ->
                 IF e.ledger \in Tombs(h) THEN st
                 ELSE [st EXCEPT !.pool = With(@, e.ledger, e.led)]
          [] e.op = "switch" ->
                 IF Before(h, i)
                 THEN [st EXCEPT !.bound = With(@, e.scope, e.ledger),
                                 !.from = With(@, e.scope, e.sess)]
                 ELSE [st EXCEPT !.bound = Minus(@, {e.scope})]
          [] e.op = "close" ->
                 IF e.ledger \in DOMAIN st.pool
                 THEN Unbind([st EXCEPT !.pool[e.ledger] = Closed(@, e.succ)], e.ledger)
                 ELSE st
          [] e.op = "reopen" ->
                 IF e.ledger \in DOMAIN st.pool
                 THEN [st EXCEPT !.pool[e.ledger] = Reopened(@)]
                 ELSE st
          [] e.op = "tomb" /\ i = TombAt(h, e.ledger) ->
                 [st EXCEPT !.bound = Minus(@, {s \in Scopes :
                                                    Anchor(h, s, i - 1) = e.ledger})]
          [] OTHER -> st

\* replay_ledger_events and binding_sessions on what apply_ledger_tombstones left.
Replay(h) ==
    LET st[i \in 0..Len(h)] == IF i = 0 THEN Empty ELSE ReplayStep(h, st[i-1], i)
    IN  st[Len(h)]

-----------------------------------------------------------------------------
(* A handler: what it does to the pool and the table, and its events.      *)

Spend(k) == faults[k] < MaxFaults[k] /\ faults' = [faults EXCEPT ![k] = @ + 1]

Load(h) ==
    LET r == Replay(h)
    IN  pool' = r.pool /\ active' = r.bound /\ owner' = r.from

Numbers(entries) == {e.n : e \in Range(entries)}
EntriesOf(p, ls) == UNION {Numbers(p[l].entries) : l \in DOMAIN p \cap ls}

\* Deleted ledgers that a user's edit has brought back.
Revived == DOMAIN pool \cap Tombs(hub)

\* What a restart may lose: what was not saved, and what this handler was about to write.
AtRisk(p) == EntriesOf(pool, unsaved \cup Revived)
             \cup (EntriesOf(p, Ledgers) \ EntriesOf(pool, Ledgers))

\* What a record that is appended brings up to date, and what one that is not leaves behind.
Heals(e) == CASE e.op \in Dumps -> {e.ledger} [] e.op = "switch" -> {e.scope} [] OTHER -> {}
Strays(e) ==
    CASE e.op = "switch" -> {e.scope}
      [] e.op = "close" -> {e.ledger} \cup {s \in DOMAIN active : active[s] = e.ledger}
      [] OTHER -> {e.ledger}

\* The ledgers and scopes that differ from the Hub once evs are appended: a close is not
\* heard when the creation of the ledger was lost.
Unsaved(evs) ==
    (unsaved \ UNION {Heals(evs[i]) : i \in DOMAIN evs})
    \cup UNION {Strays(evs[i]) : i \in {j \in DOMAIN evs :
                   evs[j].op = "close" /\ NeverCreated(hub, evs[j].ledger)}}

\* The process may die between two events; to die before the first is to Restart.
Perform(evs, p, a, o) ==
    /\ Len(hub) + Len(evs) <= MaxHub
    /\ \/ /\ hub' = hub \o evs
          /\ pool' = p /\ active' = a /\ owner' = o
          /\ unsaved' = Unsaved(evs)
          /\ UNCHANGED <<reissued, dropped, faults>>
       \/ /\ Spend("append")
          /\ \E i \in DOMAIN evs :
                /\ hub' = hub \o RemoveAt(evs, i)
                /\ unsaved' = Unsaved(RemoveAt(evs, i)) \cup Strays(evs[i])
                /\ reissued' = reissued \cup {evs[i].ledger}
          /\ pool' = p /\ active' = a /\ owner' = o
          /\ UNCHANGED dropped
       \/ /\ Spend("crash")
          /\ \E n \in 1..Len(evs)-1 : hub' = hub \o SubSeq(evs, 1, n)
          /\ Load(hub')
          /\ dropped' = dropped \cup (AtRisk(p) \ EntriesOf(pool', Ledgers))
          /\ unsaved' = {}
          /\ UNCHANGED reissued

Active(s) == IF s \in DOMAIN active /\ active[s] \in DOMAIN pool THEN active[s] ELSE None

\* request_switch; forget_ledger.
Bind(s, l) == With(active, s, l)
Own(s, k) == With(owner, s, k)
ForgetActive(l) == Minus(active, {s \in DOMAIN active : active[s] = l})
ForgetOwner(l) == Minus(owner, {s \in DOMAIN active : active[s] = l})

Fresh == {l \in Ledgers : l \notin DOMAIN pool /\ \A i \in DOMAIN hub : hub[i].ledger # l}

\* _mark_subtask_on_parent.
Awaiting(p, l, s) ==
    [pool[p] EXCEPT !.entries = Append(@, Entry(entered + 2, l)), !.rev = @ + 1, !.by = s]

\* _h_ledger_switch without a target.
Create(s, k, parent) ==
    \E l \in Fresh :
        LET led == New(parent)
            marked == parent # None /\ pool[parent].status = "active"
            evs == (IF marked THEN <<Dump("update", s, parent, Awaiting(parent, l, s))>>
                              ELSE <<>>)
                   \o <<Dump("create", s, l, led), Switched(s, k, l)>>
            p == With(IF marked THEN With(pool, parent, Awaiting(parent, l, s)) ELSE pool, l, led)
        IN  /\ parent \in {None} \cup DOMAIN pool
            /\ entered' = IF marked THEN entered + 2 ELSE entered + 1
            /\ Perform(evs, p, Bind(s, l), Own(s, k))
            /\ UNCHANGED <<view, gone>>

\* A switch to a closed ledger reopens it, unless the active ledger has a sub-task's
\* entry that refers to it.
KeepsClosed(s, l) ==
    Active(s) # None /\ \E e \in Range(pool[Active(s)].entries) : e.ref = l

Reopens(s, l) == pool[l].status = "closed" /\ ~KeepsClosed(s, l)

SwitchTo(s, k, l) ==
    /\ l \in DOMAIN pool
    /\ LET same == s \in DOMAIN active /\ active[s] = l
           evs == (IF Reopens(s, l) THEN <<Begun(l)>> ELSE <<>>)
                  \o (IF same THEN <<>> ELSE <<Switched(s, k, l)>>)
           p == IF Reopens(s, l) THEN [pool EXCEPT ![l] = Reopened(@)] ELSE pool
       IN  /\ evs # <<>>
           /\ IF same THEN Perform(evs, p, active, owner)
                      ELSE Perform(evs, p, Bind(s, l), Own(s, k))
    /\ UNCHANGED <<view, entered, gone>>

\* The ledger as it is injected, or read by a tool.
Read(s) ==
    /\ Active(s) # None
    /\ view' = [view EXCEPT ![s] = [ledger |-> Active(s), rev |-> pool[Active(s)].rev,
                                    entries |-> pool[Active(s)].entries]]
    /\ view' # view
    /\ UNCHANGED <<process, hub, poolHistory>>

BugWritten(l, s, entries) == [pool[l] EXCEPT !.entries = entries, !.by = s]
Written(l, s, entries) == [pool[l] EXCEPT !.entries = entries, !.rev = @ + 1, !.by = s]

BugAdded(l, s) ==
    Append(IF view[s].ledger = l THEN view[s].entries ELSE pool[l].entries,
           Entry(entered + 1, None))

\* Entries are added to what is there now, not to what the agent read.
Added(l, s) == Append(pool[l].entries, Entry(entered + 1, None))

Update(s, l, entries) ==
    Perform(<<Dump("update", s, l, Written(l, s, entries))>>,
            [pool EXCEPT ![l] = Written(l, s, entries)], active, owner)

\* _h_ledger_update: entries are added whatever the agent has read ...
Add(s) ==
    /\ Active(s) # None
    /\ Update(s, Active(s), Added(Active(s), s))
    /\ entered' = entered + 1
    /\ UNCHANGED <<view, gone>>

\* ... and removed by their place, under the rev the agent has read if the call gives
\* one (locked): of whatever ledger the scope has active by then.
Retract(s, i, locked) ==
    LET l == Active(s)
    IN  /\ l # None
        /\ locked => view[s].rev = pool[l].rev
        /\ i \in DOMAIN view[s].entries \cap DOMAIN pool[l].entries
        /\ Update(s, l, RemoveAt(pool[l].entries, i))
        /\ removed' = removed \cup {[ledger |-> l, read |-> view[s].ledger, locked |-> locked,
                                     meant |-> view[s].entries[i], got |-> pool[l].entries[i]]}
        /\ UNCHANGED <<view, entered, replaced>>

\* lifecycle_close, for the tool and the administrative interface: succ # None
\* supersedes.
Close(l, succ) ==
    /\ l \in DOMAIN pool /\ succ \in ({None} \cup DOMAIN pool) \ {l}
    /\ pool[l].status = "closed" => succ \notin {None, pool[l].succ}
    /\ Perform(<<Ended(l, succ)>>, [pool EXCEPT ![l] = Closed(@, succ)],
               ForgetActive(l), ForgetOwner(l))
    /\ UNCHANGED <<view, entered, gone>>

\* lifecycle_reopen by the administrative interface: it activates nothing.
Reopen(l) ==
    /\ l \in DOMAIN pool /\ pool[l].status = "closed"
    /\ Perform(<<Begun(l)>>, [pool EXCEPT ![l] = Reopened(@)], active, owner)
    /\ UNCHANGED <<view, entered, gone>>

\* A user's edit replaces the whole ledger; the file does not carry the writer.
Adopted(l, led) == [led EXCEPT !.rev = IF l \in DOMAIN pool THEN pool[l].rev + 1 ELSE 0,
                               !.by = IF l \in DOMAIN pool THEN "user" ELSE None]

\* POST /admin/ledgers/user-edit: the user adds a line to the file as the daemon
\* rendered it from the Hub at some time n.
UserEdit(l, n) ==
    LET base == Replay(SubSeq(hub, 1, n)).pool
        led == Adopted(l, [base[l] EXCEPT !.entries = Append(@, Entry(entered + 1, None))])
    IN  /\ Cardinality({i \in DOMAIN hub : hub[i].op = "edit"}) < MaxEdits
        /\ l \in DOMAIN base
        /\ Perform(<<Dump("edit", None, l, led)>>, With(pool, l, led), active, owner)
        /\ entered' = entered + 1
        /\ replaced' = replaced \cup EntriesOf(pool, {l})
        /\ UNCHANGED <<view, removed>>

\* DELETE /admin/ledgers/{id}.
Tombstone(l) ==
    /\ l \in DOMAIN pool /\ Len(hub) < MaxHub
    /\ hub' = Append(hub, [op |-> "tomb", ledger |-> l])
    /\ pool' = Minus(pool, {l})
    /\ active' = ForgetActive(l) /\ owner' = ForgetOwner(l)
    /\ replaced' = replaced \cup EntriesOf(pool, {l})
    /\ UNCHANGED <<view, entered, unsaved, reissued, removed, dropped, faults>>

Reload ==
    /\ Spend("crash")
    /\ Load(hub)
    /\ dropped' = dropped \cup (AtRisk(pool) \ EntriesOf(pool', Ledgers))
    /\ unsaved' = {}
    /\ UNCHANGED <<hub, view, entered, reissued, gone>>

PoolInit ==
    /\ pool = <<>> /\ active = <<>> /\ owner = <<>> /\ hub = <<>>
    /\ view = [s \in Scopes |-> NoView]
    /\ entered = 0 /\ unsaved = {} /\ reissued = {}
    /\ removed = {} /\ replaced = {} /\ dropped = {}
    /\ faults = [append |-> 0, crash |-> 0]

Agents ==
    \E s \in Scopes :
        \/ \E k \in SessionIds :
            \/ \E parent \in {None} \cup Ledgers : Create(s, k, parent)
            \/ \E l \in Ledgers : SwitchTo(s, k, l)
        \/ Read(s) \/ Add(s)
        \/ \E i \in DOMAIN view[s].entries, locked \in BOOLEAN : Retract(s, i, locked)

Admin ==
    \E l \in Ledgers :
        \/ \E succ \in {None} \cup Ledgers : Close(l, succ)
        \/ \E n \in DOMAIN hub : UserEdit(l, n)
        \/ Reopen(l) \/ Tombstone(l)

PoolNext == Agents \/ Admin \/ Reload

PoolSpec == PoolInit /\ [][PoolNext]_poolVars

-----------------------------------------------------------------------------
(* Properties.                                                             *)

Bound(r, s) ==
    IF s \in DOMAIN r.bound /\ r.bound[s] \in DOMAIN r.pool THEN r.bound[s] ELSE None

\* What a restart would load is what the process has: every ledger, and for every
\* scope the active ledger and the session that activated it.  Only what an append
\* that failed has left behind differs, until it is written again, and a deleted
\* ledger that a user's edit has brought back.
ReplayAgrees ==
    LET r == Replay(hub)
        apart == unsaved \cup Revived
    IN  /\ \A l \in Ledgers \ apart :
              /\ l \in DOMAIN pool <=> l \in DOMAIN r.pool
              /\ l \in DOMAIN pool => pool[l] = r.pool[l]
        /\ \A s \in Scopes \ unsaved :
              Active(s) \notin apart =>
                 /\ Bound(r, s) = Active(s)
                 /\ Active(s) # None => owner[s] = r.from[s]

\* The switch that should follow a creation is missing: only the timeline sees it.
HalfCreated(h, s) ==
    \E i \in DOMAIN h :
        /\ h[i].op = "create" /\ h[i].scope = s
        /\ \A j \in i+1..Len(h) : ~(h[j].op = "switch" /\ h[j].scope = s)

\* Ledgers whose creation is missing: what happened to them before they were written again
\* is for the timeline only.
Orphans(h) ==
    {l \in Ledgers : \E i \in DOMAIN h :
        h[i].ledger = l /\ h[i].op \notin Dumps /\ NeverCreated(SubSeq(h, 1, i), l)}

\* A rebuild anchors the turns of a scope to the ledger that is active there now,
\* the timeline and the table agree: unless one of the two events of a creation is missing.
TurnsAreAnchored ==
    \A s \in Scopes \ unsaved :
        LET anchor == Anchor(hub, s, Len(hub))
        IN  \/ Active(s) \in unsaved \cup Revived
            \/ HalfCreated(hub, s)
            \/ anchor = Active(s)
            \/ {Active(s), anchor} \cap Orphans(hub) # {}

\* An agent that gives the rev it has read, of the ledger it has read, removes the entry
\* it has read at that place, although the other agents and the user write to the same
\* ledger.  Only a restart after an event was lost, and an edit of a deleted ledger, give
\* a rev a second time.
RemovesWhatWasRead ==
    \A r \in removed :
        r.locked /\ r.read = r.ledger => r.meant = r.got \/ r.ledger \in reissued \cup Tombs(hub)

Gone == {r.got.n : r \in removed} \cup replaced \cup dropped

\* No entry is lost to a write of somebody who had not seen it, nor to a restart: but to
\* an edit of the user, who replaces the ledger, or with an event that was never saved.
EntriesAreKept == 1..entered \subseteq EntriesOf(pool, Ledgers) \cup Gone

\* An agent's edit under the rev it has read removes what it has read, and no edit takes an
\* entry which it did not name, whoever else writes to the ledger (handlers.py, admin_api.py).
EditsKeepEntries == RemovesWhatWasRead /\ EntriesAreKept

=============================================================================
