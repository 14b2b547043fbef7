----------------------------- MODULE Deployment -----------------------------
(***************************************************************************)
(* Deployments (BLADEX_HOME) that share one Redis stream.  The command     *)
(* line (cli/lifecycle.py) starts and stops the processes of a home and    *)
(* knows them by its pidfiles; the proxy claims the stream in Redis before *)
(* it consumes it (storage/instance_claim.py) and keeps the claim alive.   *)
(*                                                                         *)
(* The processes of a home are its proxy and one process beside it, which  *)
(* stands for the consolidator, the flash daemon and the embedding server: *)
(* all three are started and stopped alike.  A step is a call of Redis, a  *)
(* signal, a fork or an access to a pidfile.                               *)
(***************************************************************************)
EXTENDS Naturals, FiniteSets

CONSTANTS
    None,
    Homes,
    Terminals,     \* where commands are given
    Slots,         \* how many processes of a kind a home may have
    MaxCommands,   \* bound on the commands given
    MaxFaults      \* bound on faults, per kind and in all

Files == {"proxy", "side"}
\* A pid, named after the process it was given to first.
Pids == Homes \X Files \X Slots

Kinds == {"crash", "redis", "stall", "reuse", "cli", "cross", "foreground", "slow", "all"}

\* What a claim says, and what a process is at.
Claims == [home : Homes, pid : Pids]
Places == {"get", "sample", "probe", "nx", "again", "take", "hub", "hub nostore", "nostore",
           "serve", "drained", "release", "run"}
Processes == [kind : Files, home : Homes, pc : Places, theirs : Claims \cup {None},
              seen : SUBSET Pids, beat : BOOLEAN, term : BOOLEAN, hub : BOOLEAN]

ASSUME DeploymentAssumption ==
    /\ MaxCommands \in Nat /\ MaxFaults \in [Kinds -> Nat]
    /\ Slots \subseteq Nat
    /\ None \notin Pids \cup Homes /\ None \notin Claims /\ None \notin Processes

VARIABLES
    oneHost,   \* the homes are on one host, or each on its own
    oneGroup,  \* they use one consumer group, or each its own
    procs,     \* the processes, by pid
    pidfile,   \* the pidfiles of a home
    cli,       \* the command that runs in a terminal
    claim,     \* the key bladex:instance:<stream>
    \* History.
    overwritten, \* a claim was written over that its writer had not read
    double,      \* two proxies of one home were alive
    commands,
    spent

site == <<oneHost, oneGroup>>
history == <<overwritten, double, commands>>
vars == <<site, procs, pidfile, cli, claim, history, spent>>

Spend(k) ==
    /\ spent[k] < MaxFaults[k] /\ spent["all"] < MaxFaults["all"]
    /\ spent' = [spent EXCEPT ![k] = @ + 1, !["all"] = @ + 1]

Live == {p \in Pids : procs[p] # None}
OnHost(h) == {p \in Live : oneHost \/ procs[p].home = h}
Proxies == {p \in Live : procs[p].kind = "proxy"}

\* The worker reads the stream.
Serving == {p \in Proxies : procs[p].pc = "serve"}

-----------------------------------------------------------------------------
(* The claim.                                                              *)

Mine(p) == [home |-> procs[p].home, pid |-> p]

\* _pid_alive, of a process of the same host.
StaleFor(h, c) == oneHost /\ c.pid \notin OnHost(h)

Goto(p, pc) == procs' = [procs EXCEPT ![p].pc = pc]
Admit(p, pc) == procs' = [procs EXCEPT ![p].pc = pc, ![p].theirs = None]
Read(p, pc) == procs' = [procs EXCEPT ![p].pc = pc, ![p].theirs = claim]

\* With the claim, or without one that could be checked: the Hub comes next, and in a
\* proxy that runs already the worker.
Admitted(p) == IF procs[p].hub THEN "serve" ELSE "hub"

\* InstanceConflictError ends a start, and leaves a proxy that runs without its stream.
Refuse(p) ==
    procs' = IF procs[p].hub THEN [procs EXCEPT ![p].pc = "nostore"]
                             ELSE [procs EXCEPT ![p] = None]

\* A claim of the same home, of a process that is gone, or none at all is taken over.
MayTake(p) == claim = None \/ claim.home = procs[p].home \/ StaleFor(procs[p].home, claim)

Judge(p) == IF MayTake(p) THEN Read(p, "take") ELSE Refuse(p)

\* acquire: the claim is read.  A proxy that cannot connect goes on without the stream.
Get(p) ==
    /\ procs[p].pc = "get"
    /\ \/ (IF claim = None THEN Read(p, "sample") ELSE Judge(p)) /\ UNCHANGED spent
       \/ Spend("redis") /\ Admit(p, Admitted(p))
       \/ Spend("redis") /\ Goto(p, IF procs[p].hub THEN "nostore" ELSE "hub nostore")
    /\ UNCHANGED <<site, pidfile, cli, claim, history>>

\* _live_unregistered_consumers: those of the group that read at both samples.
Consumers(p) == {q \in Serving : oneGroup \/ procs[q].home = procs[p].home} \ {p}

Sample(p) ==
    /\ procs[p].pc = "sample"
    /\ procs' = [procs EXCEPT ![p].pc = "probe", ![p].seen = Consumers(p)]
    /\ UNCHANGED <<site, pidfile, cli, claim, history, spent>>

Probe(p) ==
    /\ procs[p].pc = "probe"
    /\ IF procs[p].seen \cap Consumers(p) # {}
       THEN Refuse(p)
       ELSE procs' = [procs EXCEPT ![p].pc = "nx", ![p].seen = {}]
    /\ UNCHANGED <<site, pidfile, cli, claim, history, spent>>

\* SET NX, and what is there if it fails.
SetNX(p) ==
    /\ procs[p].pc = "nx"
    /\ IF claim = None
       THEN claim' = Mine(p) /\ Admit(p, Admitted(p))
       ELSE Goto(p, "again") /\ UNCHANGED claim
    /\ UNCHANGED <<site, pidfile, cli, history, spent>>

GetAgain(p) ==
    /\ procs[p].pc = "again"
    /\ Judge(p)
    /\ UNCHANGED <<site, pidfile, cli, claim, history, spent>>

\* SET without NX.
Put(p) ==
    /\ claim' = Mine(p)
    /\ overwritten' = (overwritten \/ claim # procs[p].theirs)

Take(p) ==
    /\ procs[p].pc = "take"
    /\ \/ Put(p) /\ UNCHANGED spent
       \/ Spend("redis") /\ UNCHANGED <<claim, overwritten>>
    /\ Admit(p, Admitted(p))
    /\ UNCHANGED <<site, pidfile, cli, double, commands>>

\* The heartbeat goes from the end of acquire to release.
Beating == {p \in Proxies : procs[p].pc \in {"hub", "serve"}}

Beats(p) == claim # None => claim.home = procs[p].home

BeatGet(p) ==
    /\ p \in Beating /\ ~procs[p].beat
    /\ claim # Mine(p) /\ Beats(p)
    /\ procs' = [procs EXCEPT ![p].beat = TRUE, ![p].theirs = claim]
    /\ UNCHANGED <<site, pidfile, cli, claim, history, spent>>

BeatSet(p) ==
    /\ p \in Beating /\ procs[p].beat
    /\ Put(p)
    /\ procs' = [procs EXCEPT ![p].beat = FALSE, ![p].theirs = None]
    /\ UNCHANGED <<site, pidfile, cli, double, commands, spent>>

\* The key lives 30 s, a heartbeat is due every 10 s, and nothing else takes that long
\* unless the process hangs.
Expire ==
    /\ claim # None
    /\ \/ /\ \A p \in Proxies : procs[p].home = claim.home =>
                 p \notin Beating /\ procs[p].pc \notin {"get", "sample", "probe", "nx", "take", "release"}
          /\ UNCHANGED spent
       \/ Spend("stall")
    /\ claim' = None
    /\ UNCHANGED <<site, procs, pidfile, cli, history>>

-----------------------------------------------------------------------------
(* The proxy and the process beside it.                                    *)

HubOf(h) == {p \in Proxies : procs[p].home = h /\ procs[p].hub}

\* The lifespan opens the Hub, whose lock only one process holds, and starts the worker;
\* a start that was told to end goes no further.
OpenHub(p) ==
    /\ procs[p].pc \in {"hub", "hub nostore"}
    /\ procs' = IF HubOf(procs[p].home) # {} \/ procs[p].term
                THEN [procs EXCEPT ![p] = None]
                ELSE [procs EXCEPT ![p].hub = TRUE,
                                   ![p].pc = IF @ = "hub" THEN "serve" ELSE "nostore"]
    /\ UNCHANGED <<site, pidfile, cli, claim, history, spent>>

\* _try_recover_redis: a proxy without its stream claims it first.
Recover(p) ==
    /\ procs[p].pc = "nostore" /\ ~procs[p].term
    /\ Goto(p, "get")
    /\ UNCHANGED <<site, pidfile, cli, claim, history, spent>>

\* The end of the lifespan: the worker stops, and the claim is released.
Drain(p) ==
    /\ procs[p].pc = "serve" /\ procs[p].term
    /\ Goto(p, "drained")
    /\ UNCHANGED <<site, pidfile, cli, claim, history, spent>>

BugReleases(p) == claim # None
Releases(p) == claim = Mine(p)

ReleaseGet(p) ==
    /\ procs[p].pc = "drained"
    /\ procs' = IF Releases(p) THEN [procs EXCEPT ![p].pc = "release"]
                ELSE [procs EXCEPT ![p] = None]
    /\ UNCHANGED <<site, pidfile, cli, claim, history, spent>>

ReleaseDel(p) ==
    /\ procs[p].pc = "release"
    /\ claim' = None
    /\ procs' = [procs EXCEPT ![p] = None]
    /\ UNCHANGED <<site, pidfile, cli, history, spent>>

Exit(p) ==
    /\ procs[p].term
    /\ procs[p].pc \in {"run", "nostore"}
    /\ procs' = [procs EXCEPT ![p] = None]
    /\ UNCHANGED <<site, pidfile, cli, claim, history, spent>>

Crash(p) ==
    /\ Spend("crash")
    /\ procs' = [procs EXCEPT ![p] = None]
    /\ UNCHANGED <<site, pidfile, cli, claim, history>>

Process(p) ==
    /\ p \in Live
    /\ \/ Exit(p) \/ Crash(p)
       \/ /\ p \in Proxies
          /\ \/ Get(p) \/ Sample(p) \/ Probe(p) \/ SetNX(p) \/ GetAgain(p) \/ Take(p)
             \/ BeatGet(p) \/ BeatSet(p) \/ OpenHub(p) \/ Recover(p) \/ Drain(p)
             \/ ReleaseGet(p) \/ ReleaseDel(p)

-----------------------------------------------------------------------------
(* The command line.                                                       *)

Idle == [pc |-> "idle", home |-> None, before |-> None, pid |-> None, which |-> "proxy", rc |-> 0]

\* _read_pidfile.
Pid(h, f) == IF pidfile[h][f] \in OnHost(h) THEN pidfile[h][f] ELSE None

Unlink(h, f) == pidfile' = [pidfile EXCEPT ![h][f] = None]
Step(t, pc) == cli' = [cli EXCEPT ![t].pc = pc]
Done(t, rc) == cli' = [cli EXCEPT ![t] = [Idle EXCEPT !.rc = rc]]

New(f, h) ==
    [kind |-> f, home |-> h, pc |-> IF f = "proxy" THEN "get" ELSE "run", theirs |-> None,
     seen |-> {}, beat |-> FALSE, term |-> FALSE, hub |-> FALSE]

\* What is known by its pid.
Named ==
    {pidfile[h][f] : h \in Homes, f \in Files} \cup {cli[t].pid : t \in Terminals}
    \cup {c.pid : c \in {c \in {claim} \cup {procs[p].theirs : p \in Live} : c # None}}

\* A new pid, or one that something still names.
Fresh(h, f) == {p \in {h} \X {f} \X Slots :
                   p \notin Live \cup Named /\ \A i \in Slots : <<h, f, i>> \notin Live \cup Named => p[3] <= i}

\* Popen, and the pidfile; a terminal that is closed between them leaves none.
Spawn(t, f, h, pc) ==
    \E p \in Fresh(h, f) \cup (Named \ (Live \cup {None})) :
        /\ procs' = [procs EXCEPT ![p] = New(f, h)]
        /\ double' = (double \/ (f = "proxy" /\ \E q \in Proxies : procs[q].home = h))
        /\ \/ /\ IF p \in Named THEN Spend("reuse") ELSE UNCHANGED spent
              /\ pidfile' = [pidfile EXCEPT ![h][f] = p]
              /\ cli' = [cli EXCEPT ![t].pc = pc, ![t].pid = p]
           \/ /\ p \notin Named /\ Spend("cli")
              /\ Done(t, 0) /\ pidfile' = [pidfile EXCEPT ![h][f] = IF f = "side" THEN None ELSE @]

\* A command begins.  Nothing keeps two of one home from running at once.
Busy(h) == {t \in Terminals : cli[t].home = h}

Give(t, h) ==
    /\ cli[t].pc = "idle" /\ commands < MaxCommands
    /\ commands' = commands + 1
    /\ IF Busy(h) = {} THEN UNCHANGED spent ELSE Spend("cross")
    /\ UNCHANGED <<site, procs, pidfile, claim, overwritten, double>>

\* start notes which processes are there already.
Start(t, h) ==
    /\ Give(t, h)
    /\ cli' = [cli EXCEPT ![t] = [Idle EXCEPT !.pc = "side", !.home = h, !.before = Pid(h, "side")]]

BugOwned(h) == None

\* _owned_sidecar_pid: alive, and not of another home on its command line.
Owned(h) ==
    LET p == Pid(h, "side") IN
    IF p # None /\ procs[p].kind = "side" /\ procs[p].home # h THEN None ELSE p

StartSide(t, h) ==
    /\ cli[t].pc = "side"
    /\ IF Owned(h) # None
       THEN Step(t, "proxy") /\ UNCHANGED <<procs, pidfile, double, spent>>
       ELSE Spawn(t, "side", h, "side up")
    /\ UNCHANGED <<site, claim, overwritten, commands>>

\* A process that has ended by now has failed to start.  An embedding server that does not
\* listen in time is given up: without a signal, or with one if its model cannot be had.
SideUp(t, h) ==
    /\ cli[t].pc = "side up"
    /\ Step(t, "proxy")
    /\ \/ /\ IF cli[t].pid \in OnHost(h) THEN UNCHANGED pidfile ELSE Unlink(h, "side")
          /\ UNCHANGED <<procs, spent>>
       \/ /\ cli[t].pid \in OnHost(h) /\ Spend("slow") /\ Unlink(h, "side")
          /\ UNCHANGED procs \/ procs' = [procs EXCEPT ![cli[t].pid].term = TRUE]
    /\ UNCHANGED <<site, claim, history>>

StartProxy(t, h) ==
    /\ cli[t].pc = "proxy"
    /\ IF Pid(h, "proxy") # None
       THEN Done(t, 1) /\ UNCHANGED <<procs, pidfile, double, spent>>
       ELSE Spawn(t, "proxy", h, "proxy up")
    /\ UNCHANGED <<site, claim, overwritten, commands>>

\* --foreground: no pidfile.
StartForeground(t, h) ==
    /\ cli[t].pc = "proxy" /\ Pid(h, "proxy") = None
    /\ Spend("foreground")
    /\ \E p \in Fresh(h, "proxy") : procs' = [procs EXCEPT ![p] = New("proxy", h)]
    /\ double' = (double \/ \E q \in Proxies : procs[q].home = h)
    /\ Done(t, 0)
    /\ UNCHANGED <<site, pidfile, claim, overwritten, commands>>

\* The pidfile is read again for what follows.
ProxyUp(t, h) ==
    /\ cli[t].pc = "proxy up"
    /\ IF cli[t].pid \in OnHost(h)
       THEN cli' = [cli EXCEPT ![t].pc = "report", ![t].pid = Pid(h, "proxy")] /\ UNCHANGED pidfile
       ELSE Done(t, 1) /\ Unlink(h, "proxy")
    /\ UNCHANGED <<site, procs, claim, history, spent>>

\* _report_startup_state: /ready answers, the process is gone, there is no answer in time, or
\* the proxy says that it cannot have its embedding model.
Ready(h) == \E p \in Proxies : procs[p].home = h /\ procs[p].pc \in {"serve", "nostore"}

Report(t, h) ==
    /\ cli[t].pc = "report"
    /\ \/ /\ Ready(h)
          /\ Done(t, 0) /\ UNCHANGED <<pidfile, spent>>
       \/ /\ ~Ready(h) /\ cli[t].pid \notin OnHost(h) \cup {None}
          /\ Step(t, "rollback") /\ Unlink(h, "proxy") /\ UNCHANGED spent
       \/ /\ ~Ready(h) /\ cli[t].pid \in OnHost(h) \cup {None}
          /\ Step(t, "rollback") /\ UNCHANGED <<pidfile, spent>>
       \/ /\ cli[t].pid \in OnHost(h) /\ Spend("slow")
          /\ cli' = [cli EXCEPT ![t].pc = "stop", ![t].which = "proxy", ![t].rc = 1]
          /\ UNCHANGED pidfile
    /\ UNCHANGED <<site, procs, claim, history>>

\* _rollback_sidecars: what was not there before.
RollsBack(t, h) == Pid(h, "side") \notin {None, cli[t].before}

Rollback(t, h) ==
    /\ cli[t].pc = "rollback"
    /\ IF RollsBack(t, h)
       THEN cli' = [cli EXCEPT ![t].pc = "stop", ![t].which = "side", ![t].rc = 1]
       ELSE Done(t, 1)
    /\ UNCHANGED <<site, procs, pidfile, claim, history, spent>>

Stop(t, h) ==
    /\ Give(t, h)
    /\ cli' = [cli EXCEPT ![t] = [Idle EXCEPT !.pc = "stop", !.home = h]]

\* After the proxy the process beside it; of a start that has failed, only its own.
Stopped(t) ==
    IF cli[t].which = "side" THEN Done(t, cli[t].rc)
    ELSE IF cli[t].rc = 1 THEN Step(t, "rollback")
    ELSE cli' = [cli EXCEPT ![t].pc = "stop", ![t].which = "side", ![t].pid = None]

\* _stop_by_pidfile: SIGTERM, and after a while SIGKILL.
Terminate(t, h) ==
    /\ cli[t].pc = "stop"
    /\ LET p == Pid(h, cli[t].which) IN
       IF p = None
       THEN Stopped(t) /\ Unlink(h, cli[t].which) /\ UNCHANGED procs
       ELSE /\ procs' = [procs EXCEPT ![p].term = TRUE]
            /\ cli' = [cli EXCEPT ![t].pc = "kill", ![t].pid = p]
            /\ UNCHANGED pidfile
    /\ UNCHANGED <<site, claim, history, spent>>

Killed(t, h) == IF cli[t].pid \in OnHost(h) THEN [procs EXCEPT ![cli[t].pid] = None] ELSE procs

Kill(t, h) ==
    /\ cli[t].pc = "kill"
    /\ procs' = Killed(t, h)
    /\ Stopped(t) /\ Unlink(h, cli[t].which)
    /\ UNCHANGED <<site, claim, history, spent>>

\* The terminal is closed.
Interrupt(t) ==
    /\ Spend("cli")
    /\ Done(t, 0)
    /\ UNCHANGED <<site, procs, pidfile, claim, history>>

Command(t, h) ==
    \/ Start(t, h) \/ Stop(t, h)
    \/ /\ cli[t].home = h
       /\ \/ StartSide(t, h) \/ SideUp(t, h) \/ StartProxy(t, h) \/ StartForeground(t, h)
          \/ ProxyUp(t, h) \/ Report(t, h) \/ Rollback(t, h) \/ Terminate(t, h) \/ Kill(t, h)
          \/ Interrupt(t)

Init ==
    /\ oneHost \in BOOLEAN /\ oneGroup \in BOOLEAN
    /\ procs = [p \in Pids |-> None]
    /\ pidfile = [h \in Homes |-> [f \in Files |-> None]]
    /\ cli = [t \in Terminals |-> Idle] /\ claim = None
    /\ overwritten = FALSE /\ double = FALSE /\ commands = 0
    /\ spent = [k \in Kinds |-> 0]

Next == Expire \/ (\E p \in Pids : Process(p)) \/ (\E t \in Terminals, h \in Homes : Command(t, h))

Spec == Init /\ [][Next]_vars

-----------------------------------------------------------------------------
(* Properties.                                                             *)

Known(k) == spent[k] > 0

\* A proxy that reads the stream has claimed it for its home, so that no other home reads
\* it: unless Redis could not be asked, a process hung for the time of a claim, a pid came
\* again, two proxies of a home were alive, or two processes took a claim over at once.
ServesUnderItsClaim ==
    \A p \in Serving :
        \/ claim # None /\ claim.home = procs[p].home
        \/ overwritten \/ double \/ Known("redis") \/ Known("stall") \/ Known("reuse")

Sides(h) == {p \in Live : procs[p].kind = "side" /\ procs[p].home = h}

\* A home has one process beside its proxy, whatever was started, stopped and has failed,
\* unless two commands of the home ran at once, a terminal was closed on a start, a pid came
\* again, or an embedding server was given up.
OneBesideTheProxy ==
    \A h \in Homes :
        Cardinality(Sides(h)) <= 1 \/ Known("cross") \/ Known("cli") \/ Known("reuse") \/ Known("slow")

=============================================================================
