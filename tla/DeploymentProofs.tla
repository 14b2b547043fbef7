-------------------------- MODULE DeploymentProofs --------------------------
(***************************************************************************)
(* Theorems about Deployment, for every value of its constants.            *)
(*                                                                         *)
(* The claim is safe because a proxy past acquire has written it, and      *)
(* whoever would write over it or let it go has read it before: it is of   *)
(* its own home, where no second proxy lives, or of a pid that is gone and *)
(* does not come back while anything names it (ClaimsAreHeld).  A home     *)
(* has one process beside its proxy because the pidfile names the one that *)
(* lives from its birth to its end (SidesAreNamed), which a command that   *)
(* signals it relies on (CommandsKnow).                                    *)
(***************************************************************************)
EXTENDS Deployment, FiniteSetTheorems, TLAPS

Waits == {"idle", "side", "side up", "proxy", "proxy up", "report", "rollback", "stop", "kill"}
Commands == [pc : Waits, home : Homes \cup {None}, before : Pids \cup {None}, pid : Pids \cup {None}, which : Files,
             rc : {0, 1}]

Typed ==
    /\ oneHost \in BOOLEAN
    /\ procs \in [Pids -> Processes \cup {None}]
    /\ pidfile \in [Homes -> [Files -> Pids \cup {None}]]
    /\ cli \in [Terminals -> Commands]
    /\ claim \in Claims \cup {None}
    /\ overwritten \in BOOLEAN /\ double \in BOOLEAN
    /\ spent \in [Kinds -> Nat]

\* The only command of a home remembers the pid that the home's pidfile holds.
KnowsAt(t) ==
    cli[t].home # None =>
        /\ cli[t].pc = "side up" => cli[t].pid = pidfile[cli[t].home]["side"]
        /\ cli[t].pc = "kill" => cli[t].pid = pidfile[cli[t].home][cli[t].which]

CommandsKnow ==
    Known("cross")
    \/ \A t \in Terminals :
           /\ KnowsAt(t)
           /\ \A u \in Terminals : cli[t].home # None /\ cli[u].home = cli[t].home => t = u

\* The process beside the proxy is the one its home's pidfile names.
Tracked == ~Known("cross") /\ ~Known("cli") /\ ~Known("reuse") /\ ~Known("slow")

SidesAreNamed ==
    Tracked => \A p \in Live : procs[p].kind = "side" => pidfile[procs[p].home]["side"] = p

OneProxy ==
    double \/ \A p, q \in Proxies : procs[p].home = procs[q].home => p = q

Excused == overwritten \/ double \/ Known("redis") \/ Known("stall") \/ Known("reuse")

\* A claim that is about to be taken over is of nobody else who lives.
MayBeTaken(p, c) == c = None \/ c.home = procs[p].home \/ c.pid \notin Live

ClaimsAreHeld ==
    Excused \/
    \A p \in Proxies :
        /\ procs[p].pc \in {"hub", "serve", "release"} => claim = Mine(p)
        /\ procs[p].pc = "take" => MayBeTaken(p, procs[p].theirs)

IInv == Typed /\ CommandsKnow /\ SidesAreNamed /\ OneProxy /\ ClaimsAreHeld

-----------------------------------------------------------------------------
(* What the steps do, one fact each. *)

LEMMA NoneIsNone ==
    None \notin Pids /\ None \notin Homes /\ None \notin Claims /\ None \notin Processes
  BY DeploymentAssumption DEF DeploymentAssumption

\* Faults are counted, and stay known.
LEMMA SpentGrows ==
  ASSUME Typed, [Next]_vars
  PROVE  /\ spent' \in [Kinds -> Nat]
         /\ \A k \in Kinds : Known(k) => Known(k)'
<1>1. CASE UNCHANGED spent
  BY <1>1 DEF Typed, Known
<1>2. ASSUME NEW k \in Kinds, Spend(k)
      PROVE  spent' \in [Kinds -> Nat] /\ \A j \in Kinds : Known(j) => Known(j)'
  BY <1>2 DEF Spend, Typed, Known, Kinds
<1>3. ASSUME ~UNCHANGED spent PROVE \E k \in Kinds : Spend(k)
  <2>1. ASSUME NEW p \in Pids, Process(p) PROVE \E k \in Kinds : Spend(k)
    BY <1>3, <2>1 DEF Process, Exit, Crash, Get, Sample, Probe, SetNX, GetAgain, Take, BeatGet, BeatSet,
       OpenHub, Recover, Drain, ReleaseGet, ReleaseDel, Kinds
  <2>2. ASSUME NEW t \in Terminals, NEW h \in Homes, Command(t, h) PROVE \E k \in Kinds : Spend(k)
    BY <1>3, <2>2 DEF Command, Give, Start, StartSide, SideUp, StartProxy, StartForeground, ProxyUp,
       Report, Rollback, Stop, Terminate, Kill, Interrupt, Spawn, Kinds
  <2>. QED  BY <1>3, <2>1, <2>2 DEF Next, Expire, vars, Kinds
<1>. QED  BY <1>1, <1>2, <1>3

\* The same process, elsewhere.
Moved(x, y) == y \in Processes /\ y.kind = x.kind /\ y.home = x.home

\* A step of a process moves it, or ends it.
Only(p) == procs' = [q \in Pids |-> IF q = p THEN procs'[p] ELSE procs[q]]
Goes(p) == Only(p) /\ (procs'[p] = None \/ Moved(procs[p], procs'[p]))

LEMMA ProcessMoves ==
  ASSUME Typed, NEW p \in Pids, Process(p)
  PROVE  p \in Live /\ Goes(p) /\ UNCHANGED <<oneHost, pidfile, cli, double>>
<1>1. procs[p] \in Processes /\ claim \in Claims \cup {None} /\ p \in Live
      /\ procs = [q \in Pids |-> procs[q]]
  BY DEF Process, Live, Typed
<1>2. UNCHANGED <<oneHost, pidfile, cli, double>>
  BY DEF Process, Exit, Crash, Get, Sample, Probe, SetNX, GetAgain, Take, BeatGet, BeatSet, OpenHub,
     Recover, Drain, ReleaseGet, ReleaseDel, site, history, Put
<1>. SUFFICES Goes(p)
  BY <1>1, <1>2
<1>3. ASSUME NEW pc \in Places, Goto(p, pc) PROVE Goes(p)
  <2>1. Only(p) /\ procs'[p] = [procs[p] EXCEPT !.pc = pc]
    BY <1>1, <1>3 DEF Goto, Only
  <2>. QED  BY <1>1, <2>1 DEF Goes, Moved, Processes
<1>4. ASSUME NEW pc \in Places, NEW c \in Claims \cup {None},
             procs' = [procs EXCEPT ![p].pc = pc, ![p].theirs = c]
      PROVE  Goes(p)
  <2>1. Only(p) /\ procs'[p] = [procs[p] EXCEPT !.pc = pc, !.theirs = c]
    BY <1>1, <1>4 DEF Only
  <2>. QED  BY <1>1, <2>1 DEF Goes, Moved, Processes
<1>5. ASSUME procs' = [procs EXCEPT ![p] = None] PROVE Goes(p)
  BY <1>1, <1>5 DEF Goes, Only
<1>6. Admitted(p) \in Places
  BY DEF Admitted, Places
<1>7. Refuse(p) => Goes(p)
  <2>1. CASE procs[p].hub
    BY <1>3, <2>1 DEF Refuse, Goto, Places
  <2>2. CASE ~procs[p].hub
    BY <1>5, <2>2 DEF Refuse
  <2>. QED  BY <2>1, <2>2
<1>8. Judge(p) => Goes(p)
  BY <1>1, <1>4, <1>7 DEF Judge, Read, Places
<1>9. CASE Get(p)
  <2>1. CASE Read(p, "sample")
    BY <1>1, <1>4, <2>1 DEF Read, Places
  <2>2. CASE Admit(p, Admitted(p))
    BY <1>4, <1>6, <2>2 DEF Admit
  <2>3. CASE \E pc \in {"nostore", "hub nostore"} : Goto(p, pc)
    BY <1>3, <2>3 DEF Places
  <2>. QED  BY <1>8, <1>9, <2>1, <2>2, <2>3 DEF Get
<1>10. CASE Sample(p)
  <2>1. Only(p) /\ procs'[p] = [procs[p] EXCEPT !.pc = "probe", !.seen = Consumers(p)]
    BY <1>1, <1>10 DEF Sample, Only
  <2>2. Consumers(p) \subseteq Pids
    BY DEF Consumers, Serving, Proxies, Live
  <2>. QED  BY <1>1, <2>1, <2>2 DEF Goes, Moved, Processes, Places
<1>11. CASE Probe(p)
  <2>1. CASE procs' = [procs EXCEPT ![p].pc = "nx", ![p].seen = {}]
    <3>1. Only(p) /\ procs'[p] = [procs[p] EXCEPT !.pc = "nx", !.seen = {}]
      BY <1>1, <2>1 DEF Only
    <3>. QED  BY <1>1, <3>1 DEF Goes, Moved, Processes, Places
  <2>. QED  BY <1>7, <1>11, <2>1 DEF Probe
<1>12. CASE SetNX(p)
  BY <1>3, <1>4, <1>6, <1>12 DEF SetNX, Admit, Places
<1>13. CASE Take(p) \/ GetAgain(p)
  BY <1>4, <1>6, <1>8, <1>13 DEF Take, Admit, GetAgain
<1>14. CASE BeatGet(p) \/ BeatSet(p)
  <2>1. ASSUME NEW b \in BOOLEAN, NEW c \in Claims \cup {None},
               procs' = [procs EXCEPT ![p].beat = b, ![p].theirs = c]
        PROVE  Goes(p)
    <3>1. Only(p) /\ procs'[p] = [procs[p] EXCEPT !.beat = b, !.theirs = c]
      BY <1>1, <2>1 DEF Only
    <3>. QED  BY <1>1, <3>1 DEF Goes, Moved, Processes
  <2>. QED  BY <1>1, <1>14, <2>1 DEF BeatGet, BeatSet
<1>15. CASE OpenHub(p)
  <2>1. CASE procs' = [procs EXCEPT ![p].hub = TRUE,
                                   ![p].pc = IF @ = "hub" THEN "serve" ELSE "nostore"]
    <3>1. Only(p) /\ \E pc \in {"serve", "nostore"} :
                        procs'[p] = [procs[p] EXCEPT !.hub = TRUE, !.pc = pc]
      BY <1>1, <2>1 DEF Only, Processes
    <3>. QED  BY <1>1, <3>1 DEF Goes, Moved, Processes, Places
  <2>. QED  BY <1>5, <1>15, <2>1 DEF OpenHub
<1>16. CASE Recover(p) \/ Drain(p)
  BY <1>3, <1>16 DEF Recover, Drain, Places
<1>17. CASE ReleaseGet(p)
  <2>1. CASE procs' = [procs EXCEPT ![p].pc = "release"]
    BY <1>3, <2>1 DEF Goto, Places
  <2>. QED  BY <1>5, <1>17, <2>1 DEF ReleaseGet
<1>18. CASE ReleaseDel(p) \/ Exit(p) \/ Crash(p)
  BY <1>5, <1>18 DEF ReleaseDel, Exit, Crash
<1>. QED
  BY <1>9, <1>10, <1>11, <1>12, <1>13, <1>14, <1>15, <1>16, <1>17, <1>18 DEF Process

\* A pid is given to a process of a home; if it is known by a name, that is a fault.
Born(p, f, h) ==
    /\ p \in Pids \ Live
    /\ procs' = [procs EXCEPT ![p] = New(f, h)]
    /\ p \in Named => Known("reuse")'
    /\ double' = (double \/ (f = "proxy" /\ \E q \in Proxies : procs[q].home = h))

Told(p) == p \in Live /\ procs' = [procs EXCEPT ![p].term = TRUE] /\ UNCHANGED double
Ended(p) == p \in Live /\ procs' = [procs EXCEPT ![p] = None] /\ UNCHANGED double
Births(h) == \E p \in Pids, f \in Files : Born(p, f, h)
Signals == \E p \in Pids : Told(p) \/ Ended(p)

LEMMA NamedArePids ==
  ASSUME Typed
  PROVE  Named \subseteq Pids \cup {None}
<1>1. \A h \in Homes, f \in Files : pidfile[h][f] \in Pids \cup {None}
  BY DEF Typed
<1>2. \A t \in Terminals : cli[t].pid \in Pids \cup {None}
  BY DEF Typed, Commands
<1>3. \A c \in Claims : c.pid \in Pids
  BY DEF Claims
<1>4. \A p \in Live : procs[p].theirs \in Claims \cup {None}
  BY DEF Typed, Live, Processes
<1>. QED  BY <1>1, <1>2, <1>3, <1>4 DEF Named, Typed

LEMMA SpawnGivesBirth ==
  ASSUME Typed, NEW t \in Terminals, NEW f \in Files, NEW h \in Homes, NEW pc \in Waits,
         Spawn(t, f, h, pc)
  PROVE  \E p \in Pids : Born(p, f, h)
<1>1. PICK p \in Fresh(h, f) \cup (Named \ (Live \cup {None})) :
        /\ procs' = [procs EXCEPT ![p] = New(f, h)]
        /\ double' = (double \/ (f = "proxy" /\ \E q \in Proxies : procs[q].home = h))
        /\ p \in Named => Spend("reuse")
  BY DEF Spawn
<1>2. p \in Pids \ Live
  BY <1>1, NamedArePids DEF Fresh, Pids
<1>3. Spend("reuse") => Known("reuse")'
  BY DEF Spend, Known, Typed, Kinds
<1>. QED  BY <1>1, <1>2, <1>3 DEF Born

LEMMA CommandMoves ==
  ASSUME Typed, NEW t \in Terminals, NEW h \in Homes, Command(t, h)
  PROVE  /\ UNCHANGED <<oneHost, claim, overwritten>>
         /\ UNCHANGED <<procs, double>> \/ Births(h) \/ Signals
<1>1. UNCHANGED <<oneHost, claim, overwritten>>
  BY DEF Command, Give, Start, StartSide, SideUp, StartProxy, StartForeground, ProxyUp, Report, Rollback,
     Stop, Terminate, Kill, Interrupt, site, history
<1>2. ASSUME NEW f \in Files, NEW pc \in Waits, Spawn(t, f, h, pc) PROVE Births(h)
  BY <1>2, SpawnGivesBirth DEF Births
<1>3. CASE StartSide(t, h) \/ StartProxy(t, h)
  BY <1>1, <1>2, <1>3 DEF StartSide, StartProxy, Files, Waits
<1>4. CASE StartForeground(t, h)
  <2>1. PICK p \in Fresh(h, "proxy") : procs' = [procs EXCEPT ![p] = New("proxy", h)]
    BY <1>4 DEF StartForeground
  <2>2. p \in Pids /\ p \notin Live /\ p \notin Named
    BY <2>1 DEF Fresh, Pids, Files
  <2>3. Born(p, "proxy", h)
    BY <1>4, <2>1, <2>2 DEF StartForeground, Born
  <2>. QED  BY <1>1, <2>2, <2>3 DEF Births, Files
<1>5. CASE Terminate(t, h)
  <2>1. Pid(h, cli[t].which) # None => Told(Pid(h, cli[t].which))
    BY <1>5 DEF Terminate, Told, Pid, OnHost, history
  <2>2. Pid(h, cli[t].which) = None => UNCHANGED <<procs, double>>
    BY <1>5 DEF Terminate, history
  <2>. QED  BY <1>1, <2>1, <2>2 DEF Signals, Told, Live
<1>6. CASE Kill(t, h)
  <2>1. cli[t].pid \in OnHost(h) => Ended(cli[t].pid)
    BY <1>6 DEF Kill, Killed, Ended, OnHost, history
  <2>2. cli[t].pid \notin OnHost(h) => UNCHANGED <<procs, double>>
    BY <1>6 DEF Kill, Killed, history
  <2>. QED  BY <1>1, <2>1, <2>2 DEF Signals, Ended, Live
<1>7. CASE SideUp(t, h)
  <2>1. CASE UNCHANGED procs
    BY <1>1, <1>7, <2>1 DEF SideUp, history
  <2>2. CASE Told(cli[t].pid)
    BY <1>1, <2>2 DEF Signals, Told, Live
  <2>. QED  BY <1>7, <2>1, <2>2 DEF SideUp, Told, OnHost, history
<1>8. CASE Start(t, h) \/ ProxyUp(t, h) \/ Report(t, h) \/ Rollback(t, h) \/ Stop(t, h) \/ Interrupt(t)
  BY <1>1, <1>8 DEF Give, Start, ProxyUp, Report, Rollback, Stop, Interrupt, history
<1>. QED  BY <1>3, <1>4, <1>5, <1>6, <1>7, <1>8 DEF Command

\* What a command writes is of its home.
Writes(t, h) ==
    /\ cli' = [u \in Terminals |-> IF u = t THEN cli'[t] ELSE cli[u]]
    /\ pidfile' = [g \in Homes |-> IF g = h THEN pidfile'[h] ELSE pidfile[g]]
    /\ cli'[t] \in Commands /\ cli'[t].home \in {h, None}
    /\ pidfile'[h] \in [Files -> Pids \cup {None}]

LEMMA CommandWrites ==
  ASSUME Typed, NEW t \in Terminals, NEW h \in Homes, Command(t, h)
  PROVE  Writes(t, h) /\ KnowsAt(t)'
<1>1. /\ cli = [u \in Terminals |-> cli[u]] /\ pidfile = [g \in Homes |-> pidfile[g]]
      /\ cli[t] \in Commands /\ pidfile[h] \in [Files -> Pids \cup {None}]
  BY DEF Typed
<1>2. \A f \in Files : Pid(h, f) \in Pids \cup {None} /\ (Pid(h, f) # None => Pid(h, f) = pidfile[h][f])
  BY <1>1 DEF Pid
<1>. DEFINE Settled(c) == c.pc \notin {"side up", "kill"} /\ c.home \in {h, None}
<1>3. ASSUME NEW c \in Commands, Settled(c), cli' = [cli EXCEPT ![t] = c],
             \/ UNCHANGED pidfile
             \/ \E f \in Files, p \in Pids \cup {None} : pidfile' = [pidfile EXCEPT ![h][f] = p]
      PROVE  Writes(t, h) /\ KnowsAt(t)'
  <2>1. cli'[t] = c /\ cli' = [u \in Terminals |-> IF u = t THEN cli'[t] ELSE cli[u]]
    BY <1>1, <1>3
  <2>2. /\ pidfile' = [g \in Homes |-> IF g = h THEN pidfile'[h] ELSE pidfile[g]]
        /\ pidfile'[h] \in [Files -> Pids \cup {None}]
    <3>1. CASE UNCHANGED pidfile
      BY <1>1, <3>1
    <3>2. ASSUME NEW f \in Files, NEW p \in Pids \cup {None}, pidfile' = [pidfile EXCEPT ![h][f] = p]
          PROVE  /\ pidfile' = [g \in Homes |-> IF g = h THEN pidfile'[h] ELSE pidfile[g]]
                 /\ pidfile'[h] \in [Files -> Pids \cup {None}]
      <4>1. /\ pidfile'[h] = [pidfile[h] EXCEPT ![f] = p]
            /\ pidfile' = [g \in Homes |-> IF g = h THEN pidfile'[h] ELSE pidfile[g]]
        BY <1>1, <3>2
      <4>. QED  BY <1>1, <4>1
    <3>. QED  BY <1>3, <3>1, <3>2
  <2>. QED  BY <1>3, <2>1, <2>2 DEF Writes, KnowsAt
<1>4. ASSUME NEW rc \in {0, 1}, Done(t, rc)
      PROVE  \E c \in Commands : Settled(c) /\ cli' = [cli EXCEPT ![t] = c]
  BY <1>4 DEF Done, Idle, Commands, Waits, Files
<1>5. ASSUME cli[t].home = h, NEW pc \in Waits, Step(t, pc), pc \notin {"side up", "kill"}
      PROVE  \E c \in Commands : Settled(c) /\ cli' = [cli EXCEPT ![t] = c]
  <2>1. cli' = [cli EXCEPT ![t] = [cli[t] EXCEPT !.pc = pc]]
    BY <1>1, <1>5 DEF Step
  <2>. QED  BY <1>1, <1>5, <2>1 DEF Commands, Waits
<1>6. ASSUME NEW f \in Files, Unlink(h, f)
      PROVE  \E g \in Files, p \in Pids \cup {None} : pidfile' = [pidfile EXCEPT ![h][g] = p]
  BY <1>6 DEF Unlink
<1>7. ASSUME cli[t].home = h, NEW f \in Files, NEW pc \in {"side up", "proxy up"}, Spawn(t, f, h, pc), pc = "side up" => f = "side"
      PROVE  Writes(t, h) /\ KnowsAt(t)'
  <2>1. PICK p \in Fresh(h, f) \cup (Named \ (Live \cup {None})) :
           \/ /\ pidfile' = [pidfile EXCEPT ![h][f] = p]
              /\ cli' = [cli EXCEPT ![t].pc = pc, ![t].pid = p]
           \/ Done(t, 0) /\ pidfile' = [pidfile EXCEPT ![h][f] = IF f = "side" THEN None ELSE @]
    BY <1>7 DEF Spawn
  <2>2. p \in Pids
    BY <2>1, NamedArePids DEF Fresh, Pids
  <2>3. CASE Done(t, 0) /\ pidfile' = [pidfile EXCEPT ![h][f] = IF f = "side" THEN None ELSE @]
    <3>1. \E q \in Pids \cup {None} : pidfile' = [pidfile EXCEPT ![h][f] = q]
      BY <1>1, <2>3
    <3>. QED  BY <1>3, <1>4, <2>3, <3>1
  <2>4. CASE pidfile' = [pidfile EXCEPT ![h][f] = p] /\ cli' = [cli EXCEPT ![t].pc = pc, ![t].pid = p]
    <3>1. /\ cli'[t] = [cli[t] EXCEPT !.pc = pc, !.pid = p]
          /\ cli' = [u \in Terminals |-> IF u = t THEN cli'[t] ELSE cli[u]]
      BY <1>1, <2>4
    <3>2. cli'[t] \in Commands /\ cli'[t].pc = pc /\ cli'[t].pid = p /\ cli'[t].home = h
      BY <1>1, <1>7, <2>2, <3>1 DEF Commands, Waits
    <3>3. /\ pidfile'[h] = [pidfile[h] EXCEPT ![f] = p]
          /\ pidfile' = [g \in Homes |-> IF g = h THEN pidfile'[h] ELSE pidfile[g]]
      BY <1>1, <2>4
    <3>4. pidfile'[h] \in [Files -> Pids \cup {None}] /\ pidfile'[h][f] = p
      BY <1>1, <2>2, <3>3
    <3>. QED  BY <1>7, <3>1, <3>2, <3>3, <3>4 DEF Writes, KnowsAt
  <2>. QED  BY <2>1, <2>3, <2>4
<1>8. CASE Start(t, h)
  <2>1. [Idle EXCEPT !.pc = "side", !.home = h, !.before = Pid(h, "side")] \in Commands
    BY <1>2 DEF Idle, Commands, Waits, Files
  <2>. QED  BY <1>3, <1>8, <2>1 DEF Start, Give, Idle
<1>9. CASE cli[t].home = h /\ StartSide(t, h)
  BY <1>3, <1>5, <1>7, <1>9 DEF StartSide, Files, Waits
<1>10. CASE cli[t].home = h /\ SideUp(t, h)
  BY <1>3, <1>5, <1>6, <1>10 DEF SideUp, Files, Waits
<1>11. CASE cli[t].home = h /\ StartProxy(t, h)
  BY <1>3, <1>4, <1>7, <1>11 DEF StartProxy, Files, Waits
<1>12. CASE StartForeground(t, h) \/ Interrupt(t)
  BY <1>3, <1>4, <1>12 DEF StartForeground, Interrupt
<1>13. CASE cli[t].home = h /\ ProxyUp(t, h)
  <2>1. CASE cli' = [cli EXCEPT ![t].pc = "report", ![t].pid = Pid(h, "proxy")] /\ UNCHANGED pidfile
    <3>1. cli' = [cli EXCEPT ![t] = [cli[t] EXCEPT !.pc = "report", !.pid = Pid(h, "proxy")]]
      BY <1>1, <2>1
    <3>2. [cli[t] EXCEPT !.pc = "report", !.pid = Pid(h, "proxy")] \in Commands
      BY <1>1, <1>2 DEF Commands, Waits, Files
    <3>. QED  BY <1>1, <1>3, <1>13, <2>1, <3>1, <3>2 DEF Commands
  <2>. QED  BY <1>3, <1>4, <1>6, <1>13, <2>1 DEF ProxyUp, Files
<1>14. CASE cli[t].home = h /\ Report(t, h)
  <2>1. CASE cli' = [cli EXCEPT ![t].pc = "stop", ![t].which = "proxy", ![t].rc = 1] /\ UNCHANGED pidfile
    <3>1. cli' = [cli EXCEPT ![t] = [cli[t] EXCEPT !.pc = "stop", !.which = "proxy", !.rc = 1]]
      BY <1>1, <2>1
    <3>2. [cli[t] EXCEPT !.pc = "stop", !.which = "proxy", !.rc = 1] \in Commands
      BY <1>1 DEF Commands, Waits, Files
    <3>. QED  BY <1>1, <1>3, <1>14, <2>1, <3>1, <3>2 DEF Commands
  <2>. QED  BY <1>3, <1>4, <1>5, <1>6, <1>14, <2>1 DEF Report, Files, Waits
<1>15. CASE cli[t].home = h /\ Rollback(t, h)
  <2>1. CASE RollsBack(t, h)
    <3>1. cli' = [cli EXCEPT ![t] = [cli[t] EXCEPT !.pc = "stop", !.which = "side", !.rc = 1]]
      BY <1>1, <1>15, <2>1 DEF Rollback
    <3>2. [cli[t] EXCEPT !.pc = "stop", !.which = "side", !.rc = 1] \in Commands
      BY <1>1 DEF Commands, Waits, Files
    <3>. QED  BY <1>1, <1>3, <1>15, <3>1, <3>2 DEF Rollback, Commands
  <2>. QED  BY <1>3, <1>4, <1>15, <2>1 DEF Rollback
<1>16. CASE Stop(t, h)
  <2>1. [Idle EXCEPT !.pc = "stop", !.home = h] \in Commands
    BY DEF Idle, Commands, Waits, Files
  <2>. QED  BY <1>3, <1>16, <2>1 DEF Stop, Give, Idle
<1>17. ASSUME cli[t].home = h, Stopped(t)
       PROVE  \E c \in Commands : Settled(c) /\ cli' = [cli EXCEPT ![t] = c]
  <2>1. CASE cli[t].which = "side"
    BY <1>1, <1>4, <1>17, <2>1 DEF Stopped, Commands
  <2>2. CASE cli[t].which # "side" /\ cli[t].rc = 1
    BY <1>5, <1>17, <2>2 DEF Stopped, Waits
  <2>3. CASE cli[t].which # "side" /\ cli[t].rc # 1
    <3>1. cli' = [cli EXCEPT ![t] = [cli[t] EXCEPT !.pc = "stop", !.which = "side", !.pid = None]]
      BY <1>1, <1>17, <2>3 DEF Stopped
    <3>2. [cli[t] EXCEPT !.pc = "stop", !.which = "side", !.pid = None] \in Commands
      BY <1>1 DEF Commands, Waits, Files
    <3>. QED  BY <1>1, <1>17, <3>1, <3>2 DEF Commands
  <2>. QED  BY <2>1, <2>2, <2>3
<1>18. cli[t].which \in Files
  BY <1>1 DEF Commands
<1>19. CASE cli[t].home = h /\ Terminate(t, h)
  <2>1. CASE Pid(h, cli[t].which) = None
    BY <1>3, <1>6, <1>17, <1>18, <1>19, <2>1 DEF Terminate
  <2>2. CASE Pid(h, cli[t].which) # None
    <3>. DEFINE p == Pid(h, cli[t].which)
    <3>1. p \in Pids /\ p = pidfile[h][cli[t].which]
      BY <1>2, <1>18, <2>2
    <3>2. cli' = [cli EXCEPT ![t].pc = "kill", ![t].pid = p] /\ UNCHANGED pidfile
      BY <1>19, <2>2 DEF Terminate
    <3>. HIDE DEF p
    <3>3. /\ cli'[t] = [cli[t] EXCEPT !.pc = "kill", !.pid = p]
          /\ cli' = [u \in Terminals |-> IF u = t THEN cli'[t] ELSE cli[u]]
      BY <1>1, <3>2
    <3>4. /\ cli'[t] \in Commands /\ cli'[t].home = h
          /\ cli'[t].pid = p /\ cli'[t].pc = "kill" /\ cli'[t].which = cli[t].which
      BY <1>1, <1>19, <3>1, <3>3 DEF Commands, Waits
    <3>. QED  BY <1>1, <3>1, <3>2, <3>3, <3>4 DEF Writes, KnowsAt
  <2>. QED  BY <2>1, <2>2
<1>20. CASE cli[t].home = h /\ Kill(t, h)
  BY <1>3, <1>6, <1>17, <1>18, <1>20 DEF Kill
<1>. QED
  BY <1>8, <1>9, <1>10, <1>11, <1>12, <1>13, <1>14, <1>15, <1>16, <1>19, <1>20 DEF Command

-----------------------------------------------------------------------------
(* The parts of the invariant, one step of the system at a time. *)

LEMMA LiveAreProcesses ==
  ASSUME Typed, NEW p \in Live
  PROVE  p \in Pids /\ procs[p] \in Processes /\ Mine(p) \in Claims
BY DEF Typed, Live, Mine, Processes, Claims

\* The pid that is born is new to the living, and a process of its home.
LEMMA BirthAdds ==
  ASSUME Typed, NEW p \in Pids, NEW f \in Files, NEW h \in Homes, Born(p, f, h)
  PROVE  /\ New(f, h) \in Processes /\ procs'[p] = New(f, h) /\ p \notin Live
         /\ Live' = Live \cup {p}
         /\ \A q \in Pids : q # p => procs'[q] = procs[q]
         /\ procs' \in [Pids -> Processes \cup {None}]
<1>1. New(f, h) \in Processes /\ New(f, h) # None
  <2>1. New(f, h) \in Processes
    BY DEF New, Processes, Files, Places
  <2>. QED  BY <2>1, NoneIsNone
<1>2. procs' = [procs EXCEPT ![p] = New(f, h)] /\ p \notin Live
  BY DEF Born
<1>3. procs \in [Pids -> Processes \cup {None}]
  BY DEF Typed
<1>4. /\ procs'[p] = New(f, h) /\ \A q \in Pids : q # p => procs'[q] = procs[q]
      /\ procs' \in [Pids -> Processes \cup {None}]
  BY <1>1, <1>2, <1>3
<1>. QED  BY <1>1, <1>2, <1>4 DEF Live

\* Whoever lives after a step without a birth lived before, and is what it was.
Stays(p) == p \in Live /\ procs'[p].kind = procs[p].kind /\ procs'[p].home = procs[p].home
Ages == /\ procs' \in [Pids -> Processes \cup {None}]
        /\ \A p \in Live' : Stays(p)

LEMMA SignalsAge ==
  ASSUME Typed, Signals
  PROVE  Ages
<1>1. PICK p \in Pids : Told(p) \/ Ended(p)
  BY DEF Signals
<1>2. procs[p] \in Processes /\ procs = [q \in Pids |-> procs[q]]
  BY <1>1, LiveAreProcesses DEF Told, Ended, Typed
<1>3. CASE Told(p)
  <2>1. Only(p) /\ procs'[p] = [procs[p] EXCEPT !.term = TRUE]
    BY <1>2, <1>3 DEF Told, Only
  <2>2. Moved(procs[p], procs'[p])
    BY <1>2, <2>1 DEF Moved, Processes
  <2>. QED  BY <1>3, <2>1, <2>2 DEF Only, Moved, Ages, Stays, Typed, Live, Told
<1>4. CASE Ended(p)
  BY <1>4 DEF Ended, Ages, Stays, Typed, Live
<1>. QED  BY <1>1, <1>3, <1>4

LEMMA StepsAge ==
  ASSUME Typed, [Next]_vars
  PROVE  \/ Ages /\ UNCHANGED double
         \/ \E t \in Terminals, h \in Homes : Command(t, h) /\ Births(h)
<1>1. UNCHANGED procs => Ages
  BY DEF Ages, Stays, Typed, Live
<1>2. ASSUME NEW p \in Pids, Process(p) PROVE Ages /\ UNCHANGED double
  BY <1>2, ProcessMoves DEF Goes, Only, Moved, Ages, Stays, Typed, Live
<1>3. ASSUME NEW t \in Terminals, NEW h \in Homes, Command(t, h) PROVE Births(h) \/ (Ages /\ UNCHANGED double)
  <2>1. CASE UNCHANGED <<procs, double>>
    BY <1>1, <2>1
  <2>2. CASE Signals
    BY <2>2, SignalsAge DEF Signals, Told, Ended
  <2>. QED  BY <1>3, <2>1, <2>2, CommandMoves
<1>4. CASE Expire \/ UNCHANGED vars
  BY <1>1, <1>4 DEF Expire, vars, history
<1>. QED  BY <1>2, <1>3, <1>4 DEF Next

LEMMA TypedStep ==
  ASSUME Typed, [Next]_vars
  PROVE  Typed'
<1>1. procs' \in [Pids -> Processes \cup {None}]
  BY StepsAge, BirthAdds DEF Ages, Births
<1>2. ASSUME NEW p \in Pids, Process(p)
      PROVE  UNCHANGED <<oneHost, pidfile, cli, double>> /\ claim' \in Claims \cup {None}
             /\ overwritten' \in BOOLEAN
  <2>1. UNCHANGED <<oneHost, pidfile, cli, double>> /\ Mine(p) \in Claims
    BY <1>2, ProcessMoves, LiveAreProcesses
  <2>2. CASE UNCHANGED <<claim, overwritten>>
    BY <2>1, <2>2 DEF Typed
  <2>3. CASE Put(p)
    BY <2>1, <2>3 DEF Put, Typed
  <2>4. CASE claim' \in {None, Mine(p)} /\ UNCHANGED overwritten
    BY <2>1, <2>4 DEF Typed
  <2>. QED  BY <1>2, <2>2, <2>3, <2>4 DEF Process, Exit, Crash, Get, Sample, Probe, SetNX, GetAgain, Take,
              BeatGet, BeatSet, OpenHub, Recover, Drain, ReleaseGet, ReleaseDel, history
<1>3. ASSUME NEW t \in Terminals, NEW h \in Homes, Command(t, h)
      PROVE  /\ UNCHANGED <<oneHost, claim, overwritten>> /\ double' \in BOOLEAN
             /\ pidfile' \in [Homes -> [Files -> Pids \cup {None}]] /\ cli' \in [Terminals -> Commands]
  <2>1. UNCHANGED <<oneHost, claim, overwritten>>
    BY <1>3, CommandMoves
  <2>2. double' \in BOOLEAN
    BY <1>3, CommandMoves DEF Births, Signals, Born, Told, Ended, Typed
  <2>3. pidfile' \in [Homes -> [Files -> Pids \cup {None}]] /\ cli' \in [Terminals -> Commands]
    BY <1>3, CommandWrites DEF Writes, Typed
  <2>. QED  BY <2>1, <2>2, <2>3
<1>4. CASE Expire \/ UNCHANGED vars
  BY <1>1, <1>4, SpentGrows DEF Expire, vars, Typed, site, history
<1>5. CASE \E p \in Pids : Process(p)
  BY <1>1, <1>2, <1>5, SpentGrows DEF Typed
<1>6. CASE \E t \in Terminals, h \in Homes : Command(t, h)
  BY <1>1, <1>3, <1>6, SpentGrows DEF Typed
<1>. QED  BY <1>4, <1>5, <1>6 DEF Next

\* While no two commands of a home run at once, who runs one runs the only one.
LEMMA Apart ==
  ASSUME Typed, CommandsKnow, NEW t \in Terminals, NEW h \in Homes, Command(t, h), ~Known("cross")',
         NEW u \in Terminals, u # t
  PROVE  cli[u].home # h
<1>1. ~Known("cross") /\ ~Spend("cross")
  <2>1. Next
    BY DEF Next
  <2>. QED  BY <2>1, SpentGrows DEF Spend, Known, Typed, Kinds
<1>2. CASE cli[t].home = h
  BY <1>1, <1>2, NoneIsNone DEF CommandsKnow
<1>3. CASE Give(t, h)
  BY <1>1, <1>3 DEF Give, Busy
<1>. QED  BY <1>2, <1>3 DEF Command, Start, Stop

LEMMA KnowsStep ==
  ASSUME Typed, CommandsKnow, [Next]_vars
  PROVE  CommandsKnow'
<1>1. ASSUME NEW t \in Terminals, NEW h \in Homes, Command(t, h), ~Known("cross")' PROVE CommandsKnow'
  <2>1. Writes(t, h) /\ KnowsAt(t)'
    BY <1>1, CommandWrites
  <2>2. ~Known("cross")
    BY <1>1, SpentGrows DEF Kinds
  <2>3. ASSUME NEW u \in Terminals, u # t PROVE cli'[u] = cli[u] /\ cli'[u].home # h /\ KnowsAt(u)'
    <3>1. cli'[u] = cli[u] /\ cli[u].home # h
      BY <1>1, <2>1, <2>3, Apart DEF Writes
    <3>2. cli[u].home # None => pidfile'[cli[u].home] = pidfile[cli[u].home]
      BY <2>1, <3>1 DEF Writes, Typed, Commands
    <3>. QED  BY <2>2, <3>1, <3>2 DEF KnowsAt, CommandsKnow
  <2>4. cli'[t].home \in {h, None}
    BY <2>1 DEF Writes
  <2>5. ASSUME NEW u \in Terminals, NEW v \in Terminals, cli'[u].home # None, cli'[v].home = cli'[u].home
        PROVE  u = v
    BY <2>2, <2>3, <2>4, <2>5 DEF CommandsKnow
  <2>. QED  BY <2>1, <2>3, <2>5 DEF CommandsKnow
<1>2. UNCHANGED <<cli, pidfile>> => CommandsKnow'
  <2>1. Known("cross") => Known("cross")'
    BY SpentGrows DEF Kinds
  <2>2. ASSUME UNCHANGED <<cli, pidfile>>, NEW t \in Terminals, KnowsAt(t) PROVE KnowsAt(t)'
    BY <2>2 DEF KnowsAt
  <2>. QED  BY <2>1, <2>2 DEF CommandsKnow
<1>3. Known("cross")' => CommandsKnow'
  BY DEF CommandsKnow
<1>. QED  BY <1>1, <1>2, <1>3, ProcessMoves DEF Next, Expire, vars

LEMMA OneProxyStep ==
  ASSUME Typed, OneProxy, [Next]_vars
  PROVE  OneProxy'
<1>1. CASE Ages /\ UNCHANGED double
  BY <1>1 DEF Ages, Stays, OneProxy, Proxies
<1>2. ASSUME NEW h \in Homes, NEW p \in Pids, NEW f \in Files, Born(p, f, h) PROVE OneProxy'
  <2>1. /\ procs'[p] = New(f, h) /\ Live' = Live \cup {p} /\ p \notin Live
        /\ \A q \in Pids : q # p => procs'[q] = procs[q]
    BY <1>2, BirthAdds
  <2>2. New(f, h).kind = f /\ New(f, h).home = h
    BY DEF New
  <2>3. CASE double'
    BY <2>3 DEF OneProxy
  <2>4. CASE ~double'
    <3>1. ~double /\ (f = "proxy" => \A q \in Proxies : procs[q].home # h)
      <4>1. double' = (double \/ (f = "proxy" /\ \E q \in Proxies : procs[q].home = h))
        BY <1>2 DEF Born
      <4>. HIDE DEF Proxies
      <4>. QED  BY <2>4, <4>1
    <3>2. \A q \in Proxies' : q \in Proxies \/ (q = p /\ f = "proxy")
      BY <2>1, <2>2 DEF Proxies, Live
    <3>3. \A q \in Proxies : procs'[q].home = procs[q].home
      BY <2>1 DEF Proxies, Live
    <3>. QED  BY <2>1, <2>2, <3>1, <3>2, <3>3 DEF OneProxy
  <2>. QED  BY <2>3, <2>4
<1>. QED  BY <1>1, <1>2, StepsAge DEF Births

SideOf(p) == p \in Live /\ procs[p].kind = "side"
SideNamed(p) == pidfile[procs[p].home]["side"] = p

\* A pidfile is written or removed only when no process of its home lives that it names:
\* what a command ends it knew first.
LEMMA NamedSidesStay ==
  ASSUME Typed, CommandsKnow, NEW t \in Terminals, NEW h \in Homes, Command(t, h), Tracked',
         NEW p \in Pids, SideOf(p), SideNamed(p), procs[p].home = h, p \in Live'
  PROVE  pidfile'[h]["side"] = p
<1>1. /\ pidfile = [g \in Homes |-> pidfile[g]] /\ pidfile[h] \in [Files -> Pids \cup {None}]
      /\ pidfile[h]["side"] = p /\ p # None
  BY NoneIsNone DEF Typed, SideNamed
<1>2. p \in OnHost(h) /\ Pid(h, "side") = p /\ Owned(h) = p
  BY <1>1, NoneIsNone DEF SideOf, OnHost, Pid, Owned
<1>3. UNCHANGED pidfile \/ Unlink(h, "proxy") => pidfile'[h]["side"] = p
  BY <1>1 DEF Unlink, Files
<1>0. cli[t].home = h => KnowsAt(t)
  <2>1. Next
    BY DEF Next
  <2>. QED  BY <2>1, SpentGrows DEF Tracked, CommandsKnow, Kinds
<1>4. CASE StartSide(t, h)
  BY <1>1, <1>2, <1>3, <1>4 DEF StartSide
<1>5. CASE cli[t].home = h /\ SideUp(t, h)
  <2>1. ~Spend("slow")
    BY DEF Spend, Tracked, Known, Typed, Kinds
  <2>2. cli[t].pid = p
    BY <1>0, <1>1, <1>5, NoneIsNone DEF SideUp, KnowsAt
  <2>. QED  BY <1>2, <1>3, <1>5, <2>1, <2>2 DEF SideUp
<1>6. CASE StartProxy(t, h)
  <2>1. CASE UNCHANGED pidfile
    BY <1>3, <2>1
  <2>2. CASE Spawn(t, "proxy", h, "proxy up")
    <3>1. \E q : pidfile' = [pidfile EXCEPT ![h]["proxy"] = q]
      BY <2>2 DEF Spawn
    <3>. QED  BY <1>1, <3>1 DEF Files
  <2>. QED  BY <1>6, <2>1, <2>2 DEF StartProxy
<1>7. CASE Terminate(t, h)
  <2>1. cli[t].which \in Files
    BY DEF Typed, Commands
  <2>2. CASE Pid(h, cli[t].which) = None
    <3>1. cli[t].which = "proxy"
      BY <1>1, <1>2, <2>1, <2>2 DEF Files
    <3>. QED  BY <1>3, <1>7, <2>2, <3>1 DEF Terminate
  <2>3. CASE Pid(h, cli[t].which) # None
    BY <1>3, <1>7, <2>3 DEF Terminate
  <2>. QED  BY <2>2, <2>3
<1>8. CASE cli[t].home = h /\ Kill(t, h)
  <2>1. cli[t].which \in Files /\ cli[t].pid = pidfile[h][cli[t].which] /\ Unlink(h, cli[t].which)
    BY <1>0, <1>8, NoneIsNone DEF Typed, Commands, KnowsAt, Kill
  <2>2. ASSUME cli[t].which = "side" PROVE FALSE
    <3>1. procs' = [procs EXCEPT ![p] = None]
      BY <1>1, <1>2, <1>8, <2>1, <2>2 DEF Kill, Killed
    <3>. QED  BY <3>1 DEF Live, Typed
  <2>. QED  BY <1>3, <2>1, <2>2 DEF Files
<1>9. CASE Start(t, h) \/ StartForeground(t, h) \/ ProxyUp(t, h) \/ Report(t, h) \/ Rollback(t, h) \/ Stop(t, h) \/ Interrupt(t)
  BY <1>3, <1>9 DEF Give, Start, StartForeground, ProxyUp, Report, Rollback, Stop, Interrupt
<1>. QED  BY <1>4, <1>5, <1>6, <1>7, <1>8, <1>9 DEF Command

\* A side is started when its home has none, and is named at once.
LEMMA SidesAreBornNamed ==
  ASSUME Typed, NEW t \in Terminals, NEW h \in Homes, Command(t, h), Tracked',
         NEW q \in Live', q \notin Live, procs'[q].kind = "side"
  PROVE  Owned(h) = None /\ procs'[q].home = h /\ pidfile'[h]["side"] = q
<1>1. ASSUME NEW f \in Files, NEW p, procs' = [procs EXCEPT ![p] = New(f, h)]
      PROVE  q = p /\ f = "side" /\ procs'[q].home = h
  <2>1. procs \in [Pids -> Processes \cup {None}] /\ q \in Pids
    BY DEF Typed, Live
  <2>2. q = p
    BY <1>1, <2>1 DEF Live
  <2>. QED  BY <1>1, <2>1, <2>2 DEF New
<1>2. CASE StartSide(t, h) /\ Spawn(t, "side", h, "side up") /\ Owned(h) = None
  <2>1. PICK p \in Fresh(h, "side") \cup (Named \ (Live \cup {None})) :
        /\ procs' = [procs EXCEPT ![p] = New("side", h)]
        /\ pidfile' = [pidfile EXCEPT ![h]["side"] = p] \/ Spend("cli")
    BY <1>2 DEF Spawn
  <2>2. ~Spend("cli")
    BY DEF Spend, Tracked, Known, Typed, Kinds
  <2>3. pidfile'[h]["side"] = p
    BY <2>1, <2>2 DEF Typed, Files
  <2>. QED  BY <1>1, <1>2, <2>1, <2>3 DEF Files
<1>3. ASSUME NEW p, procs' = [procs EXCEPT ![p] = New("proxy", h)] PROVE FALSE
  BY <1>1, <1>3 DEF Files
<1>5. ASSUME UNCHANGED procs \/ Signals PROVE FALSE
  BY <1>5, SignalsAge DEF Live, Ages, Stays
<1>6. CASE StartSide(t, h) \/ StartProxy(t, h) \/ StartForeground(t, h)
  BY <1>2, <1>3, <1>5, <1>6 DEF StartSide, StartProxy, StartForeground, Spawn
<1>7. CASE Start(t, h) \/ ProxyUp(t, h) \/ Report(t, h) \/ Rollback(t, h) \/ Stop(t, h) \/ Interrupt(t)
  BY <1>5, <1>7 DEF Give, Start, ProxyUp, Report, Rollback, Stop, Interrupt
<1>9. CASE SideUp(t, h)
  BY <1>5, <1>9 DEF SideUp, Signals, Told, OnHost, Live, Typed
<1>8. CASE Terminate(t, h) \/ Kill(t, h)
  <2>1. CASE Terminate(t, h)
    <3>1. \A f \in Files : Pid(h, f) # None => Pid(h, f) \in Live
      BY DEF Pid, OnHost
    <3>2. cli[t].which \in Files
      BY DEF Typed, Commands
    <3>. QED  BY <1>5, <2>1, <3>1, <3>2 DEF Terminate, Live, Typed
  <2>2. CASE Kill(t, h)
    BY <2>2 DEF Kill, Killed, Live, Typed
  <2>. QED  BY <1>8, <2>1, <2>2
<1>. QED  BY <1>6, <1>7, <1>8, <1>9 DEF Command

LEMMA SidesStep ==
  ASSUME Typed, CommandsKnow, SidesAreNamed, [Next]_vars
  PROVE  SidesAreNamed'
<1>1. CASE ~Tracked'
  BY <1>1 DEF Tracked, SidesAreNamed
<1>2. CASE Tracked'
  <2>1. Tracked
    BY <1>2, SpentGrows DEF Tracked, Kinds
  <2>2. \A p \in Pids : SideOf(p) => SideNamed(p)
    BY <2>1 DEF Tracked, SidesAreNamed, SideOf, SideNamed
  <2>3. ASSUME NEW t \in Terminals, NEW h \in Homes, Command(t, h), NEW q \in Live', procs'[q].kind = "side"
        PROVE  SideNamed(q)'
    <3>1. CASE q \notin Live
      BY <1>2, <2>3, <3>1, SidesAreBornNamed DEF SideNamed
    <3>2. CASE q \in Live
      <4>1. q \in Pids /\ procs'[q].kind = procs[q].kind /\ procs'[q].home = procs[q].home
        BY <2>3, <3>2, StepsAge, BirthAdds DEF Ages, Stays, Live, Births
      <4>2. SideOf(q) /\ SideNamed(q)
        BY <2>2, <2>3, <3>2, <4>1 DEF SideOf
      <4>3. CASE procs[q].home = h
        BY <1>2, <2>3, <4>1, <4>2, <4>3, NamedSidesStay DEF SideNamed
      <4>4. CASE procs[q].home # h
        <5>1. procs[q].home \in Homes
          BY <3>2, LiveAreProcesses DEF Processes
        <5>2. pidfile'[procs[q].home] = pidfile[procs[q].home]
          BY <2>3, <4>4, <5>1, CommandWrites DEF Writes
        <5>. QED  BY <4>1, <4>2, <5>2 DEF SideNamed
      <4>. QED  BY <4>3, <4>4
    <3>. QED  BY <3>1, <3>2
  <2>4. ASSUME Ages, UNCHANGED pidfile, NEW q \in Live', procs'[q].kind = "side"
        PROVE  SideNamed(q)'
    BY <2>2, <2>4 DEF Ages, Stays, SideOf, SideNamed, Live
  <2>5. CASE \E t \in Terminals, h \in Homes : Command(t, h)
    BY <2>3, <2>5 DEF SidesAreNamed, SideNamed
  <2>6. CASE Expire \/ UNCHANGED vars \/ \E p \in Pids : Process(p)
    <3>1. UNCHANGED pidfile
      BY <2>6, ProcessMoves DEF Expire, vars
    <3>2. UNCHANGED procs => Ages
      BY DEF Ages, Stays, Typed, Live
    <3>3. Ages
      BY <2>6, <3>2, ProcessMoves DEF Expire, vars, Goes, Only, Moved, Ages, Stays, Typed, Live
    <3>. QED  BY <2>4, <3>1, <3>3 DEF SidesAreNamed, SideNamed
  <2>. QED  BY <2>5, <2>6 DEF Next
<1>. QED  BY <1>1, <1>2

HoldsAt(p) ==
    /\ procs[p].pc \in {"hub", "serve", "release"} => claim = Mine(p)
    /\ procs[p].pc = "take" => MayBeTaken(p, procs[p].theirs)

Holding(p) == p \in Proxies /\ claim = Mine(p)

\* Nobody writes over a claim that somebody lives by, nor lets it go.
LEMMA HeldIsKept ==
  ASSUME Typed, OneProxy, ~double, \A r \in Proxies : HoldsAt(r),
         NEW p \in Pids, Process(p), ~Excused', NEW x \in Pids, x # p, Holding(x)
  PROVE  UNCHANGED claim
<1>1. /\ claim = Mine(x) /\ claim # None /\ x \in Live /\ x \in Proxies /\ p \in Live
  BY ProcessMoves, LiveAreProcesses, NoneIsNone DEF Holding, Proxies
<1>2. claim.home = procs[x].home /\ claim.pid = x
  BY <1>1 DEF Mine
<1>3. claim # Mine(p)
  BY <1>2 DEF Mine
<1>4. CASE p \in Proxies /\ Take(p)
  <2>1. ~Spend("redis")
    BY DEF Spend, Excused, Known, Typed, Kinds
  <2>2. claim = procs[p].theirs
    BY <1>4, <2>1 DEF Take, Put, Excused
  <2>3. MayBeTaken(p, claim)
    BY <1>4, <2>2 DEF HoldsAt, Take
  <2>4. procs[x].home = procs[p].home
    BY <1>1, <1>2, <2>3 DEF MayBeTaken
  <2>5. x = p
    BY <1>1, <1>4, <2>4 DEF OneProxy
  <2>. QED  BY <2>5
<1>5. CASE p \in Proxies /\ (BeatSet(p) \/ ReleaseDel(p))
  BY <1>3, <1>5 DEF BeatSet, ReleaseDel, HoldsAt, Beating
<1>6. CASE p \in Proxies /\ SetNX(p)
  BY <1>1, <1>6 DEF SetNX
<1>. QED
  BY <1>4, <1>5, <1>6 DEF Process, Exit, Crash, Get, Sample, Probe, GetAgain, BeatGet, OpenHub, Recover,
     Drain, ReleaseGet

\* A proxy comes to its claim: it writes it, or was there already.
LEMMA ComesToClaim ==
  ASSUME Typed, NEW p \in Proxies, HoldsAt(p), Process(p), ~Excused', p \in Live'
  PROVE  HoldsAt(p)'
<1>1. procs[p] \in Processes /\ claim \in Claims \cup {None} /\ Mine(p) \in Claims
      /\ procs = [q \in Pids |-> procs[q]] /\ p \in Pids
  BY LiveAreProcesses DEF Proxies, Typed
<1>2. Mine(p)' = Mine(p) /\ procs'[p].home = procs[p].home
  BY ProcessMoves DEF Goes, Moved, Live, Mine
<1>3. ~Spend("redis")
  BY DEF Spend, Excused, Known, Typed, Kinds
<1>4. ASSUME NEW pc \in Places \ {"hub", "serve", "release", "take"}, procs'[p].pc = pc PROVE HoldsAt(p)'
  BY <1>4 DEF HoldsAt
<1>5. ASSUME claim' = Mine(p), procs'[p].pc # "take" PROVE HoldsAt(p)'
  BY <1>2, <1>5 DEF HoldsAt
<1>6. Admitted(p) \in {"hub", "serve"}
  BY DEF Admitted
<1>7. ASSUME NEW pc \in Places, NEW c \in Claims \cup {None}, procs' = [procs EXCEPT ![p].pc = pc, ![p].theirs = c]
      PROVE  procs'[p].pc = pc /\ procs'[p].theirs = c
  <2>1. procs'[p] = [procs[p] EXCEPT !.pc = pc, !.theirs = c]
    BY <1>1, <1>7
  <2>. QED  BY <1>1, <2>1 DEF Processes
<1>8. ASSUME NEW pc \in Places, Goto(p, pc) PROVE procs'[p].pc = pc
  <2>1. procs'[p] = [procs[p] EXCEPT !.pc = pc]
    BY <1>1, <1>8 DEF Goto
  <2>. QED  BY <1>1, <2>1 DEF Processes
<1>9. Refuse(p) => HoldsAt(p)'
  <2>1. CASE procs[p].hub
    BY <1>4, <1>8, <2>1 DEF Refuse, Goto, Places
  <2>2. CASE ~procs[p].hub
    BY <1>1, <2>2 DEF Refuse, Live
  <2>. QED  BY <2>1, <2>2
<1>10. ASSUME Judge(p), Live' \subseteq Live, UNCHANGED <<oneHost, claim>> PROVE HoldsAt(p)'
  <2>1. CASE MayTake(p) /\ Read(p, "take")
    <3>1. procs'[p].pc = "take" /\ procs'[p].theirs = claim
      BY <1>1, <1>7, <2>1 DEF Read, Places
    <3>2. claim = None \/ claim.home = procs[p].home \/ claim.pid \notin Live
      BY <2>1 DEF MayTake, StaleFor, OnHost
    <3>3. MayBeTaken(p, procs[p].theirs)'
      BY <1>2, <1>10, <3>1, <3>2 DEF MayBeTaken
    <3>. QED  BY <3>1, <3>3 DEF HoldsAt
  <2>. QED  BY <1>9, <1>10, <2>1 DEF Judge
<1>11. Live' \subseteq Live /\ UNCHANGED oneHost
  BY ProcessMoves DEF Goes, Only, Live
<1>12. CASE Get(p)
  <2>1. CASE Read(p, "sample")
    BY <1>1, <1>4, <1>7, <2>1 DEF Read, Places
  <2>. QED  BY <1>3, <1>10, <1>11, <1>12, <2>1 DEF Get
<1>13. CASE Sample(p)
  <2>1. procs'[p] = [procs[p] EXCEPT !.pc = "probe", !.seen = Consumers(p)]
    BY <1>1, <1>13 DEF Sample
  <2>2. procs'[p].pc = "probe"
    BY <1>1, <2>1 DEF Processes
  <2>. QED  BY <1>4, <2>2 DEF Places
<1>14. CASE Probe(p)
  <2>1. CASE procs' = [procs EXCEPT ![p].pc = "nx", ![p].seen = {}]
    <3>1. procs'[p] = [procs[p] EXCEPT !.pc = "nx", !.seen = {}]
      BY <1>1, <2>1
    <3>2. procs'[p].pc = "nx"
      BY <1>1, <3>1 DEF Processes
    <3>. QED  BY <1>4, <3>2 DEF Places
  <2>. QED  BY <1>9, <1>14, <2>1 DEF Probe
<1>15. CASE SetNX(p)
  <2>1. CASE Goto(p, "again")
    BY <1>4, <1>8, <2>1 DEF Places
  <2>2. CASE claim' = Mine(p) /\ Admit(p, Admitted(p))
    BY <1>5, <1>6, <1>7, <2>2 DEF Admit, Places
  <2>. QED  BY <1>15, <2>1, <2>2 DEF SetNX
<1>16. CASE Take(p)
  BY <1>3, <1>5, <1>6, <1>7, <1>16 DEF Take, Put, Admit, Places
<1>17. CASE GetAgain(p)
  BY <1>10, <1>11, <1>17 DEF GetAgain
<1>18. CASE BeatGet(p)
  BY <1>18 DEF BeatGet, Beating, HoldsAt
<1>19. CASE BeatSet(p)
  <2>1. procs'[p] = [procs[p] EXCEPT !.beat = FALSE, !.theirs = None]
    BY <1>1, <1>19 DEF BeatSet
  <2>2. procs'[p].pc \in {"hub", "serve"}
    BY <1>1, <1>19, <2>1 DEF BeatSet, Beating, Processes
  <2>. QED  BY <1>5, <1>19, <2>2 DEF BeatSet, Put
<1>20. CASE OpenHub(p)
  <2>1. procs'[p] = [procs[p] EXCEPT !.hub = TRUE, !.pc = IF @ = "hub" THEN "serve" ELSE "nostore"]
    BY <1>1, <1>20 DEF OpenHub, Live
  <2>2. CASE procs[p].pc = "hub"
    <3>1. claim' = Mine(p)
      BY <1>20, <2>2 DEF HoldsAt, OpenHub
    <3>2. procs'[p].pc = "serve"
      BY <1>1, <2>1, <2>2 DEF Processes
    <3>. QED  BY <1>5, <3>1, <3>2
  <2>3. CASE procs[p].pc # "hub"
    <3>1. procs'[p].pc = "nostore"
      BY <1>1, <2>1, <2>3 DEF Processes
    <3>. QED  BY <1>4, <3>1 DEF Places
  <2>. QED  BY <2>2, <2>3
<1>21. CASE Recover(p)
  BY <1>4, <1>8, <1>21 DEF Recover, Places
<1>22. CASE Drain(p)
  BY <1>4, <1>8, <1>22 DEF Drain, Places
<1>23. CASE ReleaseGet(p)
  <2>1. CASE Releases(p) /\ Goto(p, "release")
    BY <1>5, <1>8, <1>23, <2>1 DEF ReleaseGet, Releases, Places
  <2>2. ~(procs' = [procs EXCEPT ![p] = None])
    BY <1>1 DEF Live
  <2>. QED  BY <1>23, <2>1, <2>2 DEF ReleaseGet, Goto
<1>24. CASE ReleaseDel(p) \/ Exit(p) \/ Crash(p)
  BY <1>1, <1>24 DEF ReleaseDel, Exit, Crash, Live
<1>. QED
  BY <1>12, <1>13, <1>14, <1>15, <1>16, <1>17, <1>18, <1>19, <1>20, <1>21, <1>22, <1>23, <1>24 DEF Process

\* A step that is not of p leaves it where it is; whoever it lets live, it lets live still.
LEMMA OthersHold ==
  ASSUME Typed, NEW x \in Proxies, HoldsAt(x), UNCHANGED oneHost,
         procs'[x].pc = procs[x].pc, procs'[x].theirs = procs[x].theirs, procs'[x].home = procs[x].home,
         Holding(x) => UNCHANGED claim,
         procs[x].theirs # None /\ procs[x].theirs.pid \in Live' => procs[x].theirs.pid \in Live
  PROVE  HoldsAt(x)'
BY DEF HoldsAt, Holding, MayBeTaken, Mine

LEMMA ClaimsStep ==
  ASSUME Typed, OneProxy, ClaimsAreHeld, [Next]_vars
  PROVE  ClaimsAreHeld'
<1>1. CASE Excused'
  BY <1>1 DEF ClaimsAreHeld
<1>2. CASE ~Excused'
  <2>1. ~double /\ \A r \in Proxies : HoldsAt(r)
    <3>1. overwritten => overwritten'
      <4>1. \A p \in Pids : Put(p) => overwritten' = (overwritten \/ claim # procs[p].theirs)
        BY DEF Put
      <4>2. ASSUME NEW p \in Pids, Process(p) PROVE UNCHANGED overwritten \/ Put(p)
        BY <4>2 DEF Process, Exit, Crash, Get, Sample, Probe, SetNX, GetAgain, Take, BeatGet, BeatSet,
           OpenHub, Recover, Drain, ReleaseGet, ReleaseDel, history
      <4>. QED  BY <4>1, <4>2, CommandMoves DEF Next, Expire, vars, history
    <3>2. double => double'
      BY StepsAge DEF Births, Born
    <3>3. ~Excused
      BY <1>2, <3>1, <3>2, SpentGrows DEF Excused, Kinds
    <3>. QED  BY <3>3 DEF Excused, ClaimsAreHeld, HoldsAt
  <2>2. ASSUME \A x \in Proxies' : HoldsAt(x)' PROVE ClaimsAreHeld'
    BY <2>2 DEF ClaimsAreHeld, HoldsAt
  <2>3. \A x \in Proxies : x \in Pids /\ procs[x] \in Processes
    BY LiveAreProcesses DEF Proxies
  <2>4. ASSUME NEW p \in Pids, Process(p), NEW x \in Proxies' PROVE HoldsAt(x)'
    <3>1. Goes(p) /\ p \in Live /\ UNCHANGED oneHost
      BY <2>4, ProcessMoves
    <3>2. Live' \subseteq Live /\ x \in Proxies /\ x \in Live'
      BY <3>1 DEF Proxies, Live, Goes, Only, Moved
    <3>3. CASE x = p
      BY <1>2, <2>1, <2>4, <3>2, <3>3, ComesToClaim
    <3>4. CASE x # p
      <4>1. procs'[x] = procs[x]
        BY <2>3, <3>1, <3>2, <3>4 DEF Goes, Only
      <4>2. Holding(x) => UNCHANGED claim
        BY <1>2, <2>1, <2>3, <2>4, <3>2, <3>4, HeldIsKept
      <4>. QED  BY <2>1, <3>1, <3>2, <4>1, <4>2, OthersHold
    <3>. QED  BY <3>3, <3>4
  <2>5. ASSUME NEW t \in Terminals, NEW h \in Homes, Command(t, h), NEW x \in Proxies' PROVE HoldsAt(x)'
    <3>1. UNCHANGED <<oneHost, claim>>
      BY <2>5, CommandMoves
    <3>2. CASE UNCHANGED procs
      BY <2>1, <2>5, <3>1, <3>2, OthersHold DEF Proxies, Live
    <3>3. ASSUME NEW p \in Pids, NEW f \in Files, Born(p, f, h) PROVE HoldsAt(x)'
      <4>1. /\ procs'[p] = New(f, h) /\ Live' = Live \cup {p} /\ p \notin Live
            /\ \A q \in Pids : q # p => procs'[q] = procs[q]
        BY <3>3, BirthAdds
      <4>2. CASE x = p
        BY <4>1, <4>2 DEF HoldsAt, New
      <4>3. CASE x # p
        <5>1. x \in Proxies /\ procs'[x] = procs[x]
          BY <4>1, <4>3 DEF Proxies, Live
        <5>2. p \notin Named
          BY <1>2, <3>3 DEF Born, Excused
        <5>3. procs[x].theirs # None => procs[x].theirs.pid \in Named
          BY <5>1 DEF Named, Proxies
        <5>. QED  BY <2>1, <3>1, <4>1, <5>1, <5>2, <5>3, OthersHold
      <4>. QED  BY <4>2, <4>3
    <3>4. ASSUME NEW p \in Pids, Told(p) PROVE HoldsAt(x)'
      <4>1. /\ procs[p] \in Processes /\ p \in Live
            /\ procs' = [q \in Pids |-> IF q = p THEN [procs[p] EXCEPT !.term = TRUE] ELSE procs[q]]
        BY <3>4, LiveAreProcesses DEF Told, Typed
      <4>2. \A q \in Live : /\ procs'[q].pc = procs[q].pc /\ procs'[q].theirs = procs[q].theirs
                            /\ procs'[q].home = procs[q].home /\ procs'[q].kind = procs[q].kind
        BY <4>1 DEF Live, Processes
      <4>3. Live' \subseteq Live
        BY <4>1 DEF Live
      <4>4. x \in Proxies
        BY <4>2, <4>3 DEF Proxies
      <4>. QED  BY <2>1, <3>1, <4>2, <4>3, <4>4, OthersHold DEF Proxies
    <3>5. ASSUME NEW p \in Pids, Ended(p) PROVE HoldsAt(x)'
      <4>1. procs' = [q \in Pids |-> IF q = p THEN None ELSE procs[q]]
        BY <3>5 DEF Ended, Typed
      <4>2. Live' \subseteq Live /\ x \in Proxies /\ procs'[x] = procs[x]
        BY <4>1 DEF Live, Proxies
      <4>. QED  BY <2>1, <3>1, <4>2, OthersHold
    <3>. QED  BY <2>5, <3>2, <3>3, <3>4, <3>5, CommandMoves DEF Births, Signals
  <2>6. CASE Expire
    <3>1. ~Spend("stall")
      BY <1>2 DEF Spend, Excused, Known, Typed, Kinds
    <3>2. \A x \in Proxies : procs[x].home = claim.home => procs[x].pc \notin {"hub", "serve", "release"}
      BY <2>6, <3>1 DEF Expire, Beating
    <3>3. UNCHANGED procs
      BY <2>6 DEF Expire
    <3>4. \A x \in Proxies : HoldsAt(x)'
      BY <2>1, <3>2, <3>3 DEF HoldsAt, MayBeTaken, Mine, Live
    <3>. QED  BY <2>2, <3>3, <3>4 DEF Proxies, Live
  <2>7. CASE UNCHANGED vars
    BY <2>1, <2>2, <2>7 DEF vars, HoldsAt, MayBeTaken, Mine, Proxies, Live
  <2>. QED  BY <2>2, <2>4, <2>5, <2>6, <2>7 DEF Next
<1>. QED  BY <1>1, <1>2

LEMMA Starting ==
  ASSUME Init
  PROVE  IInv
<1>1. Live = {}
  BY DEF Init, Live
<1>2. Idle \in Commands
  BY DEF Idle, Commands, Waits, Files
<1>3. Typed
  BY <1>2 DEF Init, Typed
<1>4. CommandsKnow
  BY DEF Init, CommandsKnow, KnowsAt, Idle
<1>. QED  BY <1>1, <1>3, <1>4 DEF IInv, SidesAreNamed, OneProxy, ClaimsAreHeld, Proxies

\* The invariant the theorems below rest on is inductive.
THEOREM Invariance == Spec => []IInv
<1>1. Init => IInv
  BY Starting
<1>2. IInv /\ [Next]_vars => IInv'
  BY TypedStep, KnowsStep, SidesStep, OneProxyStep, ClaimsStep DEF IInv
<1>. QED  BY <1>1, <1>2, PTL DEF Spec

\* A proxy that reads the stream has its own claim on it, for whatever homes, processes and
\* commands: storage/instance_claim.py and what cli/lifecycle.py starts and stops.
THEOREM StreamsAreClaimed == Spec => []ServesUnderItsClaim
<1>1. IInv => ServesUnderItsClaim
  <2>1. ASSUME IInv, ~Excused, NEW p \in Serving PROVE claim # None /\ claim.home = procs[p].home
    <3>1. claim = Mine(p)
      BY <2>1 DEF IInv, ClaimsAreHeld, Serving
    <3>2. Mine(p) \in Claims
      BY <2>1, LiveAreProcesses DEF IInv, Serving, Proxies
    <3>. QED  BY <3>1, <3>2, NoneIsNone DEF Mine
  <2>. QED  BY <2>1 DEF ServesUnderItsClaim, Excused
<1>. QED  BY <1>1, Invariance, PTL

OneReads == \A p, q \in Serving : Excused \/ p = q

\* One proxy at a time reads the stream, of whatever home: what instance_claim.py is for.
THEOREM OneReader == Spec => []OneReads
<1>1. IInv => OneReads
  BY DEF IInv, ClaimsAreHeld, OneReads, Serving, Mine
<1>. QED  BY <1>1, Invariance, PTL

\* A home has one process beside its proxy: what start, stop and the rollback of a failed
\* start (cli/lifecycle.py) leave behind, whatever commands run at once in the homes.
THEOREM SidesAreOne == Spec => []OneBesideTheProxy
<1>1. IInv => OneBesideTheProxy
  <2>1. ASSUME IInv, Tracked, NEW h \in Homes PROVE Cardinality(Sides(h)) <= 1
    <3>. DEFINE S == Sides(h)
    <3>1. S \subseteq {pidfile[h]["side"]}
      BY <2>1 DEF IInv, SidesAreNamed, Sides
    <3>. HIDE DEF S
    <3>2. IsFiniteSet({pidfile[h]["side"]}) /\ Cardinality({pidfile[h]["side"]}) = 1
      BY FS_Singleton
    <3>3. Cardinality(S) <= Cardinality({pidfile[h]["side"]})
      BY <3>1, <3>2, FS_Subset
    <3>. QED  BY <3>2, <3>3 DEF S
  <2>. QED  BY <2>1 DEF OneBesideTheProxy, Tracked
<1>. QED  BY <1>1, Invariance, PTL
=============================================================================
