------------------------------ MODULE Routing ------------------------------
(***************************************************************************)
(* Which model answers the requests of one session (bladex_core/routing.py, *)
(* route.py, model_health.py, cache_state.py).  MemoryAwareRouter picks an  *)
(* ordered pool, by configuration, by a judge's tier or by default, narrows *)
(* it and takes its first model; the rest is what call_model falls over to. *)
(* The session sticks to the model it got: one picked on purpose ("routed") *)
(* stays, one a fault led to ("failover") is let go when its prompt cache   *)
(* is cold or it was held too long.                                         *)
(*                                                                          *)
(* The session's requests overlap.  A decision reads and writes the table   *)
(* after its only await, the judge's, so it is one action; the call of a    *)
(* model is awaited, and its end writes the table again (make_success_hook).*)
(***************************************************************************)
EXTENDS Naturals, Sequences, SequencesExt

CONSTANTS
    SessionRequests,     \* bound: requests of the session that are handled at once
    Order,        \* [[models]] of routing.toml, in its order
    Tier,         \* of a model: 0 weak, 1 medium, 2 strong
    Provider,     \* of a model: whose quota it uses
    Caps,         \* of a model: its capabilities
    Local,        \* the models with exposure "local"
    JudgeLocal,   \* whether the judge is one of them
    Candidates,   \* strategies.filter: of a tier, its models in order
    DefaultTier,  \* strategies.filter.default_tier
    AuxTier,      \* the tier of auxiliary requests
    Upstream,     \* [upstream].models
    Mapped,       \* strategies.multimodal: of a capability, its models
    Asks          \* what requests ask for: records of the fields below

Models == Range(Order)
Tiers == 0..2
NoModel == "no model"

\* An ask: the model it names when that strategy is on for its agent, the pool
\* configured for its team, principal or agent, the capabilities it needs,
\* whether sensitive (models outside Local are not allowed), auxiliary, its
\* size's floor (0: none) and whether that size skips the judge, and the
\* models whose context window holds it.
ASSUME RoutingAssumption ==
    /\ SessionRequests # {} /\ Upstream \in Seq(Models) \ {<<>>}
    /\ Tier \in [Models -> Tiers] /\ Local \subseteq Models
    /\ Candidates \in [Tiers -> Seq(Models)] /\ {DefaultTier, AuxTier} \subseteq Tiers
    /\ \A q \in Asks : /\ q.names \in Models \cup {NoModel}
                       /\ q.static \in Seq(Models)
                       /\ q.requires \subseteq DOMAIN Mapped
                       /\ {q.near, q.aux, q.large} \subseteq BOOLEAN
                       /\ q.floor \in Tiers /\ q.fits \subseteq Models

VARIABLES
    sticky,     \* _sticky[session]: [model, origin, due], or NoEntry; due when
                \* it was held for failover_max_hold_s
    unhealthy,  \* ModelHealth: the models in their cooldown
    warm,       \* SessionCacheState: the model last forwarded to while its
                \* cache_ttl_s is not over, or NoModel
    call,       \* what each request is at
    how         \* history: how the entry's model came to be there: "picked" by
                \* a decision on purpose, by a "fault" of another one, or as a
                \* "stray" write: of an auxiliary request, or of one whose own
                \* entry had been replaced or dropped meanwhile

routingVars == <<sticky, unhealthy, warm, call, how>>

NoEntry == [model |-> NoModel]
Idle == [via |-> "idle"]

RoutingInit ==
    /\ sticky = NoEntry /\ unhealthy = {}
    /\ warm = NoModel
    /\ call = [r \in SessionRequests |-> Idle]
    /\ how = "none"

-----------------------------------------------------------------------------
(* Pools.                                                                   *)

\* A preference: what passes the test, or everything when nothing does.
Preferring(pool, Test(_)) ==
    LET some == SelectSeq(pool, Test) IN IF some = <<>> THEN pool ELSE some

Higher(a, b) == IF a < b THEN b ELSE a

Resolve(names, q) == SelectSeq(names, LAMBDA m : q.near => m \in Local)

OfTier(t) == SelectSeq(Order, LAMBDA m : Tier[m] = t)

Capable(pool, q) == SelectSeq(pool, LAMBDA m : q.requires \subseteq Caps[m])

\* The mapped models first, the others after them.
MultimodalFirst(pool, q) ==
    LET mapped == UNION {Range(Mapped[c]) : c \in q.requires}
    IN  SelectSeq(pool, LAMBDA m : m \in mapped)
            \o SelectSeq(pool, LAMBDA m : m \notin mapped)

\* _apply_capability_filter: what can do it, or what is mapped and can.
CapabilityFilter(pool, q) ==
    LET able == Capable(pool, q)
        instead(c) == Capable(Resolve(Mapped[c], q), q)
        served == {c \in q.requires : instead(c) # <<>>}
    IN  IF able # <<>> THEN MultimodalFirst(able, q)
        ELSE IF served # {} THEN instead(CHOOSE c \in served : TRUE)
        ELSE <<>>

\* The tiers the selection may come to.  The judge says any, and so may what
\* stands in for it when it fails; it is skipped for a large context, and for
\* a sensitive ask when it is not local.
JudgeTier(q) ==
    IF q.large \/ (q.near /\ ~JudgeLocal)
    THEN {Higher(q.floor, DefaultTier)}
    ELSE {Higher(q.floor, t) : t \in Tiers}

Fitting(pool, q) == Preferring(pool, LAMBDA m : m \in q.fits)
Floored(pool, q) == Preferring(pool, LAMBDA m : Tier[m] >= q.floor)

\* What an ask gets of tier t: its models or, when it has none, the default
\* ones; a judged pool that cannot do what is asked gives way to that of the
\* default tier.  What fits its window and its floor is preferred.
DynamicPool(q, t) ==
    LET judged == Resolve(Candidates[t], q)
        pool == IF judged # <<>> THEN judged ELSE Resolve(Upstream, q)
        able == CapabilityFilter(pool, q)
        found == IF able = <<>> /\ judged # <<>>
                 THEN CapabilityFilter(Resolve(Candidates[DefaultTier], q), q) ELSE able
    IN  Floored(Fitting(found, q), q)

AuxPool(q) ==
    Fitting(Capable(Resolve(OfTier(AuxTier), q), q), q)

\* The pools of every ask, of the tier that is judged or of the auxiliary one.
Pools == [q \in Asks |-> {DynamicPool(q, t) : t \in JudgeTier(q)} \ {<<>>}]
AuxPools == [q \in Asks |-> IF q.aux THEN AuxPool(q) ELSE <<>>]

Healthy(pool) == Preferring(pool, LAMBDA m : m \notin unhealthy)

\* failover_candidates, after the first of the pool: those of its tier first.
Plan(pool) ==
    LET rest == SelectSeq(Tail(pool), LAMBDA m : m # Head(pool))
        alike(m) == Tier[m] = Tier[Head(pool)]
    IN  <<Head(pool)>> \o SelectSeq(rest, alike)
                       \o SelectSeq(rest, LAMBDA m : ~alike(m))

-----------------------------------------------------------------------------
(* The sticky table.                                                        *)

\* update_sticky.  The same model goes on under the origin and from the time it
\* was acquired with.
BugUpdateSticky(entry, m, origin) ==
    IF entry.model = m THEN [entry EXCEPT !.due = FALSE]
    ELSE [model |-> m, origin |-> origin, due |-> FALSE]
UpdateSticky(entry, m, origin) ==
    IF entry.model = m THEN entry
    ELSE [model |-> m, origin |-> origin, due |-> FALSE]

\* _sticky_release_reason
Released ==
    /\ sticky # NoEntry /\ sticky.origin = "failover"
    /\ sticky.due \/ warm # sticky.model

Serves(m, q) == /\ q.near => m \in Local
                /\ q.requires \subseteq Caps[m]
                /\ m \in q.fits

\* _try_sticky: whether the ask that would get the pool stays where it is.
BugSticks(q, pool) ==
    /\ sticky # NoEntry /\ ~Released
    /\ sticky.model \in Range(pool)
Sticks(q, pool) ==
    /\ sticky # NoEntry /\ ~Released
    /\ Tier[Head(pool)] <= Tier[sticky.model]
    /\ Serves(sticky.model, q) /\ sticky.model \notin unhealthy

\* Every request under way remembers whether its entry is still there.
Remember(calls, entry) ==
    [r \in SessionRequests |->
        IF calls[r] = Idle THEN Idle
        ELSE [calls[r] EXCEPT !.kept = @ /\ entry.model = sticky.model]]

\* What is kept of the ask.
Needs(q) == [requires |-> q.requires, near |-> q.near, fits |-> q.fits]

\* `pick`, a history: the first of the plan was picked on purpose.
Starts(r, q, via, plan, entry, pick) ==
    /\ sticky' = entry
    /\ call' = [Remember(call, entry) EXCEPT ![r] =
                    [via |-> via, ask |-> Needs(q), plan |-> plan, rest |-> plan,
                     kept |-> TRUE, pick |-> pick]]
    /\ UNCHANGED <<unhealthy, warm>>

-----------------------------------------------------------------------------
(* Decisions.  One that finds no candidate is refused: nothing starts.      *)

\* _route_requested: the tier's other models are what it falls over to.
RouteRequested(r, q) ==
    /\ call[r] = Idle /\ q.names # NoModel
    /\ q.requires \subseteq Caps[q.names]
    /\ LET pool == <<q.names>> \o Capable(OfTier(Tier[q.names]), q)
       IN  Starts(r, q, "requested", Plan(pool), UpdateSticky(sticky, q.names, "routed"), TRUE)
    /\ how' = "picked"

\* A pick is on purpose unless the health filter took the first of the pool.
Origin(pool) ==
    IF Head(Healthy(pool)) = Head(pool) THEN "routed" ELSE "failover"

\* `entry` is what the session stuck to, unless it was released just now.
Picks(r, q, via, pool, entry) ==
    LET first == Head(Healthy(pool))
        pick == first = Head(pool)
    IN  /\ Starts(r, q, via, Plan(Healthy(pool)),
                  UpdateSticky(entry, first, Origin(pool)), pick)
        /\ how' = IF pick THEN "picked" ELSE IF entry.model = first THEN how ELSE "fault"

\* What is configured for the agent wins over all that is inferred.
RouteStatic(r, q) ==
    /\ call[r] = Idle /\ q.names = NoModel /\ q.static # <<>>
    /\ Picks(r, q, "static", q.static, sticky)

RouteAuxiliary(r, q) ==
    /\ call[r] = Idle /\ q.names = NoModel /\ q.static = <<>>
    /\ AuxPools[q] # <<>>
    /\ Starts(r, q, "auxiliary", Plan(AuxPools[q]), sticky, FALSE)
    /\ UNCHANGED how

RouteDynamic(r, q) ==
    /\ call[r] = Idle /\ q.names = NoModel /\ q.static = <<>>
    /\ AuxPools[q] = <<>>
    /\ \E pool \in Pools[q] :
        IF Sticks(q, Healthy(pool))
        THEN /\ Starts(r, q, "sticky", Plan(<<sticky.model>> \o Healthy(pool)), sticky, FALSE)
             /\ UNCHANGED how
        ELSE Picks(r, q, "dynamic", pool, IF Released THEN NoEntry ELSE sticky)

-----------------------------------------------------------------------------
(* Calls.                                                                   *)

Used(r) == Head(call[r].rest)
Primary(r) == Head(call[r].plan)
Busy(r) == call[r] # Idle

\* make_success_hook.  `more`: the request's inner loop calls again, from the
\* first model of its plan.
BugEntryAfter(r) == UpdateSticky(sticky, Used(r), "routed")
EntryAfter(r) ==
    UpdateSticky(sticky, Used(r), IF Used(r) = Primary(r) THEN "routed" ELSE "failover")

Strays(r) == ~call[r].kept \/ call[r].via = "auxiliary"

Succeeds(r, more) ==
    /\ Busy(r) /\ (more => call[r].via # "auxiliary")
    /\ sticky' = EntryAfter(r)
    /\ unhealthy' = unhealthy \ {Used(r)}
    /\ warm' = Used(r)
    /\ how' = CASE sticky.model = Used(r) -> how
                 [] sticky.model # Used(r) /\ call[r].pick /\ Used(r) = Primary(r) -> "picked"
                 [] OTHER -> IF Strays(r) THEN "stray" ELSE "fault"
    /\ call' = LET calls == Remember(call, EntryAfter(r)) IN
               [calls EXCEPT ![r] = IF more THEN [@ EXCEPT !.rest = call[r].plan] ELSE Idle]

\* An error of the request's own (4xx) goes back to the agent.
Refused(r) ==
    /\ Busy(r)
    /\ call' = [call EXCEPT ![r] = Idle]
    /\ UNCHANGED <<sticky, unhealthy, warm, how>>

\* A fault of the model leads to the next; a limit of its quota to the next
\* that uses another one.
Remaining(r, limited) ==
    SelectSeq(Tail(call[r].rest),
              LAMBDA m : limited => Provider[m] # Provider[Used(r)])

Fails(r, limited) ==
    /\ Busy(r)
    /\ unhealthy' = unhealthy \cup {Used(r)}
    /\ call' = [call EXCEPT ![r] = IF Remaining(r, limited) = <<>> THEN Idle
                                   ELSE [@ EXCEPT !.rest = Remaining(r, limited)]]
    /\ UNCHANGED <<sticky, warm, how>>

-----------------------------------------------------------------------------
(* Time, and the operator.                                                  *)

CoolsDown(m) ==
    /\ m \in unhealthy /\ unhealthy' = unhealthy \ {m}
    /\ UNCHANGED <<sticky, warm, call, how>>

CacheExpires ==
    /\ warm # NoModel /\ warm' = NoModel
    /\ UNCHANGED <<sticky, unhealthy, call, how>>

HoldElapses ==
    /\ sticky # NoEntry /\ sticky.origin = "failover" /\ ~sticky.due
    /\ sticky' = [sticky EXCEPT !.due = TRUE]
    /\ UNCHANGED <<unhealthy, warm, call, how>>

\* `bladex sticky flush`, or other sessions have filled the table.
Flush ==
    /\ sticky # NoEntry /\ sticky' = NoEntry
    /\ call' = Remember(call, NoEntry) /\ how' = "none"
    /\ UNCHANGED <<unhealthy, warm>>

RoutingNext ==
    \/ \E r \in SessionRequests, q \in Asks :
        RouteRequested(r, q) \/ RouteStatic(r, q) \/ RouteAuxiliary(r, q)
            \/ RouteDynamic(r, q)
    \/ \E r \in SessionRequests, more \in BOOLEAN : Succeeds(r, more) \/ Fails(r, more)
    \/ \E r \in SessionRequests : Refused(r)
    \/ \E m \in Models : CoolsDown(m)
    \/ CacheExpires \/ HoldElapses \/ Flush

\* The clock runs.
RoutingSpec == RoutingInit /\ [][RoutingNext]_routingVars /\ WF_routingVars(HoldElapses)

-----------------------------------------------------------------------------
(* Properties.                                                              *)

\* A session that is said to stay where it is (origin "routed") is where a
\* decision wanted it, never where a fault led it: such an entry would not be
\* let go.  Excepted are the entries written by a request that is auxiliary or
\* whose own entry had been replaced or dropped when its call came back.
OnlyPicksStay ==
    sticky # NoEntry /\ sticky.origin = "routed" => how \in {"picked", "stray"}

\* A session that was picked a model moves to a weaker tier only for a request
\* with a model of its own or one its model cannot serve, after a failover, or
\* by the late write that OnlyPicksStay excepts.
MayLower(r) ==
    IF call[r] = Idle
    THEN /\ call'[r] # Idle
         /\ \/ call'[r].via \in {"static", "requested"}
            \/ ~Serves(sticky.model, call'[r].ask) \/ sticky.model \in unhealthy
    ELSE Used(r) # Primary(r) \/ Strays(r)
TierOnlyRises ==
    [][/\ sticky # NoEntry /\ sticky' # NoEntry
       /\ sticky.origin = "routed" /\ Tier[sticky'.model] < Tier[sticky.model]
       => \E r \in SessionRequests : MayLower(r)]_routingVars

\* When the faults are over, a session that goes on to ask for what is decided
\* here and now is again and again where a decision wanted it: no failover
\* holds it for good, however busy it is.
GoesOn == \E r \in SessionRequests, q \in Asks : RouteDynamic(r, q)
PinnedIsReleased ==
    []<><<GoesOn>>_routingVars /\ <>[](unhealthy = {}) =>
        []<>(sticky = NoEntry \/ how \in {"picked", "stray"})

=============================================================================
