--------------------------------- MODULE MCRequests ---------------------------------
(***************************************************************************)
(* The path of a proxied request, checked in one run: its execution with   *)
(* retries and fallbacks, the cache of upstream targets, what the circuit  *)
(* remembers, the framing of event streams, the observers of the three     *)
(* streaming protocols, and what a policy decides of it, explains and      *)
(* simulates.  Each behaviour is one of one part, chosen at the start; the *)
(* variables of the other parts are unused in it.                          *)
(***************************************************************************)
EXTENDS RequestExecution, Integers, TLC

CONSTANTS x1, x2, x3, k1, k2, k3, None

VARIABLES part, entry, entries, lru, closed, lease, closing, calls, log, stream, fed, base, scan,
          line, end, events, status, o, sent, observed, now, policies, grants, active, override,
          claim, call, routes, order, failures, opaque, simulated, served

Kinds == {"status", "connect_error", "timeout_before_headers", "first_byte_timeout"}

R(retryOn, max, fallbackOn, unsafeToo) ==
    [retryOn |-> retryOn, maxAttempts |-> max, fallbackOn |-> fallbackOn, unsafeToo |-> unsafeToo]

\* Retries and fallbacks on everything; on some conditions only; replays of
\* unsafe requests allowed on all, some and none of the routes.
SomePlans == {<<R(Kinds, 2, Kinds, TRUE), R(Kinds, 2, {}, TRUE)>>,
              <<R({"status"}, 3, {"connect_error", "status"}, TRUE), R({}, 1, {}, FALSE)>>,
              <<R({}, 1, Kinds, FALSE), R(Kinds, 2, Kinds, TRUE), R({}, 1, Kinds, TRUE)>>}

Reading(fact, yes, no) == [reads |-> fact, yes |-> yes, no |-> no]
Always(value) == Reading("nothing", value, value)
PolicyOf == [access |-> Always("yes"), limitPlan |-> Always("gold"), whens |-> {Always("yes")}, mode |-> "required",
             platform |-> TRUE, provider |-> "debug", minimum |-> 1, maxAge |-> 2,
             plans |-> [p \in {"gold", "free"} |-> IF p = "gold" THEN "user" ELSE "physical"]]
AccessPolicies ==
    {[PolicyOf EXCEPT !.access = e] : e \in {Reading(f, "yes", g) : f \in {"streaming", "size", "request", "claim"}, g \in {"no", "error"}}}
PlanPolicies ==
    {[PolicyOf EXCEPT !.limitPlan = e] :
        e \in {Reading(f, g, "free") : f \in {"streaming", "request", "trust"}, g \in {"gold", "error", "platinum"}}}
TrustPolicies ==
    {[PolicyOf EXCEPT !.mode = m, !.minimum = n, !.provider = p] : m \in {"disabled", "preferred", "required"}, n \in {1, 2}, p \in {"debug", "turnstile"}}
    \cup {[PolicyOf EXCEPT !.platform = FALSE]}
RoutePolicies ==
    {[PolicyOf EXCEPT !.whens = {Reading(f, "yes", g)}] : f \in {"streaming", "size"}, g \in {"no", "error"}}
GrantOf == [revision |-> "r1", component |-> FALSE, granted |-> TRUE, provider |-> "debug", trust |-> 1,
            attestedAt |-> 1, attestationEnds |-> 4, accessEnds |-> 3, identityEnds |-> 4]
ComponentGrant == [GrantOf EXCEPT !.component = TRUE, !.attestationEnds = 2]
PolicyGrants == {<<GrantOf>>, <<ComponentGrant>>, <<GrantOf, [ComponentGrant EXCEPT !.granted = FALSE]>>,
                 <<ComponentGrant, [GrantOf EXCEPT !.revision = "r2"]>>}
RouteOf == [weight |-> 1, priority |-> 1, retryOn |-> {}, maxAttempts |-> 0, fallbackOn |-> {"timeout"}, retryUnsafe |-> FALSE]
AttemptRoutes ==
    {[i \in 1 .. 3 |-> CASE i = 1 -> [RouteOf EXCEPT !.weight = 2, !.retryOn = retried, !.maxAttempts = 2]
                         [] i = 2 -> [RouteOf EXCEPT !.fallbackOn = fallback, !.retryUnsafe = TRUE]
                         [] i = 3 -> [RouteOf EXCEPT !.priority = 2, !.retryUnsafe = replay]] :
        retried \in SUBSET {"timeout", "rate_limited"}, fallback \in {{}, {"timeout"}}, replay \in BOOLEAN}
FailureOf(c, n) == [condition |-> c, attempts |-> n]
AttemptFailures == [1 .. 3 -> {FailureOf(None, 0), FailureOf("timeout", 0), FailureOf("timeout", 1), FailureOf("rate_limited", 1), FailureOf("other", 1)}]

Targeted == INSTANCE TargetCache WITH
    Requests <- {x1, x2, x3}, Keys <- {k1, k2, k3}, Capacity <- 2, MaxBuilds <- 4
Circuit == INSTANCE CircuitObservations WITH
    Keys <- {1, 2, 3}, MaximumEntries <- 2, FailureThreshold <- 2, OpenInterval <- 1,
    StaleAfter <- 2, MaxTime <- 3, MaxObservations <- 3
Framed == INSTANCE EventFraming WITH
    MaxStream <- 7, MaxEvent <- 1
Anthropic == INSTANCE ResponseObservers WITH
    result <- observed, Protocol <- "anthropic", MaxTokens <- 2, MaxInt <- 3, MaxEvents <- 6
Responses == INSTANCE ResponseObservers WITH
    result <- observed, Protocol <- "responses", MaxTokens <- 2, MaxInt <- 3, MaxEvents <- 4
Chat == INSTANCE ResponseObservers WITH
    result <- observed, Protocol <- "chat", MaxTokens <- 2, MaxInt <- 3, MaxEvents <- 5
PAccess == INSTANCE PolicyDecisions WITH
    Revisions <- {"r1", "r2"}, FirstRevision <- "r1", None <- None, Documents <- AccessPolicies,
    OtherDocuments <- {PolicyOf}, GrantLists <- {<<GrantOf>>}, Plans <- {"gold", "free"},
    MaxTime <- 2, MaxOverrides <- 1, Horizon <- 9, TrustRanks <- {1}, Routes <- 1 .. 3,
    RouteSets <- AttemptRoutes, Digests <- 0 .. 2, FailureSets <- AttemptFailures,
    MaximumLogicalAttempts <- 4, unsafe <- opaque
PPlan == INSTANCE PolicyDecisions WITH
    Revisions <- {"r1", "r2"}, FirstRevision <- "r1", None <- None, Documents <- PlanPolicies,
    OtherDocuments <- {PolicyOf}, GrantLists <- {<<GrantOf>>}, Plans <- {"gold", "free"},
    MaxTime <- 2, MaxOverrides <- 1, Horizon <- 9, TrustRanks <- {0, 1}, Routes <- 1 .. 3,
    RouteSets <- AttemptRoutes, Digests <- 0 .. 2, FailureSets <- AttemptFailures,
    MaximumLogicalAttempts <- 4, unsafe <- opaque
PTrust == INSTANCE PolicyDecisions WITH
    Revisions <- {"r1", "r2"}, FirstRevision <- "r1", None <- None, Documents <- TrustPolicies,
    OtherDocuments <- {PolicyOf}, GrantLists <- PolicyGrants, Plans <- {"gold", "free"},
    MaxTime <- 3, MaxOverrides <- 0, Horizon <- 9, TrustRanks <- 0 .. 2, Routes <- 1 .. 3,
    RouteSets <- AttemptRoutes, Digests <- 0 .. 2, FailureSets <- AttemptFailures,
    MaximumLogicalAttempts <- 4, unsafe <- opaque
PRoute == INSTANCE PolicyDecisions WITH
    Revisions <- {"r1", "r2"}, FirstRevision <- "r1", None <- None, Documents <- RoutePolicies,
    OtherDocuments <- {PolicyOf}, GrantLists <- {<<GrantOf>>}, Plans <- {"gold", "free"},
    MaxTime <- 2, MaxOverrides <- 1, Horizon <- 9, TrustRanks <- {1}, Routes <- 1 .. 3,
    RouteSets <- AttemptRoutes, Digests <- 0 .. 2, FailureSets <- AttemptFailures,
    MaximumLogicalAttempts <- 4, unsafe <- opaque
PAttempts == INSTANCE PolicyDecisions WITH
    Revisions <- {"r1", "r2"}, FirstRevision <- "r1", None <- None, Documents <- {},
    OtherDocuments <- {PolicyOf}, GrantLists <- PolicyGrants, Plans <- {"gold", "free"},
    MaxTime <- 3, MaxOverrides <- 1, Horizon <- 9, TrustRanks <- 0 .. 2, Routes <- 1 .. 3,
    RouteSets <- AttemptRoutes, Digests <- 0 .. 2, FailureSets <- AttemptFailures,
    MaximumLogicalAttempts <- 4, unsafe <- opaque

allVars == <<part, pc, plan, unsafe, pending, stages, reservation, attempts, failed, ctx, client,
             trips, result, next, entry, entries, lru, closed, lease, closing, calls, log, stream,
             fed, base, scan, line, end, events, status, o, sent, observed, now, policies, grants,
             active, override, claim, call, routes, order, failures, opaque, simulated, served>>

Unused == "unused"

OnlyRequestExecution ==
    /\ entry = Unused /\ entries = Unused /\ lru = Unused /\ closed = Unused /\ lease = Unused
    /\ closing = Unused /\ calls = Unused /\ log = Unused /\ stream = Unused /\ fed = Unused
    /\ base = Unused /\ scan = Unused /\ line = Unused /\ end = Unused /\ events = Unused
    /\ status = Unused /\ o = Unused /\ sent = Unused /\ observed = Unused /\ now = Unused
    /\ policies = Unused /\ grants = Unused /\ active = Unused /\ override = Unused
    /\ claim = Unused /\ call = Unused /\ routes = Unused /\ order = Unused /\ failures = Unused
    /\ opaque = Unused /\ simulated = Unused /\ served = Unused
outsideRequestExecution == <<part, entry, entries, lru, closed, lease, closing, calls, log, stream,
                            fed, base, scan, line, end, events, status, o, sent, observed, now,
                            policies, grants, active, override, claim, call, routes, order,
                            failures, opaque, simulated, served>>
OnlyTargetCache ==
    /\ log = Unused /\ stream = Unused /\ fed = Unused /\ base = Unused /\ scan = Unused
    /\ line = Unused /\ end = Unused /\ events = Unused /\ status = Unused /\ o = Unused
    /\ sent = Unused /\ observed = Unused /\ now = Unused /\ policies = Unused
    /\ grants = Unused /\ active = Unused /\ override = Unused /\ claim = Unused
    /\ call = Unused /\ routes = Unused /\ order = Unused /\ failures = Unused
    /\ opaque = Unused /\ simulated = Unused /\ served = Unused
outsideTargetCache == <<part, pc, plan, unsafe, pending, stages, reservation, attempts, failed, ctx,
                       client, trips, result, next, log, stream, fed, base, scan, line, end, events,
                       status, o, sent, observed, now, policies, grants, active, override, claim,
                       call, routes, order, failures, opaque, simulated, served>>
OnlyCircuitObservations ==
    /\ entry = Unused /\ lru = Unused /\ closed = Unused /\ lease = Unused /\ closing = Unused
    /\ calls = Unused /\ stream = Unused /\ fed = Unused /\ base = Unused /\ scan = Unused
    /\ line = Unused /\ end = Unused /\ events = Unused /\ status = Unused /\ o = Unused
    /\ sent = Unused /\ observed = Unused /\ now = Unused /\ policies = Unused
    /\ grants = Unused /\ active = Unused /\ override = Unused /\ claim = Unused
    /\ call = Unused /\ routes = Unused /\ order = Unused /\ failures = Unused
    /\ opaque = Unused /\ simulated = Unused /\ served = Unused
outsideCircuitObservations == <<part, pc, plan, unsafe, pending, stages, reservation, attempts,
                               failed, ctx, client, trips, result, next, entry, lru, closed, lease,
                               closing, calls, stream, fed, base, scan, line, end, events, status,
                               o, sent, observed, now, policies, grants, active, override, claim,
                               call, routes, order, failures, opaque, simulated, served>>
OnlyEventFraming ==
    /\ entry = Unused /\ entries = Unused /\ lru = Unused /\ closed = Unused /\ lease = Unused
    /\ closing = Unused /\ calls = Unused /\ log = Unused /\ o = Unused /\ sent = Unused
    /\ observed = Unused /\ now = Unused /\ policies = Unused /\ grants = Unused
    /\ active = Unused /\ override = Unused /\ claim = Unused /\ call = Unused
    /\ routes = Unused /\ order = Unused /\ failures = Unused /\ opaque = Unused
    /\ simulated = Unused /\ served = Unused
outsideEventFraming == <<part, pc, plan, unsafe, pending, stages, reservation, attempts, failed, ctx,
                        client, trips, result, next, entry, entries, lru, closed, lease, closing,
                        calls, log, o, sent, observed, now, policies, grants, active, override,
                        claim, call, routes, order, failures, opaque, simulated, served>>
OnlyResponseObservers ==
    /\ entry = Unused /\ entries = Unused /\ lru = Unused /\ closed = Unused /\ lease = Unused
    /\ closing = Unused /\ calls = Unused /\ log = Unused /\ stream = Unused /\ fed = Unused
    /\ base = Unused /\ scan = Unused /\ line = Unused /\ end = Unused /\ events = Unused
    /\ status = Unused /\ now = Unused /\ policies = Unused /\ grants = Unused
    /\ active = Unused /\ override = Unused /\ claim = Unused /\ call = Unused
    /\ routes = Unused /\ order = Unused /\ failures = Unused /\ opaque = Unused
    /\ simulated = Unused /\ served = Unused
outsideResponseObservers == <<part, pc, plan, unsafe, pending, stages, reservation, attempts, failed,
                             ctx, client, trips, result, next, entry, entries, lru, closed, lease,
                             closing, calls, log, stream, fed, base, scan, line, end, events,
                             status, now, policies, grants, active, override, claim, call, routes,
                             order, failures, opaque, simulated, served>>
OnlyDecisions ==
    /\ entry = Unused /\ entries = Unused /\ lru = Unused /\ closed = Unused /\ lease = Unused
    /\ closing = Unused /\ calls = Unused /\ log = Unused /\ stream = Unused /\ fed = Unused
    /\ base = Unused /\ scan = Unused /\ line = Unused /\ end = Unused /\ events = Unused
    /\ status = Unused /\ o = Unused /\ sent = Unused /\ observed = Unused /\ routes = Unused
    /\ order = Unused /\ failures = Unused /\ opaque = Unused /\ simulated = Unused
    /\ served = Unused
outsideDecisions == <<part, pc, plan, unsafe, pending, stages, reservation, attempts, failed, ctx,
                     client, trips, result, next, entry, entries, lru, closed, lease, closing,
                     calls, log, stream, fed, base, scan, line, end, events, status, o, sent,
                     observed, routes, order, failures, opaque, simulated, served>>
OnlyWalking ==
    /\ entry = Unused /\ entries = Unused /\ lru = Unused /\ closed = Unused /\ lease = Unused
    /\ closing = Unused /\ calls = Unused /\ log = Unused /\ stream = Unused /\ fed = Unused
    /\ base = Unused /\ scan = Unused /\ line = Unused /\ end = Unused /\ events = Unused
    /\ status = Unused /\ o = Unused /\ sent = Unused /\ observed = Unused /\ now = Unused
    /\ policies = Unused /\ grants = Unused /\ active = Unused /\ override = Unused
    /\ claim = Unused /\ call = Unused
outsideWalking == <<part, pc, plan, unsafe, pending, stages, reservation, attempts, failed, ctx,
                   client, trips, result, next, entry, entries, lru, closed, lease, closing, calls,
                   log, stream, fed, base, scan, line, end, events, status, o, sent, observed, now,
                   policies, grants, active, override, claim, call>>

\* The request is of no interest in the other parts and has one plan there.
AllInit ==
    /\ Init
    /\ \/ part = "request" /\ OnlyRequestExecution
       \/ part = "targets" /\ Targeted!Init /\ OnlyTargetCache
       \/ part = "circuit" /\ Circuit!Init /\ OnlyCircuitObservations
       \/ part = "framing" /\ Framed!Init /\ OnlyEventFraming
       \/ part = "anthropic" /\ Anthropic!Init /\ OnlyResponseObservers
       \/ part = "responses" /\ Responses!Init /\ OnlyResponseObservers
       \/ part = "chat" /\ Chat!Init /\ OnlyResponseObservers
       \/ part = "access policy" /\ PAccess!DecisionsInit /\ OnlyDecisions
       \/ part = "plan policy" /\ PPlan!DecisionsInit /\ OnlyDecisions
       \/ part = "trust policy" /\ PTrust!DecisionsInit /\ OnlyDecisions
       \/ part = "route policy" /\ PRoute!DecisionsInit /\ OnlyDecisions
       \/ part = "attempts" /\ PAttempts!AttemptsInit /\ OnlyWalking
    /\ part # "request" => plan = (CHOOSE p \in SomePlans : TRUE) /\ ~unsafe

AllNext ==
    \/ part = "request" /\ Next /\ UNCHANGED outsideRequestExecution
    \/ part = "targets" /\ Targeted!Next /\ UNCHANGED outsideTargetCache
    \/ part = "circuit" /\ Circuit!Next /\ UNCHANGED outsideCircuitObservations
    \/ part = "framing" /\ Framed!Next /\ UNCHANGED outsideEventFraming
    \/ part = "anthropic" /\ Anthropic!Next /\ UNCHANGED outsideResponseObservers
    \/ part = "responses" /\ Responses!Next /\ UNCHANGED outsideResponseObservers
    \/ part = "chat" /\ Chat!Next /\ UNCHANGED outsideResponseObservers
    \/ part = "access policy" /\ PAccess!DecisionsNext /\ UNCHANGED outsideDecisions
    \/ part = "plan policy" /\ PPlan!DecisionsNext /\ UNCHANGED outsideDecisions
    \/ part = "trust policy" /\ PTrust!DecisionsNext /\ UNCHANGED outsideDecisions
    \/ part = "route policy" /\ PRoute!DecisionsNext /\ UNCHANGED outsideDecisions
    \/ part = "attempts" /\ PAttempts!AttemptsNext /\ UNCHANGED outsideWalking

AllSpec == AllInit /\ [][AllNext]_allVars

(***************************************************************************)
(* Properties.                                                             *)
(***************************************************************************)
\* The target a trip uses stays open until the trip ends, and is closed then
\* if it was retired; the circuit's state follows the outcomes of the trips;
\* a stream is read the same however it is cut into chunks, and is accepted
\* only when it is complete; an observer reports success only for a response
\* that completed, never understates the usage it saw, accepts nothing after
\* the end, and dates the first token by the event that carried it.
TransportsAreFaithful ==
    /\ part = "targets" =>
       /\ Targeted!TypeOK /\ Targeted!LeasedStaysOpen /\ Targeted!Consistent
       /\ Targeted!NothingLeaks
    /\ part = "circuit" =>
       /\ Circuit!TypeOK /\ Circuit!StateFollowsOutcomes
    /\ part = "framing" =>
       /\ Framed!TypeOK /\ Framed!SameEventsAnyChunks /\ Framed!AcceptedIsComplete
       /\ Framed!RefusedForCause
    /\ part = "anthropic" =>
       /\ Anthropic!TypeOK /\ Anthropic!OkMeansCompleted /\ Anthropic!UsageNotUnderstated
       /\ Anthropic!NothingAfterEnd /\ Anthropic!FirstTokenFaithful
    /\ part = "responses" =>
       /\ Responses!TypeOK /\ Responses!OkMeansCompleted /\ Responses!UsageNotUnderstated
       /\ Responses!NothingAfterEnd /\ Responses!FirstTokenFaithful
    /\ part = "chat" =>
       /\ Chat!TypeOK /\ Chat!OkMeansCompleted /\ Chat!UsageNotUnderstated
       /\ Chat!NothingAfterEnd /\ Chat!FirstTokenFaithful

\* What the console explains is what the data plane does: the quota snapshot,
\* the effective configuration and the simulation name the plan, the refusal
\* and the routes that a request at that moment would get, although revision
\* and override change between their statements; and simulated attempts are
\* those that are made, in the order of the routes' weights.  Two sessions are
\* left out of the effective configuration, where the console errs: a session
\* renewed into a revision whose maximum age its proof exceeds is shown as
\* allowed, and a component's grant with a lapsed attestation, which is still
\* served, as no session.  The simulation speaks of sessions with a fresh
\* proof and no override (effective_configuration.go, simulation_api.go).
ExplainedAsServed ==
    /\ part = "access policy" =>
       /\ PAccess!DecisionsTypeOK /\ PAccess!QuotaAsServed /\ PAccess!EffectiveAsServed
       /\ PAccess!SimulationAsServed
    /\ part = "plan policy" =>
       /\ PPlan!DecisionsTypeOK /\ PPlan!QuotaAsServed /\ PPlan!EffectiveAsServed
       /\ PPlan!SimulationAsServed
    /\ part = "trust policy" =>
       /\ PTrust!DecisionsTypeOK /\ PTrust!QuotaAsServed /\ PTrust!EffectiveAsServed
       /\ PTrust!SimulationAsServed
    /\ part = "route policy" =>
       /\ PRoute!DecisionsTypeOK /\ PRoute!QuotaAsServed /\ PRoute!EffectiveAsServed
       /\ PRoute!SimulationAsServed
    /\ part = "attempts" =>
       /\ PAttempts!RoutesByWeight /\ PAttempts!SimulatedAsServed

\* The circuit evicts its oldest entry only, and keeps the latest outcome
\* whatever order outcomes arrive in.
LatestOutcomeCounts == [][part = "circuit" =>
          /\ Circuit!EvictsOldest /\ Circuit!LatestWins]_allVars
=============================================================================
