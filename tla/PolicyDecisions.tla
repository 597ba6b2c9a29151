-------------------------- MODULE PolicyDecisions --------------------------
(***************************************************************************)
(* What a request gets by the policy of its feature: access, a limit plan  *)
(* and an order of routes (internal/policy), and the three places that     *)
(* tell somebody about it without making the request: the quota of a       *)
(* feature, shown to an app (dataplane/quota_snapshot.go, quota/           *)
(* snapshot.go), the effective configuration of a user, shown to an        *)
(* administrator (adminapi/effective_configuration.go), and the simulation *)
(* of failing attempts (adminapi/simulation_api.go).                       *)
(*                                                                         *)
(* The module holds two specifications: Decisions, in which the clock, the *)
(* active revision, the limit-plan override and the claims of a user move  *)
(* while one of the calls is under way, and Attempts, in which a simulated *)
(* and a served request walk the same routes.                              *)
(*                                                                         *)
(* A CEL expression is what it reads and what it gives for either value;   *)
(* it reads nothing, one fact, or the request as a whole, in which the     *)
(* sizes are.  Trust levels are ranks.                                     *)
(***************************************************************************)
EXTENDS Integers, FiniteSets, Sequences, FiniteSetsExt, TLC

CONSTANTS Revisions, FirstRevision, None,
          Documents,             \* what the first revision may say of the feature
          OtherDocuments,        \* and the others
          GrantLists,            \* sequences of the user's grants, oldest first
          Plans, MaxTime, MaxOverrides,
          TrustRanks, Horizon,               \* of a simulated authorization
          Routes, RouteSets,     \* ids of routes; what the feature may say of them
          Digests,               \* what the order digest of a round may be
          FailureSets, MaximumLogicalAttempts

VARIABLES now, policies, grants,
          active,                \* active_config_revisions: revision and activated_at
          override, claim,       \* of the user
          call,
          routes, order, failures, unsafe,
          simulated, served      \* the two walks

decisionVars == <<now, policies, grants, active, override, claim, call>>
attemptVars == <<routes, order, failures, unsafe, simulated, served>>

NoOverride == [id |-> 0, plan |-> None, ends |-> 0]
Shapes == [streaming : BOOLEAN, size : BOOLEAN]

-----------------------------------------------------------------------------
(* Expressions. *)

\* boundedActivation: the facts an expression may read.
Activation(a, shape) ==
    [streaming |-> shape.streaming, size |-> shape.size, request |-> shape.size,
     claim |-> a.claim, trust |-> a.trust > 0]

Evaluate(e, facts) == IF e.reads = "nothing" \/ facts[e.reads] THEN e.yes ELSE e.no

\* Slip: an expression that reads the request as a whole reads no size.
NeedsRequestSizeByName(e) == e.reads = "size"

\* expressionNeedsRequestSize: by name, or through the whole object.
NeedsRequestSize(e) == e.reads \in {"size", "request"}

\* Resolver.compiled keeps, per revision and feature, the programs and what they read.
Compiled(d) ==
    [access |-> d.access, limitPlan |-> d.limitPlan,
     accessNeedsRequestSize |-> NeedsRequestSize(d.access),
     limitPlanNeedsRequestSize |-> NeedsRequestSize(d.limitPlan)]

-----------------------------------------------------------------------------
(* Attestation. *)

TrustSatisfiesSelection(d, a) == a.provider = d.provider /\ a.trust >= d.minimum

SealedSessionAttestationFresh(a, t) ==
    /\ a.attestedAt <= t /\ a.attestationEnds > a.attestedAt
    /\ a.component \/ a.attestationEnds > t

ConfiguredAttestationFresh(d, a, t) ==
    /\ SealedSessionAttestationFresh(a, t)
    /\ a.component \/ a.attestedAt + d.maxAge > t

EnforceFeatureAttestation(r, d, a, t) ==
    IF a.revision # r THEN "step_up_required"
    ELSE IF ~d.platform THEN "configuration"
    ELSE IF d.mode = "required" /\ ~TrustSatisfiesSelection(d, a) THEN "step_up_required"
    ELSE IF \/ d.mode = "required" /\ ConfiguredAttestationFresh(d, a, t)
            \/ d.mode = "preferred" /\ TrustSatisfiesSelection(d, a) /\ ConfiguredAttestationFresh(d, a, t)
            \/ d.mode \in {"preferred", "disabled"} /\ SealedSessionAttestationFresh(a, t)
    THEN "fresh" ELSE "refresh_needed"

-----------------------------------------------------------------------------
(* Decisions.  A decision is an outcome and, once one is selected, a plan. *)

Denied(outcome) == [outcome |-> outcome, plan |-> None]

\* selectLimitPlanID: the override comes before the expression.
SelectLimitPlan(c, a, facts) ==
    IF a.override.plan # None THEN a.override.plan ELSE Evaluate(c.limitPlan, facts)

\* resolveLimitPlan
ResolveLimitPlan(d, plan) ==
    IF plan = "error" THEN Denied("configuration")
    ELSE IF plan \notin DOMAIN d.plans THEN Denied("no_plan")
    ELSE [outcome |-> "planned", plan |-> plan]

\* The routes whose predicate holds, in any order; orderRoutes refuses none.
MatchRoutes(d, plan, facts) ==
    LET given == {Evaluate(when, facts) : when \in d.whens}
    IN  [outcome |-> IF "error" \in given THEN "configuration"
                     ELSE IF "yes" \in given THEN "served" ELSE "no_route",
         plan |-> plan]

\* ResolvePlan after the input was found valid.
ResolvePlan(r, d, a, shape, t) ==
    LET facts == Activation(a, shape)
        attested == EnforceFeatureAttestation(r, d, a, t)
        selected == ResolveLimitPlan(d, SelectLimitPlan(Compiled(d), a, facts))
    IN  IF a.accessEnds <= t \/ a.identityEnds <= t THEN Denied("expired")
        ELSE IF attested # "fresh" THEN Denied(attested)
        ELSE IF Evaluate(d.access, facts) # "yes" THEN Denied("not_allowed")
        ELSE IF selected.outcome # "planned" THEN selected
        ELSE MatchRoutes(d, selected.plan, facts)

\* ValidatedSnapshot of a sealed authorization.
ValidatedSnapshot(a, t) ==
    IF a.accessEnds <= t \/ a.identityEnds <= t THEN "expired"
    ELSE IF a.attestedAt > t THEN "session_invalid"
    ELSE IF ~a.component /\ a.attestationEnds <= t THEN "refresh_needed"
    ELSE "valid"

\* ResolveQuota: both streaming states, no sizes.
ResolveQuota(r, d, a, t) ==
    LET c == Compiled(d)
        shape(s) == [streaming |-> s, size |-> FALSE]
        access == {Evaluate(c.access, Activation(a, shape(s))) : s \in BOOLEAN}
        plans == {SelectLimitPlan(c, a, Activation(a, shape(s))) : s \in BOOLEAN}
        attested == EnforceFeatureAttestation(r, d, a, t)
    IN  IF ValidatedSnapshot(a, t) # "valid" THEN Denied(ValidatedSnapshot(a, t))
        ELSE IF attested # "fresh" THEN Denied(attested)
        ELSE IF c.accessNeedsRequestSize \/ (a.override.plan = None /\ c.limitPlanNeedsRequestSize)
             THEN Denied("configuration")
        ELSE IF access = {"no"} THEN Denied("not_allowed")
        ELSE IF access # {"yes"} \/ Cardinality(plans) > 1 THEN Denied("configuration")
        ELSE ResolveLimitPlan(d, CHOOSE p \in plans : TRUE)

\* NewSimulationInput: fresh as of now, until the horizon.
SimulationInput(a, t) ==
    [a EXCEPT !.attestedAt = t, !.attestationEnds = t + Horizon,
              !.accessEnds = t + Horizon, !.identityEnds = t + Horizon]

-----------------------------------------------------------------------------
(* The environment of the calls. *)

InForce(t) == IF override.ends > t THEN override ELSE NoOverride

Idle == [pc |-> "idle", kind |-> None, auth |-> None, revision |-> None, shape |-> None,
         at |-> 0, observedAt |-> 0, seen |-> None, answer |-> Denied("none")]

DecisionsInit ==
    /\ now = 1 /\ claim \in BOOLEAN /\ override = NoOverride /\ call = Idle
    /\ policies \in [Revisions -> Documents \cup OtherDocuments] /\ grants \in GrantLists
    /\ policies[FirstRevision] \in Documents
    /\ \A r \in Revisions \ {FirstRevision} : policies[r] \in OtherDocuments
    /\ active = [revision |-> FirstRevision, at |-> 0]

Tick ==
    /\ now < MaxTime /\ now' = now + 1
    /\ UNCHANGED <<policies, grants, active, override, claim, call>>

\* Activation and rollback; validateActiveUserOverrides.
Activate ==
    /\ \E r \in Revisions \ {active.revision} :
          /\ InForce(now).plan \in DOMAIN policies[r].plans \cup {None}
          /\ active' = [revision |-> r, at |-> now]
    /\ UNCHANGED <<now, policies, grants, override, claim, call>>

\* An administrator sets the override of the user to a plan of the active revision.
SetOverride ==
    /\ override.id < MaxOverrides
    /\ \E p \in DOMAIN policies[active.revision].plans, ends \in {now + 1, MaxTime + 1} :
          override' = [id |-> override.id + 1, plan |-> p, ends |-> ends]
    /\ UNCHANGED <<now, policies, grants, active, claim, call>>

RevokeOverride ==
    /\ override.plan # None /\ override' = [NoOverride EXCEPT !.id = override.id]
    /\ UNCHANGED <<now, policies, grants, active, claim, call>>

\* The next sign-in of the user brings other claims.
ChangeClaim ==
    /\ claim' = ~claim
    /\ UNCHANGED <<now, policies, grants, active, override, call>>

Environment == Tick \/ Activate \/ SetOverride \/ RevokeOverride \/ ChangeClaim

\* What AuthorizeAccess seals of a grant.
Sealed(g) ==
    [revision |-> g.revision, component |-> g.component, granted |-> g.granted,
     provider |-> g.provider, trust |-> g.trust, attestedAt |-> g.attestedAt,
     attestationEnds |-> g.attestationEnds, accessEnds |-> g.accessEnds,
     identityEnds |-> g.identityEnds, override |-> InForce(now), claim |-> claim]

Concluded(c, answer) == [c EXCEPT !.pc = "ended", !.answer = answer]

-----------------------------------------------------------------------------
(* FeatureQuota. *)

Authorize ==
    /\ call.pc = "idle"
    /\ \E i \in DOMAIN grants :
          LET a == Sealed(grants[i])
              c == [Idle EXCEPT !.kind = "quota", !.auth = a, !.at = now]
          IN  call' = IF ValidatedSnapshot(a, now) # "valid" THEN Concluded(c, Denied(ValidatedSnapshot(a, now)))
                      ELSE IF a.component /\ ~a.granted THEN Concluded(c, Denied("not_granted"))
                      ELSE [c EXCEPT !.pc = "authorized"]
    /\ UNCHANGED <<now, policies, grants, active, override, claim>>

\* ActiveSnapshot; the grant must be of that revision.
LoadSnapshot ==
    /\ call.pc = "authorized"
    /\ call' = IF active.revision = call.auth.revision
               THEN [call EXCEPT !.pc = "loaded", !.revision = active.revision]
               ELSE Concluded(call, Denied("configuration"))
    /\ UNCHANGED <<now, policies, grants, active, override, claim>>

\* QuotaSnapshotRules: a limit of a route, an upstream or a model has no value here.
PhysicalScope(r, plan) == policies[r].plans[plan] = "physical"

\* ResolveQuota and QuotaSnapshotRules.
ProjectQuota ==
    /\ call.pc = "loaded"
    /\ LET answer == ResolveQuota(call.revision, policies[call.revision], call.auth, now)
       IN  call' = IF answer.outcome = "planned" /\ PhysicalScope(call.revision, answer.plan)
                   THEN Concluded(call, Denied("configuration"))
                   ELSE IF answer.outcome = "planned"
                   THEN [call EXCEPT !.pc = "planned", !.at = now, !.answer = answer]
                   ELSE Concluded([call EXCEPT !.at = now], answer)
    /\ UNCHANGED <<now, policies, grants, active, override, claim>>

-----------------------------------------------------------------------------
(* Store.Snapshot: a read-only transaction of one database state. *)

BeginSnapshot ==
    /\ call.pc = "planned" /\ call' = [call EXCEPT !.pc = "begun", !.observedAt = now]
    /\ UNCHANGED <<now, policies, grants, active, override, claim>>

\* snapshotTransactionTime
RevisionStands(c) == active.revision = c.revision /\ active.at <= c.observedAt

\* Slip: the override of the authorization is taken as it was.
OverrideAsAuthorized(c) == TRUE

\* verifySnapshotUserOverride
OverrideStands(c) ==
    LET o == InForce(c.observedAt)
    IN  IF o.plan = None THEN c.auth.override.plan = None ELSE o = c.auth.override

\* The statements after BEGIN see the state of the first of them.
ReadSnapshot ==
    /\ call.pc = "begun"
    /\ LET c == [call EXCEPT !.seen = [revision |-> active.revision, override |-> InForce(call.observedAt)]]
       IN  call' = IF RevisionStands(call) /\ OverrideStands(call)
                   THEN Concluded(c, [call.answer EXCEPT !.outcome = "shown"])
                   ELSE Concluded(c, Denied("invalid_state"))
    /\ UNCHANGED <<now, policies, grants, active, override, claim>>

-----------------------------------------------------------------------------
(* The effective configuration of the user. *)

\* The grants effectiveUserBasis may take: of the active revision and unexpired.
LiveGrants ==
    {i \in DOMAIN grants :
        /\ grants[i].revision = active.revision
        /\ grants[i].accessEnds > now /\ grants[i].identityEnds > now /\ grants[i].attestationEnds > now}

\* effectiveUserBasis reads one database state and takes the latest grant.
EffectiveUserBasis ==
    /\ call.pc = "idle"
    /\ \E shape \in Shapes :
          LET c == [Idle EXCEPT !.kind = "effective", !.at = now, !.revision = active.revision, !.shape = shape]
              a == Sealed(grants[Max(LiveGrants)])
          IN  call' = IF LiveGrants = {} THEN Concluded(c, Denied("unavailable"))
                      ELSE IF a.component /\ ~a.granted
                      THEN Concluded([c EXCEPT !.auth = a], Denied("not_granted"))
                      ELSE [c EXCEPT !.pc = "based", !.auth = a]
    /\ UNCHANGED <<now, policies, grants, active, override, claim>>

\* attachQuotaUsage: a snapshot of the usage, unless a limit is of a route.
AttachQuotaUsage(c, answer) ==
    IF PhysicalScope(c.revision, answer.plan) THEN Concluded(c, [answer EXCEPT !.outcome = "shown"])
    ELSE [c EXCEPT !.pc = "planned", !.answer = answer]

\* resolveEffectiveUserConfiguration
ResolveEffective ==
    /\ call.pc = "based"
    /\ LET answer == ResolvePlan(call.revision, policies[call.revision],
                                 SimulationInput(call.auth, now), call.shape, now)
       IN  call' = IF answer.outcome # "served" THEN Concluded(call, answer)
                   ELSE AttachQuotaUsage(call, answer)
    /\ UNCHANGED <<now, policies, grants, active, override, claim>>

-----------------------------------------------------------------------------
(* The simulation of a route, of any revision and any facts. *)

SimulateRoute ==
    /\ call.pc = "idle"
    /\ \E r \in Revisions, shape \in Shapes, trust \in TrustRanks, c \in BOOLEAN :
          LET d == policies[r]
              a == SimulationInput([grants[1] EXCEPT !.revision = r, !.component = FALSE, !.granted = TRUE,
                                                     !.provider = d.provider, !.trust = trust], now)
              facts == [override |-> NoOverride, claim |-> c] @@ a
          IN  call' = Concluded([Idle EXCEPT !.kind = "simulation", !.at = now, !.revision = r,
                                             !.shape = shape, !.auth = facts],
                                IF d.platform THEN ResolvePlan(r, d, facts, shape, now) ELSE Denied("no_platform"))
    /\ UNCHANGED <<now, policies, grants, active, override, claim>>

Answered == call.pc = "ended" /\ call' = Idle /\ UNCHANGED <<now, policies, grants, active, override, claim>>

DecisionsNext ==
    \/ Environment
    \/ Authorize \/ LoadSnapshot \/ ProjectQuota \/ BeginSnapshot \/ ReadSnapshot
    \/ EffectiveUserBasis \/ ResolveEffective \/ SimulateRoute \/ Answered

-----------------------------------------------------------------------------
(* The order of routes. *)

TotalWeight(group) == MapThenSumSet(LAMBDA r : routes[r].weight, group)

\* Slip: a draw equal to the weights passed over takes the route before.
SelectedPastEnd(group, digest) ==
    LET drawn == digest % TotalWeight(group)
    IN  Min({r \in group : drawn <= TotalWeight({q \in group : q <= r})})

\* One draw of weightedRouteOrder, over the routes by id.
Selected(group, digest) ==
    LET drawn == digest % TotalWeight(group)
    IN  Min({r \in group : drawn < TotalWeight({q \in group : q <= r})})

\* weightedRouteOrder: drawn without replacement, a digest per round.
WeightedRouteOrder(group, digest) ==
    LET drawnFrom[left \in SUBSET group] ==
            IF left = {} THEN <<>>
            ELSE LET r == Selected(left, digest[Cardinality(group) - Cardinality(left)])
                 IN  <<r>> \o drawnFrom[left \ {r}]
    IN  drawnFrom[group]

\* orderRoutes: the groups by priority.
OrderRoutes(digest) ==
    LET group(p) == {r \in DOMAIN routes : routes[r].priority = p}
        from[priorities \in SUBSET {routes[r].priority : r \in DOMAIN routes}] ==
            IF priorities = {} THEN <<>>
            ELSE LET p == Min(priorities) IN WeightedRouteOrder(group(p), digest) \o from[priorities \ {p}]
    IN  from[{routes[r].priority : r \in DOMAIN routes}]

-----------------------------------------------------------------------------
(* Walks over the routes, by the failures a simulation names. *)

Start == [index |-> 1, tries |-> 1, failed |-> [r \in Routes |-> 0], path |-> <<>>, outcome |-> "walking"]

AttemptsInit ==
    /\ routes \in RouteSets /\ unsafe \in BOOLEAN
    /\ \E digest \in [0 .. Cardinality(Routes) - 1 -> Digests] : order = OrderRoutes(digest)
    /\ failures \in FailureSets
    /\ simulated = Start /\ served = Start

RetriesOn(route, condition, tries) == condition \in route.retryOn /\ tries < route.maxAttempts
FallsBackOn(route, condition) == condition \in route.fallbackOn

\* opaqueReplayAllowed; replayable in simulateAttempts
ReplayAllowed(r) == ~unsafe \/ routes[r].retryUnsafe

Fails(w) ==
    LET r == order[w.index]
    IN  failures[r].condition # None /\ (failures[r].attempts = 0 \/ w.failed[r] < failures[r].attempts)

Attempted(w, next) ==
    LET r == order[w.index]
        failed == [w EXCEPT !.failed[r] = @ + 1, !.path = Append(@, <<r, next>>)]
    IN  CASE next = "retry" -> [failed EXCEPT !.tries = @ + 1]
          [] next = "fallback" -> [failed EXCEPT !.index = @ + 1, !.tries = 1]
          [] next = "stop" -> [failed EXCEPT !.outcome = "failed"]
          [] next = "succeeded" -> [w EXCEPT !.path = Append(@, <<r, next>>), !.outcome = "served"]

\* Slip: the route moved to is not asked whether it may be replayed to.
SimulatedNextUnasked(w) ==
    LET r == order[w.index]
        condition == failures[r].condition
    IN  IF condition = "other" \/ Len(w.path) + 1 >= MaximumLogicalAttempts \/ ~ReplayAllowed(r) THEN "stop"
        ELSE IF RetriesOn(routes[r], condition, w.tries) THEN "retry"
        ELSE IF FallsBackOn(routes[r], condition) /\ w.index < Len(order) THEN "fallback"
        ELSE "stop"

\* What simulateAttempts does after a failed attempt.
SimulatedNext(w) ==
    LET r == order[w.index]
        condition == failures[r].condition
    IN  IF condition = "other" \/ Len(w.path) + 1 >= MaximumLogicalAttempts \/ ~ReplayAllowed(r) THEN "stop"
        ELSE IF RetriesOn(routes[r], condition, w.tries) THEN "retry"
        ELSE IF FallsBackOn(routes[r], condition) /\ w.index < Len(order) /\ ReplayAllowed(order[w.index + 1])
        THEN "fallback" ELSE "stop"

Simulate ==
    /\ simulated.outcome = "walking"
    /\ simulated' = Attempted(simulated, IF Fails(simulated) THEN SimulatedNext(simulated) ELSE "succeeded")
    /\ UNCHANGED <<routes, order, failures, unsafe, served>>

\* An attempt of the data plane that succeeds, or fails with no byte sent on.
ServeSucceeds ==
    /\ served.outcome = "walking" /\ ~Fails(served)
    /\ served' = Attempted(served, "succeeded")
    /\ UNCHANGED <<routes, order, failures, unsafe, simulated>>

\* The handler's loop looks for a retry, then for a fallback, then gives up.
ServeFails ==
    /\ served.outcome = "walking" /\ Fails(served)
    /\ LET r == order[served.index]
           condition == failures[r].condition
           again == condition # "other" /\ Len(served.path) + 1 < MaximumLogicalAttempts /\ ReplayAllowed(r)
           retry == again /\ RetriesOn(routes[r], condition, served.tries)
           fallback == /\ again /\ ~retry /\ FallsBackOn(routes[r], condition)
                       /\ served.index < Len(order) /\ ReplayAllowed(order[served.index + 1])
       IN  \/ retry /\ served' = Attempted(served, "retry")
           \/ fallback /\ served' = Attempted(served, "fallback")
           \/ ~retry /\ ~fallback /\ served' = Attempted(served, "stop")
    /\ UNCHANGED <<routes, order, failures, unsafe, simulated>>

Compared ==
    /\ simulated.outcome # "walking" /\ served.outcome # "walking"
    /\ UNCHANGED attemptVars

AttemptsNext == Simulate \/ ServeSucceeds \/ ServeFails \/ Compared

-----------------------------------------------------------------------------
(* Properties. *)

\* The calls keep to their steps (type invariant of Decisions).
DecisionsTypeOK ==
    /\ now \in 1 .. MaxTime /\ active.revision \in Revisions /\ active.at \in 0 .. now
    /\ override.plan \in Plans \cup {None} /\ override.id \in 0 .. MaxOverrides
    /\ call.pc \in {"idle", "authorized", "loaded", "planned", "begun", "based", "ended"}
    /\ call.answer.plan \in Plans \cup {None}

\* A quota shown to an app (FeatureQuota) is that of the plan which a request
\* of any shape would be charged to by the revision and the override of the
\* very database state the counters were read from, although the projection
\* was made from an earlier authorization and without a request; and when the
\* app is told the feature is not allowed, no request would be served.
QuotaAsServed ==
    call.kind = "quota" /\ call.pc = "ended" =>
        /\ call.answer.outcome = "shown" =>
               \A shape \in Shapes :
                   ResolvePlan(call.seen.revision, policies[call.seen.revision],
                               [call.auth EXCEPT !.override = call.seen.override], shape, call.at).plan
                   = call.answer.plan
        /\ call.answer.outcome = "not_allowed" =>
               \A shape \in Shapes :
                   ResolvePlan(call.revision, policies[call.revision], call.auth, shape, call.at).outcome # "served"

\* A session whose proof is older than the policy of a revision it was renewed
\* into allows, though it has not expired.
Overaged(a, d, t) == ~a.component /\ a.attestedAt + d.maxAge <= t

\* The effective configuration of a user (effectiveUserConfiguration) says of
\* the latest session what a request of that shape got at the moment the basis
\* was read: the same plan where it is shown, no service where it is denied,
\* and no usable session where there is none.  Left out: a session overaged as
\* above, which is shown as allowed, and a component's grant whose attestation
\* has lapsed, which still serves and is not looked at.
EffectiveAsServed ==
    call.kind = "effective" /\ call.pc = "ended" =>
        LET d == policies[call.revision]
            asked == ResolvePlan(call.revision, d, call.auth, call.shape, call.at)
        IN  /\ call.answer.outcome = "shown" /\ ~Overaged(call.auth, d, call.at) => asked.plan = call.answer.plan
            /\ call.auth # None /\ call.answer.plan = None
               /\ call.answer.outcome \notin {"invalid_state", "not_granted"} => asked.outcome # "served"
            /\ call.answer.outcome = "unavailable" =>
                   \A i \in DOMAIN grants :
                       grants[i].revision = call.revision /\ ValidatedSnapshot(grants[i], call.at) = "valid" =>
                           grants[i].component /\ grants[i].attestationEnds <= call.at

\* A simulation (simulateRoute) gives the outcome and the plan of every session
\* of the user that has the simulated facts, no override and a fresh proof.
SimulationAsServed ==
    call.kind = "simulation" /\ call.answer.outcome # "no_platform" =>
        LET d == policies[call.revision]
        IN  \A i \in DOMAIN grants :
                LET a == [claim |-> call.auth.claim, override |-> NoOverride] @@ grants[i]
                IN  /\ a.revision = call.revision /\ a.trust = call.auth.trust /\ a.provider = d.provider
                    /\ ValidatedSnapshot(a, call.at) = "valid" /\ ~Overaged(a, d, call.at)
                    => ResolvePlan(call.revision, d, a, call.shape, call.at) = call.answer

\* The routes are drawn by weight: over a cycle of digests each route of a
\* priority comes first as often as its weight says, and the order holds every
\* route once, lower priorities first (orderRoutes, weightedRouteOrder).
RoutesByWeight ==
    LET group(p) == {r \in DOMAIN routes : routes[r].priority = p}
    IN  /\ Len(order) = Cardinality(DOMAIN routes) /\ {order[i] : i \in DOMAIN order} = DOMAIN routes
        /\ \A i, j \in DOMAIN order : i < j => routes[order[i]].priority <= routes[order[j]].priority
        /\ \A r \in DOMAIN routes :
              LET all == group(routes[r].priority)
              IN  Cardinality({n \in 0 .. TotalWeight(all) - 1 : Selected(all, n) = r}) = routes[r].weight

\* The attempts a simulation shows for failing routes (simulateAttempts) are
\* those the data plane makes for the same failures: the two walks, written
\* apart, never part.
SimulatedAsServed ==
    /\ \A i \in DOMAIN simulated.path \cap DOMAIN served.path : simulated.path[i] = served.path[i]
    /\ simulated.outcome # "walking" /\ served.outcome # "walking" =>
          simulated.outcome = served.outcome /\ Len(simulated.path) = Len(served.path)

=============================================================================
