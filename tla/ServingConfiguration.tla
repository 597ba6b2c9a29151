------------------------ MODULE ServingConfiguration ------------------------
(***************************************************************************)
(* The part of an environment's configuration that says how requests are   *)
(* served: upstreams, models, prices, limit plans and the routes of        *)
(* features (internal/configuration).  Validate fills in the defaults, runs*)
(* the semantic checks (semantics.go) and loads what it compiled with the  *)
(* loader of the data plane (runtime_snapshot.go), whose rules are a text  *)
(* of their own; revisions compiled by earlier releases are loaded without *)
(* the semantic checks.                                                    *)
(*                                                                         *)
(* Absent numbers are 0 and absent names "".  A header name is a pair of   *)
(* its canonical form and its spelling; a path template is a sequence of   *)
(* segments in which "*" is a capture.  Durations are in seconds.          *)
(***************************************************************************)
EXTENDS Integers, FiniteSets, Sequences

CONSTANTS FirstDocument,         \* a document that is accepted
          UpstreamValues,        \* edits: the values of the fields of the upstream
          ModelValues,           \* edits: the values of the fields of a model
          Models, Catalogs, ProfileValues,
          Limits, Slots,         \* edits: the limits and their places in the plan
          FeatureValues, RouteValues, Routes,
          Paths                  \* provider paths a request may name

VARIABLES document,
          legacy,                \* compiled before response header timeouts existed
          verdict

vars == <<document, legacy, verdict>>

Stages == {"connect", "responseHeader", "firstByte", "idle"}
TimeoutNames == Stages \cup {"total"}
Longest == 600                   \* ten minutes
MaximumCapacity == 9             \* stands for the largest bucket

-----------------------------------------------------------------------------
(* Defaults. *)

DefaultTimeouts ==
    [connect |-> 5, responseHeader |-> 30, firstByte |-> 30, idle |-> 60, total |-> 120]

DefaultPort(scheme) == IF scheme = "https" THEN 443 ELSE 80

UpstreamDefaults(u) ==
    [u EXCEPT !.timeouts = [n \in TimeoutNames |-> IF @[n] = 0 THEN DefaultTimeouts[n] ELSE @[n]],
              !.ports = IF @ = {} THEN {DefaultPort(u.scheme)} ELSE @]

InferredCapabilities(type) ==
    CASE type = "openai_compatible" -> {"openai_responses", "openai_chat", "openai_embeddings"}
      [] type = "anthropic" -> {"anthropic_messages"}
      [] type = "generic" -> {"opaque_http"}

InferredAlgorithm(l) ==
    IF l.capacity # 0 THEN "token_bucket"
    ELSE IF l.perRequest # 0 THEN "per_request"
    ELSE IF l.metric \in {"concurrent_requests", "concurrent_streams"} THEN "concurrency"
    ELSE "calendar"

LimitDefaults(l) ==
    LET algorithm == IF l.algorithm = "" THEN InferredAlgorithm(l) ELSE l.algorithm
    IN  [l EXCEPT !.algorithm = algorithm,
                  !.treatment = IF l.metric = "cost_nano_usd" /\ @ = "" THEN "actual_attempts" ELSE @,
                  !.timezone = IF algorithm = "calendar" /\ @ = "" THEN "UTC" ELSE @]

WithDefaults(d) ==
    [d EXCEPT !.upstream = UpstreamDefaults(@),
              !.models = [m \in DOMAIN @ |->
                  IF @[m].capabilities = {}
                  THEN [@[m] EXCEPT !.capabilities = InferredCapabilities(d.upstream.type)] ELSE @[m]],
              !.plan = [i \in DOMAIN @ |-> LimitDefaults(@[i])]]

-----------------------------------------------------------------------------
(* Rules that both checks call. *)

RequiredUpstreamType(protocol) ==
    CASE protocol \in {"openai_responses", "openai_chat", "openai_embeddings"} -> "openai_compatible"
      [] protocol = "anthropic_messages" -> "anthropic"
      [] protocol = "opaque_http" -> "generic"

\* The schemes and hosts a base url may have; local names never.
BaseURLValid(u) == u.scheme \in {"http", "https"} /\ u.host # "local"

\* A private literal address lies in a range that was allowed explicitly.
PrivateRangesValid(u) == u.ranges # {} => u.private /\ "public" \notin u.ranges
DestinationValid(u) == u.host = "private" => u.private /\ "private" \in u.ranges

RequiresOutput(protocol) == protocol \in {"openai_responses", "openai_chat", "anthropic_messages"}

\* The pairs of metric and algorithm that are enforced end to end.
SupportsEnforcement(metric, algorithm) ==
    CASE metric = "logical_requests" -> algorithm \in {"calendar", "token_bucket"}
      [] metric \in {"upstream_attempts", "input_tokens", "output_tokens", "total_tokens"} ->
             algorithm \in {"calendar", "token_bucket", "per_request"}
      [] metric = "cost_nano_usd" -> algorithm = "calendar"
      [] metric \in {"concurrent_requests", "concurrent_streams"} -> algorithm = "concurrency"
      [] metric \in {"request_bytes", "image_units", "tool_calls"} -> algorithm = "per_request"
      [] OTHER -> FALSE

CalendarWindow(w) == w \in {"1h", "1d"}
CalendarTimezone(z) == z \in {"", "UTC", "Europe/Paris"}

\* normalizeExecutableLimit: whether the release can enforce the limit.
Executable(l) ==
    /\ l.hard /\ SupportsEnforcement(l.metric, l.algorithm)
    /\ CASE l.algorithm = "calendar" ->
                /\ l.maximum > 0 /\ CalendarWindow(l.window) /\ CalendarTimezone(l.timezone)
                /\ l.perRequest = 0 /\ l.capacity = 0 /\ l.refill = 0
         [] l.algorithm = "token_bucket" ->
                /\ l.window = "" /\ l.timezone = "" /\ l.maximum = 0 /\ l.perRequest = 0
                /\ l.capacity \in 1..MaximumCapacity /\ l.refill > 0
         [] l.algorithm = "per_request" ->
                /\ l.window = "" /\ l.timezone = "" /\ l.maximum = 0 /\ l.perRequest > 0
                /\ l.capacity = 0 /\ l.refill = 0
         [] l.algorithm = "concurrency" ->
                /\ l.window = "" /\ l.timezone = "" /\ l.maximum > 0 /\ l.perRequest = 0
                /\ l.capacity = 0 /\ l.refill = 0
    /\ l.scope # {}
    /\ IF l.metric = "cost_nano_usd"
       THEN l.treatment = "initial_attempt_only" => "user" \in l.scope
       ELSE l.treatment = ""

\* What makes two limits of a plan the same rule.
LimitIdentity(l) == <<l.metric, l.algorithm, l.window, l.timezone, l.scope>>

PresentLimits(d) == {i \in DOMAIN d.plan : d.plan[i].metric # ""}
LimitsOf(d) == {d.plan[i] : i \in PresentLimits(d)}

\* Forgiving retries to a user needs a rule that accounts for them elsewhere.
ValidCostRetryPlan(limits) ==
    (\E l \in limits : l.metric = "cost_nano_usd" /\ l.treatment = "initial_attempt_only") =>
        \E l \in limits : /\ l.metric = "cost_nano_usd" /\ l.treatment = "actual_attempts"
                          /\ "organization" \in l.scope /\ "user" \notin l.scope

RequiresCostPricing(d) == \E l \in LimitsOf(d) : l.metric = "cost_nano_usd"

-----------------------------------------------------------------------------
(* Path templates of opaque features. *)

\* A slip: a capture is compared like a literal.
OverlapOfLiterals(s, t) == s = t

\* Two templates overlap when some path matches both.
TemplatesOverlap(s, t) ==
    Len(s) = Len(t) /\ \A i \in 1..Len(s) : s[i] = "*" \/ t[i] = "*" \/ s[i] = t[i]

PathMatches(path, t) ==
    Len(path) = Len(t) /\ \A i \in 1..Len(t) : t[i] = "*" \/ t[i] = path[i]

TemplateValid(t) == Len(t) > 0 /\ \A i \in 1..Len(t) : t[i] \notin {"", ".."}
PrefixValid(p) == p # "bad"

TemplatesValid(templates) ==
    /\ templates # {} /\ \A t \in templates : TemplateValid(t)
    /\ \A s, t \in templates : s # t => ~TemplatesOverlap(s, t)

-----------------------------------------------------------------------------
(* The headers of an upstream. *)

SensitiveHeaders == {"authorization", "x-api-key"}
ForwardForbidden == SensitiveHeaders \cup {"host", "x-latchway-plan"}
StaticForbidden == ForwardForbidden \cup {"accept"}
CredentialForbidden == {"accept", "host", "x-latchway-plan"}

CanonicalNames(names) == {n[1] : n \in names}
UniqueIgnoringCase(names) == \A m, n \in names : m[1] = n[1] => m = n

-----------------------------------------------------------------------------
(* The semantic checks. *)

TimeoutsSound(t) == \A n \in Stages : t[n] \in 1..t.total /\ t.total <= Longest

UpstreamSound(u) ==
    /\ PrivateRangesValid(u) /\ BaseURLValid(u)
    /\ u.port \in u.ports /\ DestinationValid(u)
    /\ ~u.redirects /\ u.pinning
    /\ UniqueIgnoringCase(u.credentials)
    /\ CanonicalNames(u.static) \cap (SensitiveHeaders \cup CanonicalNames(u.credentials)) = {}
    /\ TimeoutsSound(u.timeouts)

\* The smallest request of the profile's protocol fits the model's context.
ContextPossible(p) == p.framing + p.perMessage + p.body + p.output <= p.context

ModelSound(d, m) ==
    LET x == d.models[m]
    IN  /\ \A c \in x.capabilities : d.upstream.type = RequiredUpstreamType(c)
        /\ x.pricing # "" => x.pricing \in DOMAIN d.catalogs /\ m \in d.catalogs[x.pricing]
        /\ x.profile # "" => /\ x.profile = "profile" /\ d.profile.model = x.physical
                             /\ d.profile.protocol \in x.capabilities

PricingSound(d) == \A c \in DOMAIN d.catalogs : d.catalogs[c] \subseteq DOMAIN d.models

\* Which fields belong to the algorithm of a limit.
LimitFieldsSound(l) ==
    CASE l.algorithm = "calendar" ->
             l.window # "" /\ l.maximum # 0 /\ l.capacity = 0 /\ l.refill = 0 /\ l.perRequest = 0
      [] l.algorithm = "token_bucket" ->
             /\ l.capacity # 0 /\ l.refill # 0
             /\ l.window = "" /\ l.timezone = "" /\ l.maximum = 0 /\ l.perRequest = 0
      [] l.algorithm = "concurrency" ->
             /\ l.metric \in {"concurrent_requests", "concurrent_streams"} /\ l.maximum # 0
             /\ l.window = "" /\ l.timezone = "" /\ l.capacity = 0 /\ l.refill = 0 /\ l.perRequest = 0
      [] l.algorithm = "per_request" ->
             /\ l.perRequest # 0
             /\ l.window = "" /\ l.timezone = "" /\ l.maximum = 0 /\ l.capacity = 0 /\ l.refill = 0

LimitsSound(d) ==
    /\ \A l \in LimitsOf(d) : LimitFieldsSound(l) /\ Executable(l)
    /\ \A i, j \in PresentLimits(d) : LimitIdentity(d.plan[i]) = LimitIdentity(d.plan[j]) => i = j
    /\ ValidCostRetryPlan(LimitsOf(d))

EffectiveTimeouts(t, overrides) == [n \in TimeoutNames |-> IF overrides[n] = 0 THEN t[n] ELSE overrides[n]]

\* A slip: an override is compared with the total of the upstream, not the route's own.
RouteTimeoutsOfUpstream(t, overrides) ==
    \A n \in Stages : EffectiveTimeouts(t, overrides)[n] <= t.total

RouteTimeoutsSound(t, overrides) ==
    LET values == EffectiveTimeouts(t, overrides)
    IN  values.total <= Longest /\ \A n \in Stages : values[n] \in 1..values.total

OpaquePolicySound(f) ==
    /\ f.prefixes = {} \/ f.templates = {}
    /\ \A p \in f.prefixes : PrefixValid(p)
    /\ f.templates # {} => TemplatesValid(f.templates)
    /\ CanonicalNames(f.forwarded) \cap ForwardForbidden = {}
    /\ UniqueIgnoringCase(f.forwarded)

RetrySound(r) ==
    r.retries => r.backoff <= r.maximumBackoff /\ (r.backoff = 0 => r.maximumBackoff = 0)

RouteSound(d, f, r) ==
    /\ IF f.protocol = "opaque_http" THEN r.response > 0 ELSE r.response = 0 /\ ~r.streaming
    /\ RetrySound(r)
    /\ r.model \in DOMAIN d.models
    /\ f.protocol \in d.models[r.model].capabilities
    /\ RouteTimeoutsSound(d.upstream.timeouts, r.timeouts)
    /\ RequiresCostPricing(d) => d.models[r.model].pricing # ""

StickyByPriority(f) ==
    \A i, j \in DOMAIN f.routes :
        f.routes[i].priority = f.routes[j].priority => f.routes[i].sticky = f.routes[j].sticky

FeatureSound(d) ==
    LET f == d.feature
    IN  /\ f.opaque = (f.protocol = "opaque_http")
        /\ f.opaque => OpaquePolicySound(f)
        /\ IF RequiresOutput(f.protocol) THEN f.output \in 1..f.absolute ELSE f.output = 0
        /\ \A i \in DOMAIN f.routes : RouteSound(d, f, f.routes[i])
        /\ StickyByPriority(f)

SemanticsSound(d) ==
    /\ UpstreamSound(d.upstream)
    /\ ContextPossible(d.profile)
    /\ \A m \in DOMAIN d.models : ModelSound(d, m)
    /\ PricingSound(d)
    /\ LimitsSound(d)
    /\ FeatureSound(d)

-----------------------------------------------------------------------------
(* The loader of the data plane. *)

\* Revisions compiled before response header timeouts existed used the first
\* byte's for the headers, and the idle one for the first byte.
RuntimeTimeouts(t, old) ==
    IF old THEN [t EXCEPT !.responseHeader = t.firstByte, !.firstByte = t.idle] ELSE t

RuntimeTimeoutsValid(t) ==
    /\ \A n \in TimeoutNames : t[n] > 0
    /\ t.total <= Longest /\ \A n \in Stages : t[n] <= t.total

RuntimeUpstream(u, old) ==
    /\ BaseURLValid(u) /\ (u.scheme = "http" => u.insecure)
    /\ CASE u.authentication = "none" -> u.credentials = {}
         [] u.authentication = "bearer" -> u.credentials = {}
         [] u.authentication = "header" -> Cardinality(u.credentials) = 1
         [] u.authentication = "headers" -> u.credentials # {} /\ UniqueIgnoringCase(u.credentials)
    /\ CanonicalNames(u.credentials) \cap CredentialForbidden = {}
    /\ RuntimeTimeoutsValid(RuntimeTimeouts(u.timeouts, old))
    /\ PrivateRangesValid(u) /\ ~u.redirects /\ u.pinning /\ u.ports # {} /\ DestinationValid(u)
    /\ u.port \in u.ports
    /\ CanonicalNames(u.static) \cap (StaticForbidden \cup CanonicalNames(u.credentials)) = {}
    /\ UniqueIgnoringCase(u.static)
    /\ u.reported => u.type = "openai_compatible"

RuntimeModel(d, m) ==
    LET x == d.models[m]
    IN  /\ x.capabilities # {}
        /\ \A c \in x.capabilities : d.upstream.type = RequiredUpstreamType(c)
        /\ x.profile # "" => /\ x.profile = "profile" /\ d.profile.model = x.physical
                             /\ d.profile.protocol \in x.capabilities
        /\ x.pricing # "" => x.pricing \in DOMAIN d.catalogs /\ m \in d.catalogs[x.pricing]

\* Field presence, which the decoder keeps, decides before values do.
RuntimeLimit(l) ==
    /\ CASE l.algorithm = "calendar" ->
                l.window # "" /\ l.maximum # 0 /\ l.perRequest = 0 /\ l.capacity = 0 /\ l.refill = 0
         [] l.algorithm = "token_bucket" ->
                /\ l.capacity # 0 /\ l.refill # 0 /\ l.window = "" /\ l.timezone = ""
                /\ l.maximum = 0 /\ l.perRequest = 0
         [] l.algorithm = "per_request" ->
                /\ l.perRequest # 0 /\ l.window = "" /\ l.timezone = "" /\ l.maximum = 0
                /\ l.capacity = 0 /\ l.refill = 0
         [] l.algorithm = "concurrency" ->
                /\ l.maximum # 0 /\ l.window = "" /\ l.timezone = "" /\ l.perRequest = 0
                /\ l.capacity = 0 /\ l.refill = 0
    /\ Executable(l)

RuntimeLimitPlan(d) ==
    /\ LimitsOf(d) # {} /\ \A l \in LimitsOf(d) : RuntimeLimit(l)
    /\ \A i, j \in PresentLimits(d) : LimitIdentity(d.plan[i]) = LimitIdentity(d.plan[j]) => i = j
    /\ ValidCostRetryPlan(LimitsOf(d))

RuntimeRetryPolicy(r) ==
    r.retries => r.maximumBackoff >= r.backoff /\ ~(r.backoff = 0 /\ r.maximumBackoff # 0)

\* The timeouts of a route are laid over those the loader gave its upstream.
RuntimeRouteTimeouts(t, overrides) == RuntimeTimeoutsValid(EffectiveTimeouts(t, overrides))

RuntimeRoute(d, f, r, old) ==
    /\ r.model \in DOMAIN d.models /\ f.protocol \in d.models[r.model].capabilities
    /\ IF f.protocol = "opaque_http" THEN r.response > 0 ELSE r.response = 0 /\ ~r.streaming
    /\ RuntimeRetryPolicy(r)
    /\ RuntimeRouteTimeouts(RuntimeTimeouts(d.upstream.timeouts, old), r.timeouts)

RuntimeOpaquePolicy(f) ==
    /\ (f.prefixes = {}) # (f.templates = {})
    /\ \A p \in f.prefixes : PrefixValid(p)
    /\ f.templates # {} => TemplatesValid(f.templates)
    /\ CanonicalNames(f.forwarded) \cap ForwardForbidden = {} /\ UniqueIgnoringCase(f.forwarded)

RuntimeFeature(d, old) ==
    LET f == d.feature
    IN  /\ IF RequiresOutput(f.protocol) THEN f.output \in 1..f.absolute ELSE f.output = 0
        /\ \A i \in DOMAIN f.routes : RuntimeRoute(d, f, f.routes[i], old)
        /\ StickyByPriority(f)
        /\ f.opaque = (f.protocol = "opaque_http") /\ (f.opaque => RuntimeOpaquePolicy(f))

RuntimeQuotaAccounting(d) ==
    RequiresCostPricing(d) =>
        \A i \in DOMAIN d.feature.routes :
            LET m == d.feature.routes[i].model
            IN  /\ m \in DOMAIN d.models /\ d.models[m].pricing \in DOMAIN d.catalogs
                /\ m \in d.catalogs[d.models[m].pricing]

Loads(d, old) ==
    /\ RuntimeUpstream(d.upstream, old)
    /\ ContextPossible(d.profile)
    /\ \A m \in DOMAIN d.models : RuntimeModel(d, m)
    /\ \A c \in DOMAIN d.catalogs : d.catalogs[c] # {} /\ d.catalogs[c] \subseteq DOMAIN d.models
    /\ RuntimeLimitPlan(d)
    /\ RuntimeFeature(d, old)
    /\ RuntimeQuotaAccounting(d)

-----------------------------------------------------------------------------
(* What the data plane asks of a decision before it reserves anything, a    *)
(* third text of the same rules (dataplane/handler.go).                      *)

\* What can be measured of a request of a protocol.
ProtocolSupportsLimitMetric(protocol, metric) ==
    CASE metric \in {"input_tokens", "total_tokens", "image_units", "tool_calls"} -> protocol # "opaque_http"
      [] metric \in {"output_tokens", "concurrent_streams"} -> RequiresOutput(protocol)
      [] OTHER -> TRUE

SupportedDecisionLimit(l) ==
    LET none == l.capacity = 0 /\ l.refill = 0
        tokens == {"input_tokens", "output_tokens", "total_tokens"}
        requests == {"logical_requests", "upstream_attempts"}
    IN  /\ l.metric # "cost_nano_usd" => l.treatment = ""
        /\ \/ /\ l.metric \in tokens \cup requests \cup {"cost_nano_usd"} /\ l.algorithm = "calendar"
              /\ CalendarWindow(l.window) /\ CalendarTimezone(l.timezone)
              /\ l.maximum > 0 /\ l.perRequest = 0 /\ none
              /\ l.treatment = "initial_attempt_only" => "user" \in l.scope
           \/ /\ l.metric \in tokens \cup requests /\ l.algorithm = "token_bucket"
              /\ l.window = "" /\ l.timezone = "" /\ l.maximum = 0 /\ l.perRequest = 0
              /\ l.capacity \in 1..MaximumCapacity /\ l.refill > 0
           \/ /\ l.metric \in tokens \cup {"upstream_attempts", "request_bytes", "image_units", "tool_calls"}
              /\ l.algorithm = "per_request"
              /\ l.window = "" /\ l.timezone = "" /\ l.maximum = 0 /\ l.perRequest > 0 /\ none
           \/ /\ l.metric \in {"concurrent_requests", "concurrent_streams"} /\ l.algorithm = "concurrency"
              /\ l.window = "" /\ l.timezone = "" /\ l.maximum > 0 /\ l.perRequest = 0 /\ none

ValidFeatureProtocolPolicy(f) ==
    IF f.protocol # "opaque_http" THEN ~f.opaque
    ELSE /\ f.opaque /\ (f.prefixes = {}) # (f.templates = {})
         /\ \A p \in f.prefixes : PrefixValid(p)
         /\ f.templates # {} => TemplatesValid(f.templates)
         /\ UniqueIgnoringCase(f.forwarded) /\ CanonicalNames(f.forwarded) \cap ForwardForbidden = {}

ValidateFeatureLimitPlan(d) ==
    LET f == d.feature
        costs == {l \in LimitsOf(d) : l.metric = "cost_nano_usd"}
    IN  /\ ValidFeatureProtocolPolicy(f)
        /\ IF RequiresOutput(f.protocol) THEN f.output \in 1..f.absolute ELSE f.output = 0
        /\ LimitsOf(d) # {}
        /\ \A l \in LimitsOf(d) : /\ l.hard /\ l.scope # {} /\ SupportedDecisionLimit(l)
                                 /\ ProtocolSupportsLimitMetric(f.protocol, l.metric)
        /\ \A i, j \in PresentLimits(d) : LimitIdentity(d.plan[i]) = LimitIdentity(d.plan[j]) => i = j
        /\ (\E l \in costs : l.treatment = "initial_attempt_only") =>
               \E l \in costs : /\ l.treatment # "initial_attempt_only"
                               /\ "organization" \in l.scope /\ "user" \notin l.scope

ValidateDecision(d, r, old) ==
    LET f == d.feature
        t == EffectiveTimeouts(RuntimeTimeouts(d.upstream.timeouts, old), r.timeouts)
    IN  /\ RetrySound(r)
        /\ IF f.protocol = "opaque_http" THEN r.response > 0 ELSE r.response = 0 /\ ~r.streaming
        /\ f.protocol \in d.models[r.model].capabilities
        /\ d.upstream.type = RequiredUpstreamType(f.protocol)
        /\ d.upstream.reported => d.upstream.type = "openai_compatible"
        /\ RuntimeTimeoutsValid(t)
        /\ ValidateFeatureLimitPlan(d)

-----------------------------------------------------------------------------
(* Validate, and the edits of a document. *)

\* What the schema asks for before any of this.
InSchema(d) ==
    /\ d.upstream.scheme = "http" => d.upstream.insecure
    /\ d.upstream.reported => d.upstream.type = "openai_compatible"
    /\ CASE d.upstream.authentication = "header" -> Cardinality(d.upstream.credentials) = 1
         [] d.upstream.authentication = "headers" -> d.upstream.credentials # {}
         [] OTHER -> d.upstream.credentials = {}
    /\ d.feature.opaque => (d.feature.prefixes # {} \/ d.feature.templates # {})
    /\ LimitsOf(d) # {}
    /\ \A c \in DOMAIN d.catalogs : d.catalogs[c] # {}

Verdict(d) ==
    IF ~InSchema(document) \/ ~SemanticsSound(d) THEN "refused"
    ELSE IF Loads(d, FALSE) THEN "accepted" ELSE "unloadable"

Validate ==
    /\ ~legacy /\ verdict' = Verdict(WithDefaults(document))
    /\ UNCHANGED <<document, legacy>>

\* An edit before the document is validated; edits of one that was validated
\* (ReplaceDraft makes it unvalidated again) lead to the same documents.
Edited(d) == verdict = "unchecked" /\ document' = d /\ UNCHANGED <<verdict, legacy>>

EditUpstream ==
    \E field \in DOMAIN UpstreamValues : \E value \in UpstreamValues[field] :
        Edited([document EXCEPT !.upstream[field] = value])

EditModel ==
    \E m \in Models, field \in DOMAIN ModelValues : \E value \in ModelValues[field] :
        Edited([document EXCEPT !.models[m][field] = value])

EditCatalog ==
    \E c \in Catalogs, entries \in SUBSET Models : Edited([document EXCEPT !.catalogs[c] = entries])

EditProfile ==
    \E field \in DOMAIN ProfileValues : \E value \in ProfileValues[field] :
        Edited([document EXCEPT !.profile[field] = value])

EditLimit == \E i \in Slots, l \in Limits : Edited([document EXCEPT !.plan[i] = l])

EditFeature ==
    \E field \in DOMAIN FeatureValues : \E value \in FeatureValues[field] :
        Edited([document EXCEPT !.feature[field] = value])

EditRoute ==
    \E i \in Routes, field \in DOMAIN RouteValues : \E value \in RouteValues[field] :
        Edited([document EXCEPT !.feature.routes[i][field] = value])

Init ==
    /\ document = FirstDocument /\ verdict = "unchecked"
    /\ legacy \in BOOLEAN

Next ==
    \/ EditUpstream \/ EditModel \/ EditCatalog \/ EditProfile
    \/ EditLimit \/ EditFeature \/ EditRoute
    \/ Validate

Spec == Init /\ [][Next]_vars

-----------------------------------------------------------------------------
(* Properties. *)

TypeOK ==
    /\ verdict \in {"unchecked", "refused", "accepted", "unloadable"}
    /\ legacy \in BOOLEAN
    /\ Models \subseteq DOMAIN document.models /\ Catalogs \subseteq DOMAIN document.catalogs
    /\ document.upstream.ports \subseteq Nat

\* The two texts agree but for headers: a document that passes every semantic
\* check and that the loader refuses sets a static or a credential header the
\* semantic check does not know to be reserved, or spells one static header in
\* two ways.
ChecksAgreeOnServing ==
    verdict = "unloadable" =>
        LET u == document.upstream
        IN  \/ CanonicalNames(u.static) \cap (StaticForbidden \ SensitiveHeaders) # {}
            \/ CanonicalNames(u.credentials) \cap CredentialForbidden # {}
            \/ ~UniqueIgnoringCase(u.static)

\* Whatever is loaded, by an earlier release or this one, can be served: the
\* data plane finds nothing to refuse in any route, costs can be computed when
\* any plan limits them, no path belongs to two templates, no client may
\* replace a credential, and the routes of one priority are chosen by one key.
\* (Whether a limit can be measured for the protocol is not asked before a
\* request selects the plan, so that such a plan is left out here.)
LoadedFeaturesServe ==
    LET d == WithDefaults(document)
        f == d.feature
        measurable == \A l \in LimitsOf(d) : ProtocolSupportsLimitMetric(f.protocol, l.metric)
    IN  Loads(d, legacy) =>
            /\ \A i \in DOMAIN f.routes :
                   /\ measurable => ValidateDecision(d, f.routes[i], legacy)
                   /\ RequiresCostPricing(d) => f.routes[i].model \in d.catalogs[d.models[f.routes[i].model].pricing]
            /\ f.opaque => \A path \in Paths : Cardinality({t \in f.templates : PathMatches(path, t)}) <= 1
            /\ CanonicalNames(f.forwarded) \cap SensitiveHeaders = {}
            /\ \A i, j \in DOMAIN f.routes :
                   f.routes[i].priority = f.routes[j].priority => f.routes[i].sticky = f.routes[j].sticky

=============================================================================
