------------------------------ MODULE MCConfiguration ------------------------------
(***************************************************************************)
(* The configuration of an environment, checked in one run: two            *)
(* administrators at work on one environment's revisions, with drafts that *)
(* are edited twice, the same with a user whose plan is overridden,        *)
(* promotion between two environments, the cache of active snapshots with  *)
(* two requests and at its limits, and what the checks make of trust and   *)
(* serving documents edited one field at a time.                           *)
(* Each behaviour is one of one part, chosen at the start; the revisions   *)
(* of the first keep their initial value in the others.                    *)
(***************************************************************************)
EXTENDS ConfigurationRevisions, Integers, Sequences, TLC

CONSTANTS x1, x2, p1, p2, s1, u1, k1, k2, None

VARIABLES part,
          row, live, kept, granted, held, work,                      \* the second store
          pointer, moves, pending, entries, bytes, refresh, reading, \* the cache
          document, verdict, legacy                                  \* a document at hand

\* A document with both plans, and one without the second and with the secret;
\* without its secret, validation refuses the latter.
SomeDocuments == {[plans |-> {p1, p2}, refs |-> {}], [plans |-> {p1}, refs |-> {s1}]}

-----------------------------------------------------------------------------
(* Trust documents. *)

Provider == [type |-> "firebase", issuer |-> "", project |-> "good", jwks |-> "", static |-> "",
             symmetric |-> "", acknowledged |-> FALSE, algorithms |-> {}, audiences |-> 0,
             claims |-> 0, mandatory |-> FALSE]
ProviderChoices == [type |-> {"firebase", "supabase", "clerk", "generic_oidc", "custom_jwt"},
             issuer |-> {"", "good", "bad", "derived"}, jwks |-> {"", "good"}, static |-> {"", "s1"},
             symmetric |-> {"", "s1"}, acknowledged |-> BOOLEAN,
             algorithms |-> {{}, {"RS256"}, {"HS256"}, {"RS256", "ES256"}, {"RS256", "HS256"}},
             audiences |-> {0, 1, 2}, claims |-> {0, 1, 2}, mandatory |-> BOOLEAN]
Lifetimes == [access : {59, 60, 600, 3600, 3601}, challenge : {29, 30, 600, 601}, refresh : {3599, 3600, 3601, 7776001}]
SoundSession == [access |-> 600, challenge |-> 300, refresh |-> 86400]

Selection == [provider |-> "app_attest", mode |-> "required", trust |-> "", secret |-> "",
              conf |-> "app_attest", identifier |-> "b1", strong |-> FALSE, development |-> FALSE,
              testing |-> FALSE, credential |-> "", origins |-> {}, dangerous |-> FALSE, callers |-> {}]
Turnstile == [Selection EXCEPT !.provider = "turnstile", !.conf = "turnstile", !.secret = "s1",
                               !.identifier = "", !.origins = {"o1"}]
Play == [Selection EXCEPT !.provider = "play_integrity", !.conf = "play_integrity",
                          !.identifier = "p1", !.credential = "metadata"]
Choices(policy, platform, selections) ==
    {[policy |-> policy, platform |-> platform, selection |-> s] : s \in selections}
WebChoices ==
    Choices("main", "web",
        {None, Turnstile, [Turnstile EXCEPT !.origins = {"o1", "o2"}], [Turnstile EXCEPT !.origins = {}],
         [Turnstile EXCEPT !.origins = {"local"}], [Turnstile EXCEPT !.secret = ""],
         [Turnstile EXCEPT !.secret = "s2"],
         [Turnstile EXCEPT !.mode = "disabled", !.origins = {}, !.secret = ""],
         [Turnstile EXCEPT !.provider = "debug", !.conf = "none", !.dangerous = TRUE,
                           !.origins = {"o1", "o2"}],
         [Turnstile EXCEPT !.provider = "debug", !.conf = "none", !.origins = {"o1"}],
         [Turnstile EXCEPT !.trust = "app_verified"], [Turnstile EXCEPT !.callers = {"web"}]})
    \cup Choices("other", "web", {None, Turnstile, [Turnstile EXCEPT !.mode = "preferred"]})
Definition == [id |-> "w1", platform |-> "web", kind |-> "browser", role |-> "root", bundles |-> {},
               packages |-> {}, origins |-> {"o1"}, strategy |-> "direct", provider |-> "turnstile",
               stepUp |-> FALSE, policy |-> "", delegated |-> FALSE, parents |-> {}, lifetime |-> 0,
               children |-> FALSE, features |-> {"chat"}]
Delegate == [Definition EXCEPT !.id = "d1", !.role = "delegated", !.strategy = "delegated",
               !.provider = "", !.delegated = TRUE, !.parents = {"w1"}, !.lifetime = 3600,
               !.origins = {"o3"}]
WebDefinitions ==
    {Definition, [Definition EXCEPT !.origins = {"o1", "o2"}], [Definition EXCEPT !.origins = {"local"}],
     [Definition EXCEPT !.provider = "debug"], [Definition EXCEPT !.delegated = TRUE],
     [Definition EXCEPT !.id = "w2", !.origins = {"o2"}],
     [Definition EXCEPT !.id = "w2", !.origins = {"o2"}, !.provider = "debug"],
     [Definition EXCEPT !.id = "w2"], [Definition EXCEPT !.features = {"gone"}],
     [Definition EXCEPT !.strategy = "identity_only"],
     Delegate, [Delegate EXCEPT !.parents = {"d1"}], [Delegate EXCEPT !.parents = {"w1", "w2"}],
     [Delegate EXCEPT !.children = TRUE], [Delegate EXCEPT !.lifetime = 59],
     [Delegate EXCEPT !.lifetime = 30 * 86400 + 1], [Delegate EXCEPT !.role = "root"]}
NativeChoices ==
    Choices("main", "ios",
        {None, Selection, [Selection EXCEPT !.identifier = "b2"], [Selection EXCEPT !.callers = {"react-native"}],
         [Selection EXCEPT !.callers = {"android"}], [Selection EXCEPT !.development = TRUE],
         [Selection EXCEPT !.provider = "debug", !.conf = "none", !.secret = "s1", !.dangerous = TRUE],
         [Selection EXCEPT !.provider = "firebase_app_check", !.conf = "firebase_app_check"]})
    \cup Choices("main", "react_native_ios", {None, Selection})
    \cup Choices("main", "android", {None, [Play EXCEPT !.testing = TRUE],
         [Play EXCEPT !.credential = "service_account", !.strong = TRUE, !.trust = "strong_device_verified"]})
    \cup Choices("other", "ios", {None, [Selection EXCEPT !.mode = "preferred"]})
App == [Definition EXCEPT !.id = "a1", !.platform = "ios", !.kind = "main_app", !.bundles = {"b1"},
               !.origins = {}, !.provider = "app_attest"]
Extension == [App EXCEPT !.id = "x1", !.kind = "action_extension", !.role = "delegated", !.strategy = "delegated",
               !.provider = "", !.delegated = TRUE, !.parents = {"a1"}, !.lifetime = 3600, !.bundles = {"b2"},
               !.stepUp = TRUE, !.policy = "other"]
NativeDefinitions ==
    {App, [App EXCEPT !.bundles = {"b1", "b2"}], [App EXCEPT !.provider = "firebase_app_check"],
     [App EXCEPT !.provider = "debug"],
     [App EXCEPT !.id = "a2", !.bundles = {"b2"}, !.provider = "debug"],
     [App EXCEPT !.id = "a2", !.platform = "react_native_ios"], [App EXCEPT !.id = "a2"],
     [App EXCEPT !.id = "a2", !.platform = "android", !.kind = "android_app", !.bundles = {},
                 !.packages = {"p1"}, !.provider = "play_integrity"],
     Extension, [Extension EXCEPT !.bundles = {"b1"}], [Extension EXCEPT !.policy = "gone"],
     [Extension EXCEPT !.kind = "main_app"]}
Nothing == [d \in {1, 2} |-> None]
WebDocument == [provider |-> Provider, session |-> SoundSession, features |-> {"chat"},
    definitions |-> Nothing, policies |-> ("main" :> ("web" :> Turnstile)) @@ ("other" :> ("node" :> [Selection EXCEPT !.provider = "debug", !.conf = "none", !.secret = "s1", !.mode = "preferred", !.dangerous = TRUE]))]
NativeDocument == [WebDocument EXCEPT !.policies = ("main" :> ("ios" :> Selection)) @@ ("other" :> ("ios" :> [Selection EXCEPT !.mode = "preferred", !.identifier = "b2"]))]

-----------------------------------------------------------------------------
(* Serving documents. *)

Unset == [connect |-> 0, responseHeader |-> 0, firstByte |-> 0, idle |-> 0, total |-> 0]
Upstream == [type |-> "openai_compatible", scheme |-> "https", host |-> "public", port |-> 443, ports |-> {},
             insecure |-> FALSE, private |-> FALSE, ranges |-> {}, redirects |-> FALSE, pinning |-> TRUE,
             authentication |-> "bearer", credentials |-> {}, static |-> {}, timeouts |-> Unset, reported |-> FALSE]
Model == [capabilities |-> {}, pricing |-> "", profile |-> "", physical |-> "gpt"]
Absent == [metric |-> "", algorithm |-> "", window |-> "", timezone |-> "", maximum |-> 0, perRequest |-> 0,
           capacity |-> 0, refill |-> 0, scope |-> {"user"}, treatment |-> "", hard |-> TRUE]
Daily == [Absent EXCEPT !.metric = "logical_requests", !.window = "1d", !.maximum = 5]
Cost == [Daily EXCEPT !.metric = "cost_nano_usd"]
ServingLimits == {Absent, Daily, [Daily EXCEPT !.timezone = "Europe/Paris"],
    [Daily EXCEPT !.timezone = "UTC", !.algorithm = "calendar"],
    [Daily EXCEPT !.maximum = 0], [Daily EXCEPT !.hard = FALSE],
    [Daily EXCEPT !.scope = {}], [Daily EXCEPT !.scope = {"organization"}],
    [Absent EXCEPT !.metric = "logical_requests", !.capacity = 9, !.refill = 1],
    [Absent EXCEPT !.metric = "logical_requests", !.capacity = 10, !.refill = 1],
    [Absent EXCEPT !.metric = "cost_nano_usd", !.capacity = 1, !.refill = 1],
    [Absent EXCEPT !.metric = "request_bytes", !.perRequest = 1, !.timezone = "UTC"],
    [Absent EXCEPT !.metric = "concurrent_streams", !.maximum = 1],
    [Absent EXCEPT !.metric = "concurrent_streams", !.maximum = 1, !.window = "1h"],
    [Absent EXCEPT !.metric = "logical_requests", !.algorithm = "concurrency", !.maximum = 1],
    [Daily EXCEPT !.metric = "output_tokens"], [Daily EXCEPT !.metric = "input_tokens"],
    [Absent EXCEPT !.metric = "output_tokens", !.capacity = 2, !.refill = 1],
    [Absent EXCEPT !.metric = "tool_calls", !.perRequest = 1], [Daily EXCEPT !.metric = "tool_calls"],
    Cost, [Cost EXCEPT !.treatment = "initial_attempt_only"],
    [Cost EXCEPT !.scope = {"organization"}], [Cost EXCEPT !.scope = {"user", "organization"}]}
Route == [model |-> "m1", priority |-> 1, sticky |-> "", timeouts |-> Unset, retries |-> FALSE, backoff |-> 0,
          maximumBackoff |-> 0, response |-> 0, streaming |-> FALSE]
Feature == [protocol |-> "openai_chat", opaque |-> FALSE, prefixes |-> {}, templates |-> {}, forwarded |-> {},
            output |-> 1, absolute |-> 2, routes |-> [i \in {1, 2} |-> Route]]
Profile == [model |-> "gpt", protocol |-> "openai_chat", framing |-> 1, perMessage |-> 1, body |-> 1, output |-> 1, context |-> 4]
Serving == [upstream |-> Upstream, models |-> [m \in {"m1", "m2"} |-> Model], catalogs |-> ("price" :> {"m1"}),
            profile |-> Profile, plan |-> [i \in {1, 2} |-> IF i = 1 THEN Daily ELSE Absent], feature |-> Feature]
Generic == [Serving EXCEPT !.upstream.type = "generic", !.feature.protocol = "opaque_http", !.feature.opaque = TRUE,
            !.feature.prefixes = {"files"}, !.feature.output = 0, !.profile.protocol = "opaque_http",
            !.feature.routes = [i \in {1, 2} |-> [Route EXCEPT !.response = 1]]]
Priced == [Serving EXCEPT !.plan = [i \in {1, 2} |-> IF i = 1 THEN Cost ELSE [Absent EXCEPT !.metric = "concurrent_requests", !.maximum = 1]],
           !.models = [m \in {"m1", "m2"} |-> [Model EXCEPT !.pricing = "price"]], !.catalogs["price"] = {"m1", "m2"}]
DestinationValues == [scheme |-> {"http", "https"}, host |-> {"public", "private", "local"}, port |-> {80, 443, 8443},
    ports |-> {{}, {443}, {443, 8443}}, insecure |-> BOOLEAN, private |-> BOOLEAN, ranges |-> {{}, {"private"}, {"public"}},
    redirects |-> BOOLEAN, pinning |-> BOOLEAN]
Bad == <<"x-api-key", "X-Api-Key">>
HeaderValues == [type |-> {"openai_compatible", "generic"}, reported |-> BOOLEAN, authentication |-> {"none", "bearer", "header", "headers"},
    credentials |-> {{}, {Bad}, {<<"x-key", "X-Key">>}, {<<"x-key", "X-Key">>, <<"x-key", "x-key">>},
                     {Bad, <<"x-key", "X-Key">>}, {<<"accept", "Accept">>}, {<<"host", "Host">>}},
    static |-> {{}, {<<"x-key", "x-key">>}, {<<"accept", "Accept">>}, {<<"x-tag", "X-Tag">>},
                {<<"x-tag", "X-Tag">>, <<"x-tag", "x-tag">>}, {<<"authorization", "Authorization">>}, {<<"host", "Host">>}}]
TimeoutValues == [timeouts |-> {Unset, [Unset EXCEPT !.total = 600], [Unset EXCEPT !.total = 601], [Unset EXCEPT !.total = 40],
    [Unset EXCEPT !.idle = 120], [Unset EXCEPT !.idle = 121], [Unset EXCEPT !.firstByte = 300, !.total = 300],
    [Unset EXCEPT !.responseHeader = 130], [Unset EXCEPT !.connect = 601]}]
RouteTimeoutValues == [timeouts |-> TimeoutValues.timeouts \cup {[Unset EXCEPT !.idle = 40], [Unset EXCEPT !.total = 5],
    [connect |-> 5, responseHeader |-> 5, firstByte |-> 5, idle |-> 5, total |-> 5]}]
ForwardValues == [forwarded |-> {{}, {<<"x-tag", "X-Tag">>}, {<<"x-tag", "X-Tag">>, <<"x-tag", "x-tag">>}, {Bad}, {<<"host", "Host">>}},
    prefixes |-> {{}, {"files"}, {"bad"}}, opaque |-> BOOLEAN, output |-> {0, 1, 3}, protocol |-> {"openai_chat", "opaque_http", "openai_embeddings"},
    templates |-> {{}, {<<"v1", "*">>}, {<<"v1", "*">>, <<"*", "a">>}, {<<"v1", "*">>, <<"v2", "a">>}, {<<"v1", "*">>, <<"v1", "*", "a">>}, {<<"..">>}}]
RoutingValues == [model |-> {"m1", "m2"}, priority |-> {1, 2}, sticky |-> {"", "user"}]
RetryValues == [retries |-> BOOLEAN, backoff |-> {0, 1, 2}, maximumBackoff |-> {0, 1}, response |-> {0, 1}, streaming |-> BOOLEAN]
PricingValues == [pricing |-> {"", "price", "gone"}, profile |-> {"", "profile"}, capabilities |-> {{}, {"openai_chat"}, {"openai_embeddings"}, {"anthropic_messages"}}]
ProfileChoices == [protocol |-> {"openai_chat", "openai_embeddings"}, context |-> {3, 4}]
ServedPaths == {<<"v1", "a">>, <<"v1", "b">>, <<"v2", "a">>, <<"v1", "b", "a">>}

Overridden == INSTANCE ConfigurationRevisions WITH
    Users <- {u1}, Secrets <- {}, MaxEdits <- 1,
    Documents <- {[plans |-> {p1, p2}, refs |-> {}], [plans |-> {p1}, refs |-> {}]},
    revision <- row, active <- live, secret <- kept, override <- granted, lock <- held, call <- work
Promotion == INSTANCE ConfigurationRevisions WITH
    Admins <- {x1}, Environments <- {"staging", "production"}, Users <- {}, MaxEdits <- 1,
    MaxVersions <- 2,
    revision <- row, active <- live, secret <- kept, override <- granted, lock <- held, call <- work
Cached == INSTANCE SnapshotCache WITH
    Requests <- {x1, x2}, Keys <- {k1}, Revisions <- {1, 2}, Size <- [r \in {1, 2} |-> r],
    Capacity <- 2, MaxBytes <- 3, MaxMoves <- 2, active <- pointer, call <- reading
Limited == INSTANCE SnapshotCache WITH
    Requests <- {x1}, Keys <- {k1, k2}, Revisions <- {1, 2, 3}, Size <- [r \in {1, 2, 3} |-> r],
    Capacity <- 2, MaxBytes <- 2, MaxMoves <- 1, active <- pointer, call <- reading
CProviders == INSTANCE TrustConfiguration WITH
    Kind <- "production", Secrets <- {"s1"}, ProviderValues <- ProviderChoices, Selections <- {},
    Definitions <- {}, Slots <- {1, 2}, Sessions <- {}, SecureOrigins <- {"o1", "o2", "o3"},
    LoopbackOrigins <- {"local"}, MaximumClaims <- 2, FirstDocument <- WebDocument, None <- None
CWeb == INSTANCE TrustConfiguration WITH
    Kind <- "production", Secrets <- {"s1"}, ProviderValues <- << >>, Selections <- WebChoices,
    Definitions <- WebDefinitions, Slots <- {1, 2}, Sessions <- {},
    SecureOrigins <- {"o1", "o2", "o3"}, LoopbackOrigins <- {"local"}, MaximumClaims <- 2,
    FirstDocument <- WebDocument, None <- None
CNative == INSTANCE TrustConfiguration WITH
    Kind <- "production", Secrets <- {"s1"}, ProviderValues <- << >>, Selections <- NativeChoices,
    Definitions <- NativeDefinitions, Slots <- {1, 2}, Sessions <- {},
    SecureOrigins <- {"o1", "o2", "o3"}, LoopbackOrigins <- {"local"}, MaximumClaims <- 2,
    FirstDocument <- NativeDocument, None <- None
CLifetimes == INSTANCE TrustConfiguration WITH
    Kind <- "production", Secrets <- {"s1"}, ProviderValues <- << >>, Selections <- {},
    Definitions <- {}, Slots <- {1, 2}, Sessions <- Lifetimes, SecureOrigins <- {"o1", "o2", "o3"},
    LoopbackOrigins <- {"local"}, MaximumClaims <- 2, FirstDocument <- WebDocument, None <- None
SDestinations == INSTANCE ServingConfiguration WITH
    FirstDocument <- Serving, UpstreamValues <- DestinationValues, ModelValues <- << >>,
    Models <- {"m1", "m2"}, Catalogs <- {"price"}, ProfileValues <- << >>, Limits <- {},
    Slots <- {1, 2}, FeatureValues <- << >>, RouteValues <- << >>, Routes <- {1, 2},
    Paths <- ServedPaths
SHeaders == INSTANCE ServingConfiguration WITH
    FirstDocument <- Serving, UpstreamValues <- HeaderValues, ModelValues <- << >>,
    Models <- {"m1", "m2"}, Catalogs <- {"price"}, ProfileValues <- << >>, Limits <- {},
    Slots <- {1, 2}, FeatureValues <- << >>, RouteValues <- << >>, Routes <- {1, 2},
    Paths <- ServedPaths
STimeouts == INSTANCE ServingConfiguration WITH
    FirstDocument <- Serving, UpstreamValues <- TimeoutValues, ModelValues <- << >>,
    Models <- {"m1", "m2"}, Catalogs <- {"price"}, ProfileValues <- << >>, Limits <- {},
    Slots <- {1, 2}, FeatureValues <- << >>, RouteValues <- RouteTimeoutValues, Routes <- {1},
    Paths <- ServedPaths
SLimits == INSTANCE ServingConfiguration WITH
    FirstDocument <- Serving, UpstreamValues <- << >>, ModelValues <- << >>, Models <- {"m1", "m2"},
    Catalogs <- {"price"}, ProfileValues <- << >>, Limits <- ServingLimits, Slots <- {1, 2},
    FeatureValues <- [protocol |-> {"openai_chat", "openai_embeddings"}, output |-> {0, 1}],
    RouteValues <- << >>, Routes <- {1, 2}, Paths <- ServedPaths
SOpaque == INSTANCE ServingConfiguration WITH
    FirstDocument <- Generic, UpstreamValues <- << >>, ModelValues <- << >>, Models <- {"m1", "m2"},
    Catalogs <- {"price"}, ProfileValues <- << >>, Limits <- {}, Slots <- {1, 2},
    FeatureValues <- ForwardValues, RouteValues <- << >>, Routes <- {1, 2}, Paths <- ServedPaths
SRouting == INSTANCE ServingConfiguration WITH
    FirstDocument <- Priced, UpstreamValues <- << >>, ModelValues <- [pricing |-> {"", "price"}],
    Models <- {"m1", "m2"}, Catalogs <- {"price"}, ProfileValues <- << >>, Limits <- {Cost, Absent},
    Slots <- {1}, FeatureValues <- << >>, RouteValues <- RoutingValues, Routes <- {1, 2},
    Paths <- ServedPaths
SRetries == INSTANCE ServingConfiguration WITH
    FirstDocument <- Generic, UpstreamValues <- << >>, ModelValues <- << >>, Models <- {"m1", "m2"},
    Catalogs <- {"price"}, ProfileValues <- << >>, Limits <- {}, Slots <- {1, 2},
    FeatureValues <- [protocol |-> {"openai_chat", "opaque_http"}], RouteValues <- RetryValues,
    Routes <- {1}, Paths <- ServedPaths
SPrices == INSTANCE ServingConfiguration WITH
    FirstDocument <- Priced, UpstreamValues <- << >>, ModelValues <- PricingValues,
    Models <- {"m1"}, Catalogs <- {"price"}, ProfileValues <- ProfileChoices, Limits <- {},
    Slots <- {1, 2}, FeatureValues <- << >>, RouteValues <- << >>, Routes <- {1, 2},
    Paths <- ServedPaths

second == <<row, live, kept, granted, held, work>>
cacheVars == <<pointer, moves, pending, entries, bytes, refresh, reading>>
documentVars == <<document, verdict, legacy>>
allVars == <<vars, part, second, cacheVars, documentVars>>

Unused == "unused"
NoSecond ==
    /\ row = Unused /\ live = Unused /\ kept = Unused
    /\ granted = Unused /\ held = Unused /\ work = Unused
NoCache ==
    /\ pointer = Unused /\ moves = Unused /\ pending = Unused /\ entries = Unused
    /\ bytes = Unused /\ refresh = Unused /\ reading = Unused
NoDocument == document = Unused /\ verdict = Unused /\ legacy = Unused
OnlyTrust == NoSecond /\ NoCache /\ legacy = Unused
OnlyServing == NoSecond /\ NoCache

AllInit ==
    /\ Init
    /\ \/ part = "revisions" /\ NoSecond /\ NoCache /\ NoDocument
       \/ part = "overrides" /\ Overridden!Init /\ NoCache /\ NoDocument
       \/ part = "promotion" /\ Promotion!Init /\ NoCache /\ NoDocument
       \/ part = "cache" /\ Cached!Init /\ NoSecond /\ NoDocument
       \/ part = "cache limits" /\ Limited!Init /\ NoSecond /\ NoDocument
       \/ part = "providers" /\ CProviders!Init /\ OnlyTrust
       \/ part = "web" /\ CWeb!Init /\ OnlyTrust
       \/ part = "native" /\ CNative!Init /\ OnlyTrust
       \/ part = "lifetimes" /\ CLifetimes!Init /\ OnlyTrust
       \/ part = "destinations" /\ SDestinations!Init /\ OnlyServing
       \/ part = "headers" /\ SHeaders!Init /\ OnlyServing
       \/ part = "timeouts" /\ STimeouts!Init /\ OnlyServing
       \/ part = "limits" /\ SLimits!Init /\ OnlyServing
       \/ part = "opaque" /\ SOpaque!Init /\ OnlyServing
       \/ part = "routing" /\ SRouting!Init /\ OnlyServing
       \/ part = "retries" /\ SRetries!Init /\ OnlyServing
       \/ part = "prices" /\ SPrices!Init /\ OnlyServing

outsideDocument == <<vars, part, second, cacheVars>>

AllNext ==
    \/ part = "revisions" /\ Next /\ UNCHANGED <<part, second, cacheVars, documentVars>>
    \/ part = "overrides" /\ Overridden!Next /\ UNCHANGED <<vars, part, cacheVars, documentVars>>
    \/ part = "promotion" /\ Promotion!Next /\ UNCHANGED <<vars, part, cacheVars, documentVars>>
    \/ part = "cache" /\ Cached!Next /\ UNCHANGED <<vars, part, second, documentVars>>
    \/ part = "cache limits" /\ Limited!Next /\ UNCHANGED <<vars, part, second, documentVars>>
    \/ part = "providers" /\ CProviders!Next /\ UNCHANGED <<outsideDocument, legacy>>
    \/ part = "web" /\ CWeb!Next /\ UNCHANGED <<outsideDocument, legacy>>
    \/ part = "native" /\ CNative!Next /\ UNCHANGED <<outsideDocument, legacy>>
    \/ part = "lifetimes" /\ CLifetimes!Next /\ UNCHANGED <<outsideDocument, legacy>>
    \/ part = "destinations" /\ SDestinations!Next /\ UNCHANGED outsideDocument
    \/ part = "headers" /\ SHeaders!Next /\ UNCHANGED outsideDocument
    \/ part = "timeouts" /\ STimeouts!Next /\ UNCHANGED outsideDocument
    \/ part = "limits" /\ SLimits!Next /\ UNCHANGED outsideDocument
    \/ part = "opaque" /\ SOpaque!Next /\ UNCHANGED outsideDocument
    \/ part = "routing" /\ SRouting!Next /\ UNCHANGED outsideDocument
    \/ part = "retries" /\ SRetries!Next /\ UNCHANGED outsideDocument
    \/ part = "prices" /\ SPrices!Next /\ UNCHANGED outsideDocument

AllSpec == AllInit /\ [][AllNext]_allVars

Symmetry == Permutations({x1, x2}) \cup Permutations({k1, k2})

(***************************************************************************)
(* Properties, besides those of ConfigurationRevisions.                    *)
(***************************************************************************)
\* What is read is what was activated: the active revisions are sound also
\* while users have overrides, and while revisions are promoted and secrets
\* rotated; and a request reads, from a cache within its limits, one revision
\* of an environment in all its calls, which was active at some moment of the
\* first of them (internal/configuration/store.go:627, active_cache.go:235).
ActivatedIsRead ==
    /\ part = "overrides" => Overridden!ActiveIsSound
    /\ part = "promotion" => Promotion!ActiveIsSound
    /\ part = "cache" => Cached!ActiveWhenAsked /\ Cached!OneRevisionPerRequest
    /\ part = "cache limits" => Limited!WithinLimits /\ Limited!OneRevisionPerRequest

\* A document that the review accepts is one the loader of the data plane
\* accepts and serves: the two sets of checks, written twice (validate.go and
\* the runtime loaders), agree; every browser origin of a component finds its
\* root; every identity provider can verify; every opaque path has one route.
\* Left out, because the review accepts them: static and credential headers
\* that only the loader knows to be reserved, or one static header in two
\* spellings; identity providers with as many required claims or more
\* audiences than a verifier takes; plans that limit what the protocol does
\* not measure, which is found when a request selects them.
AcceptedServes ==
    /\ part = "providers" =>
       /\ CProviders!ChecksAgree /\ CProviders!LoadedRootsAreFound
       /\ CProviders!AcceptedProvidersVerify
    /\ part = "web" =>
       /\ CWeb!ChecksAgree /\ CWeb!LoadedRootsAreFound /\ CWeb!AcceptedProvidersVerify
    /\ part = "native" =>
       /\ CNative!ChecksAgree /\ CNative!LoadedRootsAreFound
       /\ CNative!AcceptedProvidersVerify
    /\ part = "lifetimes" =>
       /\ CLifetimes!ChecksAgree /\ CLifetimes!LoadedRootsAreFound
       /\ CLifetimes!AcceptedProvidersVerify
    /\ part = "destinations" =>
       /\ SDestinations!ChecksAgreeOnServing /\ SDestinations!LoadedFeaturesServe
    /\ part = "headers" =>
       /\ SHeaders!ChecksAgreeOnServing /\ SHeaders!LoadedFeaturesServe
    /\ part = "timeouts" =>
       /\ STimeouts!ChecksAgreeOnServing /\ STimeouts!LoadedFeaturesServe
    /\ part = "limits" =>
       /\ SLimits!ChecksAgreeOnServing /\ SLimits!LoadedFeaturesServe
    /\ part = "opaque" =>
       /\ SOpaque!ChecksAgreeOnServing /\ SOpaque!LoadedFeaturesServe
    /\ part = "routing" =>
       /\ SRouting!ChecksAgreeOnServing /\ SRouting!LoadedFeaturesServe
    /\ part = "retries" =>
       /\ SRetries!ChecksAgreeOnServing /\ SRetries!LoadedFeaturesServe
    /\ part = "prices" =>
       /\ SPrices!ChecksAgreeOnServing /\ SPrices!LoadedFeaturesServe
=============================================================================
