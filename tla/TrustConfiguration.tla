------------------------- MODULE TrustConfiguration -------------------------
(***************************************************************************)
(* The part of an environment's configuration that says whom to trust:     *)
(* identity providers, attestation policies, component definitions and     *)
(* session lifetimes (internal/configuration).  An administrator edits the *)
(* document; Validate runs the semantic checks (semantics.go) and then the *)
(* loader of the active snapshot (snapshot.go), which repeats most of them *)
(* in a second text because compiled revisions are loaded from storage.    *)
(* What is loaded is used to choose the root component of a client         *)
(* (model.go) and to build the verifier of an identity provider            *)
(* (session/coordinator.go, identity/presets.go).                          *)
(*                                                                         *)
(* Fields have the types of the schema and lists hold no duplicates, so    *)
(* lists are sets here.  Urls and names stand for the one thing the checks *)
(* ask of them.                                                            *)
(***************************************************************************)
EXTENDS Integers, FiniteSets

CONSTANTS Kind,                  \* the environment's kind
          Secrets,               \* the secrets it has
          ProviderValues,        \* edits: the values of an identity provider's fields
          Selections,            \* edits: a policy, a platform and a selection or None
          Definitions,           \* edits: the component definitions
          Slots,                 \* places of the list of component definitions
          Sessions,              \* edits: the session lifetimes
          SecureOrigins, LoopbackOrigins,
          MaximumClaims,         \* required claims and audiences a verifier takes
          FirstDocument, None

VARIABLES document,
          verdict                \* of Validate, or "unchecked" after an edit

vars == <<document, verdict>>

Apple   == {"ios", "react_native_ios", "watchos"}
Android == {"android", "react_native_android", "wearos"}
Minute  == 60
Hour    == 60 * Minute
Day     == 24 * Hour

\* Every selection of a document, with its policy and its platform.
Selected(d) == {<<p, f>> \in (DOMAIN d.policies) \X (Apple \cup Android \cup {"web", "node"}) :
                    f \in DOMAIN d.policies[p]}

-----------------------------------------------------------------------------
(* Defaults. *)

\* The least trust a selection asks for when it names none.
DefaultTrust(s, platform) ==
    IF s.conf = "play_integrity"
    THEN IF s.strong THEN "strong_device_verified" ELSE "device_verified"
    ELSE IF s.provider = "debug" THEN "debug"
    ELSE IF s.provider = "turnstile" \/ (s.provider = "firebase_app_check" /\ platform = "web") THEN "web_risk_verified"
    ELSE "app_verified"

\* The document as it is compiled: the defaults are filled in.
WithDefaults(d) ==
    [d EXCEPT !.policies =
        [p \in DOMAIN d.policies |-> [f \in DOMAIN d.policies[p] |->
            LET s == d.policies[p][f]
            IN  IF s.trust = "" THEN [s EXCEPT !.trust = DefaultTrust(s, f)] ELSE s]]]

-----------------------------------------------------------------------------
(* Identity providers: the semantic check. *)

Sources(p) == {n \in {"jwks", "static", "symmetric"} : p[n] # ""}
Asymmetric == {"RS256", "RS384", "RS512", "ES256", "ES384"}
Canonical(url) == url # "bad"

\* What each kind of provider may configure.
FirebaseSound(p) ==
    /\ p.issuer \in {"", "derived"} /\ p.audiences \in {0, 1}
    /\ Sources(p) = {} /\ p.algorithms \subseteq {"RS256"}

SupabaseSound(p) ==
    Canonical(p.project) /\ Sources(p) = {} /\ p.algorithms \subseteq {"RS256", "ES256"}

\* A slip: Clerk taken for a generic provider, which may sign with other algorithms.
ClerkSoundAnyAlgorithm(p) == "symmetric" \notin Sources(p)

ClerkSound(p) == "symmetric" \notin Sources(p) /\ p.algorithms \subseteq {"RS256"}

GenericSound(p) ==
    /\ "symmetric" \notin Sources(p) /\ Cardinality(Sources(p)) = 1
    /\ p.algorithms # {} /\ p.algorithms \subseteq Asymmetric

CustomSound(p) ==
    /\ Cardinality(Sources(p)) = 1
    /\ p.symmetric = "" => p.algorithms # {} /\ p.algorithms \subseteq Asymmetric

PresetSound(p) ==
    CASE p.type = "firebase" -> FirebaseSound(p)
      [] p.type = "supabase" -> SupabaseSound(p)
      [] p.type = "clerk" -> ClerkSound(p)
      [] p.type = "generic_oidc" -> GenericSound(p)
      [] p.type = "custom_jwt" -> CustomSound(p)

\* HS256, a symmetric secret and the acknowledged risk come together or not at all.
SymmetricSound(p) ==
    p.symmetric # "" \/ "HS256" \in p.algorithms =>
        /\ p.type = "custom_jwt" /\ p.symmetric # ""
        /\ p.algorithms = {"HS256"} /\ p.acknowledged

IdentitySound(p) ==
    /\ Canonical(p.issuer) /\ Canonical(p.jwks)
    /\ Cardinality(Sources(p)) <= 1
    /\ PresetSound(p)
    /\ SymmetricSound(p)

\* What the schema asks of a provider and of the policies before any of this.
ProviderInSchema(p) ==
    /\ p.type \in {"clerk", "generic_oidc", "custom_jwt"} => p.issuer # "" /\ p.audiences > 0
    /\ p.type \in {"generic_oidc", "custom_jwt"} => p.algorithms # {}
    /\ p.type = "supabase" => p.project # ""
    /\ p.claims <= MaximumClaims

InSchema(d) ==
    ProviderInSchema(d.provider) /\ \A p \in DOMAIN d.policies : DOMAIN d.policies[p] # {}

-----------------------------------------------------------------------------
(* Identity providers: the verifier that is built when a client signs in. *)

\* The matrix of key sources is asserted again, so that no source has to win.
KeySourcesValid(p) ==
    LET n == Cardinality(Sources(p))
    IN  CASE p.type \in {"firebase", "supabase"} -> n = 0
          [] p.type = "clerk" -> n <= 1 /\ p.symmetric = ""
          [] p.type = "generic_oidc" -> n = 1 /\ p.symmetric = ""
          [] p.type = "custom_jwt" -> n = 1

\* The checks of the verifier itself.
NewJWTVerifier(issuer, audiences, algorithms, claims) ==
    /\ issuer # "" /\ Canonical(issuer)
    /\ audiences \in 1..MaximumClaims
    /\ algorithms # {} /\ ("HS256" \in algorithms => algorithms = {"HS256"})
    /\ claims <= MaximumClaims

\* The mandatory claim of a preset is merged with the configured ones.
MergedClaims(p) == IF p.mandatory THEN p.claims ELSE p.claims + 1

OnlyRS256(p) == p.algorithms \subseteq {"RS256"}

NewFirebaseVerifier(p) ==
    /\ OnlyRS256(p) /\ p.issuer \in {"", "derived"} /\ p.audiences \in {0, 1} /\ p.jwks = ""
    /\ NewJWTVerifier("derived", 1, {"RS256"}, MergedClaims(p))

NewSupabaseVerifier(p) ==
    /\ p.jwks = "" /\ p.project # "" /\ Canonical(p.project)
    /\ p.algorithms \subseteq {"RS256", "ES256"}
    /\ NewJWTVerifier(IF p.issuer = "" THEN "derived" ELSE p.issuer,
                      IF p.audiences = 0 THEN 1 ELSE p.audiences,
                      IF p.algorithms = {} THEN {"RS256", "ES256"} ELSE p.algorithms, p.claims)

NewClerkVerifier(p) ==
    /\ OnlyRS256(p) /\ p.issuer # "" /\ Canonical(p.issuer) /\ p.audiences > 0
    /\ p.static = "" => Canonical(p.jwks)
    /\ NewJWTVerifier(p.issuer, p.audiences, {"RS256"}, MergedClaims(p))

RemoteVerifier(p) ==
    CASE p.type = "firebase" -> NewFirebaseVerifier(p)
      [] p.type = "supabase" -> NewSupabaseVerifier(p)
      [] p.type = "clerk" -> NewClerkVerifier(p)
      [] OTHER -> /\ p.jwks # "" /\ Canonical(p.jwks)
                  /\ NewJWTVerifier(p.issuer, p.audiences, p.algorithms, p.claims)

\* A verifier over a secret: one public key, or the acknowledged symmetric key.
SecretVerifier(p) ==
    IF p.static # ""
    THEN CASE p.type = "clerk" -> NewClerkVerifier(p)
           [] p.type \in {"generic_oidc", "custom_jwt"} ->
                  /\ "HS256" \notin p.algorithms
                  /\ NewJWTVerifier(p.issuer, p.audiences, p.algorithms, p.claims)
           [] OTHER -> FALSE
    ELSE /\ p.type = "custom_jwt" /\ p.algorithms = {"HS256"} /\ p.acknowledged
         /\ NewJWTVerifier(p.issuer, p.audiences, p.algorithms, p.claims)

\* identityVerifier: whether sign-in with the provider finds a verifier.
VerifierBuilt(p) ==
    /\ KeySourcesValid(p)
    /\ IF p.static # "" \/ p.symmetric # "" THEN SecretVerifier(p) ELSE RemoteVerifier(p)

-----------------------------------------------------------------------------
(* Attestation policies: the rules both checks call. *)

ProviderAllowed(provider, platform) ==
    provider \in CASE platform \in Apple -> {"app_attest", "firebase_app_check", "debug"}
                   [] platform \in Android \ {"wearos"} -> {"play_integrity", "firebase_app_check", "debug"}
                   [] platform = "web" -> {"turnstile", "firebase_app_check", "debug"}
                   [] platform = "node" -> {"debug"}
                   [] OTHER -> {}

Enabled(s) == s.mode # "disabled"

\* The typed configuration belongs to the provider, and the secret to both.
ProviderConfiguration(s) ==
    /\ s.conf \in {"none", s.provider} /\ (s.provider = "debug" => s.conf = "none")
    /\ Enabled(s) /\ s.provider # "debug" => s.conf = s.provider
    /\ CASE s.provider \in {"app_attest", "firebase_app_check"} -> s.secret = ""
         [] s.provider = "play_integrity" ->
                (s.secret # "") <=> (s.conf # "none" /\ s.credential = "service_account")
         [] s.provider = "turnstile" -> (s.secret # "") <=> (s.conf # "none" /\ Enabled(s))
         [] OTHER -> TRUE

\* An enabled selection asks for exactly the trust its provider can give.
TrustCapability(platform, s) ==
    Enabled(s) =>
        /\ s.trust = DefaultTrust(s, platform)
        /\ s.provider # "debug" => s.conf = s.provider
        /\ s.provider = "turnstile" => platform = "web"

\* A native backend shared with another runtime names its callers.
MatchesHost(caller, platform) ==
    \/ platform = "ios" /\ caller \in {"ios", "react-native"}
    \/ platform = "android" /\ caller \in {"android", "react-native"}

SharedNativeCallersValid(platform, s) ==
    s.callers # {} =>
        /\ s.mode = "required" /\ platform \in {"ios", "android"}
        /\ \A c \in s.callers : MatchesHost(c, platform)

-----------------------------------------------------------------------------
(* Attestation policies: the semantic check and the loader. *)

CanonicalBrowserOrigin(o) ==
    o \in SecureOrigins \/ (Kind = "development" /\ o \in LoopbackOrigins)

SelectionSound(platform, s) ==
    /\ SharedNativeCallersValid(platform, s)
    /\ ProviderAllowed(s.provider, platform)
    /\ s.provider = "debug" /\ Enabled(s) => /\ s.secret # ""
                                             /\ Kind = "production" => s.dangerous
    /\ ProviderConfiguration(s)
    /\ TrustCapability(platform, s)
    /\ s.conf = "app_attest" /\ Kind = "production" /\ s.development => s.dangerous
    /\ s.conf = "play_integrity" /\ s.testing => Kind = "development"
    /\ s.mode = "required" => s.trust # "none"
    /\ IF Enabled(s) /\ platform = "web"
       THEN s.origins # {} /\ \A o \in s.origins : CanonicalBrowserOrigin(o)
       ELSE s.origins = {}

OneRequired(d) ==
    \A x, y \in Selected(d) :
        x[2] = y[2] /\ x[1] # y[1] => ~ /\ d.policies[x[1]][x[2]].mode = "required"
                                       /\ d.policies[y[1]][y[2]].mode = "required"

\* The same policy as the loader reads it; it knows no environment kind.
RuntimeSelection(platform, s) ==
    /\ SharedNativeCallersValid(platform, s)
    /\ platform # "wearos"
    /\ ProviderAllowed(s.provider, platform)
    /\ s.mode = "required" => s.trust # "none"
    /\ s.provider = "debug" /\ Enabled(s) => s.secret # ""
    /\ ProviderConfiguration(s)
    /\ TrustCapability(platform, s)

RuntimeOrigins(platform, s) ==
    IF Enabled(s) /\ platform = "web"
    THEN s.origins # {} /\ s.origins \subseteq SecureOrigins \cup LoopbackOrigins
    ELSE s.origins = {}

AttestationsLoad(d) ==
    /\ \A p \in DOMAIN d.policies : DOMAIN d.policies[p] # {}
    /\ \A x \in Selected(d) : /\ RuntimeSelection(x[2], d.policies[x[1]][x[2]])
                              /\ RuntimeOrigins(x[2], d.policies[x[1]][x[2]])
    /\ OneRequired(d)

-----------------------------------------------------------------------------
(* Component definitions: the rules both checks call. *)

Present(d) == {i \in DOMAIN d.definitions : d.definitions[i] # None}
Defined(d) == {d.definitions[i] : i \in Present(d)}
Roots(d) == {x \in Defined(d) : x.role = "root"}

\* One signed application may hold a native and a React Native root.
NativeReactNativeRootPair(x, y) ==
    /\ x.role = "root" /\ y.role = "root" /\ x.strategy = "direct" /\ y.strategy = "direct"
    /\ \/ /\ {x.platform, y.platform} = {"ios", "react_native_ios"}
          /\ x.kind = "main_app" /\ y.kind = "main_app"
          /\ x.provider = "app_attest" /\ y.provider = "app_attest"
       \/ /\ {x.platform, y.platform} = {"android", "react_native_android"}
          /\ x.kind = "android_app" /\ y.kind = "android_app"
          /\ x.provider = "play_integrity" /\ y.provider = "play_integrity"

DirectAppAttestSupported(x) ==
    x.platform \in Apple /\ x.kind \in {"action_extension", "sso_extension", "watch_extension"}

\* How a component of this platform and kind may establish trust.
ComponentAttestation(x) ==
    IF x.role = "delegated"
    THEN /\ x.strategy = "delegated" /\ x.provider = ""
         /\ IF x.stepUp THEN x.policy # "" /\ DirectAppAttestSupported(x) ELSE x.policy = ""
    ELSE /\ x.strategy = "direct" /\ ~x.stepUp /\ x.policy = ""
         /\ CASE x.provider = "app_attest" ->
                     /\ x.platform \in Apple
                     /\ x.kind \in {"main_app", "action_extension", "sso_extension", "watch_extension"}
              [] x.provider = "play_integrity" ->
                     x.platform \in Android /\ x.kind \in {"android_app", "wear_app", "main_app"}
              [] x.provider \in {"firebase_app_check", "turnstile"} ->
                     x.platform = "web" /\ x.kind = "browser"
              [] OTHER -> x.provider = "debug"

Identifiers(x) == x.bundles \cup x.packages \cup x.origins

\* The required selections of a platform; a root needs exactly one.
Required(d, platform) ==
    {d.policies[x[1]][x[2]] : x \in {y \in Selected(d) : /\ y[2] = platform
                                                         /\ d.policies[y[1]][y[2]].mode = "required"}}

-----------------------------------------------------------------------------
(* Component definitions: the semantic check. *)

\* indexObjects: no two definitions have one name.
IndexedOnce(d) == \A i, j \in Present(d) : d.definitions[i].id = d.definitions[j].id => i = j

\* An identifier has one owner, but for a native and React Native pair.
IdentifiersOwned(d) ==
    \A x, y \in Defined(d) :
        x.id # y.id /\ Identifiers(x) \cap Identifiers(y) # {} => NativeReactNativeRootPair(x, y)

IdentifierShape(x) ==
    CASE x.platform \in Apple -> x.bundles # {} /\ x.packages = {} /\ x.origins = {}
      [] x.platform \in Android -> x.packages # {} /\ x.bundles = {} /\ x.origins = {}
      [] x.platform = "web" -> /\ x.origins # {} /\ x.bundles = {} /\ x.packages = {}
                               /\ \A o \in x.origins : CanonicalBrowserOrigin(o)
      [] x.platform = "node" -> Identifiers(x) = {}

\* The policy of a direct step-up enables this platform for this very bundle.
StepUpSound(d, x) ==
    x.stepUp =>
        /\ x.policy \in DOMAIN d.policies /\ x.platform \in DOMAIN d.policies[x.policy]
        /\ LET s == d.policies[x.policy][x.platform]
           IN  /\ s.provider = "app_attest" /\ s.mode = "preferred" /\ s.trust = "app_verified"
               /\ s.conf = "app_attest" /\ x.bundles = {s.identifier}

\* A slip: any component that exists may be a parent.
DelegationToAny(d, x) ==
    /\ x.role = "root" => ~x.delegated
    /\ x.role = "delegated" =>
           /\ ~x.children /\ x.lifetime \in Minute..(30 * Day)
           /\ \A parent \in x.parents : \E y \in Defined(d) : y.id = parent

DelegationSound(d, x) ==
    /\ x.role = "root" => ~x.delegated
    /\ x.role = "delegated" =>
           /\ ~x.children /\ x.lifetime \in Minute..(30 * Day)
           /\ \A parent \in x.parents :
                  /\ parent # x.id
                  /\ \E y \in Defined(d) : y.id = parent /\ y.role = "root"

ComponentSound(d, x) ==
    /\ x.platform # "wearos"
    /\ IdentifierShape(x)
    /\ x.features \subseteq d.features
    /\ ComponentAttestation(x)
    /\ StepUpSound(d, x)
    /\ DelegationSound(d, x)

\* What the required selection of a root's platform must say of its identifiers.
RootIdentifiersSound(x, s) ==
    CASE x.platform \in Apple /\ s.provider = "app_attest" -> x.bundles = {s.identifier}
      [] x.platform \in Android /\ s.provider = "play_integrity" -> x.packages = {s.identifier}
      [] x.platform = "web" -> x.origins # {} /\ x.origins \subseteq s.origins
      [] OTHER -> TRUE

RootSound(d, x) ==
    /\ Cardinality(Required(d, x.platform)) = 1
    /\ \A s \in Required(d, x.platform) : /\ x.provider = s.provider
                                          /\ RootIdentifiersSound(x, s)

\* Every origin of the required web selection belongs to one root.
OriginsMapped(d) ==
    \A s \in Required(d, "web") : \A o \in s.origins :
        Cardinality({x \in Roots(d) : x.platform = "web" /\ o \in x.origins}) = 1

\* Several roots of a platform are told apart by their verified origins only.
RootsUnambiguous(d) ==
    \A x, y \in Roots(d) :
        x.platform = y.platform /\ x.id # y.id =>
            x.platform = "web" /\ x.provider # "debug"

RootBindingsSound(d) ==
    /\ \A x \in Roots(d) : RootSound(d, x)
    /\ (\E x \in Roots(d) : x.platform = "web") => OriginsMapped(d)
    /\ RootsUnambiguous(d)

-----------------------------------------------------------------------------
(* Component definitions: the loader. *)

RuntimeIdentifiers(x) ==
    /\ x.origins \subseteq SecureOrigins \cup LoopbackOrigins
    /\ CASE x.platform \in Apple -> x.bundles # {} /\ x.packages = {} /\ x.origins = {}
         [] x.platform \in Android -> x.packages # {} /\ x.bundles = {} /\ x.origins = {}
         [] x.platform = "web" -> x.origins # {} /\ x.bundles = {} /\ x.packages = {}
         [] OTHER -> Identifiers(x) = {}

RuntimeDefinition(x) ==
    /\ x.platform # "wearos" /\ x.features # {}
    /\ RuntimeIdentifiers(x)
    /\ ComponentAttestation(x)
    /\ x.delegated = (x.role = "delegated")
    /\ x.delegated => /\ x.parents # {} /\ ~x.children
                      /\ x.lifetime \in Minute..(30 * Day)

RuntimeGraph(d) ==
    /\ IdentifiersOwned(d)
    /\ \A x \in Defined(d) : x.delegated =>
           \A parent \in x.parents : \E y \in Defined(d) : /\ y.id = parent /\ parent # x.id
                                                           /\ y.role = "root"

\* A slip: the origins of the selection are not compared with those of the roots.
RootBindingsWithoutOrigins(d) ==
    /\ \A x \in Roots(d) :
           /\ Cardinality(Required(d, x.platform)) = 1
           /\ \A s \in Required(d, x.platform) : /\ x.provider = s.provider
                                                 /\ RootIdentifiersSound(x, s)
    /\ \A x, y \in Roots(d) :
           x.platform = y.platform /\ x.id # y.id => x.platform = "web" /\ x.provider # "debug"

RuntimeRootBindings(d) ==
    /\ \A x \in Roots(d) :
           /\ Cardinality(Required(d, x.platform)) = 1
           /\ \A s \in Required(d, x.platform) : /\ x.provider = s.provider
                                                 /\ RootIdentifiersSound(x, s)
    /\ (\E x \in Roots(d) : x.platform = "web") =>
           \A s \in Required(d, "web") : \A o \in s.origins :
               \E x \in Roots(d) : /\ x.platform = "web" /\ o \in x.origins
                                   /\ \A y \in Roots(d) : o \in y.origins => y.id = x.id
    /\ \A x, y \in Roots(d) :
           x.platform = y.platform /\ x.id # y.id => x.platform = "web" /\ x.provider # "debug"

ComponentsLoad(d) ==
    /\ IndexedOnce(d)
    /\ \A x \in Defined(d) : RuntimeDefinition(x)
    /\ RuntimeGraph(d)
    /\ RuntimeRootBindings(d)

-----------------------------------------------------------------------------
(* Session lifetimes and secrets. *)

SessionSound(s) ==
    /\ s.access \in Minute..Hour
    /\ s.challenge \in 30..(10 * Minute) /\ s.challenge <= s.access
    /\ s.refresh \in Hour..(90 * Day) /\ s.refresh > s.access

SessionLoads(s) ==
    /\ s.access \in Minute..Hour
    /\ s.challenge \in 30..(10 * Minute)
    /\ s.refresh \in Hour..(90 * Day)

\* Every secret the document refers to exists in the environment.
SecretsExist(d) ==
    /\ {d.provider.static, d.provider.symmetric} \subseteq Secrets \cup {""}
    /\ \A x \in Selected(d) : d.policies[x[1]][x[2]].secret \in Secrets \cup {""}

-----------------------------------------------------------------------------
(* Validate, and the edits of a document. *)

SemanticsSound(d) ==
    /\ IndexedOnce(d)
    /\ IdentitySound(d.provider)
    /\ \A x \in Selected(d) : SelectionSound(x[2], d.policies[x[1]][x[2]])
    /\ OneRequired(d)
    /\ IdentifiersOwned(d)
    /\ \A x \in Defined(d) : ComponentSound(d, x)
    /\ RootBindingsSound(d)
    /\ SessionSound(d.session)
    /\ SecretsExist(d)

Loads(d) == SessionLoads(d.session) /\ AttestationsLoad(d) /\ ComponentsLoad(d)

\* A document that passes the semantic checks is loaded before it is accepted.
Verdict(d) ==
    IF ~InSchema(d) \/ ~SemanticsSound(d) THEN "refused"
    ELSE IF Loads(d) THEN "accepted" ELSE "unloadable"

Validate == verdict' = Verdict(WithDefaults(document)) /\ UNCHANGED document

\* An edit before the document is validated; edits of one that was validated
\* (ReplaceDraft makes it unvalidated again) lead to the same documents.
Edited(d) == verdict = "unchecked" /\ document' = d /\ UNCHANGED verdict

EditProvider ==
    \E field \in DOMAIN ProviderValues : \E value \in ProviderValues[field] :
        Edited([document EXCEPT !.provider[field] = value])

EditSelection ==
    \E e \in Selections :
        LET own == document.policies[e.policy]
            kept == [f \in DOMAIN own \ {e.platform} |-> own[f]]
        IN  Edited([document EXCEPT !.policies[e.policy] =
                       IF e.selection = None THEN kept
                       ELSE [f \in DOMAIN kept \cup {e.platform} |->
                                 IF f = e.platform THEN e.selection ELSE kept[f]]])

EditDefinition ==
    \E i \in Slots, x \in Definitions \cup {None} :
        Edited([document EXCEPT !.definitions[i] = x])

EditSession == \E s \in Sessions : Edited([document EXCEPT !.session = s])

Init == document = FirstDocument /\ verdict = "unchecked"

Next == EditProvider \/ EditSelection \/ EditDefinition \/ EditSession \/ Validate

Spec == Init /\ [][Next]_vars

-----------------------------------------------------------------------------
(* Use of what is loaded. *)

\* The root component of a client: the one whose provider and verified
\* identifier are those of the required selection; two would be none.
MatchesIdentifier(x, s, platform, origin) ==
    CASE platform = "web" -> origin \in x.origins
      [] platform \in Apple /\ s.provider = "app_attest" -> s.identifier \in x.bundles
      [] platform \in Android /\ s.provider = "play_integrity" -> s.identifier \in x.packages
      [] OTHER -> TRUE

RootComponentDefinition(d, platform, provider, origin) ==
    LET selections == {s \in Required(d, platform) :
                           /\ Cardinality(Required(d, platform)) = 1 /\ s.provider = provider
                           /\ IF platform = "web" THEN origin \in s.origins ELSE TRUE}
        matched == {x \in Roots(d) : /\ x.platform = platform
                                     /\ x.strategy = "direct" /\ x.provider = provider
                                     /\ \E s \in selections : MatchesIdentifier(x, s, platform, origin)}
    IN  IF Cardinality(matched) = 1 THEN CHOOSE x \in matched : TRUE ELSE None

-----------------------------------------------------------------------------
(* Properties. *)

TypeOK ==
    /\ verdict \in {"unchecked", "refused", "accepted", "unloadable"}
    /\ \A field \in DOMAIN ProviderValues :
           document.provider[field] \in ProviderValues[field] \cup {FirstDocument.provider[field]}
    /\ document.session \in Sessions \cup {FirstDocument.session}
    /\ DOMAIN document.definitions = Slots

\* The two texts agree: what passes the semantic checks is never refused by the
\* loader, so no administrator meets the one issue that names no place, and no
\* rule is tighter at load time than when the document was accepted.
ChecksAgree == verdict # "unloadable"

\* Every client that a loaded snapshot's required attestation admits finds one
\* root component, where its platform has any, and the root is the one its
\* verified identity belongs to; and every parent a delegated component names
\* is the root of some client.
LoadedRootsAreFound ==
    LET d == WithDefaults(document)
        Callers(platform) ==
            IF platform = "web" THEN UNION {s.origins : s \in Required(d, "web")} ELSE {""}
        RootOf(platform, origin) ==
            LET s == CHOOSE s \in Required(d, platform) : TRUE
            IN  RootComponentDefinition(d, platform, s.provider, origin)
    IN  Loads(d) =>
            /\ \A x \in Roots(d) : \A o \in Callers(x.platform) :
                   /\ RootOf(x.platform, o) # None
                   /\ o # "" => o \in RootOf(x.platform, o).origins
            /\ \A x \in Defined(d) : \A parent \in x.parents :
                   \E y \in Roots(d) : \E o \in Callers(y.platform) :
                       y.id = parent /\ RootOf(y.platform, o) = y

\* Whoever may sign in with an accepted configuration can: the verifier of its
\* identity provider is built, whatever the provider's kind and key source.
\* The schema lets a provider name as many claims as a verifier takes and any
\* number of audiences; a preset adds a claim of its own, so the property is
\* about providers that leave room for it.
AcceptedProvidersVerify ==
    verdict = "accepted" /\ document.provider.claims < MaximumClaims
                         /\ document.provider.audiences <= MaximumClaims =>
        VerifierBuilt(document.provider)

=============================================================================
