--------------------------------- MODULE MCSessions ---------------------------------
(***************************************************************************)
(* A client's sessions, checked in one run: calls that create and end      *)
(* sessions side by side, delegation from one component to another, the    *)
(* emergency operations of administrators, sign-in and renewal of users,   *)
(* signing keys and the tokens they sign, and proofs of possession.  Each  *)
(* behaviour is one of one part, chosen at the start; the variables of the *)
(* other parts keep their initial values in it.                            *)
(***************************************************************************)
EXTENDS SessionLifecycle, Sequences, TLC

CONSTANTS x1, x2, p1, p2, q1, None

VARIABLES part, otherClock, otherScope, otherEra, otherRevision, otherChallenge, otherInstallation,
          otherFamily, otherComponent, otherDelegation, otherSession, otherCall, application,
          environment, user, scopedInstallation, scopedFamily, scopedComponent, trusted, live,
          challenges, scopedCall, preview, confirming, now, published, withdrawnAt, local,
          lastForced, refreshing, outcome, shared, lease, failures, lookup, users, locked, grant,
          serving, auth, keys, tokens, signer, issuedAt, replay, override, request, accepted

OneReplica == [k \in {x1, x2} |-> "a"]

Delegated == INSTANCE SessionLifecycle WITH
    Callers <- {x1}, TrustLevels <- {1, 2}, ChallengeTTL <- 1, AccessLifetime <- 1,
    RefreshLifetime <- 2, AttestationLifetime <- 2, DelegationLifetime <- 3, Retention <- 0,
    MaxChallenges <- 2, MaxSessions <- 2, MaxKeys <- 2, MaxRevision <- 1, MaxEra <- 0, MaxTime <- 2,
    clock <- otherClock, scope <- otherScope, era <- otherEra, revision <- otherRevision,
    challenge <- otherChallenge, installation <- otherInstallation, family <- otherFamily,
    component <- otherComponent, delegation <- otherDelegation, session <- otherSession,
    call <- otherCall
Operated == INSTANCE ScopeOperations WITH
    Environments <- {1}, Calls <- {x1, x2}, installation <- scopedInstallation,
    family <- scopedFamily, component <- scopedComponent, call <- scopedCall
Users == INSTANCE IdentityVerification WITH
    Calls <- {x1, x2}, Replicas <- {"a"}, None <- None, At <- OneReplica, Maintainers <- {},
    MaxTime <- 2, MaxVersions <- 2, MaxFailures <- 1, MaxTTL <- 1, Grace <- 1, ForcedMinimum <- 1,
    LeaseTime <- 1, People <- {p1, p2}, Skew <- 1, MaxRevisions <- 2, revision <- serving,
    call <- lookup
Tokens == INSTANCE AccessTokens WITH
    Calls <- {x1, x2}, None <- None, MaxTime <- 5, MaxKeys <- 3, KeyLifetime <- 5,
    RotationLead <- 3, Lifetime <- 2, Skew <- 1, Proofs <- {q1}, MaxAge <- 1, Retention <- 4,
    MaxTokens <- 2, call <- signer

allVars == <<part, clock, scope, era, revision, challenge, installation, family, component,
             delegation, session, call, otherClock, otherScope, otherEra, otherRevision,
             otherChallenge, otherInstallation, otherFamily, otherComponent, otherDelegation,
             otherSession, otherCall, application, environment, user, scopedInstallation,
             scopedFamily, scopedComponent, trusted, live, challenges, scopedCall, preview,
             confirming, now, published, withdrawnAt, local, lastForced, refreshing, outcome, shared,
             lease, failures, lookup, users, locked, grant, serving, auth, keys, tokens, signer,
             issuedAt, replay, override, request, accepted>>

Unset == "unused"

OnlySessionLifecycle ==
    /\ otherClock = Unset /\ otherScope = Unset /\ otherEra = Unset /\ otherRevision = Unset
    /\ otherChallenge = Unset /\ otherInstallation = Unset /\ otherFamily = Unset
    /\ otherComponent = Unset /\ otherDelegation = Unset /\ otherSession = Unset
    /\ otherCall = Unset /\ application = Unset /\ environment = Unset /\ user = Unset
    /\ scopedInstallation = Unset /\ scopedFamily = Unset /\ scopedComponent = Unset
    /\ trusted = Unset /\ live = Unset /\ challenges = Unset /\ scopedCall = Unset
    /\ preview = Unset /\ confirming = Unset /\ now = Unset /\ published = Unset
    /\ withdrawnAt = Unset /\ local = Unset /\ lastForced = Unset /\ refreshing = Unset
    /\ outcome = Unset /\ shared = Unset /\ lease = Unset /\ failures = Unset /\ lookup = Unset
    /\ users = Unset /\ locked = Unset /\ grant = Unset /\ serving = Unset /\ auth = Unset
    /\ keys = Unset /\ tokens = Unset /\ signer = Unset /\ issuedAt = Unset /\ replay = Unset
    /\ override = Unset /\ request = Unset /\ accepted = Unset
outsideSessionLifecycle == <<part, otherClock, otherScope, otherEra, otherRevision, otherChallenge,
                            otherInstallation, otherFamily, otherComponent, otherDelegation,
                            otherSession, otherCall, application, environment, user,
                            scopedInstallation, scopedFamily, scopedComponent, trusted, live,
                            challenges, scopedCall, preview, confirming, now, published, withdrawnAt,
                            local, lastForced, refreshing, outcome, shared, lease, failures, lookup,
                            users, locked, grant, serving, auth, keys, tokens, signer, issuedAt,
                            replay, override, request, accepted>>
OnlyDelegation ==
    /\ application = Unset /\ environment = Unset /\ user = Unset /\ scopedInstallation = Unset
    /\ scopedFamily = Unset /\ scopedComponent = Unset /\ trusted = Unset /\ live = Unset
    /\ challenges = Unset /\ scopedCall = Unset /\ preview = Unset /\ confirming = Unset
    /\ now = Unset /\ published = Unset /\ withdrawnAt = Unset /\ local = Unset
    /\ lastForced = Unset /\ refreshing = Unset /\ outcome = Unset /\ shared = Unset
    /\ lease = Unset /\ failures = Unset /\ lookup = Unset /\ users = Unset /\ locked = Unset
    /\ grant = Unset /\ serving = Unset /\ auth = Unset /\ keys = Unset /\ tokens = Unset
    /\ signer = Unset /\ issuedAt = Unset /\ replay = Unset /\ override = Unset
    /\ request = Unset /\ accepted = Unset
outsideDelegation == <<part, clock, scope, era, revision, challenge, installation, family, component,
                      delegation, session, call, application, environment, user, scopedInstallation,
                      scopedFamily, scopedComponent, trusted, live, challenges, scopedCall, preview,
                      confirming, now, published, withdrawnAt, local, lastForced, refreshing,
                      outcome, shared, lease, failures, lookup, users, locked, grant, serving, auth,
                      keys, tokens, signer, issuedAt, replay, override, request, accepted>>
OnlyScopeOperations ==
    /\ otherClock = Unset /\ otherScope = Unset /\ otherEra = Unset /\ otherRevision = Unset
    /\ otherChallenge = Unset /\ otherInstallation = Unset /\ otherFamily = Unset
    /\ otherComponent = Unset /\ otherDelegation = Unset /\ otherSession = Unset
    /\ otherCall = Unset /\ now = Unset /\ published = Unset /\ withdrawnAt = Unset
    /\ local = Unset /\ lastForced = Unset /\ refreshing = Unset /\ outcome = Unset
    /\ shared = Unset /\ lease = Unset /\ failures = Unset /\ lookup = Unset /\ users = Unset
    /\ locked = Unset /\ grant = Unset /\ serving = Unset /\ auth = Unset /\ keys = Unset
    /\ tokens = Unset /\ signer = Unset /\ issuedAt = Unset /\ replay = Unset
    /\ override = Unset /\ request = Unset /\ accepted = Unset
outsideScopeOperations == <<part, clock, scope, era, revision, challenge, installation, family,
                           component, delegation, session, call, otherClock, otherScope, otherEra,
                           otherRevision, otherChallenge, otherInstallation, otherFamily,
                           otherComponent, otherDelegation, otherSession, otherCall, now, published,
                           withdrawnAt, local, lastForced, refreshing, outcome, shared, lease,
                           failures, lookup, users, locked, grant, serving, auth, keys, tokens,
                           signer, issuedAt, replay, override, request, accepted>>
OnlySignIns ==
    /\ otherClock = Unset /\ otherScope = Unset /\ otherEra = Unset /\ otherRevision = Unset
    /\ otherChallenge = Unset /\ otherInstallation = Unset /\ otherFamily = Unset
    /\ otherComponent = Unset /\ otherDelegation = Unset /\ otherSession = Unset
    /\ otherCall = Unset /\ application = Unset /\ environment = Unset /\ user = Unset
    /\ scopedInstallation = Unset /\ scopedFamily = Unset /\ scopedComponent = Unset
    /\ trusted = Unset /\ live = Unset /\ challenges = Unset /\ scopedCall = Unset
    /\ preview = Unset /\ confirming = Unset /\ published = Unset /\ withdrawnAt = Unset
    /\ local = Unset /\ lastForced = Unset /\ refreshing = Unset /\ outcome = Unset
    /\ shared = Unset /\ lease = Unset /\ failures = Unset /\ lookup = Unset /\ keys = Unset
    /\ tokens = Unset /\ signer = Unset /\ issuedAt = Unset /\ replay = Unset
    /\ override = Unset /\ request = Unset /\ accepted = Unset
outsideSignIns == <<part, clock, scope, era, revision, challenge, installation, family, component,
                   delegation, session, call, otherClock, otherScope, otherEra, otherRevision,
                   otherChallenge, otherInstallation, otherFamily, otherComponent, otherDelegation,
                   otherSession, otherCall, application, environment, user, scopedInstallation,
                   scopedFamily, scopedComponent, trusted, live, challenges, scopedCall, preview,
                   confirming, published, withdrawnAt, local, lastForced, refreshing, outcome,
                   shared, lease, failures, lookup, keys, tokens, signer, issuedAt, replay,
                   override, request, accepted>>
OnlySigning ==
    /\ otherClock = Unset /\ otherScope = Unset /\ otherEra = Unset /\ otherRevision = Unset
    /\ otherChallenge = Unset /\ otherInstallation = Unset /\ otherFamily = Unset
    /\ otherComponent = Unset /\ otherDelegation = Unset /\ otherSession = Unset
    /\ otherCall = Unset /\ application = Unset /\ environment = Unset /\ user = Unset
    /\ scopedInstallation = Unset /\ scopedFamily = Unset /\ scopedComponent = Unset
    /\ trusted = Unset /\ live = Unset /\ challenges = Unset /\ scopedCall = Unset
    /\ preview = Unset /\ confirming = Unset /\ published = Unset /\ withdrawnAt = Unset
    /\ local = Unset /\ lastForced = Unset /\ refreshing = Unset /\ outcome = Unset
    /\ shared = Unset /\ lease = Unset /\ failures = Unset /\ lookup = Unset /\ users = Unset
    /\ locked = Unset /\ grant = Unset /\ serving = Unset /\ auth = Unset /\ issuedAt = Unset
    /\ replay = Unset /\ override = Unset /\ request = Unset /\ accepted = Unset
outsideSigning == <<part, clock, scope, era, revision, challenge, installation, family, component,
                   delegation, session, call, otherClock, otherScope, otherEra, otherRevision,
                   otherChallenge, otherInstallation, otherFamily, otherComponent, otherDelegation,
                   otherSession, otherCall, application, environment, user, scopedInstallation,
                   scopedFamily, scopedComponent, trusted, live, challenges, scopedCall, preview,
                   confirming, published, withdrawnAt, local, lastForced, refreshing, outcome,
                   shared, lease, failures, lookup, users, locked, grant, serving, auth, issuedAt,
                   replay, override, request, accepted>>
OnlyProofs ==
    /\ otherClock = Unset /\ otherScope = Unset /\ otherEra = Unset /\ otherRevision = Unset
    /\ otherChallenge = Unset /\ otherInstallation = Unset /\ otherFamily = Unset
    /\ otherComponent = Unset /\ otherDelegation = Unset /\ otherSession = Unset
    /\ otherCall = Unset /\ application = Unset /\ environment = Unset /\ user = Unset
    /\ scopedInstallation = Unset /\ scopedFamily = Unset /\ scopedComponent = Unset
    /\ trusted = Unset /\ live = Unset /\ challenges = Unset /\ scopedCall = Unset
    /\ preview = Unset /\ confirming = Unset /\ published = Unset /\ withdrawnAt = Unset
    /\ local = Unset /\ lastForced = Unset /\ refreshing = Unset /\ outcome = Unset
    /\ shared = Unset /\ lease = Unset /\ failures = Unset /\ lookup = Unset /\ users = Unset
    /\ locked = Unset /\ serving = Unset /\ auth = Unset /\ keys = Unset /\ tokens = Unset
    /\ signer = Unset
outsideProofs == <<part, clock, scope, era, revision, challenge, installation, family, component,
                  delegation, session, call, otherClock, otherScope, otherEra, otherRevision,
                  otherChallenge, otherInstallation, otherFamily, otherComponent, otherDelegation,
                  otherSession, otherCall, application, environment, user, scopedInstallation,
                  scopedFamily, scopedComponent, trusted, live, challenges, scopedCall, preview,
                  confirming, published, withdrawnAt, local, lastForced, refreshing, outcome, shared,
                  lease, failures, lookup, users, locked, serving, auth, keys, tokens, signer>>

AllInit ==
    /\ Init
    /\ \/ part = "calls" /\ OnlySessionLifecycle
       \/ part = "delegation" /\ Delegated!Init /\ OnlyDelegation
       \/ part = "operations" /\ Operated!Init /\ OnlyScopeOperations
       \/ part = "users" /\ Users!UsersInit /\ OnlySignIns
       \/ part = "signing" /\ Tokens!KeysInit /\ OnlySigning
       \/ part = "proofs" /\ Tokens!RequestsInit /\ OnlyProofs

AllNext ==
    \/ part = "calls" /\ Next /\ UNCHANGED outsideSessionLifecycle
    \/ part = "delegation" /\ Delegated!Next /\ UNCHANGED outsideDelegation
    \/ part = "operations" /\ Operated!Next /\ UNCHANGED outsideScopeOperations
    \/ part = "users" /\ Users!UsersNext /\ UNCHANGED outsideSignIns
    \/ part = "signing" /\ Tokens!KeysNext /\ UNCHANGED outsideSigning
    \/ part = "proofs" /\ Tokens!RequestsNext /\ UNCHANGED outsideProofs

AllSpec == AllInit /\ [][AllNext]_allVars

AllSymmetry == Permutations({x1, x2}) \cup Permutations({p1, p2})

(***************************************************************************)
(* Properties.                                                             *)
(***************************************************************************)
\* What was said of sessions holds of those that are delegated and stepped up
\* on several levels of trust; and every access token can be verified until it
\* expires, although signing keys rotate under the calls that issue tokens,
\* and the key prepared for the next rotation outlives what it will sign.
CredentialsHold ==
    /\ part = "delegation" => Delegated!SessionsAreExclusive
    /\ part = "signing" =>
       /\ Tokens!KeysTypeOK /\ Tokens!TokensVerify /\ Tokens!PreparedKeyLasts
    /\ part = "proofs" => Tokens!RequestsTypeOK

\* A disabled application or environment and a revoked component or family hold
\* no usable credential once the administrator's operation committed, although
\* tokens are exchanged and renewed at the same time; a refresh rests on trust
\* that stands; and an operation on a user ends nothing that was not there when
\* it compared its count with the one shown (user_operations.go:226).  A user
\* who is blocked or has to sign in again may hold what a call that read the
\* user as active inserts afterwards: nothing is said of that.
OperationsReachEverything == part = "operations" =>
       /\ Operated!TypeOK /\ Operated!DisabledHoldsNothing /\ Operated!RevokedHoldsNothing
       /\ Operated!RefreshNeedsTrust /\ Operated!NothingAddedSince

\* What is decided late is decided on what is stored then: a first sign-in
\* finds the user another one created, an identity is renewed under the
\* revision and the session that still stand, and a proof of possession is
\* accepted once, for the session and the override as they stand.  Once, that
\* is, unless a request waits between its check of the proof and the insert
\* for longer than the retention exceeds the proof's window, when the entry of
\* the first use may be swept (authorization.go:508).
DecidedAsItStands ==
    [][/\ part = "users" =>
          /\ Users!FirstSignInSucceeds /\ Users!RenewedAsItStands
       /\ part = "proofs" =>
          /\ Tokens!AcceptedOnce /\ Tokens!AuthorizedAsItStands]_allVars
=============================================================================
