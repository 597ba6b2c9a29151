---------------------------------- MODULE MCTrust ----------------------------------
(***************************************************************************)
(* What a caller's trust rests on, checked in one run: two refreshes of a  *)
(* session at once, with components and without, device keys, the evidence *)
(* of attestation providers, and identity-provider keys in one replica,    *)
(* with and without a provider that fails, and shared by two.  Each        *)
(* behaviour is one of one part, chosen at the start; the variables of the *)
(* other parts keep their initial values in it.                            *)
(***************************************************************************)
EXTENDS SessionRefresh, Naturals, FiniteSets, Sequences, TLC

CONSTANTS x1, x2, y1, y2, b1, b2, b3, p1, None

VARIABLES part, challenge, made, key, receipts, expired, scope, call, attempt, top, sessions, now,
          selection, issued, minted, redeemed, access, gate, published, withdrawnAt, local,
          lastForced, refreshing, outcome, shared, lease, failures, users, locked, identity,
          revision, auth

\* Two challenges of one holder and one of another.
Holders == (b1 :> "u") @@ (b2 :> "u") @@ (b3 :> "v")

Selected(provider, minimum, strong, testing, web, kind) ==
    [provider |-> provider, minimum |-> minimum, strong |-> strong, testing |-> testing, web |-> web,
     kind |-> kind, dangerous |-> FALSE]
SomeSelections ==
    {Selected("turnstile", "web_risk_verified", FALSE, FALSE, TRUE, "production"),
     Selected("play_integrity", "device_verified", FALSE, TRUE, FALSE, "staging"),
     Selected("play_integrity", "strong_device_verified", TRUE, TRUE, FALSE, "development"),
     Selected("firebase_app_check", "app_verified", FALSE, FALSE, FALSE, "production"),
     Selected("play_integrity", "device_verified", FALSE, FALSE, FALSE, "production"),
     Selected("debug", "debug", FALSE, FALSE, FALSE, "development"),
     Selected("debug", "debug", FALSE, FALSE, FALSE, "production")}

OneReplica == [k \in {x1, x2} |-> "a"]
TwoReplicas == (y1 :> "a") @@ (y2 :> "b")

Attested == INSTANCE AttestationKeys WITH
    Calls <- {x1, x2}, Bindings <- {b1, b2, b3}, HolderOf <- Holders, None <- None, MaxCounter <- 1,
    tx <- attempt
Evidenced == INSTANCE ProviderEvidence WITH
    Calls <- {x1}, Challenges <- {b1, b2}, None <- None, Selections <- SomeSelections,
    MaxTokens <- 1, MaxTime <- 4, Skew <- 1, MaximumAge <- 2, ResultLifetime <- 2,
    PolicyMaximumAge <- 2, MaximumAttempts <- 2, AccessLifetime <- 2
Keyed == INSTANCE IdentityVerification WITH
    Calls <- {x1, x2}, Replicas <- {"a"}, None <- None, At <- OneReplica, Maintainers <- {},
    MaxTime <- 3, MaxVersions <- 2, MaxFailures <- 0, MaxTTL <- 1, Grace <- 1, ForcedMinimum <- 1,
    LeaseTime <- 1, People <- {p1}, Skew <- 1, MaxRevisions <- 1, grant <- identity
Failing == INSTANCE IdentityVerification WITH
    Calls <- {x1, x2}, Replicas <- {"a"}, None <- None, At <- OneReplica, Maintainers <- {},
    MaxTime <- 2, MaxVersions <- 2, MaxFailures <- 1, MaxTTL <- 1, Grace <- 1, ForcedMinimum <- 1,
    LeaseTime <- 1, People <- {p1}, Skew <- 1, MaxRevisions <- 1, grant <- identity
Late == INSTANCE IdentityVerification WITH
    Calls <- {x1}, Replicas <- {"a"}, None <- None, At <- OneReplica, Maintainers <- {},
    MaxTime <- 3, MaxVersions <- 2, MaxFailures <- 2, MaxTTL <- 1, Grace <- 1, ForcedMinimum <- 1,
    LeaseTime <- 1, People <- {p1}, Skew <- 1, MaxRevisions <- 1, grant <- identity
Shared == INSTANCE IdentityVerification WITH
    Calls <- {y1, y2}, Replicas <- {"a", "b"}, None <- None, At <- TwoReplicas, Maintainers <- {y2},
    MaxTime <- 1, MaxVersions <- 2, MaxFailures <- 0, MaxTTL <- 1, Grace <- 1, ForcedMinimum <- 1,
    LeaseTime <- 1, People <- {p1}, Skew <- 1, MaxRevisions <- 1, grant <- identity

allVars == <<part, ComponentAware, clock, tip, token, grant, cache, session, boundary, tx, keeper,
             answer, challenge, made, key, receipts, expired, scope, call, attempt, top, sessions,
             now, selection, issued, minted, redeemed, access, gate, published, withdrawnAt, local,
             lastForced, refreshing, outcome, shared, lease, failures, users, locked, identity,
             revision, auth>>

Unused == "unused"

OnlySessionRefresh ==
    /\ challenge = Unused /\ made = Unused /\ key = Unused /\ receipts = Unused
    /\ expired = Unused /\ scope = Unused /\ call = Unused /\ attempt = Unused /\ top = Unused
    /\ sessions = Unused /\ now = Unused /\ selection = Unused /\ issued = Unused
    /\ minted = Unused /\ redeemed = Unused /\ access = Unused /\ gate = Unused
    /\ published = Unused /\ withdrawnAt = Unused /\ local = Unused /\ lastForced = Unused
    /\ refreshing = Unused /\ outcome = Unused /\ shared = Unused /\ lease = Unused
    /\ failures = Unused /\ users = Unused /\ locked = Unused /\ identity = Unused
    /\ revision = Unused /\ auth = Unused
outsideSessionRefresh == <<part, challenge, made, key, receipts, expired, scope, call, attempt, top,
                          sessions, now, selection, issued, minted, redeemed, access, gate,
                          published, withdrawnAt, local, lastForced, refreshing, outcome, shared,
                          lease, failures, users, locked, identity, revision, auth>>
OnlyAttestationKeys ==
    /\ now = Unused /\ selection = Unused /\ issued = Unused /\ minted = Unused
    /\ redeemed = Unused /\ access = Unused /\ gate = Unused /\ published = Unused
    /\ withdrawnAt = Unused /\ local = Unused /\ lastForced = Unused /\ refreshing = Unused
    /\ outcome = Unused /\ shared = Unused /\ lease = Unused /\ failures = Unused
    /\ users = Unused /\ locked = Unused /\ identity = Unused /\ revision = Unused
    /\ auth = Unused
outsideAttestationKeys == <<part, ComponentAware, clock, tip, token, grant, cache, session, boundary,
                           tx, keeper, answer, now, selection, issued, minted, redeemed, access,
                           gate, published, withdrawnAt, local, lastForced, refreshing, outcome,
                           shared, lease, failures, users, locked, identity, revision, auth>>
OnlyProviderEvidence ==
    /\ challenge = Unused /\ made = Unused /\ key = Unused /\ receipts = Unused
    /\ expired = Unused /\ scope = Unused /\ attempt = Unused /\ top = Unused
    /\ published = Unused /\ withdrawnAt = Unused /\ local = Unused /\ lastForced = Unused
    /\ refreshing = Unused /\ outcome = Unused /\ shared = Unused /\ lease = Unused
    /\ failures = Unused /\ users = Unused /\ locked = Unused /\ identity = Unused
    /\ revision = Unused /\ auth = Unused
outsideProviderEvidence == <<part, ComponentAware, clock, tip, token, grant, cache, session,
                            boundary, tx, keeper, answer, challenge, made, key, receipts, expired,
                            scope, attempt, top, published, withdrawnAt, local, lastForced,
                            refreshing, outcome, shared, lease, failures, users, locked, identity,
                            revision, auth>>
OnlyIdentityKeys ==
    /\ challenge = Unused /\ made = Unused /\ key = Unused /\ receipts = Unused
    /\ expired = Unused /\ scope = Unused /\ attempt = Unused /\ top = Unused
    /\ sessions = Unused /\ selection = Unused /\ issued = Unused /\ minted = Unused
    /\ redeemed = Unused /\ access = Unused /\ gate = Unused /\ users = Unused
    /\ locked = Unused /\ identity = Unused /\ revision = Unused /\ auth = Unused
outsideIdentityKeys == <<part, ComponentAware, clock, tip, token, grant, cache, session, boundary,
                        tx, keeper, answer, challenge, made, key, receipts, expired, scope, attempt,
                        top, sessions, selection, issued, minted, redeemed, access, gate, users,
                        locked, identity, revision, auth>>

AllInit ==
    /\ Init
    /\ \/ part = "refresh" /\ OnlySessionRefresh
       \/ part = "device keys" /\ Attested!Init /\ ComponentAware /\ OnlyAttestationKeys
       \/ part = "evidence" /\ Evidenced!Init /\ ComponentAware /\ OnlyProviderEvidence
       \/ part = "identity keys" /\ Keyed!KeysInit /\ ComponentAware /\ OnlyIdentityKeys
       \/ part = "failing keys" /\ Failing!KeysInit /\ ComponentAware /\ OnlyIdentityKeys
       \/ part = "late keys" /\ Late!KeysInit /\ ComponentAware /\ OnlyIdentityKeys
       \/ part = "shared keys" /\ Shared!KeysInit /\ ComponentAware /\ OnlyIdentityKeys

AllNext ==
    \/ part = "refresh" /\ Next /\ UNCHANGED outsideSessionRefresh
    \/ part = "device keys" /\ Attested!Next /\ UNCHANGED outsideAttestationKeys
    \/ part = "evidence" /\ Evidenced!Next /\ UNCHANGED outsideProviderEvidence
    \/ part = "identity keys" /\ Keyed!KeysNext /\ UNCHANGED outsideIdentityKeys
    \/ part = "failing keys" /\ Failing!KeysNext /\ UNCHANGED outsideIdentityKeys
    \/ part = "late keys" /\ Late!KeysNext /\ UNCHANGED outsideIdentityKeys
    \/ part = "shared keys" /\ Shared!KeysNext /\ UNCHANGED outsideIdentityKeys

AllSpec == AllInit /\ [][AllNext]_allVars

AllSymmetry == Permutations({x1, x2})

(***************************************************************************)
(* Properties.                                                             *)
(***************************************************************************)
\* A session's trust rests on evidence that was made for its own challenge,
\* in time, and that earns the level it is given; a device key's counter
\* never goes back and a retry of a call whose answer was lost is accepted;
\* no call uses a provider's access token past its end.  Rows keep their types.
EvidenceIsEarned ==
    /\ part = "device keys" =>
       /\ Attested!TypeOK /\ Attested!CounterKept /\ Attested!VerifiedIsDurable
       /\ Attested!DisabledHoldsNoPending /\ Attested!RetryAccepted
       /\ Attested!SessionsKeepKey
    /\ part = "evidence" =>
       /\ Evidenced!TypeOK /\ Evidenced!EvidenceIsForSession /\ Evidenced!EvidenceInTime
       /\ Evidenced!TrustIsEarned /\ Evidenced!OwnRetryPasses /\ Evidenced!AccessNotOverstayed
    /\ part = "identity keys" => Keyed!KeysTypeOK
    /\ part = "failing keys" => Failing!KeysTypeOK
    /\ part = "late keys" => Late!KeysTypeOK
    /\ part = "shared keys" => Shared!KeysTypeOK

\* A key that the identity provider withdrew dies within the lifetime of its
\* document and the grace, unless a failing refresh puts an older document in
\* the place of a new one before the second look at the keys; the record the replicas share never goes back to
\* an older document; what maintenance fetched reaches the others; and a
\* verification by device key whose outcome was lost is settled only by what
\* the store shows of it.
KeysFollowProvider ==
    [][/\ part = "identity keys" =>
          /\ Keyed!WithdrawnKeysDie /\ Keyed!SharedNeverGoesBack /\ Keyed!MaintenanceIsShared
       /\ part = "failing keys" =>
          /\ Failing!WithdrawnKeysDie /\ Failing!SharedNeverGoesBack
          /\ Failing!MaintenanceIsShared
       /\ part = "late keys" =>
          /\ Late!WithdrawnKeysDie /\ Late!SharedNeverGoesBack /\ Late!MaintenanceIsShared
       /\ part = "shared keys" =>
          /\ Shared!WithdrawnKeysDie /\ Shared!SharedNeverGoesBack
          /\ Shared!MaintenanceIsShared
       /\ part = "device keys" => Attested!ResolutionsAreConclusive]_allVars
=============================================================================
