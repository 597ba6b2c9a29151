-------------------------- MODULE SessionLifecycle --------------------------
(***************************************************************************)
(* How client sessions come to be and end (internal/session): challenges,  *)
(* the exchange of an attested challenge for the session of an             *)
(* installation's root component, delegation to a child component, its     *)
(* step-up by direct attestation, refresh, revocation, and the disabling   *)
(* of the application or environment (internal/controlplane/store.go).     *)
(*                                                                         *)
(* One user, one root key and one delegated component definition.  A call  *)
(* has three steps: it reads what it needs outside a transaction, it locks *)
(* the scope FOR SHARE (lockActiveCredentialScope), and the rest of its    *)
(* transaction, which runs under row locks of the installation, happens at *)
(* its commit.                                                             *)
(***************************************************************************)
EXTENDS Naturals, FiniteSets

CONSTANTS Callers,
          TrustLevels,       \* what an attestation may prove, ranks of trustRank
          ChallengeTTL, AccessLifetime, RefreshLifetime,
          AttestationLifetime,   \* of verified evidence
          DelegationLifetime,    \* MaximumLifetime of the definition's delegation
          Retention,             \* how long expired challenges are kept
          MaxChallenges, MaxSessions, MaxKeys, MaxRevision, MaxEra, MaxTime

ASSUME LifecycleBounds ==
    /\ TrustLevels \subseteq Nat
    /\ {ChallengeTTL, AccessLifetime, RefreshLifetime, AttestationLifetime, DelegationLifetime,
        Retention, MaxChallenges, MaxSessions, MaxEra, MaxTime} \subseteq Nat
    /\ MaxKeys \in Nat \ {0} /\ MaxRevision \in Nat \ {0}

VARIABLES clock,
          scope,         \* status of application and environment
          era,           \* how often the scope was disabled
          revision,      \* the active configuration revision
          challenge,     \* session_challenges, component_attestation_challenges
          installation,  \* installations: its status and trust level
          family,        \* installation_families: its status
          component,     \* client_components with their current key
          delegation,    \* the child's current component_delegations row
          session,       \* component_session_families with their last token and grant
          call           \* calls in flight

vars == <<clock, scope, era, revision, challenge, installation, family, component,
          delegation, session, call>>
stored == <<challenge, installation, family, component, delegation, session>>

Challenges == 1..MaxChallenges
Sessions == 1..MaxSessions
Components == {"root", "child"}
Least(S) == CHOOSE x \in S : \A y \in S : x <= y

NoChallenge == [status |-> "none", for |-> "root", key |-> 0, rev |-> 0, ends |-> 0, era |-> 0]
NoComponent == [status |-> "none", key |-> 0, direct |-> FALSE, until |-> 0]
NoDelegation == [status |-> "none", key |-> 0, rev |-> 0, trust |-> 0, until |-> 0, attested |-> 0]
NoSession == [of |-> "root", status |-> "none", key |-> 0, token |-> "none", tokenUntil |-> 0,
              grant |-> "none", grantUntil |-> 0, trust |-> 0, attested |-> 0, rev |-> 0,
              era |-> 0, from |-> 0]
NoCall == [pc |-> "idle", op |-> "none", arg |-> 0, at |-> 0, rev |-> 0, trust |-> 0, era |-> 0]

(***************************************************************************)
(* What authorises.                                                        *)
(***************************************************************************)
Open(s) ==
    LET x == session[s].of IN
    /\ family = "active"
    /\ component[x].status = "active" /\ component[x].key = session[s].key
    /\ session[s].status = "active"

\* authorizationStateError
Admitted(s) ==
    /\ session[s].grant = "live"
    /\ scope = "active"
    /\ Open(s)
    /\ installation.status = "active"
    /\ session[s].of = "root" => installation.trust = session[s].trust
    /\ session[s].grantUntil > clock

\* The part of currentComponentRefreshPolicyError about the delegation.
DelegationHolds(at) ==
    /\ delegation.rev = revision /\ delegation.status # "revoked"
    /\ component["root"].status = "active"
    /\ delegation.until > at /\ component["root"].until > at

\* componentRefreshStateError and currentComponentRefreshPolicyError; evidence
\* is not carried over to another revision.
Refreshable(s) ==
    LET x == session[s].of IN
    /\ session[s].token = "active" /\ session[s].tokenUntil > clock
    /\ session[s].grant # "revoked"
    /\ scope = "active"
    /\ Open(s)
    /\ component[x].until > clock
    /\ x = "root" => session[s].rev = revision /\ session[s].attested > clock
    /\ x = "child" => DelegationHolds(clock)

\* componentProvisioningStateError, at time at with the snapshot rev.
Redeemable(s, at, rev) ==
    /\ session[s].token = "provisioning" /\ session[s].tokenUntil > at
    /\ Open(s)
    /\ delegation.status = "open" /\ delegation.key = session[s].key
    /\ delegation.until > at /\ delegation.attested > at
    /\ component["root"].status = "active" /\ component["root"].until > clock
    /\ component["child"].until > at
    /\ delegation.rev = rev

Exchangeable(i, at, rev) ==
    /\ challenge[i].status = "open"
    /\ challenge[i].ends > at
    /\ challenge[i].rev = rev

(***************************************************************************)
(* Steps every call has.                                                   *)
(***************************************************************************)
Begin(c, op, arg, trust) ==
    /\ call[c].pc = "idle"
    /\ call' = [call EXCEPT ![c] = [pc |-> "begun", op |-> op, arg |-> arg, at |-> clock,
                                    rev |-> revision, trust |-> trust, era |-> 0]]
    /\ UNCHANGED <<clock, scope, era, revision, stored>>

\* lockActiveCredentialScope
LockScope(c) ==
    /\ call[c].pc = "begun"
    /\ call' = [call EXCEPT ![c] = IF scope = "active" THEN [@ EXCEPT !.pc = "locked", !.era = era]
                                                       ELSE NoCall]
    /\ UNCHANGED <<clock, scope, era, revision, stored>>

\* Any error, refusal or lost connection rolls the transaction back.
Fail(c) ==
    /\ call[c].pc # "idle"
    /\ call' = [call EXCEPT ![c] = NoCall]
    /\ UNCHANGED <<clock, scope, era, revision, stored>>

Commits(c, op) ==
    /\ call[c].pc = "locked" /\ call[c].op = op
    /\ call' = [call EXCEPT ![c] = NoCall]
    /\ UNCHANGED <<clock, scope, era, revision>>

(***************************************************************************)
(* Changes of several rows.                                                *)
(***************************************************************************)
\* Slip: only the grant is revoked, the family row stays active.
ReplacedGrantOnly(ss, x) ==
    [s \in Sessions |->
        IF ss[s].of = x /\ ss[s].status = "active"
        THEN [ss[s] EXCEPT !.grant = IF @ = "live" THEN "revoked" ELSE @] ELSE ss[s]]

\* revokeActiveComponentSessions
Replaced(ss, x) ==
    [s \in Sessions |->
        IF ss[s].of = x /\ ss[s].status = "active"
        THEN [ss[s] EXCEPT !.status = "replaced",
                 !.token = IF @ \in {"active", "provisioning"} THEN "revoked" ELSE @,
                 !.grant = IF @ = "live" THEN "revoked" ELSE @]
        ELSE ss[s]]

\* revokeComponentCredentials, RevokeComponent: tokens, grants, families of xs.
Revoked(xs) ==
    [s \in Sessions |->
        IF session[s].of \in xs /\ session[s].status # "none"
        THEN [session[s] EXCEPT !.status = IF @ = "active" THEN "revoked" ELSE @,
                 !.token = IF @ \in {"active", "provisioning"} THEN "revoked" ELSE @,
                 !.grant = IF @ = "live" THEN "revoked" ELSE @]
        ELSE session[s]]

\* revokeInstallationSessionsForTrustChange and revokeCurrentInstallation: the
\* grants of every component of the installation.
GrantsRevoked(ss) ==
    [s \in Sessions |-> IF ss[s].grant = "live" THEN [ss[s] EXCEPT !.grant = "revoked"] ELSE ss[s]]

Unused == {s \in Sessions : session[s].status = "none"}
NewSession(c, x, key, fields) ==
    [of |-> x, status |-> "active", key |-> key, token |-> fields.token, tokenUntil |-> fields.until,
     grant |-> IF fields.token = "active" THEN "live" ELSE "none",
     grantUntil |-> clock + AccessLifetime, trust |-> fields.trust, attested |-> fields.attested,
     rev |-> fields.rev, era |-> call[c].era, from |-> fields.from]

(***************************************************************************)
(* Session challenges (challenge.go).                                      *)
(***************************************************************************)
BeginCreateChallenge(c) == Begin(c, "challenge", 0, 0)

CreateChallenge(c) ==
    /\ Commits(c, "challenge")
    /\ call[c].rev = revision
    /\ \E i \in Challenges :
        /\ challenge[i].status = "none"
        /\ \A j \in Challenges : j < i => challenge[j].status # "none"
        /\ challenge' = [challenge EXCEPT ![i] = [status |-> "open", for |-> "root", key |-> 0,
                            rev |-> revision, ends |-> call[c].at + ChallengeTTL, era |-> call[c].era]]
    /\ UNCHANGED <<installation, family, component, delegation, session>>

\* ChallengeStore.DeleteExpired
DeleteExpired(i) ==
    /\ challenge[i].status \in {"open", "consumed"}
    /\ challenge[i].ends + Retention < clock
    /\ challenge' = [challenge EXCEPT ![i] = [@ EXCEPT !.status = "deleted"]]
    /\ UNCHANGED <<clock, scope, era, revision, installation, family, component, delegation,
                   session, call>>

(***************************************************************************)
(* Exchange (store.go): an attested challenge for a root session.          *)
(***************************************************************************)
BeginExchange(c, i, trust) ==
    /\ challenge[i].for = "root"
    /\ Exchangeable(i, clock, revision)
    /\ Begin(c, "exchange", i, trust)

\* Slip: the consumption row is looked for before the transaction only.
ConsumesPreflighted(c) == challenge[call[c].arg].status # "deleted" /\ call[c].rev = revision

\* consumeChallenge
Consumes(c) ==
    /\ Exchangeable(call[c].arg, call[c].at, call[c].rev)
    /\ call[c].rev = revision

Consumed(i) == [challenge EXCEPT ![i] = [@ EXCEPT !.status = "consumed"]]

TrustChanged(trust) == installation.status = "active" /\ installation.trust # trust

\* upsertInstallation, upsertRootFamilyComponent, revokeActiveComponentSessions
Exchange(c) ==
    LET i == call[c].arg
        attested == call[c].at + AttestationLifetime
        kept == IF TrustChanged(call[c].trust) THEN GrantsRevoked(Replaced(session, "root"))
                                               ELSE Replaced(session, "root")
    IN /\ Commits(c, "exchange")
       /\ Consumes(c)
       /\ challenge' = Consumed(i)
       /\ installation.status # "revoked"
       /\ installation' = [status |-> "active", trust |-> call[c].trust]
       /\ family # "revoked" /\ component["root"].status # "revoked"
       /\ family' = "active"
       /\ component' = [component EXCEPT !["root"] =
                [status |-> "active", key |-> 1, direct |-> TRUE, until |-> attested]]
       /\ \E s \in Unused :
            /\ s = Least(Unused)
            /\ session' = [kept EXCEPT ![s] = NewSession(c, "root", 1,
                    [token |-> "active", until |-> call[c].at + RefreshLifetime,
                     trust |-> call[c].trust, attested |-> attested, rev |-> revision, from |-> i])]
       /\ UNCHANGED delegation

(***************************************************************************)
(* Provisioning of the child by an authorised root call (component.go).    *)
(***************************************************************************)
\* authorizeAccess under FOR UPDATE locks of installation, family and component.
BeginProvision(c, s) ==
    /\ session[s].of = "root" /\ session[s].grant = "live" /\ session[s].grantUntil > clock
    /\ Begin(c, "provision", s, 0)

\* Slip: the delegation lasts as long as the definition allows.
DelegationUnbounded(c) == call[c].at + DelegationLifetime

TrustExpires(c) == Least({call[c].at + DelegationLifetime, session[call[c].arg].attested})

\* The slot's component keeps its row when it is active and gets a new key.
ProvisionComponent(c) ==
    LET s == call[c].arg
        key == component["child"].key + 1
        until == TrustExpires(c)
    IN /\ Commits(c, "provision")
       /\ Admitted(s) /\ session[s].attested > call[c].at
       /\ call[c].rev = revision
       /\ until > call[c].at
       /\ key <= MaxKeys
       /\ component' = [component EXCEPT !["child"] =
                [status |-> "active", key |-> key, direct |-> FALSE, until |-> until]]
       /\ delegation' = [status |-> "open", key |-> key, rev |-> revision, until |-> until,
                         trust |-> session[s].trust, attested |-> session[s].attested]
       /\ \E n \in Unused :
            /\ n = Least(Unused)
            /\ session' = [Replaced(session, "child") EXCEPT ![n] = NewSession(c, "child", key,
                    [token |-> "provisioning", until |-> until, trust |-> session[s].trust,
                     attested |-> session[s].attested, rev |-> revision, from |-> 0])]
       /\ UNCHANGED <<challenge, installation, family>>

\* CreateComponentSession: the provisioning grant for the first session pair.
BeginRedeem(c, s) ==
    /\ Redeemable(s, clock, revision)
    /\ Begin(c, "redeem", s, 0)

CreateComponentSession(c) ==
    LET s == call[c].arg IN
    /\ Commits(c, "redeem")
    /\ installation.status = "active"
    /\ Redeemable(s, call[c].at, call[c].rev)
    /\ session' = [session EXCEPT ![s] = [@ EXCEPT !.token = "active", !.grant = "live",
            !.tokenUntil = Least({call[c].at + RefreshLifetime, component["child"].until}),
            !.grantUntil = call[c].at + AccessLifetime, !.trust = delegation.trust,
            !.rev = call[c].rev]]
    /\ delegation' = [delegation EXCEPT !.status = "consumed"]
    /\ UNCHANGED <<challenge, installation, family, component>>

(***************************************************************************)
(* Step-up of the child by its own attestation (component_attestation.go). *)
(***************************************************************************)
BeginStepUpChallenge(c, s) ==
    /\ session[s].of = "child" /\ session[s].grant = "live" /\ session[s].rev = revision
    /\ Begin(c, "stepUpChallenge", s, 0)

CreateComponentAttestationChallenge(c) ==
    LET s == call[c].arg
        ends == Least({call[c].at + ChallengeTTL, delegation.until})
    IN /\ Commits(c, "stepUpChallenge")
       /\ Admitted(s) /\ session[s].rev = call[c].rev
       /\ delegation.status # "revoked" /\ delegation.until > call[c].at
       /\ \E i \in Challenges :
            /\ challenge[i].status = "none"
            /\ \A j \in Challenges : j < i => challenge[j].status # "none"
            /\ challenge' = [challenge EXCEPT ![i] = [status |-> "open", for |-> "child",
                    key |-> session[s].key, rev |-> call[c].rev, ends |-> ends, era |-> call[c].era]]
       /\ UNCHANGED <<installation, family, component, delegation, session>>

BeginStepUp(c, i, trust) ==
    /\ challenge[i].for = "child"
    /\ Exchangeable(i, clock, revision)
    /\ Begin(c, "stepUp", i, trust)

\* Slip: the child's own evidence alone decides its level.
ChildEvidence(left, right) == right

\* Slip: a level of the evidence that is not ranked counts as rank 0.
UnrankedTrust(left, right) == IF left = right THEN left ELSE 0

\* minimumTrustLevel
MinimumTrust(left, right) == Least({left, right})

\* earliestTime
EffectiveExpiry(c, s) ==
    Least({call[c].at + AttestationLifetime, delegation.until, component["root"].until,
           session[s].attested})

ExchangeComponentAttestation(c) ==
    LET i == call[c].arg
    IN /\ Commits(c, "stepUp")
       /\ call[c].rev = revision
       /\ \E s \in Sessions : LET until == EffectiveExpiry(c, s) IN
            /\ until > call[c].at
            /\ session[s].of = "child" /\ session[s].key = challenge[i].key
            /\ Admitted(s) /\ session[s].rev = call[c].rev
            /\ delegation.status # "revoked" /\ delegation.until > call[c].at
            /\ component["root"].status = "active" /\ component["root"].direct
            /\ component["root"].until > call[c].at
            /\ Consumes(c)
            /\ challenge' = Consumed(i)
            /\ component' = [component EXCEPT !["child"] =
                    [@ EXCEPT !.direct = TRUE, !.until = until]]
            /\ \E n \in Unused :
                /\ n = Least(Unused)
                /\ session' = [Replaced(session, "child") EXCEPT ![n] =
                        NewSession(c, "child", session[s].key, [token |-> "active",
                            until |-> Least({call[c].at + RefreshLifetime, until}),
                            trust |-> MinimumTrust(session[s].trust, call[c].trust),
                            attested |-> until, rev |-> revision, from |-> i])]
       /\ UNCHANGED <<installation, family, delegation>>

(***************************************************************************)
(* Refresh in one step; SessionRefresh has it statement by statement.      *)
(***************************************************************************)
Refresh(s) ==
    /\ Refreshable(s)
    /\ session' = [session EXCEPT ![s] = [@ EXCEPT !.grantUntil = clock + AccessLifetime,
            !.rev = revision,
            !.tokenUntil = IF session[s].of = "root" THEN clock + RefreshLifetime
                           ELSE Least({clock + RefreshLifetime, component["child"].until})]]
    /\ UNCHANGED <<clock, scope, era, revision, challenge, installation, family, component,
                   delegation, call>>

(***************************************************************************)
(* Revocation.                                                             *)
(***************************************************************************)
\* RevokeComponent by the root, revokeClientComponent by an administrator.
RevokeComponent ==
    /\ family = "active" /\ component["child"].status = "active"
    /\ component' = [component EXCEPT !["child"] = [@ EXCEPT !.status = "revoked"]]
    /\ delegation' = [delegation EXCEPT !.status = "revoked"]
    /\ session' = Revoked({"child"})
    /\ UNCHANGED <<clock, scope, era, revision, challenge, installation, family, call>>

\* RevokeCurrentFamily, with revokeCurrentInstallation.
RevokeCurrentFamily ==
    /\ family = "active"
    /\ family' = "revoked"
    /\ component' = [x \in Components |-> IF component[x].status = "active"
                        THEN [component[x] EXCEPT !.status = "revoked"] ELSE component[x]]
    /\ delegation' = [delegation EXCEPT !.status = IF @ = "none" THEN @ ELSE "revoked"]
    /\ session' = Revoked(Components)
    /\ installation' = [installation EXCEPT !.status = "revoked"]
    /\ UNCHANGED <<clock, scope, era, revision, challenge, call>>

\* Slip: the grants are left to their expiry.
InstallationGrantsKept == session

InstallationGrantsRevoked == GrantsRevoked(session)

\* RevokeCurrentInstallation leaves families, components and their tokens alone.
RevokeCurrentInstallation ==
    /\ installation.status = "active"
    /\ installation' = [installation EXCEPT !.status = "revoked"]
    /\ session' = InstallationGrantsRevoked
    /\ UNCHANGED <<clock, scope, era, revision, challenge, family, component, delegation, call>>

\* expireComponentTrustAndRefresh for the family or for the child alone.
ExpireTrust(xs) ==
    /\ family = "active"
    /\ \A x \in xs : component[x].status = "active"
    /\ component' = [x \in Components |-> IF x \in xs
                        THEN [component[x] EXCEPT !.until = Least({component[x].until, clock})] ELSE component[x]]
    /\ session' = [s \in Sessions |-> IF session[s].of \in xs /\ session[s].token \in {"active", "provisioning"}
                                      THEN [session[s] EXCEPT !.token = "revoked"] ELSE session[s]]
    /\ UNCHANGED <<clock, scope, era, revision, challenge, installation, family, delegation, call>>

(***************************************************************************)
(* Disabling and enabling (controlplane/store.go).                         *)
(***************************************************************************)
\* Slip: calls that have locked the scope are not waited for.
ScopeLockedByNobody == TRUE

\* FOR UPDATE on the application waits for every call that holds it FOR SHARE.
ScopeLockFree == \A c \in Callers : call[c].pc # "locked"

\* revokeScopedCredentials
DisableScope ==
    /\ ScopeLockFree
    /\ era < MaxEra
    /\ scope' = "disabled"
    /\ era' = era + 1
    /\ challenge' = [i \in Challenges |-> IF challenge[i].status = "open" THEN Consumed(i)[i]
                                          ELSE challenge[i]]
    /\ delegation' = [delegation EXCEPT !.status = IF @ = "none" THEN @ ELSE "revoked"]
    /\ session' = Revoked(Components)
    /\ UNCHANGED <<clock, revision, installation, family, component, call>>

EnableScope ==
    /\ ScopeLockFree
    /\ scope = "disabled"
    /\ scope' = "active"
    /\ UNCHANGED <<clock, era, revision, stored, call>>

ActivateRevision ==
    /\ revision < MaxRevision
    /\ revision' = revision + 1
    /\ UNCHANGED <<clock, scope, era, stored, call>>

Tick ==
    /\ clock < MaxTime
    /\ clock' = clock + 1
    /\ UNCHANGED <<scope, era, revision, stored, call>>

(***************************************************************************)
Init ==
    /\ clock = 0 /\ scope = "active" /\ era = 0 /\ revision = 1
    /\ challenge = [i \in Challenges |-> NoChallenge]
    /\ installation = [status |-> "none", trust |-> 0]
    /\ family = "none"
    /\ component = [x \in Components |-> NoComponent]
    /\ delegation = NoDelegation
    /\ session = [s \in Sessions |-> NoSession]
    /\ call = [c \in Callers |-> NoCall]

Step(c) ==
    \/ LockScope(c) \/ Fail(c)
    \/ BeginCreateChallenge(c) \/ CreateChallenge(c)
    \/ \E i \in Challenges, t \in TrustLevels : BeginExchange(c, i, t) \/ BeginStepUp(c, i, t)
    \/ Exchange(c)
    \/ \E s \in Sessions : BeginProvision(c, s) \/ BeginRedeem(c, s) \/ BeginStepUpChallenge(c, s)
    \/ ProvisionComponent(c) \/ CreateComponentSession(c)
    \/ CreateComponentAttestationChallenge(c) \/ ExchangeComponentAttestation(c)

Next ==
    \/ \E c \in Callers : Step(c)
    \/ \E i \in Challenges : DeleteExpired(i)
    \/ \E s \in Sessions : Refresh(s)
    \/ RevokeComponent \/ RevokeCurrentFamily \/ RevokeCurrentInstallation
    \/ ExpireTrust(Components) \/ ExpireTrust({"child"})
    \/ DisableScope \/ EnableScope \/ ActivateRevision \/ Tick

Spec == Init /\ [][Next]_vars

(***************************************************************************)
(* Properties.                                                             *)
(***************************************************************************)
Trust == {0} \cup TrustLevels
ChallengeRow == [status : {"none", "open", "consumed", "deleted"}, for : Components,
                 key : 0..MaxKeys, rev : 0..MaxRevision, ends : 0..(MaxTime + ChallengeTTL),
                 era : 0..MaxEra]
InstallationRow == [status : {"none", "active", "revoked"}, trust : Trust]
ComponentRow == [status : {"none", "active", "revoked"}, key : 0..MaxKeys, direct : BOOLEAN,
                 until : Nat]
DelegationRow == [status : {"none", "open", "consumed", "revoked"}, key : 0..MaxKeys,
                  rev : 0..MaxRevision, trust : Trust, until : Nat, attested : Nat]
SessionRow == [of : Components, status : {"none", "active", "replaced", "revoked"}, key : 0..MaxKeys,
               token : {"none", "provisioning", "active", "revoked"}, tokenUntil : Nat,
               grant : {"none", "live", "revoked"}, grantUntil : Nat, trust : Trust, attested : Nat,
               rev : 0..MaxRevision, era : 0..MaxEra, from : {0} \cup Challenges]
Operations == {"none", "challenge", "exchange", "provision", "redeem", "stepUpChallenge", "stepUp"}
CallRow == [pc : {"idle", "begun", "locked"}, op : Operations, arg : Nat, at : 0..MaxTime,
            rev : 0..MaxRevision, trust : Trust, era : 0..MaxEra]

TypeOK ==
    /\ clock \in 0..MaxTime /\ scope \in {"active", "disabled"} /\ era \in 0..MaxEra
    /\ revision \in 1..MaxRevision
    /\ challenge \in [Challenges -> ChallengeRow]
    /\ installation \in InstallationRow
    /\ family \in {"none", "active", "revoked"}
    /\ component \in [Components -> ComponentRow]
    /\ delegation \in DelegationRow
    /\ session \in [Sessions -> SessionRow]
    /\ \A s \in Sessions : session[s].status # "none" => session[s].trust \in TrustLevels
    /\ call \in [Callers -> CallRow]

Usable(s) == Admitted(s) \/ Refreshable(s) \/ Redeemable(s, clock, revision)

\* A component has one active session family at most, although exchanges,
\* provisioning and step-ups of two calls interleave: the unique index
\* component_session_families_one_active_idx never refuses an insert.
OneActiveSession ==
    \A s, t \in Sessions :
        session[s].status = "active" /\ session[t].status = "active" /\ session[s].of = session[t].of
            => s = t

\* "EnableEnvironment restores future eligibility without reviving credentials":
\* nothing made before a disable is usable after it, also by calls that began
\* before (the comments at challenge.go:254 and controlplane/store.go:418).
NothingRevived ==
    /\ \A s \in Sessions : Usable(s) => session[s].era = era
    /\ \A i \in Challenges : challenge[i].status = "open" => challenge[i].era = era

\* A challenge buys one session, however many calls present it (challenge.go:488).
ChallengeBuysOnce ==
    \A s, t \in Sessions : session[s].from = session[t].from /\ session[s].from # 0 => s = t

\* With the installation or its family revoked no component is admitted, can
\* refresh, or can be given a session, although revokeCurrentInstallation
\* touches neither components nor their tokens (authorization.go:726).
RevokedIsClosed ==
    "revoked" \in {installation.status, family} =>
        \A s \in Sessions :
            /\ ~Admitted(s) /\ ~Refreshable(s)
            /\ ~(installation.status = "active" /\ Redeemable(s, clock, revision))

\* A child's session never outlives its delegation or exceeds its level, and
\* the delegation never outlives the evidence of the root that gave it
\* (component.go:229, component_attestation.go:470).
DelegationBounds ==
    \A s \in Sessions :
        session[s].of = "child" /\ session[s].status = "active" =>
            /\ session[s].tokenUntil <= delegation.until
            /\ delegation.until <= delegation.attested
            /\ session[s].trust <= delegation.trust

\* A component has one active session although calls that open sessions
\* interleave; a challenge buys one session; nothing made before a disable is
\* usable after it and nothing revoked is usable again; and a child's session
\* never outlives or exceeds what was delegated to it (challenge.go:488,
\* authorization.go:726, component.go:229).
SessionsAreExclusive ==
    /\ TypeOK
    /\ OneActiveSession /\ ChallengeBuysOnce
    /\ NothingRevived /\ RevokedIsClosed
    /\ DelegationBounds

\* "Effective trust is the minimum allowed by root trust, delegation, component
\* evidence" (ADR 0022): a child is never admitted above its installation.
EffectiveTrust ==
    \A s \in Sessions : session[s].of = "child" /\ Admitted(s) => session[s].trust <= installation.trust
=============================================================================
