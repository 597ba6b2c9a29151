-------------------------- MODULE ScopeOperations --------------------------
(***************************************************************************)
(* What an administrator does to an application, its environments, a user  *)
(* and the user's installations (internal/controlplane/store.go and        *)
(* internal/adminapi: operational_store.go, operational_family_store.go,   *)
(* user_operations.go), while clients go on obtaining credentials.         *)
(*                                                                         *)
(* One application, one user.  The user has one installation family in     *)
(* each environment, with a root component and a child that trusts it.     *)
(* A credential is one of Kinds and is held by a component; issuing one    *)
(* (internal/session) is a transaction of several steps.  An operation of  *)
(* the administrator on a scope or a family is one step, as it holds the   *)
(* rows it changes locked; one on the user counts the credentials in one   *)
(* statement and changes them in others, with only the user's row and the  *)
(* scope locked between.                                                   *)
(***************************************************************************)
EXTENDS Naturals, FiniteSets, TLC

CONSTANTS Environments, Calls

Roles == {"root", "child"}
Components == Environments \X Roles
FamilyOf(c) == c[1]                \* a family is named by its environment
MembersOf(f) == {f} \X Roles

\* Grants, refresh tokens (of an installation or of a component), component
\* sessions, cached rotation results, component keys, a child's delegation.
Kinds == {"grant", "token", "session", "result", "key", "delegation"}

VARIABLES application,   \* applications.status
          environment,   \* environments.status, "absent" before its creation
          user,          \* application_users.status
          installation,  \* installations.status of each root
          family,        \* installation_families.status
          component,     \* client_components.status
          trusted,       \* components whose trust has not expired
          live,          \* live[c]: the credentials of c that are not revoked
          challenges,    \* environments with a session challenge not consumed
          call,          \* the issuing transactions
          preview,       \* the impact an administrator was shown
          confirming     \* the user operation that counted and has not changed
                         \* anything yet, and what was live when it counted

vars == <<application, environment, user, installation, family, component, trusted, live,
          challenges, call, preview, confirming>>
scope == <<application, environment>>
trust == <<installation, family, component, trusted>>

Operations == {"block", "unblock", "require_reauthentication", "require_app_reverification"}
NoCall == [step |-> "idle", component |-> <<0, "root">>, signsIn |-> FALSE]
NoPreview == [operation |-> "none"]
NoConfirm == [operation |-> "none"]

TypeOK ==
    /\ application \in {"active", "disabled"} /\ user \in {"active", "blocked"}
    /\ environment \in [Environments -> {"absent", "active", "disabled"}]
    /\ installation \in [Environments -> {"absent", "active", "revoked"}]
    /\ family \in [Environments -> {"absent", "active", "revoked"}]
    /\ component \in [Components -> {"absent", "active", "revoked"}]
    /\ trusted \subseteq Components /\ live \in [Components -> SUBSET Kinds]
    /\ challenges \subseteq Environments

ActiveScope(e) == application = "active" /\ environment[e] = "active"

-----------------------------------------------------------------------------
(* Issuing credentials.  The transaction holds the application and the      *)
(* environment FOR SHARE from its first step, the family from its second;   *)
(* the user's status is read by the statement that inserts the grant, whose *)
(* foreign key then waits for an administrator who holds the user's row.    *)

Issuing(c, step) == \E k \in Calls : call[k].step = step /\ call[k].component = c
ScopeShared(e) ==
    \/ \E k \in Calls : call[k].step # "idle" /\ FamilyOf(call[k].component) = e
    \/ confirming.operation # "none" /\ confirming.environment = e
FamilyHeld(f) == \E c \in MembersOf(f) : Issuing(c, "locked") \/ Issuing(c, "read")

\* No user operation holds the user's row FOR UPDATE.
UserFree == confirming.operation = "none"

Leave(k) == call' = [call EXCEPT ![k] = NoCall]

CreateChallenge(e) ==
    /\ ActiveScope(e) /\ user = "active" /\ e \notin challenges
    /\ challenges' = challenges \cup {e}
    /\ UNCHANGED <<scope, user, trust, live, call, preview, confirming>>

\* lockActiveCredentialScope, then the challenge of a sign-in is consumed.
BeginIssue(k, c) ==
    /\ call[k].step = "idle" /\ ActiveScope(FamilyOf(c))
    /\ call' = [call EXCEPT ![k] = [NoCall EXCEPT !.step = "begun", !.component = c]]
    /\ UNCHANGED <<scope, user, trust, live, challenges, preview, confirming>>

SignsIn(c) ==
    /\ c[2] = "root" /\ FamilyOf(c) \in challenges
    /\ installation[FamilyOf(c)] # "revoked" /\ family[FamilyOf(c)] # "revoked"
    /\ component[c] # "revoked"

\* A child redeems its provisioning grant; a component rotates its token.
Redeems(c) == {"delegation", "key"} \subseteq live[c]
Rotates(c) == {"token", "session"} \subseteq live[c]
Renewable(c) ==
    /\ Redeems(c) \/ Rotates(c)
    /\ c \in trusted /\ component[c] = "active"
    /\ family[FamilyOf(c)] = "active" /\ installation[FamilyOf(c)] = "active"

\* The rows of the family are locked and found usable.  A family locked for
\* another call makes this one wait.
LockFamily(k) ==
    LET c == call[k].component IN
    /\ call[k].step = "begun" /\ ~FamilyHeld(FamilyOf(c))
    /\ \E signsIn \in BOOLEAN :
          /\ IF signsIn THEN SignsIn(c) ELSE Renewable(c)
          /\ call' = [call EXCEPT ![k].step = "locked", ![k].signsIn = signsIn]
    /\ UNCHANGED <<scope, user, trust, live, challenges, preview, confirming>>

\* The user's status is read as active.
ReadUser(k) ==
    /\ call[k].step = "locked" /\ user = "active"
    /\ call' = [call EXCEPT ![k].step = "read"]
    /\ UNCHANGED <<scope, user, trust, live, challenges, preview, confirming>>

\* What the transaction wrote becomes visible: a sign-in's installation,
\* family and component, and the session that replaces the earlier one.  The
\* foreign key of the grant has waited for the user's row.
CommitIssue(k) ==
    LET c == call[k].component
        f == FamilyOf(c) IN
    /\ call[k].step = "read" /\ UserFree
    /\ live' = [live EXCEPT ![c] = (@ \cap {"key", "delegation"}) \cup {"grant", "token", "session"}
                                   \cup IF call[k].signsIn THEN {"key"} ELSE {"result"}]
    /\ IF call[k].signsIn
       THEN /\ challenges' = challenges \ {f}
            /\ installation' = [installation EXCEPT ![f] = "active"]
            /\ family' = [family EXCEPT ![f] = "active"]
            /\ component' = [component EXCEPT ![c] = "active"]
            /\ trusted' = trusted \cup {c}
       ELSE UNCHANGED <<challenges, trust>>
    /\ Leave(k)
    /\ UNCHANGED <<scope, user, preview, confirming>>

\* The call is refused or its connection lost, and rolled back.
AbortIssue(k) ==
    /\ call[k].step # "idle"
    /\ Leave(k)
    /\ UNCHANGED <<scope, user, trust, live, challenges, preview, confirming>>

\* A root with a grant provisions its child, with the user's row FOR SHARE.
ProvisionComponent(f) ==
    LET child == <<f, "child">> IN
    /\ ActiveScope(f) /\ UserFree /\ user = "active" /\ family[f] = "active" /\ ~FamilyHeld(f)
    /\ "grant" \in live[<<f, "root">>] /\ <<f, "root">> \in trusted /\ component[child] = "absent"
    /\ component' = [component EXCEPT ![child] = "active"]
    /\ trusted' = trusted \cup {child}
    /\ live' = [live EXCEPT ![child] = {"key", "delegation"}]
    /\ UNCHANGED <<scope, user, installation, family, challenges, call, preview, confirming>>

-----------------------------------------------------------------------------
(* Applications and environments. *)

\* revokeScopedCredentials: everything but keys, and the open challenges.
Scoped == Kinds \ {"key"}
\* Slip: rotation results are cached credentials too, and are kept.
WithoutScopedKeepingResults(environments) ==
    [c \in Components |->
        IF FamilyOf(c) \in environments THEN live[c] \ (Scoped \ {"result"}) ELSE live[c]]

WithoutScoped(environments) ==
    [c \in Components |-> IF FamilyOf(c) \in environments THEN live[c] \ Scoped ELSE live[c]]

CreateEnvironment(e) ==
    /\ application = "active" /\ environment[e] = "absent"
    /\ environment' = [environment EXCEPT ![e] = "active"]
    /\ UNCHANGED <<application, user, trust, live, challenges, call, preview, confirming>>

\* Slip: the row is read without a lock.
ApplicationUnlocked == TRUE

\* FOR UPDATE OF application waits for every transaction that shares it.
ApplicationFree == \A e \in Environments : ~ScopeShared(e)

DisableApplication ==
    /\ ApplicationFree
    /\ application' = "disabled"
    /\ live' = WithoutScoped(Environments) /\ challenges' = {}
    /\ UNCHANGED <<environment, user, trust, call, preview, confirming>>

EnableApplication ==
    /\ ApplicationFree /\ application = "disabled"
    /\ application' = "active"
    /\ UNCHANGED <<environment, user, trust, live, challenges, call, preview, confirming>>

DisableEnvironment(e) ==
    /\ environment[e] # "absent" /\ ~ScopeShared(e)
    /\ environment' = [environment EXCEPT ![e] = "disabled"]
    /\ live' = WithoutScoped({e}) /\ challenges' = challenges \ {e}
    /\ UNCHANGED <<application, user, trust, call, preview, confirming>>

EnableEnvironment(e) ==
    /\ environment[e] = "disabled" /\ ~ScopeShared(e)
    /\ environment' = [environment EXCEPT ![e] = "active"]
    /\ UNCHANGED <<application, user, trust, live, challenges, call, preview, confirming>>

-----------------------------------------------------------------------------
(* The user: an operation is shown with its impact and confirmed with a    *)
(* token that is a digest of it.                                           *)

Applicable(operation) == user = IF operation = "unblock" THEN "blocked" ELSE "active"

Holders(kind) == Cardinality({c \in Components : kind \in live[c]})

\* loadUserOperationCounts, for the whole application.
Counts == [kind \in {"grant", "session", "token"} |-> Holders(kind)] @@
          [kind \in {"families"} |-> Cardinality({f \in Environments : family[f] = "active"})] @@
          [kind \in {"components"} |-> Cardinality({c \in Components : component[c] = "active"})]

\* Slip: the digest leaves the counts out.
ImpactTokenOfStatus(e, operation) ==
    [environment |-> e, operation |-> operation, status |-> user, counts |-> [kind \in {"none"} |-> 0]]

\* describeUserOperation: what the impact token is a digest of.
ImpactToken(e, operation) ==
    [environment |-> e, operation |-> operation, status |-> user, counts |-> Counts]

PreviewUserOperation(e, operation) ==
    /\ ActiveScope(e)
    /\ preview' = [operation |-> operation, token |-> ImpactToken(e, operation)]
    /\ UNCHANGED <<scope, user, trust, live, challenges, call, confirming>>

\* userOperationTarget FOR UPDATE OF users FOR SHARE OF application, environment;
\* then the rows are counted again, none of them locked, and the token compared.
ConfirmUserOperation(operation) ==
    /\ UserFree /\ preview.operation = operation
    /\ ActiveScope(preview.token.environment)
    /\ Applicable(operation) /\ ImpactToken(preview.token.environment, operation) = preview.token
    /\ confirming' = [operation |-> operation, environment |-> preview.token.environment, held |-> live]
    /\ UNCHANGED <<scope, user, trust, live, challenges, call, preview>>

\* The transaction fails or deadlocks with a call, and is rolled back.
AbortUserOperation ==
    /\ ~UserFree
    /\ confirming' = NoConfirm
    /\ UNCHANGED <<scope, user, trust, live, challenges, call, preview>>

\* The statements that change what is there by then, and the commit.
Applies(operation) == confirming.operation = operation /\ confirming' = NoConfirm

\* Grants, refresh tokens, sessions and cached results of every component.
SessionsRevoked == [c \in Components |-> live[c] \ {"grant", "token", "session", "result"}]

SetUserBlocked(blocked) ==
    /\ Applies(IF blocked THEN "block" ELSE "unblock")
    /\ user' = IF blocked THEN "blocked" ELSE "active"
    /\ live' = IF blocked THEN SessionsRevoked ELSE live
    /\ UNCHANGED <<scope, trust, challenges, call, preview>>

RequireReauthentication ==
    /\ Applies("require_reauthentication")
    /\ live' = SessionsRevoked
    /\ UNCHANGED <<scope, user, trust, challenges, call, preview>>

\* Slip: the trust expires and the refresh credentials stay.
RenewalOfTrustOnly(components) ==
    /\ live' = live
    /\ trusted' = trusted \ {c \in components : component[c] = "active"}

\* expireComponentTrustAndRefresh for a set of components, and
\* revokeLegacyRefreshForRenewal.
Renewal(components) ==
    /\ live' = [c \in Components |->
                  IF c \in components THEN live[c] \ {"token", "result"} ELSE live[c]]
    /\ trusted' = trusted \ {c \in components : component[c] = "active"}

RequireAppReverification ==
    /\ Applies("require_app_reverification")
    /\ \A f \in Environments : family[f] = "active" => ~FamilyHeld(f)
    /\ Renewal({c \in Components : family[FamilyOf(c)] = "active"})
    /\ UNCHANGED <<scope, user, installation, family, component, challenges, call, preview>>

-----------------------------------------------------------------------------
(* Installations, families and components.                                 *)

\* lockActiveOperationalScope and the family FOR UPDATE.
FamilyLockable(f) == ActiveScope(f) /\ ~FamilyHeld(f)

\* Slip: only the component itself, not the ones that trust it.
ComponentAlone(c) == {c}

\* affectedComponentIDs: a root takes the family with it.
Affected(c) == IF c[2] = "root" THEN MembersOf(FamilyOf(c)) ELSE {c}

\* revokeComponentCredentials.
ComponentsRevoked(components) ==
    /\ live' = [c \in Components |-> IF c \in components THEN {} ELSE live[c]]
    /\ component' = [c \in Components |->
                       IF c \in components /\ component[c] = "active" THEN "revoked" ELSE component[c]]

FamilyRevoked(f) ==
    /\ family[f] # "absent"
    /\ family' = [family EXCEPT ![f] = "revoked"]
    /\ installation' = [installation EXCEPT ![f] = "revoked"]

\* revokeInstallation and revokeInstallationFamily, whose rows go together.
RevokeInstallationFamily(f) ==
    /\ FamilyLockable(f) /\ FamilyRevoked(f) /\ ComponentsRevoked(MembersOf(f))
    /\ UNCHANGED <<scope, user, trusted, challenges, call, preview, confirming>>

RevokeClientComponent(c) ==
    /\ FamilyLockable(FamilyOf(c)) /\ component[c] # "absent"
    /\ ComponentsRevoked(Affected(c))
    /\ IF c[2] = "root" THEN FamilyRevoked(FamilyOf(c)) ELSE UNCHANGED <<family, installation>>
    /\ UNCHANGED <<scope, user, trusted, challenges, call, preview, confirming>>

RequireInstallationFamilyRenewal(f) ==
    /\ FamilyLockable(f) /\ family[f] = "active"
    /\ Renewal(MembersOf(f))
    /\ UNCHANGED <<scope, user, installation, family, component, challenges, call, preview, confirming>>

RequireClientComponentReattestation(c) ==
    /\ FamilyLockable(FamilyOf(c))
    /\ component[c] = "active" /\ family[FamilyOf(c)] = "active"
    /\ Renewal(Affected(c))
    /\ UNCHANGED <<scope, user, installation, family, component, challenges, call, preview, confirming>>

-----------------------------------------------------------------------------
Init ==
    /\ application = "active" /\ user = "active"
    /\ environment = [e \in Environments |-> "absent"]
    /\ installation = [e \in Environments |-> "absent"]
    /\ family = [e \in Environments |-> "absent"]
    /\ component = [c \in Components |-> "absent"]
    /\ trusted = {} /\ live = [c \in Components |-> {}] /\ challenges = {}
    /\ call = [k \in Calls |-> NoCall]
    /\ preview = NoPreview /\ confirming = NoConfirm

IssueStep ==
    \/ \E e \in Environments : CreateChallenge(e) \/ ProvisionComponent(e)
    \/ \E k \in Calls : \/ \E c \in Components : BeginIssue(k, c)
                        \/ LockFamily(k) \/ ReadUser(k) \/ CommitIssue(k) \/ AbortIssue(k)

AdministratorStep ==
    \/ DisableApplication \/ EnableApplication
    \/ \E e \in Environments :
          \/ CreateEnvironment(e) \/ DisableEnvironment(e) \/ EnableEnvironment(e)
          \/ \E operation \in Operations : PreviewUserOperation(e, operation)
          \/ RevokeInstallationFamily(e) \/ RequireInstallationFamilyRenewal(e)
    \/ \E operation \in Operations : ConfirmUserOperation(operation)
    \/ AbortUserOperation
    \/ \E blocked \in BOOLEAN : SetUserBlocked(blocked)
    \/ RequireReauthentication \/ RequireAppReverification
    \/ \E c \in Components : RevokeClientComponent(c) \/ RequireClientComponentReattestation(c)

Next == IssueStep \/ AdministratorStep

Spec == Init /\ [][Next]_vars

-----------------------------------------------------------------------------
(* Properties. *)

\* A disabled application or environment holds no credential and no open
\* challenge, although calls were issuing some when it was disabled.
DisabledHoldsNothing ==
    \A c \in Components : ~ActiveScope(FamilyOf(c)) =>
        live[c] \subseteq {"key"} /\ FamilyOf(c) \notin challenges

\* What hangs from a revoked component is revoked with it: no credential of
\* the family outlives its root, whatever was being issued or provisioned.
RevokedHoldsNothing ==
    \A c \in Components :
        /\ component[c] = "revoked" => live[c] = {}
        /\ family[FamilyOf(c)] = "revoked" => live[c] = {} /\ component[c] # "active"

\* A refresh credential exists only while its component is trusted: once an
\* administrator asks for fresh verification, only a sign-in brings it back.
RefreshNeedsTrust == \A c \in Components : "token" \in live[c] => c \in trusted

\* Nothing is added to what a confirmed user operation counted before it acts
\* on it: calls that issue at the same time wait for the user's row, although
\* the counted rows are not locked.  Rows may leave meanwhile; and what a call
\* that had read the user as active issues afterwards stays.
NothingAddedSince ==
    ~UserFree => \A c \in Components : live[c] \subseteq confirming.held[c]
=============================================================================
