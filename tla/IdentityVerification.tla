------------------------ MODULE IdentityVerification ------------------------
(***************************************************************************)
(* Who a client's user is: the keys of an identity provider                *)
(* (internal/identity/jwks.go, jwks_cache_postgresql.go, verifier.go), the *)
(* users its subjects become (identity/store.go, reauthenticate.go) and    *)
(* the renewal of a session's identity (session/identity_verification.go). *)
(*                                                                         *)
(* Two specifications share the clock.  In KeysSpec the replicas of the    *)
(* gateway look up the keys of one provider, each with a cache of its own  *)
(* and all with one in the database, while the provider rotates its keys   *)
(* and the network and the database fail.  In UsersSpec tokens whose       *)
(* signatures held become users and renew a session, while administrators  *)
(* block users, revoke the session and activate revisions.                 *)
(***************************************************************************)
EXTENDS Naturals, FiniteSets

CONSTANTS Calls, Replicas, None,
          At,           \* the replica each call arrives at
          Maintainers,  \* the calls that are the worker's maintenance
          MaxTime,      \* bound: the clock
          MaxVersions,  \* bound: key documents the provider publishes
          MaxFailures,  \* bound: failures of the database and of the network
          MaxTTL, Grace, ForcedMinimum, LeaseTime,
          People,       \* subjects of the provider
          Skew,         \* the verifier's leeway
          MaxRevisions

VARIABLES now,
          published,    \* the document the provider publishes
          withdrawnAt,  \* when each key ceased to be published, None before
          local,        \* each replica's record
          lastForced, refreshing, outcome,
          shared,       \* the record in the database
          lease,        \* who may replace it, and until when
          failures,     \* of the database and of the network, so far
          call,
          users,        \* each subject's user: none, active or blocked
          locked,       \* the call that holds the lock of each subject
          grant, revision, auth

keyVars == <<now, published, withdrawnAt, local, lastForced, refreshing, outcome, shared, lease, failures, call>>
userVars == <<now, users, locked, grant, revision, auth>>

Versions == 1..MaxVersions
\* A document holds the key in use and the next.
KeysOf(version) == {version, version + 1}
Keys == Versions

NoRecord == [version |-> 0, at |-> 0, fresh |-> 0, stale |-> 0, noStore |-> FALSE]
NoCall == [step |-> "idle", replica |-> None, key |-> 0, forced |-> FALSE,
           began |-> 0, base |-> NoRecord, owns |-> FALSE, got |-> NoRecord, shared |-> TRUE]
Idle == [step |-> "idle", person |-> None, exp |-> 0, revision |-> 0, read |-> 0]
NoLease == [holder |-> None, until |-> 0]

-----------------------------------------------------------------------------
(* The provider. *)

Tick == now < MaxTime /\ now' = now + 1

RotateKeys ==
    /\ published < MaxVersions
    /\ published' = published + 1
    /\ withdrawnAt' = [withdrawnAt EXCEPT ![published] = now]
    /\ UNCHANGED <<now, local, lastForced, refreshing, outcome, shared, lease, failures, call>>

-----------------------------------------------------------------------------
(* RemoteKeySource. *)

Found(r, key) == local[r].version # 0 /\ key \in KeysOf(local[r].version)
HasKeys(r) == local[r].version # 0
Throttled(r) == lastForced[r] # None /\ now < lastForced[r] + ForcedMinimum

\* refresh, to the point where it leaves the mutex.
Refresh(k, r, key, forced) ==
    LET next(step) == call' = [call EXCEPT ![k] =
            [NoCall EXCEPT !.step = step, !.replica = r, !.key = key, !.forced = forced,
                           !.began = now,
                           !.base = IF step = "load" THEN local[r] ELSE NoRecord]]
        same == UNCHANGED <<lastForced, refreshing, outcome>> IN
    CASE refreshing[r] # None -> next("waiting") /\ same
      [] refreshing[r] = None /\ ~forced /\ HasKeys(r) /\ now < local[r].fresh -> next("refreshed") /\ same
      [] refreshing[r] = None /\ forced /\ Throttled(r) -> next("failing") /\ same
      [] OTHER ->
            /\ lastForced' = IF forced THEN [lastForced EXCEPT ![r] = now] ELSE lastForced
            /\ refreshing' = [refreshing EXCEPT ![r] = k]
            /\ next("load") /\ UNCHANGED outcome

\* Key: a fresh key is used as it is.
Key(k, r, key) ==
    /\ call[k].step = "idle" /\ k \notin Maintainers
    /\ IF Found(r, key) /\ now < local[r].fresh
       THEN /\ call' = [call EXCEPT ![k] = [NoCall EXCEPT !.step = "keyed", !.replica = r,
                                                        !.key = key, !.began = now]]
            /\ UNCHANGED <<lastForced, refreshing, outcome>>
       ELSE Refresh(k, r, key, ~Found(r, key) /\ HasKeys(r))
    /\ UNCHANGED <<now, published, withdrawnAt, local, shared, lease, failures>>

MaintainIdentityKeys(k, r) ==
    /\ call[k].step = "idle" /\ k \in Maintainers
    /\ Refresh(k, r, 0, FALSE)
    /\ UNCHANGED <<now, published, withdrawnAt, local, shared, lease, failures>>

After(result) == CASE result = "ok" -> "refreshed" [] result = "transient" -> "failing"
                   [] result = "permanent" -> "refused"

\* What a call remembers once its refresh has ended.
Kept(k) == [NoCall EXCEPT !.replica = call[k].replica, !.key = call[k].key,
                          !.began = call[k].began]

\* The end of a refresh: what it has replaces what the replica had, even when
\* it failed, and those who waited are woken.
Conclude(k, record, result, inShared) ==
    LET r == call[k].replica IN
    /\ local' = IF record.version # 0 THEN [local EXCEPT ![r] = record] ELSE local
    /\ outcome' = [outcome EXCEPT ![r] = [result |-> result, shared |-> inShared, began |-> call[k].began]]
    /\ refreshing' = [refreshing EXCEPT ![r] = None]
    /\ call' = [j \in Calls |->
          IF j = k THEN [Kept(k) EXCEPT !.step = After(result), !.shared = inShared]
          ELSE IF call[j].step = "waiting" /\ call[j].replica = r THEN [call[j] EXCEPT !.step = "woken"]
          ELSE call[j]]

Fails == failures < MaxFailures /\ failures' = failures + 1

Continue(k, step) == UNCHANGED <<local, outcome, refreshing>> /\ step

\* The database cannot be read, has nothing, or has a record; a fresh one ends
\* a refresh that is not forced.
LoadShared(k) ==
    /\ call[k].step = "load"
    /\ \/ Fails /\ Continue(k, call' = [call EXCEPT ![k].step = "acquire", ![k].shared = FALSE])
       \/ /\ shared.version = 0 /\ UNCHANGED failures
          /\ Continue(k, call' = [call EXCEPT ![k].step = "acquire"])
       \/ /\ shared.version # 0 /\ UNCHANGED failures
          /\ IF ~call[k].forced /\ call[k].began < shared.fresh
             THEN Conclude(k, shared, "ok", TRUE)
             ELSE Continue(k, call' = [call EXCEPT ![k].step = "acquire", ![k].base = shared])
    /\ UNCHANGED <<now, published, withdrawnAt, lastForced, shared, lease>>

LeaseFree == lease.holder = None \/ lease.until <= now
Base(k) == IF shared.version # 0 THEN shared ELSE call[k].base

\* One replica at a time asks the provider; where the database cannot say
\* which, everyone does.  The lease may be taken although the record behind it
\* cannot be read: its holder asks the provider and may repair the record.  A
\* call without the lease forgets that the database failed it before.
Acquire(k) ==
    /\ call[k].step = "acquire"
    /\ \/ /\ Continue(k, call' = [call EXCEPT ![k].step = "fetch", ![k].shared = FALSE])
          /\ Fails /\ UNCHANGED lease
       \/ /\ LeaseFree /\ lease' = [holder |-> k, until |-> now + LeaseTime]
          /\ \/ /\ Continue(k, call' = [call EXCEPT ![k].step = "fetch", ![k].owns = TRUE, ![k].base = Base(k)])
                /\ UNCHANGED failures
             \/ /\ Continue(k, call' = [call EXCEPT ![k].step = "fetch", ![k].owns = TRUE, ![k].shared = FALSE])
                /\ Fails
       \/ /\ ~LeaseFree /\ UNCHANGED failures
          /\ Conclude(k, Base(k), IF shared.version # 0 /\ call[k].began < shared.fresh
                                  THEN "ok" ELSE "transient", TRUE)
          /\ UNCHANGED lease
    /\ UNCHANGED <<now, published, withdrawnAt, lastForced, shared>>

\* Slip: the condition of the request is the replica's, not that of the record
\* it would renew.
LocallyUnmodified(k) == local[call[k].replica].version = published

\* The provider answers 304 to the validator of what it still publishes.
NotModified(k) == call[k].base.version = published

\* cacheLifetime, and the record it gives: the longest lifetime or none, counted
\* from the start of the refresh.
Fetched(k, noStore) ==
    LET fresh == call[k].began + IF noStore THEN 0 ELSE MaxTTL IN
    [version |-> IF NotModified(k) /\ call[k].base.version # 0 THEN call[k].base.version ELSE published,
     at |-> call[k].began, fresh |-> fresh, stale |-> fresh + IF noStore THEN 0 ELSE Grace,
     noStore |-> noStore]

Fetch(k) ==
    /\ call[k].step = "fetch"
    /\ \/ \E noStore \in BOOLEAN :
             /\ Continue(k, call' = [call EXCEPT ![k].step = "complete", ![k].got = Fetched(k, noStore)])
             /\ UNCHANGED <<lease, failures>>
       \/ \E result \in {"transient", "permanent"} :
             /\ Fails
             /\ Conclude(k, call[k].base, result, call[k].shared)
             /\ lease' \in {lease, IF call[k].owns /\ lease.holder = k THEN NoLease ELSE lease}
    /\ UNCHANGED <<now, published, withdrawnAt, lastForced, shared>>

\* Slip: whoever comes last has the last word.
CompletesAnyhow(k) == call[k].owns

\* The record is replaced only by the holder of the lease, expired or not.
Completes(k) == call[k].owns /\ lease.holder = k

Complete(k) ==
    /\ call[k].step = "complete"
    /\ \/ /\ Completes(k)
          /\ shared' = IF call[k].got.noStore THEN NoRecord ELSE call[k].got
          /\ lease' = NoLease
          /\ Conclude(k, call[k].got, "ok", call[k].shared)
          /\ UNCHANGED failures
       \/ /\ call[k].owns /\ (Fails \/ (~Completes(k) /\ UNCHANGED failures))
          /\ Conclude(k, call[k].got, "ok", FALSE)
          /\ UNCHANGED <<shared, lease>>
       \/ /\ ~call[k].owns
          /\ Conclude(k, call[k].got, "ok", call[k].shared)
          /\ UNCHANGED <<shared, lease, failures>>
    /\ UNCHANGED <<now, published, withdrawnAt, lastForced>>

\* Those who waited take what the latest refresh came to.
Wake(k) ==
    LET last == outcome[call[k].replica] IN
    /\ call[k].step = "woken"
    /\ call' = [call EXCEPT ![k].step = After(last.result), ![k].shared = last.shared,
                            ![k].began = last.began]
    /\ UNCHANGED <<now, published, withdrawnAt, local, lastForced, refreshing, outcome, shared, lease, failures>>

\* Slip: the grace is not checked.
UsableWhenFound(k) == Found(call[k].replica, call[k].key)

\* After a refresh the key is used if the document has it; after a transient
\* failure only within the grace.
Usable(k) ==
    LET r == call[k].replica IN
    Found(r, call[k].key) /\ (call[k].step = "refreshed" \/ now < local[r].stale)

AfterRefresh(k) ==
    /\ call[k].step \in {"refreshed", "failing"} /\ k \notin Maintainers
    /\ call' = [call EXCEPT ![k] = [Kept(k) EXCEPT !.step = IF Usable(k) THEN "keyed" ELSE "refused"]]
    /\ UNCHANGED <<now, published, withdrawnAt, local, lastForced, refreshing, outcome, shared, lease, failures>>

EndCall(k) ==
    /\ \/ call[k].step \in {"keyed", "refused"}
       \/ k \in Maintainers /\ call[k].step \in {"refreshed", "failing"}
    /\ call' = [call EXCEPT ![k] = NoCall]
    /\ UNCHANGED <<now, published, withdrawnAt, local, lastForced, refreshing, outcome, shared, lease, failures>>

KeysInit ==
    /\ now = 0 /\ published = 1 /\ withdrawnAt = [key \in Keys |-> None]
    /\ local = [r \in Replicas |-> NoRecord] /\ lastForced = [r \in Replicas |-> None]
    /\ refreshing = [r \in Replicas |-> None] /\ outcome = [r \in Replicas |-> None]
    /\ shared = NoRecord /\ lease = NoLease /\ failures = 0 /\ call = [k \in Calls |-> NoCall]

KeysNext ==
    \/ /\ Tick
       /\ UNCHANGED <<published, withdrawnAt, local, lastForced, refreshing, outcome, shared, lease, failures, call>>
    \/ RotateKeys
    \/ \E k \in Calls :
          \/ MaintainIdentityKeys(k, At[k]) \/ \E key \in Keys : Key(k, At[k], key)
          \/ LoadShared(k) \/ Acquire(k) \/ Fetch(k) \/ Complete(k) \/ Wake(k)
          \/ AfterRefresh(k) \/ EndCall(k)

-----------------------------------------------------------------------------
(* Properties of the keys. *)

KeysTypeOK ==
    /\ now \in 0..MaxTime /\ published \in Versions
    /\ \A r \in Replicas : local[r].at <= local[r].fresh /\ local[r].fresh <= local[r].stale
    /\ shared.at <= shared.fresh /\ shared.fresh <= shared.stale /\ ~shared.noStore
    /\ \A r \in Replicas : refreshing[r] # None =>
          call[refreshing[r]].step \in {"load", "acquire", "fetch", "complete"}

\* A key that the provider withdrew is accepted for no longer than the longest
\* lifetime of a document and the grace, counted to the start of the lookup or
\* of the refresh it rests on.  (Between a refresh and the second look at the
\* keys, a later refresh may fail and put an older document of the database in
\* the place of the new one; the second look does not ask how old it is.)
WithdrawnKeysDie ==
    \A k \in Calls : call'[k].step = "keyed" /\ call[k].step # "keyed" =>
        \/ withdrawnAt[call'[k].key] = None
        \/ call[k].step = "refreshed" /\ outcome[At[k]].result # "ok"
        \/ call'[k].began <= withdrawnAt[call'[k].key] + MaxTTL + Grace

\* The document in the database never goes back to an earlier one, however late
\* a replica that lost its lease answers.
SharedNeverGoesBack ==
    shared.version # 0 /\ shared'.version # 0 => shared'.version >= shared.version

\* Maintenance reports success only when the database has what it obtained, so
\* that the job is tried again until replicas that never fetch can read it.
MaintenanceIsShared ==
    \A k \in Maintainers :
        call[k].step \in {"load", "acquire", "complete"} /\ call'[k].step = "refreshed" /\ call'[k].shared =>
            shared'.version # 0 \/ (call[k].step = "complete" /\ call[k].got.noStore)

-----------------------------------------------------------------------------
(* Users.  A token is its subject and its expiry; grant is one session of    *)
(* the subject grant.person.                                                 *)

Advance(k, record) == auth' = [auth EXCEPT ![k] = record]

\* Verify: a token that has expired is still good within the leeway.
Verify(exp) == now < exp + Skew

\* Slip: two first sign-ins of one subject do not wait for each other.
SubjectUnlocked(person) == TRUE

\* The advisory lock of the subject's pseudonym.
SubjectFree(person) == locked[person] = None

\* Resolve, to the lookup of the external identity under the lock.
Resolve(k, person, exp) ==
    /\ auth[k].step = "idle" /\ Verify(exp) /\ SubjectFree(person)
    /\ IF users[person] = "none"
       THEN /\ locked' = [locked EXCEPT ![person] = k]
            /\ Advance(k, [Idle EXCEPT !.step = "creating", !.person = person])
       ELSE /\ Advance(k, [Idle EXCEPT !.step = IF users[person] = "active" THEN "resolved" ELSE "refused",
                                       !.person = person])
            /\ UNCHANGED locked
    /\ UNCHANGED <<now, users, grant, revision>>

\* The user and its external identity are inserted; the pair of provider and
\* subject is unique in the table.
CreateUser(k) ==
    LET person == auth[k].person
        unique == users[person] = "none" IN
    /\ auth[k].step = "creating"
    /\ users' = IF unique THEN [users EXCEPT ![person] = "active"] ELSE users
    /\ locked' = [locked EXCEPT ![person] = None]
    /\ Advance(k, [auth[k] EXCEPT !.step = IF unique THEN "resolved" ELSE "refused"])
    /\ UNCHANGED <<now, grant, revision>>

SetBlocked(person, blocked) ==
    /\ users[person] # "none"
    /\ users' = [users EXCEPT ![person] = IF blocked THEN "blocked" ELSE "active"]
    /\ UNCHANGED <<now, locked, grant, revision, auth>>

Revoke ==
    /\ grant' = [grant EXCEPT !.revoked = TRUE]
    /\ UNCHANGED <<now, users, locked, revision, auth>>

ActivateRevision ==
    /\ revision < MaxRevisions
    /\ revision' = revision + 1
    /\ UNCHANGED <<now, users, locked, grant, auth>>

-----------------------------------------------------------------------------
(* The renewal of a session's identity. *)

\* identityRefreshPossessionError.
Possessed == ~grant.revoked /\ users[grant.person] = "active"

\* VerifySessionIdentity, before the provider's keys are asked for: the session
\* and the active revision are read.
VerifySessionIdentity(k, person, exp) ==
    /\ auth[k].step = "idle" /\ users[grant.person] # "none"
    /\ Advance(k, [Idle EXCEPT !.step = IF Possessed THEN "verifying" ELSE "refused",
                               !.person = person, !.exp = exp, !.revision = revision])
    /\ UNCHANGED <<now, users, locked, grant, revision>>

\* The keys have answered; commitVerifiedIdentity reads the clock, and wants
\* the token unexpired without leeway, before it waits for any lock.
ReadClock(k) ==
    /\ auth[k].step = "verifying"
    /\ Advance(k, [auth[k] EXCEPT !.step = IF Verify(auth[k].exp) /\ now < auth[k].exp
                                           THEN "committing" ELSE "refused",
                                  !.read = now])
    /\ UNCHANGED <<now, users, locked, grant, revision>>

\* Slip: the revision verified under is not compared with the active one.
RevisionAsRead(k) == TRUE

\* lockActiveRefreshRevision.
RevisionActive(k) == auth[k].revision = revision

\* RefreshMatchingUserTx: the token's subject is the session's.
Matches(k) == auth[k].person = grant.person /\ users[grant.person] = "active"

\* Everything that may have changed meanwhile is looked at again under locks.
CommitVerifiedIdentity(k) ==
    LET renews == Possessed /\ RevisionActive(k) /\ Matches(k) IN
    /\ auth[k].step = "committing" /\ SubjectFree(auth[k].person)
    /\ grant' = IF renews THEN [grant EXCEPT !.verified = auth[k].read, !.expires = auth[k].exp] ELSE grant
    /\ Advance(k, [auth[k] EXCEPT !.step = IF renews THEN "renewed" ELSE "refused"])
    /\ UNCHANGED <<now, users, locked, revision>>

EndAuth(k) ==
    /\ auth[k].step \in {"resolved", "renewed", "refused"}
    /\ Advance(k, Idle)
    /\ UNCHANGED <<now, users, locked, grant, revision>>

UsersInit ==
    /\ now = 0 /\ users = [person \in People |-> "none"] /\ locked = [person \in People |-> None]
    /\ grant \in [person : People, revoked : {FALSE}, verified : {0}, expires : {0}]
    /\ revision = 1 /\ auth = [k \in Calls |-> Idle]

UsersNext ==
    \/ Tick /\ UNCHANGED <<users, locked, grant, revision, auth>>
    \/ Revoke \/ ActivateRevision
    \/ \E person \in People, blocked \in BOOLEAN : SetBlocked(person, blocked)
    \/ \E k \in Calls :
          \/ \E person \in People, exp \in 0..MaxTime :
                Resolve(k, person, exp) \/ VerifySessionIdentity(k, person, exp)
          \/ CreateUser(k) \/ ReadClock(k) \/ CommitVerifiedIdentity(k) \/ EndAuth(k)

\* A first sign-in is never refused: of two that arrive together the second
\* waits and finds the first one's user, instead of losing to the unique index
\* after its token was spent.
FirstSignInSucceeds ==
    \A k \in Calls : auth[k].step = "creating" /\ auth'[k].step # "creating"
        => auth'[k].step = "resolved"

\* A session's identity is renewed only by a token of its own subject, for a
\* user and a session that still stand, and under the revision that is active
\* when the renewal commits, however long the keys took.
RenewedAsItStands ==
    grant'.expires # grant.expires => \E k \in Calls :
        /\ auth[k].step = "committing" /\ auth'[k].step = "renewed"
        /\ auth[k].revision = revision /\ auth[k].person = grant.person
        /\ ~grant.revoked /\ users[grant.person] = "active"
=============================================================================
