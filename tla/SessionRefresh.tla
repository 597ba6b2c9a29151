--------------------------- MODULE SessionRefresh ---------------------------
(***************************************************************************)
(* Rotation of refresh tokens (internal/session/refresh.go) for one family *)
(* of tokens, with the transactions that revoke it.                        *)
(*                                                                         *)
(* Transactions are READ COMMITTED: a statement sees what was committed    *)
(* when it began, waits for the rows others have locked, and changes the   *)
(* versions it then finds.  A transaction's writes appear at its commit.   *)
(* The locks it holds follow from its program counter.                     *)
(*                                                                         *)
(* ComponentAware is the field of RefreshBinding, fixed for a family:      *)
(* component families have a row of their own (component_session_families) *)
(* and cached rotation results, installation (wire 1) families neither.    *)
(***************************************************************************)
EXTENDS Naturals, FiniteSets

CONSTANTS Callers,          \* concurrent calls of Rotate
          Admin,            \* an administrator's transaction on the user
          Grace,            \* componentRefreshIdempotencyGrace
          Lifetime,         \* RefreshTokenTTL
          AccessLifetime,   \* AccessTokenTTL
          MaxTokens,        \* bound: tokens of the family
          MaxTime           \* bound: clock

ASSUME RefreshBounds ==
    /\ Admin \notin Callers
    /\ Grace \in Nat /\ Lifetime \in Nat /\ AccessLifetime \in Nat
    /\ MaxTokens \in Nat \ {0} /\ MaxTime \in Nat

VARIABLES ComponentAware,
          clock,
          tip,          \* tokens issued so far; token n was issued in place of token n - 1
          token,        \* component_refresh_tokens, or refresh_tokens
          grant,        \* session_grants: grant n was issued with token n
          cache,        \* refresh_rotation_results by old token
          session,      \* status of the component session family
          boundary,     \* status of installation family, component and key, or installation
          tx,           \* the transaction of each caller and of the administrator
          keeper,       \* what the retention job's statement saw
          answer        \* what each call was last told

vars == <<ComponentAware, clock, tip, token, grant, cache, session, boundary, tx, keeper, answer>>

Tokens == 1..MaxTokens
Parties == Callers \cup {Admin}
Issued(n) == <<"issued", n>>
Silence == <<"none", 0>>
Refused == <<"refused", 0>>
Reused == <<"reused", 0>>
NoResult == [until |-> 0, result |-> 0]
NoToken == [status |-> "none", issued |-> 0, used |-> 0]
Idle == [pc |-> "idle", tok |-> 0, at |-> 0, prepared |-> FALSE, was |-> <<"active", "active">>,
         grantRevoked |-> FALSE, mark |-> FALSE, seen |-> {}, grants |-> {}]

(***************************************************************************)
(* Locks.                                                                  *)
(***************************************************************************)
InTransaction(p) == tx[p].pc \notin {"idle", "opened"}

\* FOR SHARE on the family's rows, from lockComponentRefreshBoundary or
\* lockRefreshInstallation to the end of the transaction.
Shares(p) == p \in Callers /\ InTransaction(p)

HoldsToken(p, n) ==
    \/ p \in Callers /\ tx[p].pc \in {"holding", "marking", "granting", "ending"} /\ tx[p].tok = n
    \/ n \in tx[p].seen /\ \/ p \in Callers /\ tx[p].pc \in {"granting", "ending"}
                           \/ p = Admin /\ tx[p].pc = "ending"

HoldsGrant(p, n) ==
    n \in tx[p].grants /\ \/ p \in Callers /\ tx[p].pc = "ending"
                          \/ p = Admin /\ tx[p].pc \in {"marking", "ending"}

\* The administrator locks the user FOR UPDATE; inserting a grant takes
\* FOR KEY SHARE on the user by its foreign key.
HoldsUser == InTransaction(Admin)

\* q has a lock p's next statement waits for.
WaitsFor(p, q) ==
    /\ p # q
    /\ \/ tx[p].pc = "bounded" /\ HoldsToken(q, tx[p].tok)
       \/ tx[p].pc = "holding" /\ q = Admin /\ HoldsUser /\ token[tx[p].tok].status = "active"
       \/ tx[p].pc = "marking" /\ \E n \in tx[p].seen : HoldsToken(q, n)
       \/ tx[p].pc = "granting" /\ \E n \in tx[p].grants : HoldsGrant(q, n)
       \/ tx[p].pc = "ending" /\ ComponentAware /\ Shares(q)

Free(p) == \A q \in Parties : ~WaitsFor(p, q)
\* p is part of a cycle of waiting transactions.
Deadlocked(p) ==
    \E S \in SUBSET Parties :
        /\ p \in S
        /\ \A x \in S : (\E y \in S : WaitsFor(x, y)) /\ (\E y \in S : WaitsFor(y, x))

(***************************************************************************)
(* Rotate.                                                                 *)
(***************************************************************************)
Expires(n) == token[n].issued + Lifetime
StateError == boundary # "active" \/ session # "active"
Done(c, said) ==
    /\ tx' = [tx EXCEPT ![c] = Idle]
    /\ answer' = [answer EXCEPT ![c] = said]

Prepared(n) == token[n].status = "active" /\ ~StateError /\ grant[n] # "revoked"

\* The call reads its clock and, outside any transaction, the binding of the
\* token; an access token is prepared only if the token looked active.
Present(c, n) ==
    /\ tx[c].pc = "idle"
    /\ n <= tip /\ n < MaxTokens
    /\ tx' = [tx EXCEPT ![c] = [Idle EXCEPT !.pc = "opened", !.tok = n, !.at = clock,
                !.prepared = Prepared(n), !.was = <<boundary, session>>]]
    /\ answer' = [answer EXCEPT ![c] = Silence]
    /\ UNCHANGED <<ComponentAware, clock, tip, token, grant, cache, session, boundary, keeper>>

\* lockComponentRefreshBoundary, and the snapshot of the statement after it.
\* A component call is refused when a status changed since the preflight.
LockBoundary(c) ==
    /\ tx[c].pc = "opened"
    /\ IF ComponentAware /\ tx[c].was # <<boundary, session>>
       THEN Done(c, Refused)
       ELSE /\ tx' = [tx EXCEPT ![c] = [@ EXCEPT !.pc = "bounded", !.grantRevoked = grant[tx[c].tok] = "revoked"]]
            /\ UNCHANGED answer
    /\ UNCHANGED <<ComponentAware, clock, tip, token, grant, cache, session, boundary, keeper>>

\* loadRefreshBinding FOR UPDATE OF r: the token row is the latest version,
\* the grant joined to it is the one the statement's snapshot holds.
LockToken(c) ==
    /\ tx[c].pc = "bounded"
    /\ Free(c)
    /\ tx' = [tx EXCEPT ![c].pc = "holding"]
    /\ UNCHANGED <<ComponentAware, clock, tip, token, grant, cache, session, boundary, keeper, answer>>

\* Slip: the state "expired" has no early return.
RefuseUnlessExpired(c) ==
    /\ tx[c].pc = "holding"
    /\ StateError \/ tx[c].grantRevoked \/ token[tx[c].tok].status = "revoked"
    /\ Done(c, Refused)
    /\ UNCHANGED <<ComponentAware, clock, tip, token, grant, cache, session, boundary, keeper>>

\* Early returns that change nothing.
Refuse(c) ==
    /\ tx[c].pc = "holding"
    /\ \/ ComponentAware /\ (StateError \/ tx[c].grantRevoked)
       \/ token[tx[c].tok].status \in {"revoked", "expired"}
       \/ ComponentAware /\ token[tx[c].tok].status = "reused"
       \/ /\ token[tx[c].tok].status = "active"
          /\ Expires(tx[c].tok) > tx[c].at
          /\ ~tx[c].prepared
          /\ ~(~ComponentAware /\ (boundary # "active" \/ tx[c].grantRevoked))
    /\ Done(c, Refused)
    /\ UNCHANGED <<ComponentAware, clock, tip, token, grant, cache, session, boundary, keeper>>

Cached(c) == cache[tx[c].tok].until > tx[c].at

\* loadCachedComponentRotation
AnswerCached(c) ==
    /\ ComponentAware
    /\ tx[c].pc = "holding"
    /\ ~StateError /\ ~tx[c].grantRevoked
    /\ token[tx[c].tok].status = "rotated"
    /\ Cached(c)
    /\ Done(c, Issued(cache[tx[c].tok].result))
    /\ UNCHANGED <<ComponentAware, clock, tip, token, grant, cache, session, boundary, keeper>>

ExpireToken(c) ==
    /\ tx[c].pc = "holding"
    /\ ComponentAware => ~StateError /\ ~tx[c].grantRevoked
    /\ token[tx[c].tok].status = "active"
    /\ Expires(tx[c].tok) <= tx[c].at
    /\ token' = [token EXCEPT ![tx[c].tok].status = "expired"]
    /\ Done(c, Refused)
    /\ UNCHANGED <<ComponentAware, clock, tip, grant, cache, session, boundary, keeper>>

\* What the locked row and the preflight must say for a rotation.
Rotates(c) ==
    /\ token[tx[c].tok].status = "active"
    /\ Expires(tx[c].tok) > tx[c].at
    /\ tx[c].prepared

ResultOf(c) == [until |-> tx[c].at + Grace, result |-> tip + 1]

\* storeComponentRotationResult, and the deletion of expired results.
CacheAfterRotation(c) ==
    IF ComponentAware
    THEN [n \in Tokens |-> IF n = tx[c].tok THEN ResultOf(c)
                           ELSE IF cache[n].until <= tx[c].at THEN NoResult ELSE cache[n]]
    ELSE cache

TokensAfterRotation(c) ==
    [token EXCEPT ![tx[c].tok] = [@ EXCEPT !.status = "rotated", !.used = tx[c].at],
                  ![tip + 1] = [status |-> "active", issued |-> tx[c].at, used |-> 0]]

\* insertRotatedGrant
GrantsAfterRotation == [grant EXCEPT ![tip + 1] = "live"]

\* Slip: the caller is given the token it presented.
PresentedAnswered(heard) == IF heard THEN Issued(tip) ELSE Silence

\* The pair the call answers with, unless the connection is lost.
RotationAnswer(heard) == IF heard THEN Issued(tip + 1) ELSE Silence

Rotate(c, heard) ==
    /\ tx[c].pc = "holding"
    /\ Free(c)
    /\ ComponentAware => ~StateError
    /\ boundary = "active" /\ ~tx[c].grantRevoked
    /\ Rotates(c)
    /\ tip < MaxTokens
    /\ tip' = tip + 1
    /\ token' = TokensAfterRotation(c)
    /\ grant' = GrantsAfterRotation
    /\ cache' = CacheAfterRotation(c)
    /\ Done(c, RotationAnswer(heard))
    /\ UNCHANGED <<ComponentAware, clock, session, boundary, keeper>>

\* An error, a timeout or a closed connection rolls the transaction back.
Abort(p) ==
    /\ tx[p].pc # "idle"
    /\ tx' = [tx EXCEPT ![p] = Idle]
    /\ answer' = IF p \in Callers THEN [answer EXCEPT ![p] = Refused] ELSE answer
    /\ UNCHANGED <<ComponentAware, clock, tip, token, grant, cache, session, boundary, keeper>>

\* The database ends a cycle of waiting transactions.
BreakDeadlock(p) == Deadlocked(p) /\ Abort(p)

(***************************************************************************)
(* revokeComponentRefreshFamily and revokeRefreshFamily: one statement for *)
(* the tokens, one for the grants, one for the family row.  Each statement *)
(* begins with a snapshot of the rows it will lock.                        *)
(***************************************************************************)
\* A rotated token without a valid cached result is a reuse.  Installation
\* families are also revoked when installation or grant are.
BeginRevoke(c) ==
    /\ tx[c].pc = "holding"
    /\ \/ /\ ComponentAware
          /\ ~StateError /\ ~tx[c].grantRevoked
          /\ token[tx[c].tok].status = "rotated"
          /\ ~Cached(c)
       \/ ~ComponentAware /\ token[tx[c].tok].status \in {"rotated", "reused"}
       \/ /\ ~ComponentAware
          /\ token[tx[c].tok].status = "active"
          /\ Expires(tx[c].tok) > tx[c].at
          /\ boundary # "active" \/ tx[c].grantRevoked
    /\ tx' = [tx EXCEPT ![c] = [@ EXCEPT !.pc = "marking", !.seen = 1..tip,
                                         !.mark = token[tx[c].tok].status # "active"]]
    /\ UNCHANGED <<ComponentAware, clock, tip, token, grant, cache, session, boundary, keeper, answer>>

RevokeTokens(c) ==
    /\ tx[c].pc = "marking"
    /\ Free(c)
    /\ tx' = [tx EXCEPT ![c] = [@ EXCEPT !.pc = "granting", !.grants = 1..tip]]
    /\ UNCHANGED <<ComponentAware, clock, tip, token, grant, cache, session, boundary, keeper, answer>>

RevokeGrants(c) ==
    /\ tx[c].pc = "granting"
    /\ Free(c)
    /\ tx' = [tx EXCEPT ![c].pc = "ending"]
    /\ UNCHANGED <<ComponentAware, clock, tip, token, grant, cache, session, boundary, keeper, answer>>

TokensRevoked(seen) ==
    [n \in Tokens |-> IF n \in seen /\ token[n].status = "active"
                      THEN [token[n] EXCEPT !.status = "revoked"] ELSE token[n]]

\* Slip: grants are found by the token that is still active.
GrantsOfActiveTokensRevoked(seen) ==
    [n \in Tokens |-> IF n \in seen /\ grant[n] = "live" /\ token[n].status = "active"
                      THEN "revoked" ELSE grant[n]]

GrantsRevoked(seen) ==
    [n \in Tokens |-> IF n \in seen /\ grant[n] = "live" THEN "revoked" ELSE grant[n]]

\* Slip: the family row is left alone.
SessionKept == session

\* Slip: the family row is given the state of the token, which its column
\* does not allow.
SessionMarkedReused == IF ComponentAware /\ session = "active" THEN "reused" ELSE session

\* The last statements: the family row, which waits for every other call
\* that holds it FOR SHARE, and its cached results.
SessionRevoked == IF ComponentAware /\ session = "active" THEN "revoked" ELSE session

CommitRevoke(c) ==
    /\ tx[c].pc = "ending"
    /\ Free(c)
    /\ token' = IF tx[c].mark
                THEN [TokensRevoked(tx[c].seen) EXCEPT ![tx[c].tok].status = "reused"]
                ELSE TokensRevoked(tx[c].seen)
    /\ grant' = GrantsRevoked(tx[c].grants)
    /\ session' = SessionRevoked
    /\ cache' = [n \in Tokens |-> NoResult]
    /\ Done(c, IF tx[c].mark THEN Reused ELSE Refused)
    /\ UNCHANGED <<ComponentAware, clock, tip, boundary, keeper>>

(***************************************************************************)
(* The administrator: requireReauthentication holds the user and goes      *)
(* through grants, tokens, cached results and family row without locking   *)
(* the boundary first.                                                     *)
(***************************************************************************)
BeginReauthentication ==
    /\ tx[Admin].pc = "idle"
    /\ tx' = [tx EXCEPT ![Admin] = [@ EXCEPT !.pc = "granting", !.grants = 1..tip]]
    /\ UNCHANGED <<ComponentAware, clock, tip, token, grant, cache, session, boundary, keeper, answer>>

ReauthenticateTokens ==
    /\ tx[Admin].pc = "granting"
    /\ Free(Admin)
    /\ tx' = [tx EXCEPT ![Admin] = [@ EXCEPT !.pc = "marking",
                                             !.seen = {n \in 1..tip : token[n].status = "active"}]]
    /\ UNCHANGED <<ComponentAware, clock, tip, token, grant, cache, session, boundary, keeper, answer>>

ReauthenticateSession ==
    /\ tx[Admin].pc = "marking"
    /\ Free(Admin)
    /\ tx' = [tx EXCEPT ![Admin].pc = "ending"]
    /\ UNCHANGED <<ComponentAware, clock, tip, token, grant, cache, session, boundary, keeper, answer>>

CommitReauthentication ==
    /\ tx[Admin].pc = "ending"
    /\ Free(Admin)
    /\ token' = TokensRevoked(tx[Admin].seen)
    /\ grant' = GrantsRevoked(tx[Admin].grants)
    /\ cache' = [n \in Tokens |-> NoResult]
    /\ session' = SessionRevoked
    /\ tx' = [tx EXCEPT ![Admin] = Idle]
    /\ UNCHANGED <<ComponentAware, clock, tip, boundary, keeper, answer>>

(***************************************************************************)
(* Transactions that lock the family's rows FOR UPDATE before they change  *)
(* anything, and so run while no call holds them.                          *)
(***************************************************************************)
Exclusive == \A p \in Parties : tx[p].pc \in {"idle", "opened"}

\* revokeInstallationFamily, revokeClientComponent, RevokeComponent,
\* RevokeCurrentFamily, the revocation of an installation.
RevokeBoundary ==
    /\ Exclusive
    /\ boundary = "active"
    /\ boundary' = "revoked"
    /\ token' = TokensRevoked(Tokens)
    /\ grant' = GrantsRevoked(Tokens)
    /\ session' = SessionRevoked
    /\ cache' = [n \in Tokens |-> NoResult]
    /\ UNCHANGED <<ComponentAware, clock, tip, tx, keeper, answer>>

\* requireInstallationFamilyRenewal, requireAppReverification
RequireRenewal ==
    /\ Exclusive
    /\ boundary = "active"
    /\ token' = TokensRevoked(Tokens)
    /\ cache' = [n \in Tokens |-> NoResult]
    /\ UNCHANGED <<ComponentAware, clock, tip, grant, session, boundary, tx, keeper, answer>>

\* revokeActiveComponentSessions: a new session takes the family's place.
ReplaceSession ==
    /\ ComponentAware
    /\ Exclusive
    /\ boundary = "active" /\ session = "active"
    /\ token' = TokensRevoked(Tokens)
    /\ grant' = GrantsRevoked(Tokens)
    /\ session' = "replaced"
    /\ UNCHANGED <<ComponentAware, clock, tip, cache, boundary, tx, keeper, answer>>

(***************************************************************************)
(* Retention (internal/worker/operations.go).                              *)
(***************************************************************************)
ExpireTokens ==
    /\ ComponentAware
    /\ \E n \in Tokens :
        /\ token[n].status = "active" /\ Expires(n) <= clock
        /\ \A p \in Parties : ~HoldsToken(p, n)
        /\ token' = [token EXCEPT ![n].status = "expired"]
    /\ UNCHANGED <<ComponentAware, clock, tip, grant, cache, session, boundary, tx, keeper, answer>>

\* Slip: results are swept by the time they were made.
SweptByCreation(n) == cache[n].until > 0 /\ cache[n].until <= clock + Grace

Swept(n) == cache[n].until > 0 /\ cache[n].until <= clock

SweepResults ==
    /\ \E n \in Tokens : Swept(n)
    /\ cache' = [n \in Tokens |-> IF Swept(n) THEN NoResult ELSE cache[n]]
    /\ UNCHANGED <<ComponentAware, clock, tip, token, grant, session, boundary, tx, keeper, answer>>

\* The snapshot finds no token and no grant to wait for; the family row is
\* locked afterwards, unless somebody holds it.
FindEndedFamily ==
    /\ ComponentAware
    /\ keeper = "idle"
    /\ session = "active"
    /\ \A n \in 1..tip : ~(token[n].status = "active" /\ Expires(n) > clock)
    /\ \A n \in 1..tip : ~(grant[n] = "live" /\ token[n].issued + AccessLifetime > clock)
    /\ keeper' = "found"
    /\ UNCHANGED <<ComponentAware, clock, tip, token, grant, cache, session, boundary, tx, answer>>

ExpireFamily ==
    /\ keeper = "found"
    /\ keeper' = "idle"
    /\ session' = IF session = "active" /\ ~\E p \in Callers : Shares(p) THEN "expired" ELSE session
    /\ UNCHANGED <<ComponentAware, clock, tip, token, grant, cache, boundary, tx, answer>>

Tick ==
    /\ clock < MaxTime
    /\ clock' = clock + 1
    /\ UNCHANGED <<ComponentAware, tip, token, grant, cache, session, boundary, tx, keeper, answer>>

(***************************************************************************)
Init ==
    /\ ComponentAware \in BOOLEAN
    /\ clock = 0
    /\ tip = 1
    /\ token = [n \in Tokens |-> IF n = 1 THEN [NoToken EXCEPT !.status = "active"] ELSE NoToken]
    /\ grant = [n \in Tokens |-> IF n = 1 THEN "live" ELSE "none"]
    /\ cache = [n \in Tokens |-> NoResult]
    /\ session = "active"
    /\ boundary = "active"
    /\ tx = [p \in Parties |-> Idle]
    /\ keeper = "idle"
    /\ answer = [c \in Callers |-> Silence]

Step(c) ==
    \/ LockBoundary(c) \/ LockToken(c) \/ Refuse(c) \/ AnswerCached(c) \/ ExpireToken(c)
    \/ \E heard \in BOOLEAN : Rotate(c, heard)
    \/ BeginRevoke(c) \/ RevokeTokens(c) \/ RevokeGrants(c) \/ CommitRevoke(c)

AdminStep == ReauthenticateTokens \/ ReauthenticateSession \/ CommitReauthentication

Others ==
    \/ AdminStep
    \/ RevokeBoundary \/ RequireRenewal \/ ReplaceSession
    \/ ExpireTokens \/ SweepResults \/ FindEndedFamily \/ ExpireFamily
    \/ Tick

Next ==
    \/ \E c \in Callers : Step(c) \/ \E n \in Tokens : Present(c, n)
    \/ \E p \in Parties : Abort(p)
    \/ BeginReauthentication
    \/ Others

Spec == Init /\ [][Next]_vars

\* Each call is made once and nobody gives up but for a deadlock: without new
\* arrivals it is the transactions themselves that must let one another end.
Undisturbed ==
    \/ \E c \in Callers : Step(c) \/ (answer[c] = Silence /\ \E n \in Tokens : Present(c, n))
    \/ \E p \in Parties : BreakDeadlock(p)
    \/ session = "active" /\ BeginReauthentication
    \/ Others

\* Processes run, a lock goes to those that queue for it before those that come
\* later, and a transaction that waits in a cycle is found by the
\* database's deadlock check.
FairSpec ==
    /\ Init /\ [][Undisturbed]_vars
    /\ \A c \in Callers : SF_vars(Step(c))
    /\ WF_vars(AdminStep)
    /\ \A p \in Parties : WF_vars(BreakDeadlock(p))

(***************************************************************************)
(* Properties.                                                             *)
(***************************************************************************)
TokenRow == [status : {"none", "active", "rotated", "reused", "revoked", "expired"},
             issued : 0..MaxTime, used : 0..MaxTime]
ResultRow == [until : 0..(MaxTime + Grace), result : {0} \cup Tokens]
Steps == {"idle", "opened", "bounded", "holding", "marking", "granting", "ending"}
TxRow == [pc : Steps, tok : {0} \cup Tokens, at : 0..MaxTime, prepared : BOOLEAN,
          was : {"active", "revoked"} \X {"active", "revoked", "replaced", "expired"},
          grantRevoked : BOOLEAN, mark : BOOLEAN, seen : SUBSET Tokens, grants : SUBSET Tokens]

TypeOK ==
    /\ ComponentAware \in BOOLEAN
    /\ clock \in 0..MaxTime
    /\ tip \in Tokens
    /\ token \in [Tokens -> TokenRow]
    /\ grant \in [Tokens -> {"none", "live", "revoked"}]
    /\ cache \in [Tokens -> ResultRow]
    /\ session \in {"active", "revoked", "replaced", "expired"}
    /\ boundary \in {"active", "revoked"}
    /\ tx \in [Parties -> TxRow]
    /\ keeper \in {"idle", "found"}
    /\ answer \in [Callers -> {Issued(n) : n \in Tokens} \cup {Silence, Refused, Reused}]

Open == boundary = "active" /\ (ComponentAware => session = "active")

\* Token n can still be exchanged; grant n still opens the gateway
\* (authorizationStateError).
Refreshable(n) == Open /\ token[n].status = "active" /\ grant[n] = "live"
Admitted(n) == Open /\ grant[n] = "live"

\* Once a reuse is recorded nothing of the family is usable any more: neither
\* a token nor a grant that another call was issuing while the revocation
\* went through its statements (refresh.go:835).
ReuseEndsEverything ==
    (\E n \in Tokens : token[n].status = "reused") =>
        \A n \in Tokens : ~Refreshable(n) /\ ~Admitted(n)

\* While the family can be refreshed, the result of a rotation is there for
\* duplicates until its grace period is over, whatever other calls and the
\* retention job delete (refresh.go:538, worker/operations.go:282).
GraceKept ==
    ComponentAware /\ (\E n \in Tokens : Refreshable(n)) =>
        \A n \in Tokens :
            token[n].status = "rotated" /\ clock < token[n].used + Grace => cache[n].result = n + 1

\* A revoked installation, family or component is left with nothing usable
\* by whatever rotations were in flight (the comment at refresh.go:181).
RevokedBoundaryIsEmpty ==
    boundary = "revoked" => \A n \in Tokens : token[n].status # "active" /\ grant[n] # "live"

\* A refresh token that is used again after its grace ends the family of a
\* component with everything under it, a duplicate within the grace is
\* answered as before, and nothing inside a revoked boundary can be used,
\* however rotations, the sweep and an administrator's revocation interleave
\* (refresh.go).
RefreshIsSafe ==
    /\ TypeOK
    /\ ComponentAware => ReuseEndsEverything
    /\ GraceKept
    /\ RevokedBoundaryIsEmpty

\* Every call ends, also when calls wait for one another's locks.
EventuallyAnswered == \A c \in Callers : tx[c].pc # "idle" ~> tx[c].pc = "idle"

\* The family of a component is the chain that RefreshContract describes: a
\* token has one successor, which every answer for it names, and nothing is
\* answered once the family has ended.
Contract == INSTANCE RefreshContract WITH alive <- boundary = "active" /\ session = "active"
Implements ==
    /\ ComponentAware => Contract!Init
    /\ [][ComponentAware => [Contract!Next]_(Contract!vars)]_vars
=============================================================================
