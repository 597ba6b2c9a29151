--------------------------- MODULE AdminBootstrap ---------------------------
(***************************************************************************)
(* First-owner setup (internal/adminauth/store.go and the bootstrap        *)
(* handler of internal/adminapi/api.go).  Replicas start with a configured *)
(* one-time secret and install it in the singleton row of generation 1;    *)
(* callers present a secret and, in one transaction, create the first      *)
(* organization with its owner and the owner's session.                    *)
(***************************************************************************)
EXTENDS Naturals, FiniteSets

CONSTANTS Replicas, Callers, Secrets, None,
          Lifetimes    \* what expiresAt may be when a secret is installed, FALSE for none

VARIABLES row,       \* admin_bootstrap_tokens: secret, consumed, whether it may expire and did
          owners,    \* callers whose owner was created, with the session issued
          replica,   \* InitializeBootstrap: stage, configured secret and outcome
          caller     \* the bootstrap handler: stage and presented secret

vars == <<row, owners, replica, caller>>

NoRow == [secret |-> None, consumed |-> FALSE, expires |-> FALSE, expired |-> FALSE]

\* hasOwner: an owner membership, whatever its status.
HasOwner == owners # {}

Exists == row.secret # None
Live == Exists /\ ~row.expired

(***************************************************************************)
(* InitializeBootstrapToken.                                               *)
(***************************************************************************)
Start(r, s) ==
    /\ replica[r].stage \in {"down", "up"}
    /\ replica' = [replica EXCEPT ![r] = [stage |-> "starting", secret |-> s, told |-> "nothing"]]
    /\ UNCHANGED <<row, owners, caller>>

Answer(r, told) == replica' = [replica EXCEPT ![r].stage = "up", ![r].told = told]

\* Slip: a row that is there already is taken for the one to be installed.
ExistingAny(r) == CASE row.consumed \/ HasOwner -> "disabled"
                    [] ~row.consumed /\ ~HasOwner -> "installed"

\* A live row answers by comparison; an expired one is to be replaced.
Existing(r) == CASE row.consumed \/ HasOwner -> "disabled"
                 [] ~row.consumed /\ ~HasOwner /\ Live /\ row.secret = replica[r].secret -> "installed"
                 [] OTHER -> "already"

\* Slip: an expired row is replaced whether or not it was consumed.
ReplacesExpired == row.expired

\* An expired row nobody consumed makes way for another.
Replaceable == row.expired /\ ~row.consumed /\ ~HasOwner

\* The locked row exists: replaced, or answered.
LockRow(r) ==
    /\ replica[r].stage = "starting" /\ Exists
    /\ \/ ~Replaceable /\ Answer(r, Existing(r)) /\ UNCHANGED row
       \/ /\ Replaceable
          /\ \E e \in Lifetimes : row' = [NoRow EXCEPT !.secret = replica[r].secret, !.expires = e]
          /\ Answer(r, "installed")
    /\ UNCHANGED <<owners, caller>>

\* No row: it is inserted by a later statement.
NoRowYet(r) ==
    /\ replica[r].stage = "starting" /\ ~Exists
    /\ \/ HasOwner /\ Answer(r, "disabled")
       \/ ~HasOwner /\ replica' = [replica EXCEPT ![r].stage = "inserting"]
    /\ UNCHANGED <<row, owners, caller>>

\* The INSERT, or bootstrapInitializationOutcome after a unique violation.
Insert(r) ==
    /\ replica[r].stage = "inserting"
    /\ \/ /\ ~Exists
          /\ \E e \in Lifetimes : row' = [NoRow EXCEPT !.secret = replica[r].secret, !.expires = e]
          /\ Answer(r, "installed")
       \/ Exists /\ Answer(r, Existing(r)) /\ UNCHANGED row
    /\ UNCHANGED <<owners, caller>>

(***************************************************************************)
(* The bootstrap handler.                                                  *)
(***************************************************************************)
Presents(c, s) ==
    /\ caller[c].stage = "idle"
    /\ caller' = [caller EXCEPT ![c] = [stage |-> "arrived", secret |-> s]]
    /\ UNCHANGED <<row, owners, replica>>

\* ValidateBootstrapToken, before the password is derived.
Validate(c) ==
    /\ caller[c].stage = "arrived"
    /\ caller' = [caller EXCEPT ![c].stage =
            IF Live /\ ~row.consumed /\ ~HasOwner /\ row.secret = caller[c].secret THEN "valid" ELSE "idle"]
    /\ UNCHANGED <<row, owners, replica>>

\* Slip: what was validated before the password was derived is not looked at again.
ValidatedBefore(c) == TRUE

\* The checks of bootstrapOwner under the row's lock.
Consumable(c) == Live /\ ~row.consumed /\ ~HasOwner /\ row.secret = caller[c].secret

\* Slip: the secret is left usable.
LeavesRow == row

\* SET consumed_at.
ConsumedRow == [row EXCEPT !.consumed = TRUE]

\* bootstrapOwner: the owner, its session and the consumed row, or nothing.
BootstrapOwner(c) ==
    /\ caller[c].stage = "valid"
    /\ \/ /\ Consumable(c)
          /\ row' = ConsumedRow
          /\ owners' = owners \cup {c}
          /\ caller' = [caller EXCEPT ![c].stage = "done"]
       \/ /\ ~Consumable(c)
          /\ caller' = [caller EXCEPT ![c].stage = "idle"]
          /\ UNCHANGED <<row, owners>>
    /\ UNCHANGED replica

\* A failure before the commit leaves nothing behind.
Fail(c) ==
    /\ caller[c].stage \in {"arrived", "valid"}
    /\ caller' = [caller EXCEPT ![c].stage = "idle"]
    /\ UNCHANGED <<row, owners, replica>>

\* A replica crashes or is restarted with another configuration.
Crash(r) ==
    /\ replica[r].stage # "down"
    /\ replica' = [replica EXCEPT ![r] = [stage |-> "down", secret |-> None, told |-> "nothing"]]
    /\ UNCHANGED <<row, owners, caller>>

Expire ==
    /\ row.expires /\ ~row.expired
    /\ row' = [row EXCEPT !.expired = TRUE]
    /\ UNCHANGED <<owners, replica, caller>>

Init ==
    /\ row = NoRow /\ owners = {}
    /\ replica = [r \in Replicas |-> [stage |-> "down", secret |-> None, told |-> "nothing"]]
    /\ caller = [c \in Callers |-> [stage |-> "idle", secret |-> None]]

Next == \/ \E r \in Replicas : (\E s \in Secrets : Start(r, s)) \/ LockRow(r) \/ NoRowYet(r) \/ Insert(r) \/ Crash(r)
        \/ \E c \in Callers : (\E s \in Secrets : Presents(c, s)) \/ Validate(c) \/ BootstrapOwner(c) \/ Fail(c)
        \/ Expire

Spec == Init /\ [][Next]_vars

(***************************************************************************)
(* Properties.                                                             *)
(***************************************************************************)
\* A row that was consumed was consumed by the owner there is, and a caller
\* that finished is that owner.
TypeOK ==
    /\ row \in [secret : Secrets \cup {None}, consumed : BOOLEAN, expires : BOOLEAN, expired : BOOLEAN]
    /\ row.consumed <=> HasOwner
    /\ owners = {c \in Callers : caller[c].stage = "done"}

\* However many callers hold the secret and pass the check made before the
\* password is derived, setup creates one owner (bootstrapOwner).
OneOwner == Cardinality(owners) <= 1

\* Replicas that were told their secret is installed hold the secret in the
\* row: two replicas configured differently and started together never both
\* believe theirs is the one (InitializeBootstrapToken,
\* bootstrapInitializationOutcome).  Stated for secrets that do not expire.
ReplicasAgree == \A r \in Replicas : replica[r].told = "installed" => row.secret = replica[r].secret

\* Setup closes for good: no start, restart, expiry or late insert opens it
\* again once an owner exists (ErrBootstrapDisabled).
ClosedForGood == HasOwner => row'.consumed /\ row'.secret = row.secret
=============================================================================
