---------------------------- MODULE AdminMembers ----------------------------
(***************************************************************************)
(* Organization members and what they hold: roles, application roles,      *)
(* passwords, console sessions and API tokens (internal/adminauth/         *)
(* accounts.go, store.go, self_service.go, sessions.go,                    *)
(* application_roles.go and their handlers).  An owner's operation locks   *)
(* the organization's memberships, decides on what it reads and commits;   *)
(* a sign-in verifies a password, reads the membership in its INSERT and   *)
(* waits at the foreign key while an owner holds the rows.                 *)
(***************************************************************************)
EXTENDS Naturals, FiniteSets

CONSTANTS Orgs, Users, Calls, Sessions, Tokens, Nobody,
          Founders,      \* the first members, owners of every organization
          MaxPassword,   \* bound on password changes per user
          Operations,    \* what the callers may do
          Overlap        \* whether two calls may be in flight

ASSUME MembersAssumption ==
    /\ Founders \subseteq Users /\ Founders # {}
    /\ Nobody \notin Calls /\ Nobody \notin Users
    /\ MaxPassword \in Nat \ {0} /\ Overlap \in BOOLEAN
    /\ IsFiniteSet(Sessions)

VARIABLES member,     \* admin_memberships: role ("none" without a row), status
          appRole,    \* admin_application_roles, for one application each
          password,   \* admin_password_credentials: its version, 0 without one
          forced,     \* password_reset_required
          session,    \* admin_sessions
          token,      \* admin_api_tokens
          lock,       \* who holds an organization's membership rows
          call        \* calls in flight

vars == <<member, appRole, password, forced, session, token, lock, call>>

Roles == {"viewer", "operator", "admin", "owner"}
Idle == [op |-> "none", stage |-> "idle", actor |-> Nobody, org |-> Nobody, target |-> Nobody, role |-> "none", by |-> Nobody, seen |-> 0]
NoSession == [state |-> "none", user |-> Nobody, org |-> Nobody, version |-> 0]
NoToken == [state |-> "none", user |-> Nobody, org |-> Nobody]

\* Role.rank.
Rank(r) == CASE r = "owner" -> 4 [] r = "admin" -> 3 [] r = "operator" -> 2 [] r = "viewer" -> 1 [] OTHER -> 0

Member(u, o) == member[o][u].role # "none"
Active(u, o) == Member(u, o) /\ member[o][u].status = "active"
\* lockedOwnerAllows.
ActiveOwner(u, o) == Active(u, o) /\ member[o][u].role = "owner"

\* Slip: the administrator at hand is counted as well.
AllOwners(o, excluding) == {u \in Users : ActiveOwner(u, o)}

\* activeOwnerCount.
OtherOwners(o, excluding) == {u \in Users \ {excluding} : ActiveOwner(u, o)}

\* AuthenticateSession.
Valid(s) == session[s].state = "active" /\ Active(session[s].user, session[s].org)

(***************************************************************************)
(* An owner's operation.                                                   *)
(***************************************************************************)
OwnerOperations == {"create", "role", "disable", "enable", "password", "grant", "ungrant", "end_session"}

MayBegin(p, op) == /\ op \in Operations /\ call[p] = Idle
                   /\ Overlap \/ \A q \in Calls : call[q] = Idle

\* authenticate: a session of an owner whose password is not to be changed first.
BeginOwner(p, op, s, target, role) ==
    /\ MayBegin(p, op) /\ op \in OwnerOperations
    /\ Valid(s) /\ ~forced[session[s].user]
    /\ ActiveOwner(session[s].user, session[s].org)
    /\ call' = [call EXCEPT ![p] = [Idle EXCEPT !.op = op, !.stage = "begun", !.actor = session[s].user,
                                                !.org = session[s].org, !.target = target, !.role = role, !.by = s]]
    /\ UNCHANGED <<member, appRole, password, forced, session, token, lock>>

\* Slip: the rows are read without FOR UPDATE.
Unlocked(o) == TRUE

\* FOR UPDATE waits for whoever holds the rows.
Free(o) == lock[o] = Nobody

\* "protects the final active owner".
LastOwner(c) == /\ ActiveOwner(c.target, c.org)
                /\ c.op = "disable" \/ (c.op = "role" /\ c.role # "owner")
                /\ OtherOwners(c.org, c.target) = {}

\* Slip: a role at the level of the organization's counts as raised.
RaisesOrEquals(c) == Rank(c.role) >= Rank(member[c.org][c.target].role)

\* ErrRoleNotRaised.
Raises(c) == Rank(c.role) > Rank(member[c.org][c.target].role)

\* What the operation asks of the rows it read.
Permitted(c) ==
    CASE c.op = "create" -> \A o \in Orgs : ~Member(c.target, o)
      [] c.op \in {"role", "disable"} -> Member(c.target, c.org) /\ ~LastOwner(c)
      [] c.op = "enable" -> Member(c.target, c.org)
      [] c.op = "password" -> Member(c.target, c.org) /\ \A o \in Orgs \ {c.org} : ~Member(c.target, o)
      [] c.op = "grant" -> Member(c.target, c.org) /\ c.role \in {"admin", "operator"} /\ Raises(c)
      [] c.op = "ungrant" -> appRole[c.org][c.target] # "none"
      [] c.op = "end_session" -> \E s \in Sessions : session[s].state = "active" /\ session[s].org = c.org /\ session[s].user = c.target

\* lockOrganizationAdministrators, lockedOwnerAllows and the decision.
Lock(p) ==
    LET c == call[p] IN
    /\ c.stage = "begun" /\ c.op \in OwnerOperations
    /\ Free(c.org)
    /\ \/ /\ ActiveOwner(c.actor, c.org) /\ Permitted(c)
          /\ lock' = [lock EXCEPT ![c.org] = p]
          /\ call' = [call EXCEPT ![p] = [c EXCEPT !.stage = "locked"]]
       \/ /\ ~(ActiveOwner(c.actor, c.org) /\ Permitted(c))
          /\ call' = [call EXCEPT ![p] = Idle] /\ UNCHANGED lock
    /\ UNCHANGED <<member, appRole, password, forced, session, token>>

\* Slip: the transaction is left open.
CommitHolding(p, op) ==
    /\ call[p].op = op /\ call[p].stage = "locked"
    /\ call' = [call EXCEPT ![p] = Idle]
    /\ UNCHANGED lock

\* The end of the transaction lets go of the rows.
Commit(p, op) ==
    /\ call[p].op = op /\ call[p].stage = "locked"
    /\ call' = [call EXCEPT ![p] = Idle]
    /\ lock' = [lock EXCEPT ![call[p].org] = Nobody]

\* revokeAdministratorCredentials.
Revoked(u, o) == [s \in Sessions |-> IF session[s].user = u /\ session[s].org = o /\ session[s].state = "active"
                                     THEN [session[s] EXCEPT !.state = "revoked"] ELSE session[s]]
RevokedTokens(u, o) == [t \in Tokens |-> IF token[t].user = u /\ token[t].org = o /\ token[t].state = "active"
                                         THEN [token[t] EXCEPT !.state = "revoked"] ELSE token[t]]

\* One membership row and one application role rewritten.
WithMember(o, u, row) == [member EXCEPT ![o] = [@ EXCEPT ![u] = row]]
WithRole(o, u, role) == [appRole EXCEPT ![o] = [@ EXCEPT ![u] = role]]

CreateAdministrator(p) ==
    LET c == call[p] IN
    /\ Commit(p, "create")
    /\ member' = WithMember(c.org, c.target, [role |-> c.role, status |-> "active"])
    /\ password' = [password EXCEPT ![c.target] = 1]
    /\ forced' = [forced EXCEPT ![c.target] = TRUE]
    /\ UNCHANGED <<appRole, session, token>>

\* Slip: application roles are left as they were granted.
RolesKept(c) == appRole

\* "Application roles that no longer raise the new organization role are dropped."
RolesRaising(c) ==
    LET r == appRole[c.org][c.target] IN
    WithRole(c.org, c.target, IF Rank(r) <= Rank(c.role) THEN "none" ELSE r)

ChangeAdministratorRole(p) ==
    LET c == call[p] IN
    /\ Commit(p, "role")
    /\ member' = WithMember(c.org, c.target, [member[c.org][c.target] EXCEPT !.role = c.role])
    /\ appRole' = RolesRaising(c)
    /\ UNCHANGED <<password, forced, session, token>>

\* Slip: API tokens are left to a member who is disabled.
TokensKept(u, o) == token

\* What disabling revokes of the tokens.
TokensEnded(u, o) == RevokedTokens(u, o)

SetAdministratorEnabled(p) ==
    LET c == call[p] IN
    \/ /\ Commit(p, "enable")
       /\ member' = WithMember(c.org, c.target, [member[c.org][c.target] EXCEPT !.status = "active"])
       /\ UNCHANGED <<appRole, password, forced, session, token>>
    \/ /\ Commit(p, "disable")
       /\ member' = WithMember(c.org, c.target, [member[c.org][c.target] EXCEPT !.status = "disabled"])
       /\ session' = Revoked(c.target, c.org)
       /\ token' = TokensEnded(c.target, c.org)
       /\ UNCHANGED <<appRole, password, forced>>

ResetAdministratorPassword(p) ==
    LET c == call[p] IN
    /\ Commit(p, "password") /\ password[c.target] < MaxPassword
    /\ password' = [password EXCEPT ![c.target] = @ + 1]
    /\ forced' = [forced EXCEPT ![c.target] = TRUE]
    /\ session' = Revoked(c.target, c.org)
    /\ token' = RevokedTokens(c.target, c.org)
    /\ UNCHANGED <<member, appRole>>

SetApplicationRole(p) ==
    LET c == call[p] IN
    /\ Commit(p, "grant")
    /\ appRole' = WithRole(c.org, c.target, c.role)
    /\ UNCHANGED <<member, password, forced, session, token>>

RemoveApplicationRole(p) ==
    LET c == call[p] IN
    /\ Commit(p, "ungrant")
    /\ appRole' = WithRole(c.org, c.target, "none")
    /\ UNCHANGED <<member, password, forced, session, token>>

RevokeManagedAdminSession(p) ==
    LET c == call[p] IN
    /\ Commit(p, "end_session")
    /\ \E s \in Sessions :
        /\ session[s].org = c.org /\ session[s].user = c.target
        /\ session' = [session EXCEPT ![s] = [@ EXCEPT !.state = "revoked"]]
    /\ UNCHANGED <<member, appRole, password, forced, token>>

(***************************************************************************)
(* Sessions and tokens.                                                    *)
(***************************************************************************)
\* login, the password verified: version seen, organization selected.
BeginLogin(p, u, o) ==
    /\ MayBegin(p, "login")
    /\ password[u] > 0 /\ Active(u, o)
    /\ call' = [call EXCEPT ![p] = [Idle EXCEPT !.op = "login", !.stage = "verified", !.actor = u, !.org = o, !.seen = password[u]]]
    /\ UNCHANGED <<member, appRole, password, forced, session, token, lock>>

\* changeOwnPassword: the current password is verified.
BeginChangePassword(p, s) ==
    /\ MayBegin(p, "own_password") /\ Valid(s) /\ password[session[s].user] > 0
    /\ call' = [call EXCEPT ![p] = [Idle EXCEPT !.op = "own_password", !.stage = "verified", !.actor = session[s].user,
                                                !.org = session[s].org, !.by = s, !.seen = password[session[s].user]]]
    /\ UNCHANGED <<member, appRole, password, forced, session, token, lock>>

\* switchOrganization, for a session that was not opened through a provider, to
\* an organization that does not require one: the two refusals before it change
\* nothing, and a requirement saved meanwhile is SingleSignOn's subject.
BeginSwitch(p, s, o) ==
    /\ MayBegin(p, "switch") /\ Valid(s) /\ o # session[s].org /\ Active(session[s].user, o)
    /\ call' = [call EXCEPT ![p] = [Idle EXCEPT !.op = "switch", !.stage = "verified", !.actor = session[s].user,
                                                !.org = o, !.by = s, !.seen = session[s].version]]
    /\ UNCHANGED <<member, appRole, password, forced, session, token, lock>>

\* CreateAPIToken for oneself, by a session; an owner may name another member.
BeginToken(p, s, u) ==
    /\ MayBegin(p, "token") /\ Valid(s) /\ ~forced[session[s].user]
    /\ call' = [call EXCEPT ![p] = [Idle EXCEPT !.op = "token", !.stage = "verified", !.actor = session[s].user,
                                                !.org = session[s].org, !.target = u]]
    /\ UNCHANGED <<member, appRole, password, forced, session, token, lock>>

\* What the statement reads of the membership in its snapshot.
Snapshot(p) ==
    LET c == call[p]
        good == CASE c.op = "token" -> /\ Active(c.actor, c.org) /\ Active(c.target, c.org)
                                       /\ c.actor = c.target \/ member[c.org][c.actor].role = "owner"
                  [] c.op = "switch" -> Active(c.actor, c.org) /\ session[c.by].state = "active"
                  [] OTHER -> Active(c.actor, c.org) IN
    /\ c.stage = "verified" /\ c.op \in {"login", "switch", "token"}
    /\ call' = [call EXCEPT ![p] = IF good THEN [c EXCEPT !.stage = "read"] ELSE Idle]
    /\ UNCHANGED <<member, appRole, password, forced, session, token, lock>>

\* insertPreparedSession and the commit, after the foreign key's lock.
CreateSession(p) ==
    LET c == call[p] IN
    /\ c.op = "login" /\ c.stage = "read" /\ Free(c.org)
    /\ \E s \in Sessions :
        /\ session[s].state = "none"
        /\ session' = [session EXCEPT ![s] = [state |-> "active", user |-> c.actor, org |-> c.org, version |-> c.seen]]
    /\ call' = [call EXCEPT ![p] = Idle]
    /\ UNCHANGED <<member, appRole, password, forced, token, lock>>

\* Slip: the session that is left stays usable.
Stays(s) == session[s]

\* The session given up in SwitchSessionOrganization.
Left(s) == [session[s] EXCEPT !.state = "revoked"]

SwitchSessionOrganization(p) ==
    LET c == call[p] IN
    /\ c.op = "switch" /\ c.stage = "read" /\ Free(c.org)
    /\ \/ /\ session[c.by].state = "active"
          /\ \E s \in Sessions :
              /\ session[s].state = "none"
              /\ session' = [session EXCEPT ![c.by] = Left(c.by),
                    ![s] = [state |-> "active", user |-> c.actor, org |-> c.org, version |-> c.seen]]
       \/ session[c.by].state # "active" /\ UNCHANGED session
    /\ call' = [call EXCEPT ![p] = Idle]
    /\ UNCHANGED <<member, appRole, password, forced, token, lock>>

CreateAPIToken(p) ==
    LET c == call[p] IN
    /\ c.op = "token" /\ c.stage = "read" /\ Free(c.org)
    /\ \E t \in Tokens :
        /\ token[t].state = "none"
        /\ token' = [token EXCEPT ![t] = [state |-> "active", user |-> c.target, org |-> c.org]]
    /\ call' = [call EXCEPT ![p] = Idle]
    /\ UNCHANGED <<member, appRole, password, forced, session, lock>>

\* Slip: only the sessions of this organization are signed out.
OtherSessionsHere(p, s) == session[s].user = call[p].actor /\ session[s].org = call[p].org /\ s # call[p].by

\* "every other console session of this administrator in every organization".
OtherSessions(p, s) == session[s].user = call[p].actor /\ s # call[p].by

ChangeOwnPassword(p) ==
    LET c == call[p] IN
    /\ c.op = "own_password" /\ c.stage = "verified" /\ password[c.actor] < MaxPassword
    /\ password' = [password EXCEPT ![c.actor] = @ + 1]
    /\ forced' = [forced EXCEPT ![c.actor] = FALSE]
    /\ session' = [s \in Sessions |->
            CASE OtherSessions(p, s) /\ session[s].state = "active" -> [session[s] EXCEPT !.state = "revoked"]
              [] s = c.by -> [session[s] EXCEPT !.version = password[c.actor] + 1]
              [] OTHER -> session[s]]
    /\ call' = [call EXCEPT ![p] = Idle]
    /\ UNCHANGED <<member, appRole, token, lock>>

\* RevokeSession and RevokeOwnSessions, by the user or an owner.
RevokeSession(s, by) ==
    /\ "revoke" \in Operations /\ session[s].state = "active" /\ Valid(by)
    /\ \/ session[by].user = session[s].user
       \/ session[by].org = session[s].org /\ ActiveOwner(session[by].user, session[s].org)
    /\ session' = [session EXCEPT ![s] = [@ EXCEPT !.state = "revoked"]]
    /\ UNCHANGED <<member, appRole, password, forced, token, lock, call>>

RevokeAPIToken(t, by) ==
    /\ "revoke" \in Operations /\ token[t].state = "active" /\ Valid(by) /\ session[by].org = token[t].org
    /\ session[by].user = token[t].user \/ ActiveOwner(session[by].user, token[t].org)
    /\ token' = [token EXCEPT ![t] = [@ EXCEPT !.state = "revoked"]]
    /\ UNCHANGED <<member, appRole, password, forced, session, lock, call>>

(***************************************************************************)
(* The specification.                                                      *)
(***************************************************************************)
Init ==
    /\ member = [o \in Orgs |-> [u \in Users |-> [role |-> IF u \in Founders THEN "owner" ELSE "none", status |-> "active"]]]
    /\ appRole = [o \in Orgs |-> [u \in Users |-> "none"]]
    /\ password = [u \in Users |-> IF u \in Founders THEN 1 ELSE 0]
    /\ forced = [u \in Users |-> FALSE]
    /\ session = [s \in Sessions |-> NoSession]
    /\ token = [t \in Tokens |-> NoToken]
    /\ lock = [o \in Orgs |-> Nobody]
    /\ call = [p \in Calls |-> Idle]

Beginning(p) ==
    \/ \E s \in Sessions :
        \/ \E u \in Users, r \in Roles : \E op \in {"create", "role", "grant"} : BeginOwner(p, op, s, u, r)
        \/ \E u \in Users : \E op \in OwnerOperations \ {"create", "role", "grant"} : BeginOwner(p, op, s, u, "none")
        \/ BeginChangePassword(p, s)
        \/ \E o \in Orgs : BeginSwitch(p, s, o)
        \/ \E u \in Users : BeginToken(p, s, u)
    \/ \E u \in Users, o \in Orgs : BeginLogin(p, u, o)

Committing(p) == \/ CreateAdministrator(p) \/ ChangeAdministratorRole(p) \/ SetAdministratorEnabled(p)
                 \/ ResetAdministratorPassword(p) \/ SetApplicationRole(p) \/ RemoveApplicationRole(p)
                 \/ RevokeManagedAdminSession(p)

Next == \/ \E p \in Calls : \/ Beginning(p) \/ Lock(p) \/ Committing(p) \/ Snapshot(p)
                            \/ CreateSession(p) \/ SwitchSessionOrganization(p) \/ CreateAPIToken(p) \/ ChangeOwnPassword(p)
        \/ \E s, by \in Sessions : RevokeSession(s, by)
        \/ \E t \in Tokens, by \in Sessions : RevokeAPIToken(t, by)

Spec == Init /\ [][Next]_vars

(***************************************************************************)
(* Properties.                                                             *)
(***************************************************************************)
MemberRow == [role : Roles \cup {"none"}, status : {"active", "disabled"}]
SessionRow == [state : {"none", "active", "revoked"}, user : Users \cup {Nobody},
               org : Orgs \cup {Nobody}, version : 0..MaxPassword]
TokenRow == [state : {"none", "active", "revoked"}, user : Users \cup {Nobody}, org : Orgs \cup {Nobody}]
CallRow == [op : OwnerOperations \cup {"none", "login", "own_password", "switch", "token"},
            stage : {"idle", "begun", "locked", "verified", "read"}, actor : Users \cup {Nobody},
            org : Orgs \cup {Nobody}, target : Users \cup {Nobody}, role : Roles \cup {"none"},
            by : Sessions \cup {Nobody}, seen : 0..MaxPassword]

\* Rows refer to members, and a lock is held by a call that locked.
TypeOK ==
    /\ member \in [Orgs -> [Users -> MemberRow]]
    /\ appRole \in [Orgs -> [Users -> Roles \cup {"none"}]]
    /\ password \in [Users -> 0..MaxPassword] /\ forced \in [Users -> BOOLEAN]
    /\ session \in [Sessions -> SessionRow] /\ token \in [Tokens -> TokenRow]
    /\ lock \in [Orgs -> Calls \cup {Nobody}] /\ call \in [Calls -> CallRow]
    /\ \A s \in Sessions : session[s].state # "none" => Member(session[s].user, session[s].org)
    /\ \A t \in Tokens : token[t].state # "none" => Member(token[t].user, token[t].org)
    /\ \A o \in Orgs : lock[o] # Nobody => call[lock[o]].stage = "locked" /\ call[lock[o]].org = o

\* Demotions and removals in any order, by owners acting on each other or on
\* themselves, leave every organization an active owner (ErrLastActiveOwner).
OwnerRemains == \A o \in Orgs : \E u \in Users : ActiveOwner(u, o)

\* Whoever commits an owner's operation is an owner at that moment, also when
\* another owner demoted them while they were waiting for the rows.
OwnersAct == \A p \in Calls : call[p].stage = "locked" => ActiveOwner(call[p].actor, call[p].org)

\* An application role always raises the organization role: neither a
\* promotion nor a grant decided on a stale role leaves one that does not.
GrantsRaise == \A o \in Orgs, u \in Users : appRole[o][u] # "none" => Rank(appRole[o][u]) > Rank(member[o][u].role)

\* "Disable revokes every session and API token scoped to that membership"
\* (SetAdministratorEnabled): nothing is left that enabling would revive.
DisabledHoldsNothing ==
    \A o \in Orgs, u \in Users : Member(u, o) /\ ~Active(u, o) =>
        /\ \A s \in Sessions : session[s].user = u /\ session[s].org = o => session[s].state = "revoked"
        /\ \A t \in Tokens : token[t].user = u /\ token[t].org = o => token[t].state = "revoked"

\* A password change signs out every other session: no session opened with an
\* earlier password is active (ChangeOwnPassword, ResetAdministratorPassword).
SessionsUseCurrentPassword ==
    \A s \in Sessions : session[s].state = "active" => session[s].version = password[session[s].user]

\* An organization keeps an owner that can act, although owners demote or
\* disable each other at once; an application role only raises; and, as long
\* as a sign-in does not race the operation, a disabled account, or one whose
\* password changed, holds no session and no token from before.
AccountsHold ==
    /\ TypeOK /\ OwnersAct /\ OwnerRemains /\ GrantsRaise
    /\ ~Overlap => DisabledHoldsNothing /\ SessionsUseCurrentPassword

\* A switch leaves one usable session: a user never has more active sessions
\* than sign-ins succeeded, "so exactly one stays usable" (SwitchSessionOrganization).
ActiveSessions == {s \in Sessions : session[s].state = "active"}
SwitchKeepsOne ==
    [][\A p \in Calls : call[p].op = "switch" /\ call[p].stage = "read" /\ call'[p] = Idle =>
            Cardinality(ActiveSessions') = Cardinality(ActiveSessions)]_vars
=============================================================================
