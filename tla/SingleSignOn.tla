---------------------------- MODULE SingleSignOn ----------------------------
(***************************************************************************)
(* Single sign-on of one organization (internal/adminauth/sso.go,          *)
(* internal/adminapi/sso_api.go, and the sign-ins by other means that it   *)
(* may forbid).  A login is started from a browser, the identity provider  *)
(* answers later with a code, and the callback consumes the login, reads   *)
(* the provider, exchanges the code over the network, resolves the         *)
(* identity to an administrator and opens a session: four transactions,    *)
(* between which an owner may change or remove the provider.  A sign-in by *)
(* other means reads the requirement in one statement and opens its        *)
(* session in a later transaction.  Neither looks at the provider again:   *)
(* what an owner's change overtook is marked late.                         *)
(***************************************************************************)
EXTENDS Naturals, FiniteSets

CONSTANTS Users,         \* administrators; a user's address is the user
          Owners,        \* the organization's owners
          Allowed,       \* users whose address is in an allowed domain
          Subjects, Issuers, Logins, Browsers, Calls, None,
          MaxPending,    \* maxPendingSSOLogins
          MaxSaves,      \* bound on the owner's changes
          MaxSessions    \* bound on sessions opened

VARIABLES provider,    \* organization_sso_providers, None in issuer without a row
          member,      \* memberships: "none", "active" or "disabled"
          link,        \* admin_sso_identities by issuer and subject
          login,       \* admin_sso_states
          start,       \* startSSO between its count and its insert, by browser
          call,        \* callbacks in flight
          admitted,    \* sign-ins by other means, between the requirement's check and the session
          session,     \* sessions opened
          saves

vars == <<provider, member, link, login, start, call, admitted, session, saves>>

NoProvider == [issuer |-> None, enabled |-> FALSE, require |-> FALSE, provision |-> FALSE]
NoLogin == [state |-> "none", browser |-> None]
IdleCall == [stage |-> "idle", login |-> None, provider |-> NoProvider, subject |-> None, user |-> None,
             late |-> FALSE]

Unlinked == [user |-> None, vouched |-> FALSE, late |-> FALSE]

(***************************************************************************)
(* The owner's changes.                                                    *)
(***************************************************************************)
\* The session an owner acts with, None for an API token.
Acting == {None} \cup {x \in session : x.active /\ x.user \in Owners}

\* revokeSSOChangedSessions: the sessions that meet a condition, "except the acting session".
Ended(S, acting) == {CASE x \in S /\ x # acting -> [x EXCEPT !.active = FALSE]
                       [] x \in S /\ x = acting -> [x EXCEPT !.spared = TRUE]
                       [] OTHER -> x : x \in session}

\* Slip: sessions are ended only when the provider is removed.
KeptOnSave(p) == {}

\* "Disabling ends single sign-on sessions; requiring it ends members' other sessions."
EndedOnSave(p) == CASE ~p.enabled -> {x \in session : x.method = "sso"}
                    [] p.enabled /\ p.require -> {x \in session : x.method # "sso" /\ x.user \notin Owners}
                    [] OTHER -> {}

\* What was read before an owner's change and is used after it.
Overtaken ==
    /\ call' = [c \in Calls |-> IF call[c].stage \in {"read", "resolved"} THEN [call[c] EXCEPT !.late = TRUE] ELSE call[c]]
    /\ admitted' = [u \in Users |-> IF admitted[u] = "none" THEN "none" ELSE "overtaken"]

SaveSSOProvider(p, acting) ==
    /\ saves < MaxSaves
    /\ p.issuer # None /\ (p.require => p.enabled)
    /\ provider' = p
    /\ session' = Ended(EndedOnSave(p), acting)
    /\ Overtaken
    /\ saves' = saves + 1
    /\ UNCHANGED <<member, link, login, start>>

\* Slip: the identities linked through the provider are kept.
KeepsIdentities == link

\* DELETE FROM admin_sso_identities.
WithoutIdentities == [i \in Issuers |-> [s \in Subjects |-> Unlinked]]

RemoveSSOProvider(acting) ==
    /\ saves < MaxSaves /\ provider # NoProvider
    /\ provider' = NoProvider
    /\ link' = WithoutIdentities
    /\ login' = [l \in Logins |-> IF login[l].state = "none" THEN login[l] ELSE [login[l] EXCEPT !.state = "consumed"]]
    /\ session' = Ended({x \in session : x.method = "sso"}, acting)
    /\ Overtaken
    /\ saves' = saves + 1
    /\ UNCHANGED <<member, start>>

\* SetAdministratorEnabled, with the sessions it revokes.
SetEnabled(u) ==
    /\ saves < MaxSaves /\ u \notin Owners /\ member[u] # "none"
    /\ member' = [member EXCEPT ![u] = IF @ = "active" THEN "disabled" ELSE "active"]
    /\ session' = IF member[u] = "active" THEN Ended({x \in session : x.user = u}, None) ELSE session
    /\ saves' = saves + 1
    /\ UNCHANGED <<provider, link, login, start, call, admitted>>

(***************************************************************************)
(* Starting a login.                                                       *)
(***************************************************************************)
Pending == {l \in Logins : login[l].state = "pending"}

\* Slip: one more is let in at the limit.
RoomForOneMore == Cardinality(Pending) <= MaxPending

\* CreateSSOState's count.
Room == Cardinality(Pending) < MaxPending

CountPending(b) ==
    /\ start[b] = "idle" /\ provider.enabled /\ Room
    /\ start' = [start EXCEPT ![b] = "counted"]
    /\ UNCHANGED <<provider, member, link, login, call, admitted, session, saves>>

CreateSSOState(b, l) ==
    /\ start[b] = "counted" /\ login[l].state = "none"
    /\ login' = [login EXCEPT ![l] = [state |-> "pending", browser |-> b]]
    /\ start' = [start EXCEPT ![b] = "idle"]
    /\ UNCHANGED <<provider, member, link, call, admitted, session, saves>>

ExpireLogin(l) ==
    /\ login[l].state = "pending"
    /\ login' = [login EXCEPT ![l].state = "consumed"]
    /\ UNCHANGED <<provider, member, link, start, call, admitted, session, saves>>

(***************************************************************************)
(* ssoCallback.                                                            *)
(***************************************************************************)
\* Slip: a login is accepted from any browser.
AnyBrowser(l, b) == login[l].state = "pending"

\* Slip: a login is not spent.
StaysPending(l) == login[l]

\* The login once it was spent.
Spent(l) == [login[l] EXCEPT !.state = "consumed"]

\* "spends a login exactly once, only from the browser that started it".
Consumable(l, b) == login[l].state = "pending" /\ login[l].browser = b

ConsumeSSOState(c, l, b) ==
    /\ call[c].stage = "idle" /\ Consumable(l, b)
    /\ login' = [login EXCEPT ![l] = Spent(l)]
    /\ call' = [call EXCEPT ![c] = [IdleCall EXCEPT !.stage = "consumed", !.login = [id |-> l, by |-> b]]]
    /\ UNCHANGED <<provider, member, link, start, admitted, session, saves>>

\* The provider's error, or a provider that is gone or disabled, ends the callback.
ReadProvider(c) ==
    /\ call[c].stage = "consumed"
    /\ call' = [call EXCEPT ![c] = IF provider.enabled THEN [@ EXCEPT !.stage = "read", !.provider = provider] ELSE IdleCall]
    /\ UNCHANGED <<provider, member, link, login, start, admitted, session, saves>>

GiveUp(c) ==
    /\ call[c].stage # "idle"
    /\ call' = [call EXCEPT ![c] = IdleCall]
    /\ UNCHANGED <<provider, member, link, login, start, admitted, session, saves>>

\* Slip: the address the provider sends decides, linked or not.
ByAddressFirst(c, s, u) == u

\* An identity that is linked signs in as its administrator, whatever its address is now.
LinkedFirst(c, s, u) == IF link[call[c].provider.issuer][s].user # None THEN link[call[c].provider.issuer][s].user ELSE u

\* Slip: an address nobody vouched for is matched.
Unvouched(u, verified) == u \in Allowed

\* EmailVerified, and the allowed domains.
Vouched(u, verified) == verified /\ u \in Allowed

\* Slip: an administrator may be linked again.
NoConflict(u) == FALSE

\* The administrator is already linked to a different subject of the organization.
Conflict(u) == \E i \in Issuers, s \in Subjects : link[i][s].user = u

Resolved(c, s, u) == call' = [call EXCEPT ![c] = [@ EXCEPT !.stage = "resolved", !.subject = s, !.user = u]]

\* ResolveSSOIdentity for subject s, whose address is u's.
ResolveSSOIdentity(c, s, u, verified) ==
    LET i == call[c].provider.issuer  who == LinkedFirst(c, s, u) IN
    /\ call[c].stage = "read"
    /\ \/ /\ link[i][s].user # None
          /\ Resolved(c, s, who) /\ UNCHANGED <<member, link>>
       \/ /\ link[i][s].user = None
          /\ Vouched(u, verified) /\ ~Conflict(u)
          /\ \/ member[u] = "active" /\ UNCHANGED member
             \/ /\ member[u] = "none" /\ call[c].provider.provision
                /\ member' = [member EXCEPT ![u] = "active"]
          /\ link' = [link EXCEPT ![i][s] = [user |-> u, vouched |-> verified /\ u \in Allowed, late |-> call[c].late]]
          /\ Resolved(c, s, u)
    /\ UNCHANGED <<provider, login, start, admitted, session, saves>>

Open(x) == /\ Cardinality(session) < MaxSessions
           /\ session' = session \cup {x}

\* createSignInSession: the membership is read again, the provider is not.
OpenSSOSession(c) ==
    /\ call[c].stage = "resolved"
    /\ \/ /\ member[call[c].user] = "active"
          /\ Open([user |-> call[c].user, method |-> "sso", active |-> TRUE, spared |-> FALSE, late |-> call[c].late, login |-> call[c].login,
                   subject |-> call[c].subject, n |-> Cardinality(session)])
       \/ member[call[c].user] # "active" /\ UNCHANGED session
    /\ call' = [call EXCEPT ![c] = IdleCall]
    /\ UNCHANGED <<provider, member, link, login, start, admitted, saves>>


\* SSORequiredFor.
SSORequiredFor(u) == provider.require /\ u \notin Owners

\* refuseWhenSSORequired: the sign-in goes on, to a second factor or to its session.
Login(u) ==
    /\ admitted[u] = "none" /\ member[u] = "active" /\ ~SSORequiredFor(u)
    /\ admitted' = [admitted EXCEPT ![u] = "checked"]
    /\ UNCHANGED <<provider, member, link, login, start, call, session, saves>>

\* CreateSession: the membership is read again, the requirement is not.
CreateSession(u) ==
    /\ admitted[u] # "none" /\ member[u] = "active"
    /\ Open([user |-> u, method |-> "other", active |-> TRUE, spared |-> FALSE, late |-> admitted[u] = "overtaken",
             login |-> None, subject |-> None, n |-> Cardinality(session)])
    /\ admitted' = [admitted EXCEPT ![u] = "none"]
    /\ UNCHANGED <<provider, member, link, login, start, call, saves>>

\* A second factor that is not given, or a membership that is no longer active.
Abandon(u) ==
    /\ admitted[u] # "none"
    /\ admitted' = [admitted EXCEPT ![u] = "none"]
    /\ UNCHANGED <<provider, member, link, login, start, call, session, saves>>

Init ==
    /\ provider = NoProvider
    /\ member \in [Users -> {"none", "active"}] /\ \A u \in Owners : member[u] = "active"
    /\ link = [i \in Issuers |-> [s \in Subjects |-> Unlinked]]
    /\ login = [l \in Logins |-> NoLogin] /\ start = [b \in Browsers |-> "idle"]
    /\ call = [c \in Calls |-> IdleCall] /\ admitted = [u \in Users |-> "none"] /\ session = {} /\ saves = 0

Providers == [issuer : Issuers, enabled : BOOLEAN, require : BOOLEAN, provision : BOOLEAN]

Next ==
    \/ \E p \in Providers, x \in Acting : SaveSSOProvider(p, x)
    \/ \E x \in Acting : RemoveSSOProvider(x)
    \/ \E u \in Users : SetEnabled(u) \/ Login(u) \/ CreateSession(u) \/ Abandon(u)
    \/ \E b \in Browsers : CountPending(b) \/ \E l \in Logins : CreateSSOState(b, l)
    \/ \E l \in Logins : ExpireLogin(l)
    \/ \E c \in Calls : \/ \E l \in Logins, b \in Browsers : ConsumeSSOState(c, l, b)
                        \/ ReadProvider(c) \/ GiveUp(c) \/ OpenSSOSession(c)
                        \/ \E s \in Subjects, u \in Users, v \in BOOLEAN : ResolveSSOIdentity(c, s, u, v)

Spec == Init /\ [][Next]_vars

(***************************************************************************)
(* Properties.                                                             *)
(***************************************************************************)
Active == {x \in session : x.active}

\* The schema's constraints: a required provider is enabled, an administrator
\* is linked once in the organization.
TypeOK ==
    /\ provider.require => provider.enabled
    /\ member \in [Users -> {"none", "active", "disabled"}]
    /\ \A u \in Users : Cardinality({l \in Issuers \X Subjects : link[l[1]][l[2]].user = u}) <= 1

\* A login started in one browser opens one session at most, in that browser,
\* however often the callback's URL is replayed (ConsumeSSOState).
LoginOpensOnce ==
    \A x, y \in session : x.method = "sso" /\ y.method = "sso" =>
        /\ login[x.login.id].browser = x.login.by
        /\ x # y => x.login.id # y.login.id

\* A subject stays the administrator it was linked to: an address changed at the
\* provider never signs it in as somebody else (ResolveSSOIdentity).  The session
\* an owner removed the provider with is left, one whose callback the removal
\* overtook is opened, and the subject of either may be linked anew.
SubjectKeepsAdministrator ==
    \A x \in Active :
        x.method = "sso" /\ ~x.spared /\ ~x.late /\ (\E i \in Issuers : link[i][x.subject].user # None) =>
            \E i \in Issuers : link[i][x.subject].user = x.user

\* Administrators are matched only by addresses that the provider vouched for
\* in a domain that is allowed (ErrSSOEmailUnverified, ErrSSODomain).
LinksVouched == \A i \in Issuers, s \in Subjects : link[i][s].user # None => link[i][s].vouched

\* The pending logins exceed the limit by no more than the browsers that counted
\* before another inserted (CreateSSOState's count is not locked).
PendingBounded == Cardinality(Pending) + Cardinality({b \in Browsers : start[b] = "counted"}) < MaxPending + Cardinality(Browsers)

\* No single sign-on session is active without an enabled provider, but the one
\* the owner acted with (SaveSSOProvider: "Disabling ends single sign-on sessions")
\* and one whose callback had read the provider before the change.
SessionsNeedProvider == (\E x \in Active : x.method = "sso" /\ ~x.spared /\ ~x.late) => provider.enabled

\* "another sign-in method can't open a session there" (ErrSSORequired), and
\* "requiring it ends members' other sessions": while single sign-on is required,
\* the only sessions of members opened by other means are those whose sign-in
\* was checked before an owner's change and opened after it.
RequiredHolds == \A x \in Active : x.method # "sso" /\ provider.require /\ x.user \notin Owners => x.late

\* "deletes the organization's provider and every identity linked through it":
\* what is linked without a provider was linked by a callback the removal overtook.
NoOrphanIdentities == provider = NoProvider => \A i \in Issuers, s \in Subjects : link[i][s] = Unlinked \/ link[i][s].late

\* The claims above, which hold whatever owners change and whenever they do.
SignOnSafe ==
    /\ TypeOK /\ LoginOpensOnce /\ SubjectKeepsAdministrator /\ LinksVouched /\ PendingBounded
    /\ SessionsNeedProvider /\ RequiredHolds /\ NoOrphanIdentities
=============================================================================
