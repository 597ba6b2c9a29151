------------------------- MODULE AdminMembersProofs -------------------------
(***************************************************************************)
(* Proofs about AdminMembers: AccountsHold is an invariant and a switch    *)
(* keeps the number of active sessions, for any organizations, users,      *)
(* calls, sessions and tokens, whichever operations are offered.           *)
(*                                                                         *)
(* What an owner's operation decided when it took the rows is still true   *)
(* when it commits, because nobody else writes the memberships of that     *)
(* organization meanwhile (LockedIn).  What concerns other organizations   *)
(* or a sign-in's stale reads holds while calls do not overlap (AloneInv). *)
(*                                                                         *)
(* The parts that follow are about how members come to be and come in: the *)
(* first owner by setup, the others by invitation, single sign-on, and     *)
(* sign-in with a password and second factors.                             *)
(***************************************************************************)
EXTENDS AdminMembers, Integers, FiniteSetTheorems, TLAPS

(* The inductive invariant.  m and a are the memberships and application   *)
(* roles of one organization, by user.                                     *)

MemberIn(m, u) == m[u].role # "none"
OwnerIn(m, u) == m[u].role = "owner" /\ m[u].status = "active"
SpareOwner(m, t) == OwnerIn(m, t) => \E u \in Users \ {t} : OwnerIn(m, u)

\* An organization has an owner, and application roles raise those of members.
OrgGood(m, a) ==
    /\ \E u \in Users : OwnerIn(m, u)
    /\ \A u \in Users : a[u] # "none" => MemberIn(m, u) /\ Rank(a[u]) > Rank(m[u].role)

\* What an owner's operation decided on the memberships of its organization.
LockedIn(m, c) ==
    /\ OwnerIn(m, c.actor)
    /\ c.op = "disable" \/ (c.op = "role" /\ c.role # "owner") => SpareOwner(m, c.target)
    /\ c.op \in {"role", "disable", "enable", "password", "grant", "ungrant"} => MemberIn(m, c.target)
    /\ c.op = "grant" => Rank(c.role) > Rank(m[c.target].role)
    /\ c.op = "create" => ~MemberIn(m, c.target)

\* What the fields of a call in flight refer to.
CallGood(c) ==
    /\ c.stage = "idle" => c.op = "none"
    /\ c.stage # "idle" => c.actor \in Users /\ c.org \in Orgs
    /\ c.stage \in {"begun", "locked"} => c.op \in OwnerOperations /\ c.target \in Users
    /\ c.stage \in {"verified", "read"} => c.op \in {"login", "own_password", "switch", "token"}
    /\ c.op = "token" => c.target \in Users
    /\ c.op \in {"own_password", "switch"} => c.by \in Sessions
    /\ c.op \in {"create", "role", "grant"} => c.role \in Roles

\* What a statement's snapshot showed of a membership, which is never deleted.
ReadIn(m, c) ==
    /\ c.stage = "read" /\ c.op \in {"login", "switch"} => MemberIn(m, c.actor)
    /\ c.stage = "read" /\ c.op = "token" => MemberIn(m, c.target)

OrgsInv ==
    /\ member \in [Orgs -> [Users -> MemberRow]]
    /\ appRole \in [Orgs -> [Users -> Roles \cup {"none"}]]
    /\ \A o \in Orgs : OrgGood(member[o], appRole[o])

PasswordsInv == password \in [Users -> 0..MaxPassword] /\ forced \in [Users -> BOOLEAN]

\* A row is either not written yet or of a member.
RowOwned(m, r) == /\ r.state = "none" => r.user = Nobody
                  /\ r.state # "none" => r.user \in Users /\ r.org \in Orgs /\ MemberIn(m[r.org], r.user)

SessionsInv == session \in [Sessions -> SessionRow] /\ \A s \in Sessions : RowOwned(member, session[s])
TokensInv == token \in [Tokens -> TokenRow] /\ \A t \in Tokens : RowOwned(member, token[t])

CallsInv ==
    /\ call \in [Calls -> CallRow]
    /\ \A p \in Calls : /\ CallGood(call[p])
                        /\ call[p].stage = "read" => ReadIn(member[call[p].org], call[p])

LocksInv ==
    /\ lock \in [Orgs -> Calls \cup {Nobody}]
    /\ \A o \in Orgs : lock[o] # Nobody => call[lock[o]].stage = "locked" /\ call[lock[o]].org = o
    /\ \A p \in Calls : call[p].stage = "locked" =>
            lock[call[p].org] = p /\ LockedIn(member[call[p].org], call[p])

MembersInv == OrgsInv /\ PasswordsInv /\ SessionsInv /\ TokensInv /\ CallsInv /\ LocksInv

\* While calls do not overlap, what a call has read stays true.
ActiveIn(m, u) == m[u].role # "none" /\ m[u].status = "active"

AloneIn(m, pw, ss, c) ==
    /\ c.stage \in {"verified", "read"} /\ c.op \in {"login", "switch", "own_password"} =>
          c.seen = pw[c.actor] /\ ActiveIn(m[c.org], c.actor)
    /\ c.stage = "read" /\ c.op = "token" => ActiveIn(m[c.org], c.target)
    /\ c.stage = "verified" /\ c.op = "own_password" =>
          ss[c.by].user = c.actor /\ ss[c.by].state # "none"
    /\ c.stage = "locked" /\ c.op = "create" => \A o \in Orgs : ~MemberIn(m[o], c.target)
    /\ c.stage = "locked" /\ c.op = "password" => \A o \in Orgs \ {c.org} : ~MemberIn(m[o], c.target)

OneCall == \A p, q \in Calls : call[p].stage # "idle" /\ call[q].stage # "idle" => p = q

\* What is active is of an active member and of the current password.
RowHeld(m, r) == r.state = "active" => m[r.org][r.user].status = "active"
RowCurrent(pw, r) == r.state = "active" => r.version = pw[r.user]

RowsAlone ==
    /\ \A s \in Sessions : RowHeld(member, session[s]) /\ RowCurrent(password, session[s])
    /\ \A t \in Tokens : RowHeld(member, token[t])

CallsAlone == OneCall /\ \A p \in Calls : AloneIn(member, password, session, call[p])

AloneInv == CallsAlone /\ RowsAlone

AccountsInv == MembersInv /\ (~Overlap => AloneInv)

\* Under the invariant the properties hold.
LEMMA InvHolds == AccountsInv => AccountsHold
<1> SUFFICES ASSUME AccountsInv PROVE AccountsHold
  OBVIOUS
<1> USE DEF AccountsInv, MembersInv
<1>1. TypeOK
  <2>1. \A s \in Sessions : session[s].state # "none" => Member(session[s].user, session[s].org)
    BY DEF SessionsInv, RowOwned, MemberIn, Member
  <2>2. \A t \in Tokens : token[t].state # "none" => Member(token[t].user, token[t].org)
    BY DEF TokensInv, RowOwned, MemberIn, Member
  <2> QED BY <2>1, <2>2 DEF TypeOK, OrgsInv, PasswordsInv, SessionsInv, TokensInv, CallsInv, LocksInv
<1>2. OwnersAct
  BY DEF OwnersAct, LocksInv, LockedIn, OwnerIn, ActiveOwner, Active, Member
<1>3. OwnerRemains
  BY DEF OwnerRemains, OrgsInv, OrgGood, OwnerIn, ActiveOwner, Active, Member
<1>4. GrantsRaise
  BY DEF GrantsRaise, OrgsInv, OrgGood
<1>5. ASSUME ~Overlap PROVE DisabledHoldsNothing /\ SessionsUseCurrentPassword
  <2>1. RowsAlone
    BY <1>5 DEF AloneInv
  <2>2. SessionsUseCurrentPassword
    BY <2>1 DEF RowsAlone, RowCurrent, SessionsUseCurrentPassword
  <2>3. ASSUME NEW o \in Orgs, NEW u \in Users, Member(u, o), ~Active(u, o)
        PROVE  /\ \A s \in Sessions : session[s].user = u /\ session[s].org = o => session[s].state = "revoked"
               /\ \A t \in Tokens : token[t].user = u /\ token[t].org = o => token[t].state = "revoked"
    <3>1. member[o][u].status # "active" /\ u # Nobody
      BY <2>3, MembersAssumption DEF Member, Active
    <3>2. \A s \in Sessions : session[s].state \in {"none", "active", "revoked"} /\ RowOwned(member, session[s]) /\ RowHeld(member, session[s])
      BY <2>1 DEF SessionsInv, SessionRow, RowsAlone
    <3>3. \A t \in Tokens : token[t].state \in {"none", "active", "revoked"} /\ RowOwned(member, token[t]) /\ RowHeld(member, token[t])
      BY <2>1 DEF TokensInv, TokenRow, RowsAlone
    <3> QED BY <3>1, <3>2, <3>3 DEF RowOwned, RowHeld
  <2> QED BY <2>2, <2>3 DEF DisabledHoldsNothing
<1> QED BY <1>1, <1>2, <1>3, <1>4, <1>5 DEF AccountsHold

-----------------------------------------------------------------------------
(* The initial states. *)

LEMMA IdleRow == Idle \in CallRow /\ Idle.stage = "idle" /\ Idle.op = "none" /\ CallGood(Idle)
<1>1. Idle \in CallRow
  BY MembersAssumption DEF Idle, CallRow
<1>2. Idle.stage = "idle" /\ Idle.op = "none"
  BY DEF Idle
<1> QED BY <1>1, <1>2 DEF CallGood

LEMMA InitInv == Init => AccountsInv
<1> SUFFICES ASSUME Init PROVE AccountsInv
  OBVIOUS
<1>1. 0 \in 0..MaxPassword /\ 1 \in 0..MaxPassword
  BY MembersAssumption
<1>2. NoSession \in SessionRow /\ NoToken \in TokenRow
  BY <1>1 DEF NoSession, SessionRow, NoToken, TokenRow
<1>3. \A s \in Sessions : session[s].state = "none" /\ session[s].user = Nobody
  BY DEF Init, NoSession
<1>4. \A t \in Tokens : token[t].state = "none" /\ token[t].user = Nobody
  BY DEF Init, NoToken
<1>5. \A p \in Calls : call[p] = Idle
  BY DEF Init
<1>6. member \in [Orgs -> [Users -> MemberRow]]
  BY DEF Init, MemberRow, Roles
<1>7. \A o \in Orgs, u \in Users : member[o][u].status = "active"
  BY DEF Init
<1>a. \A o \in Orgs, u \in Users : u \in Founders => member[o][u].role = "owner"
  BY DEF Init
<1>8. OrgsInv
  <2>1. appRole \in [Orgs -> [Users -> Roles \cup {"none"}]]
    BY DEF Init
  <2>2. \A o \in Orgs, u \in Users : appRole[o][u] = "none"
    BY DEF Init
  <2>3. PICK f \in Founders : TRUE
    BY MembersAssumption
  <2>4. f \in Users
    BY <2>3, MembersAssumption
  <2>5. \A o \in Orgs : OwnerIn(member[o], f)
    BY <1>7, <1>a, <2>3, <2>4 DEF OwnerIn
  <2> QED BY <1>6, <2>1, <2>2, <2>4, <2>5 DEF OrgsInv, OrgGood
<1>9. PasswordsInv
  BY <1>1 DEF Init, PasswordsInv
<1>10. SessionsInv /\ TokensInv
  BY <1>2, <1>3, <1>4 DEF Init, SessionsInv, TokensInv, RowOwned
<1>11. CallsInv /\ LocksInv
  <2>1. lock \in [Orgs -> Calls \cup {Nobody}] /\ call \in [Calls -> CallRow]
    BY IdleRow DEF Init
  <2>2. \A o \in Orgs : lock[o] = Nobody
    BY DEF Init
  <2> QED BY <1>5, <2>1, <2>2, IdleRow DEF CallsInv, LocksInv
<1>12. AloneInv
  <2>1. OneCall
    BY <1>5, IdleRow DEF OneCall
  <2>2. \A p \in Calls : AloneIn(member, password, session, call[p])
    BY <1>5, IdleRow DEF AloneIn
  <2>3. RowsAlone
    BY <1>3, <1>4 DEF RowsAlone, RowHeld, RowCurrent
  <2> QED BY <2>1, <2>2, <2>3 DEF AloneInv, CallsAlone
<1> QED BY <1>8, <1>9, <1>10, <1>11, <1>12 DEF AccountsInv, MembersInv

-----------------------------------------------------------------------------
(* What a step leaves alone. *)

\* No membership is deleted.
MembersStay == \A o \in Orgs, u \in Users : MemberIn(member[o], u) => MemberIn(member'[o], u)

LEMMA OwnedStays ==
    ASSUME MembersStay, NEW r, RowOwned(member, r)
    PROVE  RowOwned(member', r)
BY DEF MembersStay, RowOwned

LEMMA OthersKept ==
    ASSUME MembersInv
    PROVE  /\ UNCHANGED <<member, appRole>> => OrgsInv'
           /\ UNCHANGED member => MembersStay
           /\ UNCHANGED <<password, forced>> => PasswordsInv'
           /\ MembersStay /\ UNCHANGED session => SessionsInv'
           /\ MembersStay /\ UNCHANGED token => TokensInv'
<1> USE DEF MembersInv
<1>1. UNCHANGED <<member, appRole>> => OrgsInv'
  BY DEF OrgsInv
<1>2. UNCHANGED member => MembersStay
  BY DEF MembersStay
<1>3. UNCHANGED <<password, forced>> => PasswordsInv'
  BY DEF PasswordsInv
<1>4. MembersStay /\ UNCHANGED session => SessionsInv'
  BY OwnedStays DEF SessionsInv
<1>5. MembersStay /\ UNCHANGED token => TokensInv'
  BY OwnedStays DEF TokensInv
<1> QED BY <1>1, <1>2, <1>3, <1>4, <1>5

\* Some sessions, or tokens, end.
SameOrEnded(r, q) == q = r \/ (r.state # "none" /\ q = [r EXCEPT !.state = "revoked"])

LEMMA EndedRow ==
    ASSUME NEW r \in SessionRow, NEW q, SameOrEnded(r, q)
    PROVE  /\ q \in SessionRow
           /\ q.user = r.user /\ q.org = r.org /\ q.version = r.version
           /\ q.state = r.state \/ (r.state # "none" /\ q.state = "revoked")
BY DEF SameOrEnded, SessionRow

LEMMA EndedToken ==
    ASSUME NEW r \in TokenRow, NEW q, SameOrEnded(r, q)
    PROVE  /\ q \in TokenRow
           /\ q.user = r.user /\ q.org = r.org
           /\ q.state = r.state \/ (r.state # "none" /\ q.state = "revoked")
BY DEF SameOrEnded, TokenRow

LEMMA SessionsEnd ==
    ASSUME MembersInv, MembersStay, session' = [s \in Sessions |-> session'[s]],
           \A s \in Sessions : SameOrEnded(session[s], session'[s])
    PROVE  /\ SessionsInv'
           /\ \A s \in Sessions :
                /\ session'[s].user = session[s].user /\ session'[s].org = session[s].org
                /\ session'[s].version = session[s].version
                /\ \/ session'[s].state = session[s].state
                   \/ session[s].state # "none" /\ session'[s].state = "revoked"
<1>1. \A s \in Sessions : session[s] \in SessionRow /\ RowOwned(member, session[s])
  BY DEF MembersInv, SessionsInv
<1>3. \A s \in Sessions :
        /\ session'[s] \in SessionRow
        /\ session'[s].user = session[s].user /\ session'[s].org = session[s].org
        /\ session'[s].version = session[s].version
        /\ \/ session'[s].state = session[s].state
           \/ session[s].state # "none" /\ session'[s].state = "revoked"
  BY <1>1, EndedRow
<1>4. session' \in [Sessions -> SessionRow]
  BY <1>3
<1>5. \A s \in Sessions : RowOwned(member', session'[s])
  BY <1>1, <1>3 DEF RowOwned, MembersStay
<1> QED BY <1>3, <1>4, <1>5 DEF SessionsInv

LEMMA TokensEnd ==
    ASSUME MembersInv, MembersStay, token' = [t \in Tokens |-> token'[t]],
           \A t \in Tokens : SameOrEnded(token[t], token'[t])
    PROVE  /\ TokensInv'
           /\ \A t \in Tokens :
                /\ token'[t].user = token[t].user /\ token'[t].org = token[t].org
                /\ \/ token'[t].state = token[t].state
                   \/ token[t].state # "none" /\ token'[t].state = "revoked"
<1>1. \A t \in Tokens : token[t] \in TokenRow /\ RowOwned(member, token[t])
  BY DEF MembersInv, TokensInv
<1>3. \A t \in Tokens :
        /\ token'[t] \in TokenRow
        /\ token'[t].user = token[t].user /\ token'[t].org = token[t].org
        /\ \/ token'[t].state = token[t].state
           \/ token[t].state # "none" /\ token'[t].state = "revoked"
  BY <1>1, EndedToken
<1>4. token' \in [Tokens -> TokenRow]
  BY <1>3
<1>5. \A t \in Tokens : RowOwned(member', token'[t])
  BY <1>1, <1>3 DEF RowOwned, MembersStay
<1> QED BY <1>3, <1>4, <1>5 DEF TokensInv
-----------------------------------------------------------------------------
(* Calls and the rows they hold. *)

\* Call p moves on to c.
LEMMA CallMoves ==
    ASSUME MembersInv, MembersStay, NEW p \in Calls, NEW c \in CallRow, CallGood(c),
           c.stage = "read" => ReadIn(member'[c.org], c),
           call' = [call EXCEPT ![p] = c]
    PROVE  CallsInv'
<1>1. call' \in [Calls -> CallRow]
  BY DEF MembersInv, CallsInv
<1>2. ASSUME NEW q \in Calls
      PROVE  CallGood(call'[q]) /\ (call'[q].stage = "read" => ReadIn(member'[call'[q].org], call'[q]))
  <2>1. CASE q = p
    BY <2>1 DEF MembersInv, CallsInv
  <2>2. CASE q # p
    <3>1. call'[q] = call[q]
      BY <2>2 DEF MembersInv, CallsInv
    <3>2. CallGood(call[q]) /\ (call[q].stage = "read" => ReadIn(member[call[q].org], call[q]))
      BY DEF MembersInv, CallsInv
    <3>3. ASSUME call[q].stage = "read" PROVE ReadIn(member'[call[q].org], call[q])
      <4>1. call[q].actor \in Users /\ call[q].org \in Orgs
        BY <3>2, <3>3 DEF CallGood
      <4>2. call[q].op = "token" => call[q].target \in Users
        BY <3>2 DEF CallGood
      <4> QED BY <3>2, <3>3, <4>1, <4>2 DEF ReadIn, MembersStay
    <3> QED BY <3>1, <3>2, <3>3
  <2> QED BY <2>1, <2>2
<1> QED BY <1>1, <1>2 DEF CallsInv

\* A call that holds no rows neither takes nor lets go of any.
LEMMA LocksKept ==
    ASSUME MembersInv, NEW p \in Calls, NEW c \in CallRow,
           call[p].stage # "locked", c.stage # "locked",
           call' = [call EXCEPT ![p] = c], UNCHANGED <<member, lock>>
    PROVE  LocksInv'
<1>1. call \in [Calls -> CallRow] /\ LocksInv
  BY DEF MembersInv, CallsInv
<1>2. call'[p] = c /\ \A q \in Calls : q # p => call'[q] = call[q]
  BY <1>1
<1>3. \A o \in Orgs : lock[o] # Nobody => lock[o] \in Calls /\ lock[o] # p
  BY <1>1 DEF LocksInv
<1> QED BY <1>1, <1>2, <1>3 DEF LocksInv

\* A call takes the rows of its organization.
LEMMA LockTaken ==
    ASSUME MembersInv, NEW p \in Calls, NEW c \in CallRow, c.org \in Orgs,
           call[p].stage # "locked", c.stage = "locked", LockedIn(member[c.org], c),
           lock[c.org] = Nobody, lock' = [lock EXCEPT ![c.org] = p],
           call' = [call EXCEPT ![p] = c], UNCHANGED member
    PROVE  LocksInv'
<1>1. call \in [Calls -> CallRow] /\ LocksInv
  BY DEF MembersInv, CallsInv
<1>2. call'[p] = c /\ \A q \in Calls : q # p => call'[q] = call[q]
  BY <1>1
<1>3. lock' \in [Orgs -> Calls \cup {Nobody}] /\ lock'[c.org] = p /\ \A o \in Orgs : o # c.org => lock'[o] = lock[o]
  BY <1>1 DEF LocksInv
<1>4. \A o \in Orgs : lock[o] # Nobody => lock[o] \in Calls /\ lock[o] # p
  BY <1>1 DEF LocksInv
<1>5. \A o \in Orgs : lock'[o] # Nobody => call'[lock'[o]].stage = "locked" /\ call'[lock'[o]].org = o
  BY <1>1, <1>2, <1>3, <1>4 DEF LocksInv
<1>6. ASSUME NEW q \in Calls, call'[q].stage = "locked"
      PROVE  lock'[call'[q].org] = q /\ LockedIn(member[call'[q].org], call'[q])
  <2>1. CASE q = p
    BY <1>2, <1>3, <2>1
  <2>2. CASE q # p
    <3>1. call'[q] = call[q] /\ lock[call[q].org] = q /\ LockedIn(member[call[q].org], call[q])
      BY <1>1, <1>2, <1>6, <2>2 DEF LocksInv
    <3>2. call[q].org \in Orgs
      BY <1>2, <1>6, <2>2 DEF MembersInv, CallsInv, CallGood
    <3>3. call[q].org # c.org
      BY <3>1, MembersAssumption
    <3> QED BY <1>3, <3>1, <3>2, <3>3
  <2> QED BY <2>1, <2>2
<1> QED BY <1>3, <1>5, <1>6 DEF LocksInv

\* The call that holds an organization's rows lets go of them; it may have
\* written the memberships of that organization.
LEMMA LockReleased ==
    ASSUME MembersInv, NEW p \in Calls, call[p].stage = "locked",
           call' = [call EXCEPT ![p] = Idle], lock' = [lock EXCEPT ![call[p].org] = Nobody],
           \A o \in Orgs : o # call[p].org => member'[o] = member[o]
    PROVE  LocksInv'
<1>1. call \in [Calls -> CallRow] /\ LocksInv
  BY DEF MembersInv, CallsInv
<1>2. call'[p] = Idle /\ \A q \in Calls : q # p => call'[q] = call[q]
  BY <1>1
<1>3. call[p].org \in Orgs /\ lock[call[p].org] = p
  BY <1>1 DEF MembersInv, CallsInv, CallGood, LocksInv
<1>4. /\ lock' \in [Orgs -> Calls \cup {Nobody}] /\ lock'[call[p].org] = Nobody
      /\ \A o \in Orgs : o # call[p].org => lock'[o] = lock[o]
  BY <1>1, <1>3 DEF LocksInv
<1>5. \A o \in Orgs : o # call[p].org /\ lock[o] # Nobody => lock[o] \in Calls /\ lock[o] # p
  BY <1>1 DEF LocksInv
<1>6. \A o \in Orgs : lock'[o] # Nobody => call'[lock'[o]].stage = "locked" /\ call'[lock'[o]].org = o
  BY <1>1, <1>2, <1>4, <1>5 DEF LocksInv
<1>7. ASSUME NEW q \in Calls, call'[q].stage = "locked"
      PROVE  lock'[call'[q].org] = q /\ LockedIn(member'[call'[q].org], call'[q])
  <2>1. q # p
    BY <1>2, <1>7, IdleRow
  <2>2. call'[q] = call[q] /\ lock[call[q].org] = q /\ LockedIn(member[call[q].org], call[q])
    BY <1>1, <1>2, <1>7, <2>1 DEF LocksInv
  <2>3. call[q].org \in Orgs
    BY <1>2, <1>7, <2>1 DEF MembersInv, CallsInv, CallGood
  <2>4. call[q].org # call[p].org
    BY <1>3, <2>1, <2>2
  <2> QED BY <1>4, <2>2, <2>3, <2>4
<1> QED BY <1>4, <1>6, <1>7 DEF LocksInv

\* Without overlap the other calls are idle, so only the one that moves has
\* anything to say.
LEMMA AloneMoves ==
    ASSUME CallsInv, OneCall, NEW p \in Calls, NEW c \in CallRow,
           call[p].stage # "idle" \/ \A q \in Calls : call[q].stage = "idle",
           call' = [call EXCEPT ![p] = c],
           AloneIn(member', password', session', c)
    PROVE  CallsAlone'
<1>1. call'[p] = c /\ \A q \in Calls : q # p => call'[q] = call[q] /\ call[q].stage = "idle"
  BY DEF CallsInv, OneCall
<1>2. OneCall'
  BY <1>1 DEF OneCall
<1>3. ASSUME NEW q \in Calls, q # p PROVE AloneIn(member', password', session', call'[q])
  BY <1>1, <1>3 DEF AloneIn
<1> QED BY <1>1, <1>2, <1>3 DEF CallsAlone

LEMMA AloneEnds ==
    ASSUME CallsInv, OneCall, NEW p \in Calls, call[p].stage # "idle", call' = [call EXCEPT ![p] = Idle]
    PROVE  CallsAlone'
<1>1. AloneIn(member', password', session', Idle)
  BY IdleRow DEF AloneIn
<1> QED BY <1>1, IdleRow, AloneMoves

\* A step that moves one call and nothing else.
LEMMA OnlyCall ==
    ASSUME AccountsInv, NEW p \in Calls, NEW c \in CallRow, CallGood(c),
           call[p].stage # "locked", c.stage # "locked",
           c.stage = "read" => ReadIn(member[c.org], c),
           ~Overlap => AloneIn(member, password, session, c),
           ~Overlap => call[p].stage # "idle" \/ \A q \in Calls : call[q].stage = "idle",
           call' = [call EXCEPT ![p] = c],
           UNCHANGED <<member, appRole, password, forced, session, token, lock>>
    PROVE  AccountsInv'
<1>1. MembersInv /\ MembersStay /\ OrgsInv' /\ PasswordsInv' /\ SessionsInv' /\ TokensInv'
  BY OthersKept DEF AccountsInv
<1>2. CallsInv'
  BY <1>1, CallMoves
<1>3. LocksInv'
  BY <1>1, LocksKept
<1>4. ASSUME ~Overlap PROVE AloneInv'
  <2>1. CallsInv /\ OneCall /\ RowsAlone
    BY <1>4 DEF AccountsInv, MembersInv, AloneInv, CallsAlone
  <2>2. AloneIn(member', password', session', c)
    BY <1>4
  <2>3. CallsAlone'
    BY <1>4, <2>1, <2>2, AloneMoves
  <2>4. RowsAlone'
    BY <2>1 DEF RowsAlone
  <2> QED BY <2>3, <2>4 DEF AloneInv
<1> QED BY <1>1, <1>2, <1>3, <1>4 DEF AccountsInv, MembersInv

\* The same when the call ends.
LEMMA CallDropped ==
    ASSUME AccountsInv, NEW p \in Calls, call[p].stage \notin {"idle", "locked"},
           call' = [call EXCEPT ![p] = Idle],
           UNCHANGED <<member, appRole, password, forced, session, token, lock>>
    PROVE  AccountsInv'
<1>1. AloneIn(member, password, session, Idle)
  BY IdleRow DEF AloneIn
<1> QED BY <1>1, IdleRow, OnlyCall

-----------------------------------------------------------------------------
(* Calls begin and read. *)

\* What a valid session says of its user.
LEMMA ValidSession ==
    ASSUME MembersInv, NEW s \in Sessions, Valid(s)
    PROVE  /\ session[s].user \in Users /\ session[s].org \in Orgs /\ session[s].state = "active"
           /\ session[s].version \in 0..MaxPassword
           /\ ActiveIn(member[session[s].org], session[s].user)
<1>1. session[s] \in SessionRow /\ RowOwned(member, session[s]) /\ session[s].state = "active"
  BY DEF MembersInv, SessionsInv, Valid
<1> QED BY <1>1 DEF RowOwned, SessionRow, Valid, Active, Member, ActiveIn

\* Who may begin is idle, and without overlap so is everyone.
LEMMA BeginsAlone ==
    ASSUME NEW p \in Calls, NEW op, MayBegin(p, op)
    PROVE  call[p].stage = "idle" /\ (~Overlap => \A q \in Calls : call[q].stage = "idle")
BY IdleRow DEF MayBegin

LEMMA OwnerBegins ==
    ASSUME AccountsInv, NEW p \in Calls, NEW op, NEW s \in Sessions, NEW target \in Users,
           NEW role \in Roles \cup {"none"}, op \in {"create", "role", "grant"} => role \in Roles,
           BeginOwner(p, op, s, target, role)
    PROVE  AccountsInv'
<1> DEFINE c == [Idle EXCEPT !.op = op, !.stage = "begun", !.actor = session[s].user,
                             !.org = session[s].org, !.target = target, !.role = role, !.by = s]
<1>1. session[s].user \in Users /\ session[s].org \in Orgs
  BY ValidSession DEF AccountsInv, BeginOwner
<1>a. Idle \in CallRow
  BY IdleRow
<1>2. op \in OwnerOperations /\ call' = [call EXCEPT ![p] = c]
      /\ UNCHANGED <<member, appRole, password, forced, session, token, lock>>
  BY DEF BeginOwner
<1>3. /\ c \in CallRow /\ c.op = op /\ c.stage = "begun" /\ c.actor = session[s].user
      /\ c.org = session[s].org /\ c.target = target /\ c.role = role
  BY <1>1, <1>2, <1>a DEF CallRow
<1>4. call[p].stage = "idle" /\ (~Overlap => \A q \in Calls : call[q].stage = "idle")
  BY BeginsAlone DEF BeginOwner
<1> HIDE DEF c
<1>5. CallGood(c)
  BY <1>1, <1>2, <1>3 DEF CallGood, OwnerOperations
<1>6. AloneIn(member, password, session, c)
  BY <1>3 DEF AloneIn
<1> QED BY <1>2, <1>3, <1>4, <1>5, <1>6, OnlyCall

LEMMA LoginBegins ==
    ASSUME AccountsInv, NEW p \in Calls, NEW u \in Users, NEW o \in Orgs, BeginLogin(p, u, o)
    PROVE  AccountsInv'
<1> DEFINE c == [Idle EXCEPT !.op = "login", !.stage = "verified", !.actor = u, !.org = o, !.seen = password[u]]
<1>1. password[u] \in 0..MaxPassword /\ ActiveIn(member[o], u)
  BY DEF AccountsInv, MembersInv, PasswordsInv, BeginLogin, Active, Member, ActiveIn
<1>2. call' = [call EXCEPT ![p] = c] /\ UNCHANGED <<member, appRole, password, forced, session, token, lock>>
  BY DEF BeginLogin
<1>3. /\ c \in CallRow /\ c.op = "login" /\ c.stage = "verified" /\ c.actor = u
      /\ c.org = o /\ c.seen = password[u]
  BY <1>1, MembersAssumption DEF Idle, CallRow
<1>4. call[p].stage = "idle" /\ (~Overlap => \A q \in Calls : call[q].stage = "idle")
  BY BeginsAlone DEF BeginLogin
<1> HIDE DEF c
<1>5. CallGood(c)
  BY <1>3 DEF CallGood
<1>6. AloneIn(member, password, session, c)
  BY <1>1, <1>3 DEF AloneIn
<1> QED BY <1>2, <1>3, <1>4, <1>5, <1>6, OnlyCall

LEMMA ChangeBegins ==
    ASSUME AccountsInv, NEW p \in Calls, NEW s \in Sessions, BeginChangePassword(p, s)
    PROVE  AccountsInv'
<1> DEFINE c == [Idle EXCEPT !.op = "own_password", !.stage = "verified", !.actor = session[s].user,
                             !.org = session[s].org, !.by = s, !.seen = password[session[s].user]]
<1>1. /\ session[s].user \in Users /\ session[s].org \in Orgs /\ session[s].state = "active"
      /\ ActiveIn(member[session[s].org], session[s].user)
  BY ValidSession DEF AccountsInv, BeginChangePassword
<1>2. password[session[s].user] \in 0..MaxPassword
  BY <1>1 DEF AccountsInv, MembersInv, PasswordsInv
<1>3. call' = [call EXCEPT ![p] = c] /\ UNCHANGED <<member, appRole, password, forced, session, token, lock>>
  BY DEF BeginChangePassword
<1>4. /\ c \in CallRow /\ c.op = "own_password" /\ c.stage = "verified" /\ c.actor = session[s].user
      /\ c.org = session[s].org /\ c.by = s /\ c.seen = password[session[s].user]
  BY <1>1, <1>2, MembersAssumption DEF Idle, CallRow
<1>5. call[p].stage = "idle" /\ (~Overlap => \A q \in Calls : call[q].stage = "idle")
  BY BeginsAlone DEF BeginChangePassword
<1> HIDE DEF c
<1>6. CallGood(c)
  BY <1>1, <1>4 DEF CallGood
<1>7. AloneIn(member, password, session, c)
  BY <1>1, <1>4 DEF AloneIn
<1> QED BY <1>3, <1>4, <1>5, <1>6, <1>7, OnlyCall

LEMMA SwitchBegins ==
    ASSUME AccountsInv, NEW p \in Calls, NEW s \in Sessions, NEW o \in Orgs, BeginSwitch(p, s, o)
    PROVE  AccountsInv'
<1> DEFINE c == [Idle EXCEPT !.op = "switch", !.stage = "verified", !.actor = session[s].user,
                             !.org = o, !.by = s, !.seen = session[s].version]
<1>1. session[s].user \in Users /\ session[s].state = "active" /\ session[s].version \in 0..MaxPassword
  BY ValidSession DEF AccountsInv, BeginSwitch
<1>2. ActiveIn(member[o], session[s].user)
  BY DEF BeginSwitch, Active, Member, ActiveIn
<1>3. call' = [call EXCEPT ![p] = c] /\ UNCHANGED <<member, appRole, password, forced, session, token, lock>>
  BY DEF BeginSwitch
<1>4. /\ c \in CallRow /\ c.op = "switch" /\ c.stage = "verified" /\ c.actor = session[s].user
      /\ c.org = o /\ c.by = s /\ c.seen = session[s].version
  BY <1>1, MembersAssumption DEF Idle, CallRow
<1>5. call[p].stage = "idle" /\ (~Overlap => \A q \in Calls : call[q].stage = "idle")
  BY BeginsAlone DEF BeginSwitch
<1> HIDE DEF c
<1>6. CallGood(c)
  BY <1>1, <1>4 DEF CallGood
<1>7. ~Overlap => session[s].version = password[session[s].user]
  BY <1>1 DEF AccountsInv, AloneInv, RowsAlone, RowCurrent
<1>8. ~Overlap => AloneIn(member, password, session, c)
  BY <1>2, <1>4, <1>7 DEF AloneIn
<1> QED BY <1>3, <1>4, <1>5, <1>6, <1>8, OnlyCall

LEMMA TokenBegins ==
    ASSUME AccountsInv, NEW p \in Calls, NEW s \in Sessions, NEW u \in Users, BeginToken(p, s, u)
    PROVE  AccountsInv'
<1> DEFINE c == [Idle EXCEPT !.op = "token", !.stage = "verified", !.actor = session[s].user,
                             !.org = session[s].org, !.target = u]
<1>1. session[s].user \in Users /\ session[s].org \in Orgs
  BY ValidSession DEF AccountsInv, BeginToken
<1>a. Idle \in CallRow
  BY IdleRow
<1>2. call' = [call EXCEPT ![p] = c] /\ UNCHANGED <<member, appRole, password, forced, session, token, lock>>
  BY DEF BeginToken
<1>3. /\ c \in CallRow /\ c.op = "token" /\ c.stage = "verified" /\ c.actor = session[s].user
      /\ c.org = session[s].org /\ c.target = u
  BY <1>1, <1>a DEF CallRow
<1>4. call[p].stage = "idle" /\ (~Overlap => \A q \in Calls : call[q].stage = "idle")
  BY BeginsAlone DEF BeginToken
<1> HIDE DEF c
<1>5. CallGood(c)
  BY <1>1, <1>3 DEF CallGood
<1>6. AloneIn(member, password, session, c)
  BY <1>3 DEF AloneIn
<1> QED BY <1>2, <1>3, <1>4, <1>5, <1>6, OnlyCall

LEMMA SnapshotReads ==
    ASSUME AccountsInv, NEW p \in Calls, Snapshot(p)
    PROVE  AccountsInv'
<1> DEFINE c == call[p]
           good == CASE c.op = "token" -> /\ Active(c.actor, c.org) /\ Active(c.target, c.org)
                                          /\ c.actor = c.target \/ member[c.org][c.actor].role = "owner"
                     [] c.op = "switch" -> Active(c.actor, c.org) /\ session[c.by].state = "active"
                     [] OTHER -> Active(c.actor, c.org)
           d == [c EXCEPT !.stage = "read"]
<1>1. c \in CallRow /\ CallGood(c) /\ c.stage = "verified" /\ c.op \in {"login", "switch", "token"}
  BY DEF AccountsInv, MembersInv, CallsInv, Snapshot
<1>2. /\ call' = [call EXCEPT ![p] = IF good THEN d ELSE Idle]
      /\ UNCHANGED <<member, appRole, password, forced, session, token, lock>>
  BY DEF Snapshot
<1>3. good => Active(c.actor, c.org) /\ (c.op = "token" => Active(c.target, c.org))
  OBVIOUS
<1>4. /\ d \in CallRow /\ d.stage = "read" /\ d.op = c.op /\ d.actor = c.actor /\ d.org = c.org
      /\ d.target = c.target /\ d.role = c.role /\ d.by = c.by /\ d.seen = c.seen
  BY <1>1 DEF CallRow
<1> HIDE DEF c, d, good
<1>5. CASE good
  <2>1. CallGood(d)
    BY <1>1, <1>4 DEF CallGood
  <2>2. ActiveIn(member[c.org], c.actor) /\ (c.op = "token" => ActiveIn(member[c.org], c.target))
    BY <1>3, <1>5 DEF Active, Member, ActiveIn
  <2>3. ReadIn(member[d.org], d)
    BY <1>4, <2>2 DEF ReadIn, ActiveIn, MemberIn
  <2>4. ~Overlap => AloneIn(member, password, session, c)
    BY DEF AccountsInv, AloneInv, CallsAlone, c
  <2>5. ~Overlap => AloneIn(member, password, session, d)
    BY <1>1, <1>4, <2>2, <2>4 DEF AloneIn
  <2>6. call[p].stage # "locked" /\ call[p].stage # "idle" /\ call' = [call EXCEPT ![p] = d]
    BY <1>1, <1>2, <1>5 DEF c
  <2> QED BY <1>2, <1>4, <2>1, <2>3, <2>5, <2>6, OnlyCall
<1>6. CASE ~good
  <2>1. call[p].stage \notin {"idle", "locked"} /\ call' = [call EXCEPT ![p] = Idle]
    BY <1>1, <1>2, <1>6 DEF c
  <2> QED BY <1>2, <2>1, CallDropped
<1> QED BY <1>5, <1>6

\* An owner's operation takes the rows when it may go on, and what it decided
\* on is then what they say.
LEMMA LockStep ==
    ASSUME AccountsInv, NEW p \in Calls, Lock(p)
    PROVE  AccountsInv'
<1> DEFINE c == call[p]
           d == [c EXCEPT !.stage = "locked"]
<1>1. c \in CallRow /\ CallGood(c) /\ c.stage = "begun" /\ c.op \in OwnerOperations
  BY DEF AccountsInv, MembersInv, CallsInv, Lock
<1>2. c.actor \in Users /\ c.org \in Orgs /\ c.target \in Users
  BY <1>1 DEF CallGood
<1>3. UNCHANGED <<member, appRole, password, forced, session, token>> /\ lock[c.org] = Nobody
  BY DEF Lock, Free
<1>4. CASE /\ ActiveOwner(c.actor, c.org) /\ Permitted(c)
           /\ lock' = [lock EXCEPT ![c.org] = p] /\ call' = [call EXCEPT ![p] = d]
  <2>1. /\ d \in CallRow /\ d.stage = "locked" /\ d.op = c.op /\ d.actor = c.actor /\ d.org = c.org
        /\ d.target = c.target /\ d.role = c.role /\ d.by = c.by /\ d.seen = c.seen
    BY <1>1 DEF CallRow
  <2>2. LockedIn(member[c.org], c)
    <3>1. OwnerIn(member[c.org], c.actor)
      BY <1>4 DEF ActiveOwner, Active, OwnerIn
    <3>2. c.op \in {"role", "disable", "enable", "password", "grant", "ungrant"} => MemberIn(member[c.org], c.target)
      <4>1. c.op \in {"role", "disable", "enable", "password", "grant"} => MemberIn(member[c.org], c.target)
        BY <1>4 DEF Permitted, Member, MemberIn
      <4>2. c.op = "ungrant" => appRole[c.org][c.target] # "none"
        BY <1>4 DEF Permitted
      <4>3. OrgGood(member[c.org], appRole[c.org])
        BY <1>2 DEF AccountsInv, MembersInv, OrgsInv
      <4>4. c.op = "ungrant" => MemberIn(member[c.org], c.target)
        BY <1>2, <4>2, <4>3 DEF OrgGood
      <4> QED BY <4>1, <4>4
    <3>3. c.op = "grant" => Rank(c.role) > Rank(member[c.org][c.target].role)
      BY <1>4 DEF Permitted, Raises
    <3>4. c.op = "create" => ~MemberIn(member[c.org], c.target)
      BY <1>2, <1>4 DEF Permitted, Member, MemberIn
    <3>5. ASSUME c.op = "disable" \/ (c.op = "role" /\ c.role # "owner"), OwnerIn(member[c.org], c.target)
          PROVE  \E u \in Users \ {c.target} : OwnerIn(member[c.org], u)
      <4>1. ~LastOwner(c)
        BY <1>4, <3>5 DEF Permitted
      <4>2. ActiveOwner(c.target, c.org)
        BY <3>5 DEF OwnerIn, ActiveOwner, Active, Member
      <4>3. OtherOwners(c.org, c.target) # {}
        BY <3>5, <4>1, <4>2 DEF LastOwner
      <4> QED BY <4>3 DEF OtherOwners, ActiveOwner, Active, OwnerIn
    <3> QED BY <3>1, <3>2, <3>3, <3>4, <3>5 DEF LockedIn, SpareOwner
  <2>3. /\ c.op = "create" => \A o \in Orgs : ~MemberIn(member[o], c.target)
        /\ c.op = "password" => \A o \in Orgs \ {c.org} : ~MemberIn(member[o], c.target)
    BY <1>4 DEF Permitted, Member, MemberIn
  <2> HIDE DEF d
  <2>4. CallGood(d)
    BY <1>1, <2>1 DEF CallGood
  <2>5. LockedIn(member[d.org], d)
    BY <2>1, <2>2 DEF LockedIn
  <2>6. AloneIn(member', password', session', d)
    BY <1>3, <2>1, <2>3 DEF AloneIn
  <2>7. MembersInv /\ MembersStay /\ OrgsInv' /\ PasswordsInv' /\ SessionsInv' /\ TokensInv'
    BY <1>3, OthersKept DEF AccountsInv
  <2>8. call' = [call EXCEPT ![p] = d] /\ call[p].stage # "locked" /\ call[p].stage # "idle"
        /\ lock' = [lock EXCEPT ![d.org] = p] /\ lock[d.org] = Nobody /\ d.org \in Orgs
    BY <1>1, <1>2, <1>3, <1>4, <2>1
  <2>9. CallsInv'
    BY <2>1, <2>4, <2>7, <2>8, CallMoves
  <2>10. LocksInv'
    BY <1>3, <2>1, <2>5, <2>7, <2>8, LockTaken
  <2>11. ~Overlap => AloneInv'
    <3>1. ASSUME ~Overlap PROVE CallsInv /\ OneCall /\ RowsAlone
      BY <3>1 DEF AccountsInv, MembersInv, AloneInv, CallsAlone
    <3>2. ~Overlap => CallsAlone'
      BY <2>1, <2>6, <2>8, <3>1, AloneMoves
    <3>3. ~Overlap => RowsAlone'
      BY <1>3, <3>1 DEF RowsAlone
    <3> QED BY <3>2, <3>3 DEF AloneInv
  <2> QED BY <2>7, <2>9, <2>10, <2>11 DEF AccountsInv, MembersInv
<1>5. CASE call' = [call EXCEPT ![p] = Idle] /\ UNCHANGED lock
  BY <1>1, <1>3, <1>5, CallDropped
<1> QED BY <1>4, <1>5 DEF Lock
-----------------------------------------------------------------------------
(* Owners' operations commit. *)

LEMMA RankNat == \A r : Rank(r) \in Nat
BY DEF Rank

\* The membership row of t and the application role of t are rewritten: an
\* owner remains and roles raise, if there is a spare owner when t was one.
LEMMA RowWritten ==
    ASSUME NEW m \in [Users -> MemberRow], NEW a \in [Users -> Roles \cup {"none"}], OrgGood(m, a),
           NEW t \in Users, NEW row \in MemberRow, row.role # "none",
           NEW x \in Roles \cup {"none"}, x # "none" => Rank(x) > Rank(row.role),
           OwnerIn(m, t) /\ ~(row.role = "owner" /\ row.status = "active") => \E u \in Users \ {t} : OwnerIn(m, u)
    PROVE  LET n == [m EXCEPT ![t] = row]
               b == [a EXCEPT ![t] = x]
           IN  /\ n \in [Users -> MemberRow] /\ b \in [Users -> Roles \cup {"none"}]
               /\ OrgGood(n, b)
               /\ \A u \in Users : MemberIn(m, u) => MemberIn(n, u)
<1> DEFINE n == [m EXCEPT ![t] = row]
           b == [a EXCEPT ![t] = x]
<1>1. n \in [Users -> MemberRow] /\ b \in [Users -> Roles \cup {"none"}]
  OBVIOUS
<1>2. n[t] = row /\ b[t] = x /\ \A u \in Users : u # t => n[u] = m[u] /\ b[u] = a[u]
  OBVIOUS
<1> HIDE DEF n, b
<1>3. \A u \in Users : MemberIn(m, u) => MemberIn(n, u)
  BY <1>2 DEF MemberIn
<1>4. \E u \in Users : OwnerIn(n, u)
  <2>1. CASE row.role = "owner" /\ row.status = "active"
    BY <1>2, <2>1 DEF OwnerIn
  <2>2. CASE ~(row.role = "owner" /\ row.status = "active")
    <3>1. PICK u \in Users \ {t} : OwnerIn(m, u)
      BY <2>2 DEF OrgGood
    <3> QED BY <1>2, <3>1 DEF OwnerIn
  <2> QED BY <2>1, <2>2
<1>5. ASSUME NEW u \in Users, b[u] # "none" PROVE MemberIn(n, u) /\ Rank(b[u]) > Rank(n[u].role)
  <2>1. CASE u = t
    BY <1>2, <1>5, <2>1 DEF MemberIn
  <2>2. CASE u # t
    BY <1>2, <1>5, <2>2 DEF OrgGood, MemberIn
  <2> QED BY <2>1, <2>2
<1>6. OrgGood(n, b)
  BY <1>4, <1>5 DEF OrgGood
<1> QED BY <1>1, <1>3, <1>6 DEF n, b

\* The rows of one organization are rewritten.
LEMMA OrgWritten ==
    ASSUME MembersInv, NEW o \in Orgs, NEW t \in Users, NEW row \in MemberRow, row.role # "none",
           NEW x \in Roles \cup {"none"}, x # "none" => Rank(x) > Rank(row.role),
           OwnerIn(member[o], t) /\ ~(row.role = "owner" /\ row.status = "active") => SpareOwner(member[o], t),
           member' = WithMember(o, t, row), appRole' = WithRole(o, t, x)
    PROVE  /\ OrgsInv' /\ MembersStay
           /\ \A q \in Orgs : q # o => member'[q] = member[q]
           /\ member'[o][t] = row /\ \A u \in Users : u # t => member'[o][u] = member[o][u]
<1> DEFINE n == [member[o] EXCEPT ![t] = row]
           b == [appRole[o] EXCEPT ![t] = x]
<1>1. /\ member[o] \in [Users -> MemberRow] /\ appRole[o] \in [Users -> Roles \cup {"none"}]
      /\ OrgGood(member[o], appRole[o])
      /\ member \in [Orgs -> [Users -> MemberRow]] /\ appRole \in [Orgs -> [Users -> Roles \cup {"none"}]]
  BY DEF MembersInv, OrgsInv
<1>2. /\ n \in [Users -> MemberRow] /\ b \in [Users -> Roles \cup {"none"}] /\ OrgGood(n, b)
      /\ \A u \in Users : MemberIn(member[o], u) => MemberIn(n, u)
  BY <1>1, RowWritten DEF SpareOwner
<1>3. n[t] = row /\ \A u \in Users : u # t => n[u] = member[o][u]
  BY <1>1
<1>4. member' = [member EXCEPT ![o] = n] /\ appRole' = [appRole EXCEPT ![o] = b]
  BY DEF WithMember, WithRole
<1> HIDE DEF n, b
<1>5. member' \in [Orgs -> [Users -> MemberRow]] /\ appRole' \in [Orgs -> [Users -> Roles \cup {"none"}]]
  BY <1>1, <1>2, <1>4
<1>6. member'[o] = n /\ appRole'[o] = b /\ \A q \in Orgs : q # o => member'[q] = member[q] /\ appRole'[q] = appRole[q]
  BY <1>1, <1>4
<1>7. \A q \in Orgs : OrgGood(member'[q], appRole'[q])
  BY <1>2, <1>6 DEF MembersInv, OrgsInv
<1>8. MembersStay
  BY <1>2, <1>6 DEF MembersStay
<1> QED BY <1>3, <1>5, <1>6, <1>7, <1>8 DEF OrgsInv

\* A row rewritten as it was.
LEMMA SameRole ==
    ASSUME MembersInv, NEW o \in Orgs, NEW t \in Users, UNCHANGED appRole
    PROVE  appRole' = WithRole(o, t, appRole[o][t])
BY DEF MembersInv, OrgsInv, WithRole

LEMMA SameMember ==
    ASSUME MembersInv, NEW o \in Orgs, NEW t \in Users, UNCHANGED member
    PROVE  member' = WithMember(o, t, member[o][t])
BY DEF MembersInv, OrgsInv, WithMember

\* What is known when an owner's operation commits.
LEMMA CommitFacts ==
    ASSUME AccountsInv, NEW p \in Calls, NEW op, Commit(p, op)
    PROVE  /\ MembersInv /\ call[p] \in CallRow /\ CallGood(call[p]) /\ call[p].op = op /\ call[p].stage = "locked"
           /\ call[p].org \in Orgs /\ call[p].target \in Users /\ op \in OwnerOperations
           /\ LockedIn(member[call[p].org], call[p])
           /\ member[call[p].org][call[p].target] \in MemberRow
           /\ appRole[call[p].org][call[p].target] \in Roles \cup {"none"}
           /\ ~Overlap => AloneIn(member, password, session, call[p]) /\ RowsAlone
<1>1. MembersInv /\ call[p].stage = "locked" /\ call[p].op = op
  BY DEF AccountsInv, Commit
<1>2. call[p] \in CallRow /\ CallGood(call[p]) /\ LockedIn(member[call[p].org], call[p])
  BY <1>1 DEF MembersInv, CallsInv, LocksInv
<1>3. call[p].org \in Orgs /\ call[p].target \in Users /\ op \in OwnerOperations
  BY <1>1, <1>2 DEF CallGood
<1>4. member[call[p].org][call[p].target] \in MemberRow /\ appRole[call[p].org][call[p].target] \in Roles \cup {"none"}
  BY <1>1, <1>3 DEF MembersInv, OrgsInv
<1>5. ~Overlap => AloneIn(member, password, session, call[p]) /\ RowsAlone
  BY DEF AccountsInv, AloneInv, CallsAlone
<1> QED BY <1>1, <1>2, <1>3, <1>4, <1>5

\* A commit, once its rows are known to be good.
LEMMA Committed ==
    ASSUME AccountsInv, NEW p \in Calls, NEW op, Commit(p, op),
           OrgsInv', MembersStay, \A o \in Orgs : o # call[p].org => member'[o] = member[o],
           PasswordsInv', SessionsInv', TokensInv', ~Overlap => RowsAlone'
    PROVE  AccountsInv'
<1>1. /\ MembersInv /\ call[p].stage = "locked"
      /\ call' = [call EXCEPT ![p] = Idle] /\ lock' = [lock EXCEPT ![call[p].org] = Nobody]
  BY DEF AccountsInv, Commit
<1>2. CallsInv'
  BY <1>1, IdleRow, CallMoves
<1>3. LocksInv'
  BY <1>1, LockReleased
<1>4. ~Overlap => CallsAlone'
  BY <1>1, AloneEnds DEF AccountsInv, MembersInv, AloneInv, CallsAlone
<1> QED BY <1>2, <1>3, <1>4 DEF AccountsInv, MembersInv, AloneInv

LEMMA MemberFields ==
    ASSUME NEW r \in MemberRow, NEW role \in Roles, NEW status \in {"active", "disabled"}
    PROVE  /\ [r EXCEPT !.role = role] \in MemberRow
           /\ [r EXCEPT !.role = role].role = role /\ [r EXCEPT !.role = role].status = r.status
           /\ [r EXCEPT !.status = status] \in MemberRow
           /\ [r EXCEPT !.status = status].status = status /\ [r EXCEPT !.status = status].role = r.role
           /\ [role |-> role, status |-> status] \in MemberRow
BY DEF MemberRow

LEMMA CreateStep ==
    ASSUME AccountsInv, NEW p \in Calls, CreateAdministrator(p)
    PROVE  AccountsInv'
<1> DEFINE c == call[p]
           o == c.org
           t == c.target
           row == [role |-> c.role, status |-> "active"]
<1>1. /\ MembersInv /\ CallGood(c) /\ c.op = "create" /\ o \in Orgs /\ t \in Users
      /\ LockedIn(member[o], c) /\ member[o][t] \in MemberRow /\ appRole[o][t] \in Roles \cup {"none"}
      /\ (~Overlap => AloneIn(member, password, session, c) /\ RowsAlone) /\ c.stage = "locked"
  BY CommitFacts DEF CreateAdministrator
<1>2. /\ Commit(p, "create") /\ member' = WithMember(o, t, row)
      /\ password' = [password EXCEPT ![t] = 1] /\ forced' = [forced EXCEPT ![t] = TRUE]
      /\ UNCHANGED <<appRole, session, token>>
  BY DEF CreateAdministrator
<1>3. row \in MemberRow /\ row.role = c.role /\ row.status = "active" /\ c.role \in Roles /\ row.role # "none"
  BY <1>1 DEF CallGood, MemberRow, Roles
<1>4. ~MemberIn(member[o], t)
  BY <1>1 DEF LockedIn
<1>5. appRole[o][t] = "none"
  BY <1>1, <1>4 DEF MembersInv, OrgsInv, OrgGood
<1>6. appRole' = WithRole(o, t, appRole[o][t])
  BY <1>1, <1>2, SameRole
<1>7. ~OwnerIn(member[o], t)
  BY <1>4 DEF OwnerIn, MemberIn
<1> HIDE DEF c, o, t, row
<1>8. /\ OrgsInv' /\ MembersStay /\ \A q \in Orgs : q # o => member'[q] = member[q]
      /\ member'[o][t] = row /\ \A u \in Users : u # t => member'[o][u] = member[o][u]
  BY <1>1, <1>2, <1>3, <1>5, <1>6, <1>7, OrgWritten
<1>9. password \in [Users -> 0..MaxPassword] /\ 1 \in 0..MaxPassword /\ forced \in [Users -> BOOLEAN]
  BY <1>1, MembersAssumption DEF MembersInv, PasswordsInv
<1>10. PasswordsInv'
  BY <1>2, <1>9 DEF PasswordsInv
<1>11. SessionsInv' /\ TokensInv'
  BY <1>1, <1>2, <1>8, OthersKept
<1>12. ASSUME ~Overlap PROVE RowsAlone'
  <2>1. \A q \in Orgs : ~MemberIn(member[q], t)
    BY <1>1, <1>12 DEF AloneIn, t
  <2>2. \A s \in Sessions : session[s].state = "active" =>
          /\ session[s].user \in Users /\ session[s].org \in Orgs /\ MemberIn(member[session[s].org], session[s].user)
          /\ session[s].user # t
    BY <1>1, <2>1 DEF MembersInv, SessionsInv, RowOwned
  <2>3. \A k \in Tokens : token[k].state = "active" =>
          /\ token[k].user \in Users /\ token[k].org \in Orgs /\ MemberIn(member[token[k].org], token[k].user)
          /\ token[k].user # t
    BY <1>1, <2>1 DEF MembersInv, TokensInv, RowOwned
  <2>4. \A q \in Orgs, u \in Users : u # t => member'[q][u] = member[q][u]
    BY <1>8
  <2>5. \A u \in Users : u # t => password'[u] = password[u]
    BY <1>2, <1>9
  <2> QED BY <1>1, <1>2, <1>12, <2>2, <2>3, <2>4, <2>5 DEF RowsAlone, RowHeld, RowCurrent
<1> QED BY <1>2, <1>8, <1>10, <1>11, <1>12, Committed DEF c, o

LEMMA RoleStep ==
    ASSUME AccountsInv, NEW p \in Calls, ChangeAdministratorRole(p)
    PROVE  AccountsInv'
<1> DEFINE c == call[p]
           o == c.org
           t == c.target
           row == [member[o][t] EXCEPT !.role = c.role]
           r == appRole[o][t]
           x == IF Rank(r) <= Rank(c.role) THEN "none" ELSE r
<1>1. /\ MembersInv /\ CallGood(c) /\ c.op = "role" /\ o \in Orgs /\ t \in Users
      /\ LockedIn(member[o], c) /\ member[o][t] \in MemberRow /\ r \in Roles \cup {"none"}
      /\ (~Overlap => RowsAlone)
  BY CommitFacts DEF ChangeAdministratorRole
<1>2. /\ Commit(p, "role") /\ member' = WithMember(o, t, row) /\ appRole' = WithRole(o, t, x)
      /\ UNCHANGED <<password, forced, session, token>>
  BY DEF ChangeAdministratorRole, RolesRaising
<1>3. c.role \in Roles /\ c.role # "none"
  BY <1>1 DEF CallGood, Roles
<1>4. row \in MemberRow /\ row.role = c.role /\ row.status = member[o][t].status
  BY <1>1, <1>3 DEF MemberRow
<1>5. x \in Roles \cup {"none"} /\ (x # "none" => Rank(x) > Rank(c.role))
  BY <1>1, RankNat
<1>6. OwnerIn(member[o], t) /\ ~(row.role = "owner" /\ row.status = "active") => SpareOwner(member[o], t)
  BY <1>1, <1>4 DEF LockedIn, OwnerIn
<1> HIDE DEF c, o, t, row, x, r
<1>7. /\ OrgsInv' /\ MembersStay /\ \A q \in Orgs : q # o => member'[q] = member[q]
      /\ member'[o][t] = row /\ \A u \in Users : u # t => member'[o][u] = member[o][u]
  BY <1>1, <1>2, <1>3, <1>4, <1>5, <1>6, OrgWritten
<1>8. PasswordsInv' /\ SessionsInv' /\ TokensInv'
  BY <1>1, <1>2, <1>7, OthersKept
<1>9. \A q \in Orgs, u \in Users : member'[q][u].status = member[q][u].status
  BY <1>4, <1>7
<1>10. ASSUME ~Overlap PROVE RowsAlone'
  <2>1. \A s \in Sessions : session[s].state = "active" => session[s].user \in Users /\ session[s].org \in Orgs
    BY <1>1 DEF MembersInv, SessionsInv, RowOwned
  <2>2. \A k \in Tokens : token[k].state = "active" => token[k].user \in Users /\ token[k].org \in Orgs
    BY <1>1 DEF MembersInv, TokensInv, RowOwned
  <2> QED BY <1>1, <1>2, <1>9, <1>10, <2>1, <2>2 DEF RowsAlone, RowHeld, RowCurrent
<1> QED BY <1>2, <1>7, <1>8, <1>10, Committed DEF c, o
\* Memberships of the other users, and the status of this one, decide on
\* nothing that is active unless the status becomes another.
LEMMA StatusKept ==
    ASSUME MembersInv, RowsAlone, UNCHANGED <<password, session, token>>,
           \A o \in Orgs, u \in Users : member[o][u].status = "active" => member'[o][u].status = "active"
    PROVE  RowsAlone'
<1>1. \A s \in Sessions : session[s].state = "active" => session[s].user \in Users /\ session[s].org \in Orgs
  BY DEF MembersInv, SessionsInv, RowOwned
<1>2. \A k \in Tokens : token[k].state = "active" => token[k].user \in Users /\ token[k].org \in Orgs
  BY DEF MembersInv, TokensInv, RowOwned
<1> QED BY <1>1, <1>2 DEF RowsAlone, RowHeld, RowCurrent

LEMMA EnableStep ==
    ASSUME AccountsInv, NEW p \in Calls, SetAdministratorEnabled(p), call[p].op = "enable"
    PROVE  AccountsInv'
<1> DEFINE c == call[p]
           o == c.org
           t == c.target
           row == [member[o][t] EXCEPT !.status = "active"]
           x == appRole[o][t]
<1>0. Commit(p, "enable") /\ member' = WithMember(o, t, row) /\ UNCHANGED <<appRole, password, forced, session, token>>
  BY DEF SetAdministratorEnabled, Commit
<1>1. /\ MembersInv /\ CallGood(c) /\ c.op = "enable" /\ o \in Orgs /\ t \in Users
      /\ LockedIn(member[o], c) /\ member[o][t] \in MemberRow /\ x \in Roles \cup {"none"}
      /\ (~Overlap => RowsAlone)
  BY <1>0, CommitFacts
<1>2. Commit(p, "enable") /\ member' = WithMember(o, t, row) /\ appRole' = WithRole(o, t, x)
  BY <1>0, <1>1, SameRole
<1>3. MemberIn(member[o], t) /\ OrgGood(member[o], appRole[o])
  BY <1>1 DEF LockedIn, MembersInv, OrgsInv
<1>4. row \in MemberRow /\ row.role = member[o][t].role /\ row.status = "active" /\ row.role # "none"
  BY <1>1, <1>3 DEF MemberRow, MemberIn
<1>5. x # "none" => Rank(x) > Rank(row.role)
  BY <1>1, <1>3, <1>4 DEF OrgGood
<1>6. OwnerIn(member[o], t) /\ ~(row.role = "owner" /\ row.status = "active") => SpareOwner(member[o], t)
  BY <1>4 DEF OwnerIn
<1> HIDE DEF c, o, t, row, x
<1>7. /\ OrgsInv' /\ MembersStay /\ \A q \in Orgs : q # o => member'[q] = member[q]
      /\ member'[o][t] = row /\ \A u \in Users : u # t => member'[o][u] = member[o][u]
  BY <1>1, <1>2, <1>4, <1>5, <1>6, OrgWritten
<1>8. PasswordsInv' /\ SessionsInv' /\ TokensInv'
  BY <1>0, <1>1, <1>7, OthersKept
<1>9. \A q \in Orgs, u \in Users : member[q][u].status = "active" => member'[q][u].status = "active"
  BY <1>4, <1>7
<1>10. ~Overlap => RowsAlone'
  BY <1>0, <1>1, <1>9, StatusKept
<1> QED BY <1>2, <1>7, <1>8, <1>10, Committed DEF c, o

\* revokeAdministratorCredentials: the active sessions and tokens of one
\* member of one organization end, and no others.
LEMMA RevokedRows ==
    ASSUME MembersInv, NEW u, NEW o
    PROVE  LET S == Revoked(u, o)
               T == RevokedTokens(u, o)
           IN  /\ S = [s \in Sessions |-> S[s]] /\ T = [t \in Tokens |-> T[t]]
               /\ \A s \in Sessions :
                    /\ SameOrEnded(session[s], S[s])
                    /\ session[s].user = u /\ session[s].org = o => S[s].state # "active"
               /\ \A t \in Tokens :
                    /\ SameOrEnded(token[t], T[t])
                    /\ token[t].user = u /\ token[t].org = o => T[t].state # "active"
<1>1. \A s \in Sessions : session[s] \in SessionRow
  BY DEF MembersInv, SessionsInv
<1>2. \A t \in Tokens : token[t] \in TokenRow
  BY DEF MembersInv, TokensInv
<1>3. ASSUME NEW s \in Sessions
      PROVE  /\ SameOrEnded(session[s], Revoked(u, o)[s])
             /\ session[s].user = u /\ session[s].org = o => Revoked(u, o)[s].state # "active"
  <2>1. [session[s] EXCEPT !.state = "revoked"].state = "revoked"
    BY <1>1 DEF SessionRow
  <2>2. Revoked(u, o)[s] = IF session[s].user = u /\ session[s].org = o /\ session[s].state = "active"
                           THEN [session[s] EXCEPT !.state = "revoked"] ELSE session[s]
    BY DEF Revoked
  <2> QED BY <2>1, <2>2 DEF SameOrEnded
<1>4. ASSUME NEW t \in Tokens
      PROVE  /\ SameOrEnded(token[t], RevokedTokens(u, o)[t])
             /\ token[t].user = u /\ token[t].org = o => RevokedTokens(u, o)[t].state # "active"
  <2>1. [token[t] EXCEPT !.state = "revoked"].state = "revoked"
    BY <1>2 DEF TokenRow
  <2>2. RevokedTokens(u, o)[t] = IF token[t].user = u /\ token[t].org = o /\ token[t].state = "active"
                                 THEN [token[t] EXCEPT !.state = "revoked"] ELSE token[t]
    BY DEF RevokedTokens
  <2> QED BY <2>1, <2>2 DEF SameOrEnded
<1>5. Revoked(u, o) = [s \in Sessions |-> Revoked(u, o)[s]] /\ RevokedTokens(u, o) = [t \in Tokens |-> RevokedTokens(u, o)[t]]
  BY DEF Revoked, RevokedTokens
<1> QED BY <1>3, <1>4, <1>5

LEMMA DisableStep ==
    ASSUME AccountsInv, NEW p \in Calls, SetAdministratorEnabled(p), call[p].op = "disable"
    PROVE  AccountsInv'
<1> DEFINE c == call[p]
           o == c.org
           t == c.target
           row == [member[o][t] EXCEPT !.status = "disabled"]
<1>0. /\ Commit(p, "disable") /\ member' = WithMember(o, t, row)
      /\ session' = Revoked(t, o) /\ token' = RevokedTokens(t, o) /\ UNCHANGED <<appRole, password, forced>>
  BY DEF SetAdministratorEnabled, Commit, TokensEnded
<1>1. /\ MembersInv /\ CallGood(c) /\ c.op = "disable" /\ o \in Orgs /\ t \in Users
      /\ LockedIn(member[o], c) /\ member[o][t] \in MemberRow /\ appRole[o][t] \in Roles \cup {"none"}
      /\ (~Overlap => RowsAlone)
  BY <1>0, CommitFacts
<1>2. Commit(p, "disable") /\ member' = WithMember(o, t, row) /\ appRole' = WithRole(o, t, appRole[o][t])
  BY <1>0, <1>1, SameRole
<1>3. MemberIn(member[o], t) /\ OrgGood(member[o], appRole[o]) /\ SpareOwner(member[o], t)
  BY <1>1 DEF LockedIn, MembersInv, OrgsInv
<1>4. row \in MemberRow /\ row.role = member[o][t].role /\ row.role # "none"
  BY <1>1, <1>3 DEF MemberRow, MemberIn
<1>5. appRole[o][t] # "none" => Rank(appRole[o][t]) > Rank(row.role)
  BY <1>1, <1>3, <1>4 DEF OrgGood
<1>6. /\ session' = [s \in Sessions |-> session'[s]] /\ token' = [k \in Tokens |-> token'[k]]
      /\ \A s \in Sessions : /\ SameOrEnded(session[s], session'[s])
                             /\ session[s].user = t /\ session[s].org = o => session'[s].state # "active"
      /\ \A k \in Tokens : /\ SameOrEnded(token[k], token'[k])
                           /\ token[k].user = t /\ token[k].org = o => token'[k].state # "active"
  BY <1>0, <1>1, RevokedRows
<1> HIDE DEF c, o, t, row
<1>7. /\ OrgsInv' /\ MembersStay /\ \A q \in Orgs : q # o => member'[q] = member[q]
      /\ member'[o][t] = row /\ \A u \in Users : u # t => member'[o][u] = member[o][u]
  BY <1>1, <1>2, <1>3, <1>4, <1>5, OrgWritten
<1>8. PasswordsInv' /\ password' = password
  BY <1>0, <1>1, OthersKept
<1>9. /\ SessionsInv'
      /\ \A s \in Sessions :
            /\ session'[s].user = session[s].user /\ session'[s].org = session[s].org
            /\ session'[s].version = session[s].version
            /\ session'[s].state = session[s].state \/ (session[s].state # "none" /\ session'[s].state = "revoked")
  BY <1>1, <1>6, <1>7, SessionsEnd
<1>10. /\ TokensInv'
       /\ \A k \in Tokens :
            /\ token'[k].user = token[k].user /\ token'[k].org = token[k].org
            /\ token'[k].state = token[k].state \/ (token[k].state # "none" /\ token'[k].state = "revoked")
  BY <1>1, <1>6, <1>7, TokensEnd
<1>11. ASSUME ~Overlap PROVE RowsAlone'
  <2>1. \A q \in Orgs, u \in Users : ~(q = o /\ u = t) => member'[q][u] = member[q][u]
    BY <1>7
  <2>2. ASSUME NEW s \in Sessions, session'[s].state = "active"
        PROVE  RowHeld(member', session'[s]) /\ RowCurrent(password', session'[s])
    <3>1. session[s].state = "active" /\ ~(session[s].org = o /\ session[s].user = t)
      BY <1>6, <1>9, <2>2
    <3>2. session[s].user \in Users /\ session[s].org \in Orgs
      BY <1>1, <3>1 DEF MembersInv, SessionsInv, RowOwned
    <3>3. member[session[s].org][session[s].user].status = "active" /\ session[s].version = password[session[s].user]
      BY <1>1, <1>11, <3>1 DEF RowsAlone, RowHeld, RowCurrent
    <3> QED BY <1>8, <1>9, <2>1, <3>1, <3>2, <3>3 DEF RowHeld, RowCurrent
  <2>3. ASSUME NEW k \in Tokens, token'[k].state = "active"
        PROVE  RowHeld(member', token'[k])
    <3>1. token[k].state = "active" /\ ~(token[k].org = o /\ token[k].user = t)
      BY <1>6, <1>10, <2>3
    <3>2. token[k].user \in Users /\ token[k].org \in Orgs
      BY <1>1, <3>1 DEF MembersInv, TokensInv, RowOwned
    <3>3. member[token[k].org][token[k].user].status = "active"
      BY <1>1, <1>11, <3>1 DEF RowsAlone, RowHeld
    <3> QED BY <1>10, <2>1, <3>1, <3>2, <3>3 DEF RowHeld
  <2>4. \A s \in Sessions : RowHeld(member', session'[s]) /\ RowCurrent(password', session'[s])
    BY <2>2 DEF RowHeld, RowCurrent
  <2>5. \A k \in Tokens : RowHeld(member', token'[k])
    BY <2>3 DEF RowHeld
  <2> QED BY <2>4, <2>5 DEF RowsAlone
<1> QED BY <1>2, <1>7, <1>8, <1>9, <1>10, <1>11, Committed DEF c, o

LEMMA ResetStep ==
    ASSUME AccountsInv, NEW p \in Calls, ResetAdministratorPassword(p)
    PROVE  AccountsInv'
<1> DEFINE c == call[p]
           o == c.org
           t == c.target
<1>1. /\ MembersInv /\ CallGood(c) /\ c.op = "password" /\ c.stage = "locked" /\ o \in Orgs /\ t \in Users
      /\ (~Overlap => AloneIn(member, password, session, c) /\ RowsAlone)
  BY CommitFacts DEF ResetAdministratorPassword
<1>2. /\ Commit(p, "password") /\ password[t] < MaxPassword
      /\ password' = [password EXCEPT ![t] = @ + 1] /\ forced' = [forced EXCEPT ![t] = TRUE]
      /\ session' = Revoked(t, o) /\ token' = RevokedTokens(t, o) /\ UNCHANGED <<member, appRole>>
  BY DEF ResetAdministratorPassword
<1>3. /\ session' = [s \in Sessions |-> session'[s]] /\ token' = [k \in Tokens |-> token'[k]]
      /\ \A s \in Sessions : /\ SameOrEnded(session[s], session'[s])
                             /\ session[s].user = t /\ session[s].org = o => session'[s].state # "active"
      /\ \A k \in Tokens : /\ SameOrEnded(token[k], token'[k])
                           /\ token[k].user = t /\ token[k].org = o => token'[k].state # "active"
  BY <1>1, <1>2, RevokedRows
<1>4. password \in [Users -> 0..MaxPassword] /\ forced \in [Users -> BOOLEAN] /\ MaxPassword \in Nat
  BY <1>1, MembersAssumption DEF MembersInv, PasswordsInv
<1>5. ~Overlap => \A q \in Orgs \ {o} : ~MemberIn(member[q], t)
  BY <1>1 DEF AloneIn
<1> HIDE DEF c, o, t
<1>6. password[t] + 1 \in 0..MaxPassword
  BY <1>1, <1>2, <1>4
<1>7. PasswordsInv' /\ \A u \in Users : u # t => password'[u] = password[u]
  BY <1>1, <1>2, <1>4, <1>6 DEF PasswordsInv
<1>8. OrgsInv' /\ MembersStay
  BY <1>1, <1>2, OthersKept
<1>9. /\ SessionsInv'
      /\ \A s \in Sessions :
            /\ session'[s].user = session[s].user /\ session'[s].org = session[s].org
            /\ session'[s].version = session[s].version
            /\ session'[s].state = session[s].state \/ (session[s].state # "none" /\ session'[s].state = "revoked")
  BY <1>1, <1>3, <1>8, SessionsEnd
<1>10. /\ TokensInv'
       /\ \A k \in Tokens :
            /\ token'[k].user = token[k].user /\ token'[k].org = token[k].org
            /\ token'[k].state = token[k].state \/ (token[k].state # "none" /\ token'[k].state = "revoked")
  BY <1>1, <1>3, <1>8, TokensEnd
<1>11. ASSUME ~Overlap PROVE RowsAlone'
  <2>1. ASSUME NEW s \in Sessions, session'[s].state = "active"
        PROVE  RowHeld(member', session'[s]) /\ RowCurrent(password', session'[s])
    <3>1. session[s].state = "active" /\ ~(session[s].org = o /\ session[s].user = t)
      BY <1>3, <1>9, <2>1
    <3>2. session[s].user \in Users /\ session[s].org \in Orgs /\ MemberIn(member[session[s].org], session[s].user)
      BY <1>1, <3>1 DEF MembersInv, SessionsInv, RowOwned
    <3>3. session[s].user # t
      BY <1>5, <1>11, <3>1, <3>2
    <3>4. member[session[s].org][session[s].user].status = "active" /\ session[s].version = password[session[s].user]
      BY <1>1, <1>11, <3>1 DEF RowsAlone, RowHeld, RowCurrent
    <3> QED BY <1>2, <1>7, <1>9, <3>2, <3>3, <3>4 DEF RowHeld, RowCurrent
  <2>2. ASSUME NEW k \in Tokens, token'[k].state = "active"
        PROVE  RowHeld(member', token'[k])
    BY <1>1, <1>2, <1>10, <1>11, <2>2 DEF RowsAlone, RowHeld
  <2>3. \A s \in Sessions : RowHeld(member', session'[s]) /\ RowCurrent(password', session'[s])
    BY <2>1 DEF RowHeld, RowCurrent
  <2>4. \A k \in Tokens : RowHeld(member', token'[k])
    BY <2>2 DEF RowHeld
  <2> QED BY <2>3, <2>4 DEF RowsAlone
<1>12. \A q \in Orgs : q # call[p].org => member'[q] = member[q]
  BY <1>2
<1> QED BY <1>2, <1>7, <1>8, <1>9, <1>10, <1>11, <1>12, Committed

\* A grant, decided on the role the rows showed, or its removal.
LEMMA RoleGranted ==
    ASSUME AccountsInv, NEW p \in Calls, NEW op \in {"grant", "ungrant"}, Commit(p, op),
           NEW x \in Roles \cup {"none"}, x # "none" => op = "grant" /\ x = call[p].role,
           appRole' = WithRole(call[p].org, call[p].target, x),
           UNCHANGED <<member, password, forced, session, token>>
    PROVE  AccountsInv'
<1> DEFINE c == call[p]
           o == c.org
           t == c.target
           row == member[o][t]
<1>1. /\ MembersInv /\ c.op = op /\ o \in Orgs /\ t \in Users
      /\ LockedIn(member[o], c) /\ row \in MemberRow /\ (~Overlap => RowsAlone)
  BY CommitFacts
<1>2. /\ Commit(p, op) /\ appRole' = WithRole(o, t, x) /\ member' = WithMember(o, t, row)
  BY <1>1, SameMember
<1>3. row.role # "none"
  BY <1>1 DEF LockedIn, MemberIn
<1>4. x # "none" => Rank(x) > Rank(row.role)
  BY <1>1 DEF LockedIn
<1>5. OwnerIn(member[o], t) /\ ~(row.role = "owner" /\ row.status = "active") => SpareOwner(member[o], t)
  BY DEF OwnerIn
<1> HIDE DEF c, o, t, row
<1>6. OrgsInv' /\ MembersStay /\ \A q \in Orgs : q # o => member'[q] = member[q]
  BY <1>1, <1>2, <1>3, <1>4, <1>5, OrgWritten
<1>7. PasswordsInv' /\ SessionsInv' /\ TokensInv'
  BY <1>1, <1>6, OthersKept
<1>8. ~Overlap => RowsAlone'
  BY <1>1, StatusKept
<1> QED BY <1>2, <1>6, <1>7, <1>8, Committed DEF c, o

LEMMA GrantStep ==
    ASSUME AccountsInv, NEW p \in Calls, SetApplicationRole(p)
    PROVE  AccountsInv'
<1>1. /\ Commit(p, "grant") /\ appRole' = WithRole(call[p].org, call[p].target, call[p].role)
      /\ UNCHANGED <<member, password, forced, session, token>>
  BY DEF SetApplicationRole
<1>2. call[p].role \in Roles
  BY <1>1, CommitFacts DEF CallGood
<1> QED BY <1>1, <1>2, RoleGranted

LEMMA UngrantStep ==
    ASSUME AccountsInv, NEW p \in Calls, RemoveApplicationRole(p)
    PROVE  AccountsInv'
<1>1. /\ Commit(p, "ungrant") /\ appRole' = WithRole(call[p].org, call[p].target, "none")
      /\ UNCHANGED <<member, password, forced, session, token>>
  BY DEF RemoveApplicationRole
<1> QED BY <1>1, RoleGranted

\* Some sessions end while memberships and passwords stay.
LEMMA FewerSessions ==
    ASSUME MembersInv, UNCHANGED <<member, password>>,
           session' = [s \in Sessions |-> session'[s]], \A s \in Sessions : SameOrEnded(session[s], session'[s])
    PROVE  /\ SessionsInv'
           /\ RowsAlone /\ UNCHANGED token => RowsAlone'
           /\ \A s \in Sessions : session'[s].user = session[s].user /\ (session[s].state # "none" => session'[s].state # "none")
<1>1. /\ SessionsInv'
      /\ \A s \in Sessions :
            /\ session'[s].user = session[s].user /\ session'[s].org = session[s].org
            /\ session'[s].version = session[s].version
            /\ session'[s].state = session[s].state \/ (session[s].state # "none" /\ session'[s].state = "revoked")
  BY OthersKept, SessionsEnd
<1>2. RowsAlone /\ UNCHANGED token => RowsAlone'
  BY <1>1 DEF RowsAlone, RowHeld, RowCurrent
<1> QED BY <1>1, <1>2

\* One row is marked revoked.
LEMMA OneEnds ==
    ASSUME MembersInv, NEW s \in Sessions, session[s].state # "none",
           session' = [session EXCEPT ![s] = [@ EXCEPT !.state = "revoked"]]
    PROVE  session' = [x \in Sessions |-> session'[x]] /\ \A x \in Sessions : SameOrEnded(session[x], session'[x])
<1>1. session \in [Sessions -> SessionRow]
  BY DEF MembersInv, SessionsInv
<1> QED BY <1>1 DEF SameOrEnded

LEMMA ManagedStep ==
    ASSUME AccountsInv, NEW p \in Calls, RevokeManagedAdminSession(p)
    PROVE  AccountsInv'
<1>1. /\ MembersInv /\ call[p].target \in Users /\ (~Overlap => RowsAlone)
      /\ Commit(p, "end_session") /\ UNCHANGED <<member, appRole, password, forced, token>>
  BY CommitFacts DEF RevokeManagedAdminSession
<1>2. PICK s \in Sessions : /\ session[s].user = call[p].target
                            /\ session' = [session EXCEPT ![s] = [@ EXCEPT !.state = "revoked"]]
  BY DEF RevokeManagedAdminSession
<1>3. session[s].state # "none"
  BY <1>1, <1>2, MembersAssumption DEF MembersInv, SessionsInv, RowOwned
<1>4. session' = [x \in Sessions |-> session'[x]] /\ \A x \in Sessions : SameOrEnded(session[x], session'[x])
  BY <1>1, <1>2, <1>3, OneEnds
<1>5. SessionsInv' /\ (~Overlap => RowsAlone')
  BY <1>1, <1>4, FewerSessions
<1>6. OrgsInv' /\ MembersStay /\ PasswordsInv' /\ TokensInv'
  BY <1>1, OthersKept
<1> QED BY <1>1, <1>5, <1>6, Committed

-----------------------------------------------------------------------------
(* Sessions and tokens. *)

\* The call in flight of a sign-in, a switch, a token or a password change ends.
LEMMA CredentialStep ==
    ASSUME AccountsInv, NEW p \in Calls, call[p].stage \notin {"idle", "locked"},
           call' = [call EXCEPT ![p] = Idle], UNCHANGED <<member, appRole, lock>>,
           PasswordsInv', SessionsInv', TokensInv', ~Overlap => RowsAlone'
    PROVE  AccountsInv'
<1>1. MembersInv /\ OrgsInv' /\ MembersStay
  BY OthersKept DEF AccountsInv
<1>2. CallsInv'
  BY <1>1, IdleRow, CallMoves
<1>3. LocksInv'
  BY <1>1, IdleRow, LocksKept
<1>4. ~Overlap => CallsAlone'
  BY AloneEnds DEF AccountsInv, MembersInv, AloneInv, CallsAlone
<1> QED BY <1>1, <1>2, <1>3, <1>4 DEF AccountsInv, MembersInv, AloneInv

\* What is known of a call that has read what it needs.
LEMMA ReadFacts ==
    ASSUME AccountsInv, NEW p \in Calls, call[p].stage = "read"
    PROVE  /\ MembersInv /\ call[p] \in CallRow /\ CallGood(call[p]) /\ call[p].actor \in Users /\ call[p].org \in Orgs
           /\ call[p].seen \in 0..MaxPassword /\ ReadIn(member[call[p].org], call[p])
           /\ ~Overlap => AloneIn(member, password, session, call[p]) /\ RowsAlone
<1>1. MembersInv /\ call[p] \in CallRow /\ CallGood(call[p]) /\ ReadIn(member[call[p].org], call[p])
  BY DEF AccountsInv, MembersInv, CallsInv
<1>2. call[p].actor \in Users /\ call[p].org \in Orgs
  BY <1>1 DEF CallGood
<1>3. call[p].seen \in 0..MaxPassword
  BY <1>1 DEF CallRow
<1>4. ~Overlap => AloneIn(member, password, session, call[p]) /\ RowsAlone
  BY DEF AccountsInv, AloneInv, CallsAlone
<1> QED BY <1>1, <1>2, <1>3, <1>4

\* A session is inserted for a member, beside sessions that may have ended.
LEMMA SessionInserted ==
    ASSUME MembersInv, UNCHANGED <<member, password, token>>, NEW s \in Sessions,
           NEW u \in Users, NEW o \in Orgs, NEW v \in 0..MaxPassword, MemberIn(member[o], u),
           session' = [x \in Sessions |-> session'[x]],
           \A x \in Sessions : x # s => SameOrEnded(session[x], session'[x]),
           session'[s] = [state |-> "active", user |-> u, org |-> o, version |-> v]
    PROVE  /\ SessionsInv'
           /\ RowsAlone /\ v = password[u] /\ ActiveIn(member[o], u) => RowsAlone'
<1>1. /\ session'[s] \in SessionRow /\ session'[s].state = "active" /\ session'[s].user = u
      /\ session'[s].org = o /\ session'[s].version = v
  BY DEF SessionRow
<1>2. RowOwned(member', session'[s])
  BY <1>1 DEF RowOwned
<1>3. ASSUME NEW x \in Sessions, x # s
      PROVE  /\ session'[x] \in SessionRow /\ RowOwned(member', session'[x])
             /\ RowHeld(member, session[x]) /\ RowCurrent(password, session[x])
                  => RowHeld(member', session'[x]) /\ RowCurrent(password', session'[x])
  <2>1. session[x] \in SessionRow /\ RowOwned(member, session[x]) /\ SameOrEnded(session[x], session'[x])
    BY <1>3 DEF MembersInv, SessionsInv
  <2>2. /\ session'[x] \in SessionRow
        /\ session'[x].user = session[x].user /\ session'[x].org = session[x].org /\ session'[x].version = session[x].version
        /\ session'[x].state = session[x].state \/ (session[x].state # "none" /\ session'[x].state = "revoked")
    BY <2>1, EndedRow
  <2>3. RowOwned(member', session'[x])
    BY <2>1, <2>2 DEF RowOwned
  <2>4. RowHeld(member, session[x]) /\ RowCurrent(password, session[x])
            => RowHeld(member', session'[x]) /\ RowCurrent(password', session'[x])
    BY <2>2 DEF RowHeld, RowCurrent
  <2> QED BY <2>2, <2>3, <2>4
<1>4. \A x \in Sessions : session'[x] \in SessionRow /\ RowOwned(member', session'[x])
  BY <1>1, <1>2, <1>3
<1>5. SessionsInv'
  BY <1>4 DEF SessionsInv
<1>6. ASSUME RowsAlone, v = password[u], ActiveIn(member[o], u) PROVE RowsAlone'
  <2>1. RowHeld(member', session'[s]) /\ RowCurrent(password', session'[s])
    BY <1>1, <1>6 DEF RowHeld, RowCurrent, ActiveIn
  <2>2. \A x \in Sessions : RowHeld(member', session'[x]) /\ RowCurrent(password', session'[x])
    BY <1>3, <1>6, <2>1 DEF RowsAlone
  <2> QED BY <1>6, <2>2 DEF RowsAlone
<1> QED BY <1>5, <1>6

LEMMA LoginStep ==
    ASSUME AccountsInv, NEW p \in Calls, CreateSession(p)
    PROVE  AccountsInv'
<1> DEFINE c == call[p]
<1>1. /\ c.op = "login" /\ c.stage = "read" /\ call' = [call EXCEPT ![p] = Idle]
      /\ UNCHANGED <<member, appRole, password, forced, token, lock>>
  BY DEF CreateSession
<1>2. /\ MembersInv /\ c.actor \in Users /\ c.org \in Orgs /\ c.seen \in 0..MaxPassword
      /\ ReadIn(member[c.org], c) /\ (~Overlap => AloneIn(member, password, session, c) /\ RowsAlone)
  BY <1>1, ReadFacts
<1>3. PICK s \in Sessions :
        session' = [session EXCEPT ![s] = [state |-> "active", user |-> c.actor, org |-> c.org, version |-> c.seen]]
  BY DEF CreateSession
<1> HIDE DEF c
<1>4. MemberIn(member[c.org], c.actor)
  BY <1>1, <1>2 DEF ReadIn
<1>5. ~Overlap => c.seen = password[c.actor] /\ ActiveIn(member[c.org], c.actor)
  BY <1>1, <1>2 DEF AloneIn
<1>6. /\ session' = [x \in Sessions |-> session'[x]]
      /\ \A x \in Sessions : x # s => SameOrEnded(session[x], session'[x])
      /\ session'[s] = [state |-> "active", user |-> c.actor, org |-> c.org, version |-> c.seen]
  BY <1>2, <1>3 DEF MembersInv, SessionsInv, SameOrEnded
<1>7. SessionsInv' /\ (~Overlap => RowsAlone')
  BY <1>1, <1>2, <1>4, <1>5, <1>6, SessionInserted
<1>8. PasswordsInv' /\ TokensInv'
  BY <1>1, <1>2, OthersKept
<1> QED BY <1>1, <1>7, <1>8, CredentialStep DEF c

\* The rows of a switch: the session left ends and the new one begins.
LEMMA Switched ==
    ASSUME MembersInv, NEW b \in Sessions, session[b].state = "active",
           NEW s \in Sessions, session[s].state = "none",
           NEW row, session' = [session EXCEPT ![b] = Left(b), ![s] = row]
    PROVE  /\ session' = [x \in Sessions |-> session'[x]]
           /\ \A x \in Sessions : x # s => SameOrEnded(session[x], session'[x])
           /\ \A x \in Sessions : x # s /\ x # b => session'[x] = session[x]
           /\ session'[s] = row /\ s # b /\ session'[b].state = "revoked"
<1>1. session \in [Sessions -> SessionRow] /\ s # b
  BY DEF MembersInv, SessionsInv
<1>2. /\ session' = [x \in Sessions |-> session'[x]] /\ session'[s] = row
      /\ session'[b] = [session[b] EXCEPT !.state = "revoked"]
      /\ \A x \in Sessions : x # s /\ x # b => session'[x] = session[x]
  BY <1>1 DEF Left
<1>3. session'[b].state = "revoked"
  BY <1>1, <1>2 DEF SessionRow
<1> QED BY <1>1, <1>2, <1>3 DEF SameOrEnded

LEMMA SwitchStep ==
    ASSUME AccountsInv, NEW p \in Calls, SwitchSessionOrganization(p)
    PROVE  AccountsInv'
<1> DEFINE c == call[p]
<1>1. /\ c.op = "switch" /\ c.stage = "read" /\ call' = [call EXCEPT ![p] = Idle]
      /\ UNCHANGED <<member, appRole, password, forced, token, lock>>
  BY DEF SwitchSessionOrganization
<1>2. /\ MembersInv /\ c.actor \in Users /\ c.org \in Orgs /\ c.seen \in 0..MaxPassword /\ CallGood(c)
      /\ ReadIn(member[c.org], c) /\ (~Overlap => AloneIn(member, password, session, c) /\ RowsAlone)
  BY <1>1, ReadFacts
<1>3. CASE session[c.by].state # "active" /\ UNCHANGED session
  BY <1>1, <1>3, CallDropped
<1>4. CASE /\ session[c.by].state = "active"
           /\ \E s \in Sessions :
                /\ session[s].state = "none"
                /\ session' = [session EXCEPT ![c.by] = Left(c.by),
                      ![s] = [state |-> "active", user |-> c.actor, org |-> c.org, version |-> c.seen]]
  <2>1. PICK s \in Sessions :
          /\ session[s].state = "none"
          /\ session' = [session EXCEPT ![c.by] = Left(c.by),
                ![s] = [state |-> "active", user |-> c.actor, org |-> c.org, version |-> c.seen]]
    BY <1>4
  <2>2. c.by \in Sessions
    BY <1>1, <1>2 DEF CallGood
  <2> DEFINE row == [state |-> "active", user |-> c.actor, org |-> c.org, version |-> c.seen]
           b == c.by
  <2>r. session' = [session EXCEPT ![b] = Left(b), ![s] = row] /\ session[b].state = "active" /\ b \in Sessions
        /\ session[s].state = "none"
    BY <1>4, <2>1, <2>2
  <2> HIDE DEF row, b
  <2>s. /\ session' = [x \in Sessions |-> session'[x]] /\ session'[s] = row
        /\ \A x \in Sessions : x # s => SameOrEnded(session[x], session'[x])
    BY <1>2, <2>r, Switched
  <2>3. session'[s] = [state |-> "active", user |-> c.actor, org |-> c.org, version |-> c.seen]
    BY <2>s DEF row
  <2> HIDE DEF c
  <2>4. MemberIn(member[c.org], c.actor)
    BY <1>1, <1>2 DEF ReadIn
  <2>5. ~Overlap => c.seen = password[c.actor] /\ ActiveIn(member[c.org], c.actor)
    BY <1>1, <1>2 DEF AloneIn
  <2>6. SessionsInv' /\ (~Overlap => RowsAlone')
    BY <1>1, <1>2, <2>s, <2>3, <2>4, <2>5, SessionInserted
  <2>7. PasswordsInv' /\ TokensInv'
    BY <1>1, <1>2, OthersKept
  <2> QED BY <1>1, <2>6, <2>7, CredentialStep DEF c
<1> QED BY <1>3, <1>4 DEF SwitchSessionOrganization

LEMMA TokenStep ==
    ASSUME AccountsInv, NEW p \in Calls, CreateAPIToken(p)
    PROVE  AccountsInv'
<1> DEFINE c == call[p]
           row == [state |-> "active", user |-> c.target, org |-> c.org]
<1>1. /\ c.op = "token" /\ c.stage = "read" /\ call' = [call EXCEPT ![p] = Idle]
      /\ UNCHANGED <<member, appRole, password, forced, session, lock>>
  BY DEF CreateAPIToken
<1>2. /\ MembersInv /\ c.org \in Orgs /\ CallGood(c)
      /\ ReadIn(member[c.org], c) /\ (~Overlap => AloneIn(member, password, session, c) /\ RowsAlone)
  BY <1>1, ReadFacts
<1>3. PICK t \in Tokens : token' = [token EXCEPT ![t] = row]
  BY DEF CreateAPIToken
<1>4. c.target \in Users
  BY <1>1, <1>2 DEF CallGood
<1>5. row \in TokenRow /\ row.state = "active" /\ row.user = c.target /\ row.org = c.org
  BY <1>2, <1>4 DEF TokenRow
<1> HIDE DEF c, row
<1>6. MemberIn(member[c.org], c.target)
  BY <1>1, <1>2 DEF ReadIn
<1>7. ~Overlap => ActiveIn(member[c.org], c.target)
  BY <1>1, <1>2 DEF AloneIn
<1>8. RowOwned(member, row) /\ (~Overlap => RowHeld(member, row))
  BY <1>2, <1>4, <1>5, <1>6, <1>7 DEF RowOwned, RowHeld, ActiveIn
<1>9. /\ token \in [Tokens -> TokenRow] /\ token' \in [Tokens -> TokenRow]
      /\ \A x \in Tokens : token'[x] = IF x = t THEN row ELSE token[x]
  BY <1>2, <1>3, <1>5 DEF MembersInv, TokensInv
<1>10. TokensInv'
  BY <1>1, <1>2, <1>8, <1>9 DEF MembersInv, TokensInv
<1>11. ~Overlap => RowsAlone'
  BY <1>1, <1>2, <1>8, <1>9 DEF RowsAlone
<1>12. PasswordsInv' /\ SessionsInv'
  BY <1>1, <1>2, OthersKept
<1> QED BY <1>1, <1>10, <1>11, <1>12, CredentialStep DEF c

LEMMA ChangeStep ==
    ASSUME AccountsInv, NEW p \in Calls, ChangeOwnPassword(p)
    PROVE  AccountsInv'
<1> DEFINE c == call[p]
           v == password[c.actor] + 1
<1>1. /\ c.op = "own_password" /\ c.stage = "verified" /\ password[c.actor] < MaxPassword
      /\ password' = [password EXCEPT ![c.actor] = @ + 1] /\ forced' = [forced EXCEPT ![c.actor] = FALSE]
      /\ session' = [s \in Sessions |->
            CASE OtherSessions(p, s) /\ session[s].state = "active" -> [session[s] EXCEPT !.state = "revoked"]
              [] s = c.by -> [session[s] EXCEPT !.version = v]
              [] OTHER -> session[s]]
      /\ call' = [call EXCEPT ![p] = Idle] /\ UNCHANGED <<member, appRole, token, lock>>
  BY DEF ChangeOwnPassword
<1>2. MembersInv /\ CallGood(c) /\ (~Overlap => AloneIn(member, password, session, c) /\ RowsAlone)
  BY DEF AccountsInv, MembersInv, CallsInv, AloneInv, CallsAlone
<1>3. c.actor \in Users /\ c.by \in Sessions
  BY <1>1, <1>2 DEF CallGood
<1>4. password \in [Users -> 0..MaxPassword] /\ forced \in [Users -> BOOLEAN] /\ MaxPassword \in Nat
  BY <1>2, MembersAssumption DEF MembersInv, PasswordsInv
<1>5. v \in 0..MaxPassword
  BY <1>1, <1>3, <1>4
<1>6. PasswordsInv' /\ password'[c.actor] = v /\ \A u \in Users : u # c.actor => password'[u] = password[u]
  BY <1>1, <1>3, <1>4, <1>5 DEF PasswordsInv
<1> HIDE DEF v
<1>7. ASSUME NEW s \in Sessions
      PROVE  /\ session'[s] \in SessionRow /\ session'[s].user = session[s].user /\ session'[s].org = session[s].org
             /\ session'[s].state = session[s].state \/ (session[s].state # "none" /\ session'[s].state = "revoked")
             /\ session'[s].state = "active" =>
                    IF s = c.by THEN session'[s].version = v
                    ELSE session[s].user # c.actor /\ session'[s].version = session[s].version
  <2>1. session[s] \in SessionRow
    BY <1>2 DEF MembersInv, SessionsInv
  <2>2. CASE OtherSessions(p, s) /\ session[s].state = "active"
    <3>1. session'[s] = [session[s] EXCEPT !.state = "revoked"]
      BY <1>1, <2>2 DEF OtherSessions
    <3> QED BY <2>1, <2>2, <3>1 DEF SessionRow, OtherSessions
  <2>3. CASE s = c.by
    <3>1. session'[s] = [session[s] EXCEPT !.version = v]
      BY <1>1, <2>3 DEF OtherSessions
    <3> QED BY <1>5, <2>1, <2>3, <3>1 DEF SessionRow
  <2>4. CASE s # c.by /\ ~(OtherSessions(p, s) /\ session[s].state = "active")
    <3>1. session'[s] = session[s]
      BY <1>1, <2>4
    <3> QED BY <2>1, <2>4, <3>1 DEF OtherSessions
  <2> QED BY <2>2, <2>3, <2>4
<1>8. \A s \in Sessions : RowOwned(member', session'[s])
  BY <1>1, <1>2, <1>7 DEF MembersInv, SessionsInv, RowOwned
<1>9. session' = [s \in Sessions |-> session'[s]]
  BY <1>1
<1>10. SessionsInv'
  BY <1>7, <1>8, <1>9 DEF SessionsInv
<1>11. TokensInv'
  BY <1>1, <1>2, OthersKept
<1>12. ASSUME ~Overlap PROVE RowsAlone'
  <2>1. session[c.by].user = c.actor
    BY <1>1, <1>2, <1>12 DEF AloneIn
  <2>2. ASSUME NEW s \in Sessions, session'[s].state = "active"
        PROVE  member'[session'[s].org][session'[s].user].status = "active" /\ session'[s].version = password'[session'[s].user]
    <3>1. session[s].state = "active"
      BY <1>7, <2>2
    <3>2. session[s].user \in Users
      BY <1>2, <3>1 DEF MembersInv, SessionsInv, RowOwned
    <3>3. member[session[s].org][session[s].user].status = "active" /\ session[s].version = password[session[s].user]
      BY <1>2, <1>12, <3>1 DEF RowsAlone, RowHeld, RowCurrent
    <3>4. session'[s].user = session[s].user /\ session'[s].org = session[s].org
      BY <1>7
    <3>5. member'[session'[s].org][session'[s].user].status = "active"
      BY <1>1, <3>3, <3>4
    <3>6. CASE s = c.by
      <4>1. session'[s].version = v /\ session'[s].user = c.actor
        BY <1>7, <2>1, <2>2, <3>4, <3>6
      <4> QED BY <1>6, <3>5, <4>1
    <3>7. CASE s # c.by
      <4>1. session[s].user # c.actor /\ session'[s].version = session[s].version
        BY <1>7, <2>2, <3>7
      <4> QED BY <1>6, <3>2, <3>3, <3>4, <3>5, <4>1
    <3> QED BY <3>6, <3>7
  <2>3. \A s \in Sessions : RowHeld(member', session'[s]) /\ RowCurrent(password', session'[s])
    BY <2>2 DEF RowHeld, RowCurrent
  <2> QED BY <1>1, <1>2, <1>12, <2>3 DEF RowsAlone
<1> QED BY <1>1, <1>10, <1>11, <1>12, <1>6, CredentialStep

\* A session or a token is ended by its user or an owner.
LEMMA RevokeStep ==
    ASSUME AccountsInv, NEW s \in Sessions, NEW by \in Sessions, RevokeSession(s, by)
    PROVE  AccountsInv'
<1>1. /\ session[s].state = "active" /\ session' = [session EXCEPT ![s] = [@ EXCEPT !.state = "revoked"]]
      /\ UNCHANGED <<member, appRole, password, forced, token, lock, call>> /\ MembersInv
  BY DEF RevokeSession, AccountsInv
<1>2. session' = [x \in Sessions |-> session'[x]] /\ \A x \in Sessions : SameOrEnded(session[x], session'[x])
  BY <1>1, OneEnds
<1>3. /\ SessionsInv' /\ (RowsAlone => RowsAlone')
      /\ \A x \in Sessions : session'[x].user = session[x].user /\ (session[x].state # "none" => session'[x].state # "none")
  BY <1>1, <1>2, FewerSessions
<1>4. OrgsInv' /\ PasswordsInv' /\ TokensInv'
  BY <1>1, OthersKept
<1>5. CallsInv' /\ LocksInv'
  BY <1>1 DEF MembersInv, CallsInv, LocksInv
<1>6. ASSUME CallsAlone PROVE CallsAlone'
  <2>1. ASSUME NEW p \in Calls PROVE AloneIn(member', password', session', call'[p])
    <3>1. AloneIn(member, password, session, call[p]) /\ CallGood(call[p])
      BY <1>1, <1>6 DEF CallsAlone, MembersInv, CallsInv
    <3>2. call[p].op = "own_password" => call[p].by \in Sessions
      BY <3>1 DEF CallGood
    <3> QED BY <1>1, <1>3, <3>1, <3>2 DEF AloneIn
  <2> QED BY <1>1, <1>6, <2>1 DEF CallsAlone, OneCall
<1> QED BY <1>3, <1>4, <1>5, <1>6 DEF AccountsInv, MembersInv, AloneInv

LEMMA RevokeTokenStep ==
    ASSUME AccountsInv, NEW t \in Tokens, NEW by \in Sessions, RevokeAPIToken(t, by)
    PROVE  AccountsInv'
<1>1. /\ token[t].state = "active" /\ token' = [token EXCEPT ![t] = [@ EXCEPT !.state = "revoked"]]
      /\ UNCHANGED <<member, appRole, password, forced, session, lock, call>> /\ MembersInv
  BY DEF RevokeAPIToken, AccountsInv
<1>2. token' = [x \in Tokens |-> token'[x]] /\ \A x \in Tokens : SameOrEnded(token[x], token'[x])
  <2>1. token \in [Tokens -> TokenRow]
    BY <1>1 DEF MembersInv, TokensInv
  <2> QED BY <1>1, <2>1 DEF SameOrEnded
<1>3. OrgsInv' /\ MembersStay /\ PasswordsInv' /\ SessionsInv'
  BY <1>1, OthersKept
<1>4. /\ TokensInv'
      /\ \A x \in Tokens :
            /\ token'[x].user = token[x].user /\ token'[x].org = token[x].org
            /\ token'[x].state = token[x].state \/ (token[x].state # "none" /\ token'[x].state = "revoked")
  BY <1>1, <1>2, <1>3, TokensEnd
<1>5. CallsInv' /\ LocksInv'
  BY <1>1 DEF MembersInv, CallsInv, LocksInv
<1>6. AloneInv => AloneInv'
  BY <1>1, <1>4 DEF AloneInv, CallsAlone, OneCall, RowsAlone, RowHeld
<1> QED BY <1>3, <1>4, <1>5, <1>6 DEF AccountsInv, MembersInv

-----------------------------------------------------------------------------
(* The theorems. *)

LEMMA BeginningStep ==
    ASSUME AccountsInv, NEW p \in Calls, Beginning(p)
    PROVE  AccountsInv'
<1>1. ASSUME NEW s \in Sessions, NEW u \in Users, NEW r \in Roles, NEW op \in {"create", "role", "grant"},
             BeginOwner(p, op, s, u, r)
      PROVE  AccountsInv'
  BY <1>1, OwnerBegins
<1>2. ASSUME NEW s \in Sessions, NEW u \in Users, NEW op \in OwnerOperations \ {"create", "role", "grant"},
             BeginOwner(p, op, s, u, "none")
      PROVE  AccountsInv'
  BY <1>2, OwnerBegins
<1>3. ASSUME NEW s \in Sessions, BeginChangePassword(p, s) PROVE AccountsInv'
  BY <1>3, ChangeBegins
<1>4. ASSUME NEW s \in Sessions, NEW o \in Orgs, BeginSwitch(p, s, o) PROVE AccountsInv'
  BY <1>4, SwitchBegins
<1>5. ASSUME NEW s \in Sessions, NEW u \in Users, BeginToken(p, s, u) PROVE AccountsInv'
  BY <1>5, TokenBegins
<1>6. ASSUME NEW u \in Users, NEW o \in Orgs, BeginLogin(p, u, o) PROVE AccountsInv'
  BY <1>6, LoginBegins
<1> QED BY <1>1, <1>2, <1>3, <1>4, <1>5, <1>6 DEF Beginning

LEMMA CommittingStep ==
    ASSUME AccountsInv, NEW p \in Calls, Committing(p)
    PROVE  AccountsInv'
<1>1. CASE SetAdministratorEnabled(p)
  <2>1. call[p].op \in {"enable", "disable"}
    BY <1>1 DEF SetAdministratorEnabled, Commit
  <2> QED BY <1>1, <2>1, EnableStep, DisableStep
<1> QED BY <1>1, CreateStep, RoleStep, ResetStep, GrantStep, UngrantStep, ManagedStep DEF Committing

LEMMA StepInv == AccountsInv /\ [Next]_vars => AccountsInv'
<1> SUFFICES ASSUME AccountsInv, [Next]_vars PROVE AccountsInv'
  OBVIOUS
<1>1. CASE UNCHANGED vars
  <2>1. UNCHANGED <<member, appRole, password, forced, session, token, lock, call>>
    BY <1>1 DEF vars
  <2>2. MembersInv'
    BY <2>1 DEF AccountsInv, MembersInv, OrgsInv, PasswordsInv, SessionsInv, TokensInv, CallsInv, LocksInv
  <2>3. AloneInv => AloneInv'
    BY <2>1 DEF AloneInv, CallsAlone, OneCall, RowsAlone
  <2> QED BY <2>2, <2>3 DEF AccountsInv
<1>2. ASSUME NEW p \in Calls, Beginning(p) \/ Lock(p) \/ Committing(p) \/ Snapshot(p) PROVE AccountsInv'
  BY <1>2, BeginningStep, LockStep, CommittingStep, SnapshotReads
<1>3. ASSUME NEW p \in Calls,
             CreateSession(p) \/ SwitchSessionOrganization(p) \/ CreateAPIToken(p) \/ ChangeOwnPassword(p)
      PROVE  AccountsInv'
  BY <1>3, LoginStep, SwitchStep, TokenStep, ChangeStep
<1>4. ASSUME NEW s \in Sessions, NEW by \in Sessions, RevokeSession(s, by) PROVE AccountsInv'
  BY <1>4, RevokeStep
<1>5. ASSUME NEW t \in Tokens, NEW by \in Sessions, RevokeAPIToken(t, by) PROVE AccountsInv'
  BY <1>5, RevokeTokenStep
<1> QED BY <1>1, <1>2, <1>3, <1>4, <1>5 DEF Next

LEMMA MembersInductive == Spec => []AccountsInv
BY InitInv, StepInv, PTL DEF Spec

\* Every organization keeps an active owner and every owner's operation is
\* committed by one, however owners demote, disable and wait for each other;
\* application roles only raise; and without a sign-in that races the
\* operation, a disabled account or a changed password leaves no session and
\* no token behind (accounts.go, self_service.go).
THEOREM MembersSafe == Spec => []AccountsHold
BY MembersInductive, InvHolds, PTL

\* The only step that ends a switch which has read its session.
LEMMA SwitchEnds ==
    ASSUME AccountsInv, [Next]_vars, NEW p \in Calls,
           call[p].op = "switch", call[p].stage = "read", call'[p] = Idle
    PROVE  SwitchSessionOrganization(p)
<1>1. call \in [Calls -> CallRow] /\ call[p] # Idle
  BY IdleRow DEF AccountsInv, MembersInv, CallsInv
<1>2. call' # call
  BY <1>1
<1>3. ASSUME NEW q \in Calls, NEW d, call' = [call EXCEPT ![q] = d] PROVE q = p
  BY <1>1, <1>3
<1>4. ASSUME NEW q \in Calls, Beginning(q) PROVE FALSE
  <2>1. PICK d : call' = [call EXCEPT ![q] = d] /\ call[q] = Idle
    BY <1>4 DEF Beginning, BeginOwner, BeginChangePassword, BeginSwitch, BeginToken, BeginLogin, MayBegin
  <2> QED BY <1>1, <1>3, <2>1
<1>5. ASSUME NEW q \in Calls, Lock(q) PROVE FALSE
  <2>1. PICK d : call' = [call EXCEPT ![q] = d] /\ call[q].stage = "begun"
    BY <1>5 DEF Lock
  <2> QED BY <1>3, <2>1
<1>6. ASSUME NEW q \in Calls, Committing(q) PROVE FALSE
  <2>1. call' = [call EXCEPT ![q] = Idle] /\ call[q].stage = "locked"
    BY <1>6 DEF Committing, CreateAdministrator, ChangeAdministratorRole, SetAdministratorEnabled,
                ResetAdministratorPassword, SetApplicationRole, RemoveApplicationRole, RevokeManagedAdminSession, Commit
  <2> QED BY <1>3, <2>1
<1>7. ASSUME NEW q \in Calls, Snapshot(q) PROVE FALSE
  <2>1. PICK d : call' = [call EXCEPT ![q] = d] /\ call[q].stage = "verified"
    BY <1>7 DEF Snapshot
  <2> QED BY <1>3, <2>1
<1>8. ASSUME NEW q \in Calls, CreateSession(q) \/ CreateAPIToken(q) \/ ChangeOwnPassword(q) PROVE FALSE
  <2>1. call' = [call EXCEPT ![q] = Idle] /\ call[q].op # "switch"
    BY <1>8 DEF CreateSession, CreateAPIToken, ChangeOwnPassword
  <2> QED BY <1>3, <2>1
<1>9. ASSUME NEW q \in Calls, SwitchSessionOrganization(q) PROVE q = p
  BY <1>3, <1>9 DEF SwitchSessionOrganization
<1>10. ASSUME NEW s \in Sessions, NEW by \in Sessions, RevokeSession(s, by) PROVE FALSE
  BY <1>2, <1>10 DEF RevokeSession
<1>11. ASSUME NEW t \in Tokens, NEW by \in Sessions, RevokeAPIToken(t, by) PROVE FALSE
  BY <1>2, <1>11 DEF RevokeAPIToken
<1>12. Next
  BY <1>2 DEF vars
<1> QED BY <1>4, <1>5, <1>6, <1>7, <1>8, <1>9, <1>10, <1>11, <1>12 DEF Next

LEMMA SwitchKeeps ==
    ASSUME AccountsInv, NEW p \in Calls, SwitchSessionOrganization(p)
    PROVE  Cardinality(ActiveSessions') = Cardinality(ActiveSessions)
<1> DEFINE b == call[p].by
<1>1. MembersInv /\ CallGood(call[p]) /\ call[p].op = "switch"
  BY DEF AccountsInv, MembersInv, CallsInv, SwitchSessionOrganization
<1>2. b \in Sessions
  BY <1>1 DEF CallGood
<1>3. CASE UNCHANGED session
  BY <1>3 DEF ActiveSessions
<1>4. CASE session[b].state = "active" /\ ~UNCHANGED session
  <2>1. PICK s \in Sessions : \E row :
          /\ session[s].state = "none" /\ row.state = "active"
          /\ session' = [session EXCEPT ![b] = Left(b), ![s] = row]
    <3>1. PICK s \in Sessions :
            /\ session[s].state = "none"
            /\ session' = [session EXCEPT ![b] = Left(b),
                  ![s] = [state |-> "active", user |-> call[p].actor, org |-> call[p].org, version |-> call[p].seen]]
      BY <1>4 DEF SwitchSessionOrganization
    <3>2. [state |-> "active", user |-> call[p].actor, org |-> call[p].org, version |-> call[p].seen].state = "active"
      OBVIOUS
    <3> QED BY <3>1, <3>2
  <2>2. PICK row : /\ session[s].state = "none" /\ row.state = "active"
                   /\ session' = [session EXCEPT ![b] = Left(b), ![s] = row]
    BY <2>1
  <2> HIDE DEF b
  <2>3. /\ \A x \in Sessions : x # s /\ x # b => session'[x] = session[x]
        /\ session'[s].state = "active" /\ s # b /\ session'[b].state = "revoked"
    BY <1>1, <1>2, <1>4, <2>2, Switched
  <2>4. IsFiniteSet(ActiveSessions)
    BY MembersAssumption, FS_Subset DEF ActiveSessions
  <2>5. b \in ActiveSessions /\ s \notin ActiveSessions
    BY <1>2, <1>4, <2>2 DEF ActiveSessions
  <2>6. ActiveSessions' = (ActiveSessions \ {b}) \cup {s}
    BY <1>2, <2>3, <2>5 DEF ActiveSessions
  <2>7. IsFiniteSet(ActiveSessions \ {b}) /\ Cardinality(ActiveSessions \ {b}) = Cardinality(ActiveSessions) - 1
    BY <2>4, <2>5, FS_RemoveElement
  <2>8. Cardinality((ActiveSessions \ {b}) \cup {s}) = Cardinality(ActiveSessions \ {b}) + 1
    BY <2>5, <2>7, FS_AddElement
  <2>9. Cardinality(ActiveSessions) \in Nat
    BY <2>4, FS_CardinalityType
  <2> QED BY <2>6, <2>7, <2>8, <2>9
<1> QED BY <1>3, <1>4 DEF SwitchSessionOrganization

\* A switch of organizations ends one session for the one it opens, whatever
\* else revokes or opens sessions meanwhile (SwitchSessionOrganization).
THEOREM SwitchKeepsSessions == Spec => SwitchKeepsOne
<1>1. AccountsInv /\ [Next]_vars =>
        [\A p \in Calls : call[p].op = "switch" /\ call[p].stage = "read" /\ call'[p] = Idle =>
            Cardinality(ActiveSessions') = Cardinality(ActiveSessions)]_vars
  BY SwitchEnds, SwitchKeeps
<1> QED BY <1>1, MembersInductive, PTL DEF Spec, SwitchKeepsOne

-----------------------------------------------------------------------------
(* First-owner setup: how the first owner comes to be.                      *)

CONSTANTS Replicas, SetupCallers, SetupSecrets, NoSecret, Lifetimes
VARIABLES setupRow, firstOwners, replica, setup

Setup == INSTANCE AdminBootstrap WITH
    Callers <- SetupCallers, Secrets <- SetupSecrets, None <- NoSecret,
    row <- setupRow, owners <- firstOwners, caller <- setup

SetupBounds == NoSecret \notin SetupSecrets /\ Lifetimes \subseteq BOOLEAN

SetupRow == [secret : SetupSecrets \cup {NoSecret}, consumed : BOOLEAN, expires : BOOLEAN,
             expired : BOOLEAN]
SetupReplica == [stage : {"down", "up", "starting", "inserting"},
                 secret : SetupSecrets \cup {NoSecret},
                 told : {"nothing", "installed", "already", "disabled"}]
SetupCaller == [stage : {"idle", "arrived", "valid", "done"}, secret : SetupSecrets \cup {NoSecret}]

\* The row is consumed exactly if there is an owner, who is alone and the
\* caller that finished; a replica that installs has a secret to install.
SetupInv ==
    /\ setupRow \in SetupRow
    /\ replica \in [Replicas -> SetupReplica]
    /\ setup \in [SetupCallers -> SetupCaller]
    /\ setupRow.consumed <=> firstOwners # {}
    /\ setupRow.consumed => setupRow.secret # NoSecret
    /\ \A c, d \in firstOwners : c = d
    /\ firstOwners = {c \in SetupCallers : setup[c].stage = "done"}
    /\ \A r \in Replicas : replica[r].stage \in {"starting", "inserting"} =>
                              replica[r].secret \in SetupSecrets

LEMMA SetupInit ==
    ASSUME SetupBounds, Setup!Init PROVE SetupInv
BY DEF Setup!Init, SetupInv, SetupBounds, SetupRow, SetupReplica, SetupCaller, Setup!NoRow

\* A replica's steps touch the row only while nobody is owner.
LEMMA SetupReplicaSafe ==
    ASSUME SetupBounds, SetupInv, NEW r \in Replicas,
           \/ \E s \in SetupSecrets : Setup!Start(r, s)
           \/ Setup!LockRow(r) \/ Setup!NoRowYet(r) \/ Setup!Insert(r) \/ Setup!Crash(r)
    PROVE  SetupInv' /\ Setup!ClosedForGood
<1>1. /\ UNCHANGED <<firstOwners, setup>>
      /\ \/ setupRow' = setupRow
         \/ /\ replica[r].secret \in SetupSecrets /\ firstOwners = {}
            /\ \E e \in Lifetimes :
                  setupRow' = [Setup!NoRow EXCEPT !.secret = replica[r].secret, !.expires = e]
  BY DEF SetupInv, Setup!Start, Setup!LockRow, Setup!NoRowYet, Setup!Insert, Setup!Crash,
         Setup!Replaceable, Setup!HasOwner, Setup!Exists
<1>2. /\ replica' \in [Replicas -> SetupReplica]
      /\ \A q \in Replicas : replica'[q].stage \in {"starting", "inserting"} =>
                                replica'[q].secret \in SetupSecrets
  <2>1. replica[r] \in SetupReplica
    BY DEF SetupInv
  <2>2. \E record \in SetupReplica :
           /\ replica' = [replica EXCEPT ![r] = record]
           /\ record.stage \in {"starting", "inserting"} => record.secret \in SetupSecrets
    <3>1. \A told \in {"installed", "already", "disabled"} :
             /\ [replica[r] EXCEPT !.stage = "up", !.told = told] \in SetupReplica
             /\ [replica[r] EXCEPT !.stage = "up", !.told = told].stage = "up"
      BY <2>1 DEF SetupReplica
    <3>2. Setup!Existing(r) \in {"installed", "already", "disabled"}
      BY DEF Setup!Existing
    <3>3. ASSUME NEW told \in {"installed", "already", "disabled"}, Setup!Answer(r, told)
          PROVE  \E record \in SetupReplica :
                    /\ replica' = [replica EXCEPT ![r] = record]
                    /\ record.stage \in {"starting", "inserting"} => record.secret \in SetupSecrets
      <4>1. replica' = [replica EXCEPT ![r] = [replica[r] EXCEPT !.stage = "up", !.told = told]]
        BY <3>3 DEF Setup!Answer
      <4> QED BY <3>1, <4>1
    <3>4. CASE \E s \in SetupSecrets : Setup!Start(r, s)
      <4>1. PICK s \in SetupSecrets :
               replica' = [replica EXCEPT ![r] =
                              [stage |-> "starting", secret |-> s, told |-> "nothing"]]
        BY <3>4 DEF Setup!Start
      <4>2. [stage |-> "starting", secret |-> s, told |-> "nothing"] \in SetupReplica
        BY DEF SetupReplica
      <4> QED BY <4>1, <4>2
    <3>5. CASE Setup!LockRow(r) \/ Setup!Insert(r)
      <4>1. \E told \in {"installed", "already", "disabled"} : Setup!Answer(r, told)
        BY <3>2, <3>5 DEF Setup!LockRow, Setup!Insert
      <4> QED BY <3>3, <4>1
    <3>6. CASE Setup!NoRowYet(r)
      <4>1. CASE Setup!Answer(r, "disabled")
        BY <3>3, <4>1
      <4>2. CASE replica' = [replica EXCEPT ![r].stage = "inserting"]
        <5>1. replica' = [replica EXCEPT ![r] = [replica[r] EXCEPT !.stage = "inserting"]]
          BY <4>2
        <5>2. replica[r].secret \in SetupSecrets
          BY <3>6 DEF SetupInv, Setup!NoRowYet
        <5>3. /\ [replica[r] EXCEPT !.stage = "inserting"] \in SetupReplica
              /\ [replica[r] EXCEPT !.stage = "inserting"].secret = replica[r].secret
          BY <2>1 DEF SetupReplica
        <5> QED BY <5>1, <5>2, <5>3
      <4> QED BY <3>6, <4>1, <4>2 DEF Setup!NoRowYet
    <3>7. CASE Setup!Crash(r)
      <4>1. replica' = [replica EXCEPT ![r] =
                           [stage |-> "down", secret |-> NoSecret, told |-> "nothing"]]
        BY <3>7 DEF Setup!Crash
      <4>2. [stage |-> "down", secret |-> NoSecret, told |-> "nothing"] \in SetupReplica
        BY DEF SetupReplica
      <4> QED BY <4>1, <4>2
    <3> QED BY <3>4, <3>5, <3>6, <3>7
  <2> QED BY <2>2 DEF SetupInv
<1>3. CASE setupRow' = setupRow
  BY <1>1, <1>2, <1>3 DEF SetupInv, Setup!ClosedForGood, Setup!HasOwner
<1>4. CASE /\ replica[r].secret \in SetupSecrets /\ firstOwners = {}
           /\ \E e \in Lifetimes :
                 setupRow' = [Setup!NoRow EXCEPT !.secret = replica[r].secret, !.expires = e]
  <2>1. setupRow' \in SetupRow /\ ~setupRow'.consumed
    BY <1>4 DEF Setup!NoRow, SetupRow, SetupBounds
  <2> QED BY <1>1, <1>2, <1>4, <2>1 DEF SetupInv, Setup!ClosedForGood, Setup!HasOwner
<1> QED BY <1>1, <1>3, <1>4

\* A caller becomes owner under the row's lock, and only the first does.
LEMMA SetupCallerSafe ==
    ASSUME SetupBounds, SetupInv, NEW c \in SetupCallers,
           \/ \E s \in SetupSecrets : Setup!Presents(c, s)
           \/ Setup!Validate(c) \/ Setup!BootstrapOwner(c) \/ Setup!Fail(c)
    PROVE  SetupInv' /\ Setup!ClosedForGood
<1>1. replica' = replica /\ setup[c] \in SetupCaller
  BY DEF SetupInv, Setup!Presents, Setup!Validate, Setup!BootstrapOwner, Setup!Fail
<1>2. CASE Setup!BootstrapOwner(c) /\ Setup!Consumable(c)
  <2>1. /\ setupRow' = [setupRow EXCEPT !.consumed = TRUE]
        /\ firstOwners' = firstOwners \cup {c}
        /\ setup' = [setup EXCEPT ![c] = [setup[c] EXCEPT !.stage = "done"]]
    BY <1>2 DEF Setup!BootstrapOwner, Setup!ConsumedRow
  <2>2. firstOwners = {} /\ setupRow.secret # NoSecret
    BY <1>2 DEF Setup!Consumable, Setup!Live, Setup!Exists, Setup!HasOwner
  <2>3. setupRow' \in SetupRow /\ setupRow'.consumed /\ setupRow'.secret = setupRow.secret
    BY <2>1 DEF SetupInv, SetupRow
  <2>4. /\ setup' \in [SetupCallers -> SetupCaller] /\ setup'[c].stage = "done"
        /\ \A d \in SetupCallers : d # c => setup'[d] = setup[d]
    BY <1>1, <2>1 DEF SetupInv, SetupCaller
  <2> QED BY <1>1, <2>1, <2>2, <2>3, <2>4 DEF SetupInv, Setup!ClosedForGood, Setup!HasOwner
<1>3. CASE ~(Setup!BootstrapOwner(c) /\ Setup!Consumable(c))
  <2>1. UNCHANGED <<setupRow, firstOwners>>
    BY <1>3 DEF Setup!Presents, Setup!Validate, Setup!BootstrapOwner, Setup!Fail
  <2>2. \E record \in SetupCaller :
           /\ setup' = [setup EXCEPT ![c] = record]
           /\ record.stage # "done" /\ setup[c].stage # "done"
    <3>1. \A stage \in {"idle", "valid"} : [setup[c] EXCEPT !.stage = stage] \in SetupCaller
      BY <1>1 DEF SetupCaller
    <3>2. CASE \E s \in SetupSecrets : Setup!Presents(c, s)
      <4>1. PICK s \in SetupSecrets : /\ setup[c].stage = "idle"
                                      /\ setup' = [setup EXCEPT ![c] = [stage |-> "arrived", secret |-> s]]
        BY <3>2 DEF Setup!Presents
      <4>2. [stage |-> "arrived", secret |-> s] \in SetupCaller
        BY DEF SetupCaller
      <4> QED BY <4>1, <4>2
    <3>3. ASSUME NEW stage \in {"idle", "valid"}, setup[c].stage # "done",
                 setup' = [setup EXCEPT ![c].stage = stage]
          PROVE  \E record \in SetupCaller :
                    /\ setup' = [setup EXCEPT ![c] = record]
                    /\ record.stage # "done" /\ setup[c].stage # "done"
      <4>1. setup' = [setup EXCEPT ![c] = [setup[c] EXCEPT !.stage = stage]]
        BY <3>3
      <4>2. [setup[c] EXCEPT !.stage = stage].stage = stage
        BY <1>1 DEF SetupCaller
      <4> QED BY <3>1, <3>3, <4>1, <4>2
    <3>4. CASE Setup!Validate(c) \/ Setup!BootstrapOwner(c) \/ Setup!Fail(c)
      <4>1. /\ setup[c].stage # "done"
            /\ \E stage \in {"idle", "valid"} : setup' = [setup EXCEPT ![c].stage = stage]
        BY <1>3, <3>4 DEF Setup!Validate, Setup!BootstrapOwner, Setup!Fail
      <4> QED BY <3>3, <4>1
    <3> QED BY <3>2, <3>4
  <2>3. /\ setup' \in [SetupCallers -> SetupCaller]
        /\ \A d \in SetupCallers : setup'[d].stage = "done" <=> setup[d].stage = "done"
    BY <2>2 DEF SetupInv
  <2> QED BY <1>1, <2>1, <2>3 DEF SetupInv, Setup!ClosedForGood, Setup!HasOwner
<1> QED BY <1>2, <1>3

LEMMA SetupStep ==
    ASSUME SetupBounds, SetupInv, [Setup!Next]_(Setup!vars)
    PROVE  SetupInv' /\ [Setup!ClosedForGood]_(Setup!vars)
<1>1. CASE UNCHANGED Setup!vars
  BY <1>1 DEF Setup!vars, SetupInv
<1>2. CASE Setup!Expire
  <2>1. /\ UNCHANGED <<firstOwners, replica, setup>> /\ setupRow' \in SetupRow
        /\ setupRow'.consumed = setupRow.consumed /\ setupRow'.secret = setupRow.secret
    BY <1>2 DEF Setup!Expire, SetupInv, SetupRow
  <2> QED BY <2>1 DEF SetupInv, Setup!ClosedForGood, Setup!HasOwner
<1> QED BY <1>1, <1>2, SetupReplicaSafe, SetupCallerSafe DEF Setup!Next

\* However many callers hold the secret and pass the check made before the
\* password is derived, and whichever replicas start, crash and install again
\* meanwhile, setup creates one owner, and the row is consumed exactly by it
\* (bootstrapOwner, adminauth/store.go).
THEOREM FirstOwnerIsOne ==
    ASSUME SetupBounds
    PROVE  Setup!Spec => [](Setup!TypeOK /\ Setup!OneOwner)
<1>1. ASSUME SetupInv PROVE Setup!TypeOK /\ Setup!OneOwner
  <2>1. Setup!TypeOK
    BY <1>1 DEF SetupInv, SetupRow, Setup!TypeOK, Setup!HasOwner
  <2>2. \A S : Setup!Cardinality(S) = Cardinality(S)
    BY Zenon DEF Setup!Cardinality, Cardinality
  <2>3. CASE firstOwners = {}
    BY <2>1, <2>2, <2>3, FS_EmptySet DEF Setup!OneOwner
  <2>4. CASE firstOwners # {}
    <3>1. PICK c \in firstOwners : firstOwners = {c}
      BY <1>1, <2>4 DEF SetupInv
    <3>2. Cardinality({c}) = 1
      BY FS_Singleton
    <3> QED BY <2>1, <2>2, <3>1, <3>2 DEF Setup!OneOwner
  <2> QED BY <2>1, <2>3, <2>4
<1>2. Setup!Init => SetupInv
  BY SetupInit
<1>3. SetupInv /\ [Setup!Next]_(Setup!vars) => SetupInv'
  BY SetupStep
<1> QED BY <1>1, <1>2, <1>3, PTL DEF Setup!Spec

\* Setup closes for good: no start, restart, expiry or late insert opens it
\* again once an owner exists (ErrBootstrapDisabled, adminauth/store.go).
THEOREM SetupStaysClosed ==
    ASSUME SetupBounds
    PROVE  Setup!Spec => [][Setup!ClosedForGood]_(Setup!vars)
<1>1. Setup!Init => SetupInv
  BY SetupInit
<1>2. SetupInv /\ [Setup!Next]_(Setup!vars) => SetupInv' /\ [Setup!ClosedForGood]_(Setup!vars)
  BY SetupStep
<1> QED BY <1>1, <1>2, PTL DEF Setup!Spec

-----------------------------------------------------------------------------
(* Invitations: how everybody else does.                                    *)

CONSTANTS Addresses, Slots, Holders, Deliveries, Nowhere, MaxLink, MaxOutside, Overlapping
VARIABLES inv, account, entered, required, holder, delivery, outside

Invited == INSTANCE Invitations WITH
    None <- Nowhere, Overlap <- Overlapping, member <- entered

InvitedBounds == Nowhere \notin Slots /\ MaxLink \in Nat \ {0}

InvitationRow ==
    [state : {"none", "open", "revoked", "accepted"}, addr : Addresses \cup {Nowhere},
     role : Invited!Roles \cup {"none"}, link : 0..MaxLink, expired : BOOLEAN,
     email : {"not_requested", "sent", "failed"}, mailed : 0..MaxLink, used : 0..MaxLink]
EnteredRow == [role : Invited!Roles \cup {"none"}, from : Slots \cup {Nowhere}]
HolderCall == [stage : {"idle", "previewed"}, inv : Slots \cup {Nowhere}, link : 0..MaxLink]
EmailCall == [stage : {"idle", "sending", "sent"}, inv : Slots \cup {Nowhere}, link : 0..MaxLink,
              sent : BOOLEAN]

InvitedTypes ==
    /\ inv \in [Slots -> InvitationRow]
    /\ entered \in [Addresses -> EnteredRow]
    /\ holder \in [Holders -> HolderCall]
    /\ delivery \in [Deliveries -> EmailCall]

CallsPlaced ==
    /\ \A h \in Holders : holder[h].stage = "previewed" => holder[h].inv \in Slots
    /\ \A d \in Deliveries : delivery[d].stage # "idle" => delivery[d].inv \in Slots

\* What was created is for an address and a role; it is used once, with the
\* link it then had.
GoodInvitation(row) ==
    /\ row.state # "none" => row.addr \in Addresses /\ row.role \in Invited!Roles /\ row.link > 0
    /\ row.state = "accepted" => row.used = row.link
    /\ row.state # "accepted" => row.used = 0

InvitedInv ==
    /\ InvitedTypes /\ CallsPlaced
    /\ \A i \in Slots : GoodInvitation(inv[i])
    /\ \A a \in Addresses : entered[a].role # "none" => a \in account
    /\ Invited!OneOpenPerAddress
    /\ Invited!JoinedAsInvited

\* What one step may make of a row.
Carries(old, new) == new.addr = old.addr /\ new.role = old.role
RowStands(old, new) ==
    Carries(old, new) /\ new.state = old.state /\ new.link = old.link /\ new.used = old.used
RowMoves(old, new) ==
    \/ RowStands(old, new)
    \/ /\ old.state = "open" /\ new.state \in {"open", "revoked"} /\ Carries(old, new)
       /\ new.link \in {old.link, old.link + 1} /\ new.used = old.used
    \/ /\ old.state = "none" /\ new.state = "open" /\ new.addr \in Addresses
       /\ new.role \in Invited!Roles /\ new.link = 1 /\ new.used = 0
    \/ /\ old.state = "open" /\ new.state = "accepted" /\ Carries(old, new)
       /\ new.link = old.link /\ new.used = old.link

LEMMA InvitedInit ==
    ASSUME InvitedBounds, Invited!Init PROVE InvitedInv
<1>1. InvitedTypes /\ CallsPlaced
  BY DEF Invited!Init, InvitedBounds, InvitedTypes, CallsPlaced, InvitationRow, EnteredRow,
         HolderCall, EmailCall, Invited!NoInvitation, Invited!NotMember, Invited!IdleHolder,
         Invited!NoDelivery
<1>2. \A i \in Slots : inv[i].state = "none" /\ inv[i].used = 0
  BY DEF Invited!Init, Invited!NoInvitation
<1>3. \A a \in Addresses : entered[a].role = "none" /\ entered[a].from = Nowhere
  BY DEF Invited!Init, Invited!NotMember
<1> QED BY <1>1, <1>2, <1>3 DEF InvitedInv, GoodInvitation, Invited!OneOpenPerAddress, Invited!Open,
           Invited!JoinedAsInvited

\* Rows that only move keep what a row needs, and what was decided stays.
LEMMA RowsMove ==
    ASSUME InvitedInv, inv' \in [Slots -> InvitationRow],
           \A i \in Slots : RowMoves(inv[i], inv'[i])
    PROVE  /\ \A i \in Slots : GoodInvitation(inv'[i])
           /\ \A i \in Slots : inv[i].state \in {"revoked", "accepted"} => RowStands(inv[i], inv'[i])
<1> SUFFICES ASSUME NEW i \in Slots
             PROVE  /\ GoodInvitation(inv'[i])
                    /\ inv[i].state \in {"revoked", "accepted"} => RowStands(inv[i], inv'[i])
  OBVIOUS
<1>1. inv[i] \in InvitationRow /\ inv'[i] \in InvitationRow /\ GoodInvitation(inv[i])
  BY DEF InvitedInv, InvitedTypes
<1>2. RowMoves(inv[i], inv'[i])
  OBVIOUS
<1>3. inv[i].link \in Nat /\ inv'[i].link \in Nat
  BY <1>1 DEF InvitationRow
<1> QED BY <1>1, <1>2, <1>3 DEF RowMoves, RowStands, Carries, GoodInvitation

\* No row becomes open: at most one per address still is.
LEMMA NoneOpened ==
    ASSUME InvitedInv,
           \A i \in Slots : inv'[i].state = "open" => inv[i].state = "open" /\ Carries(inv[i], inv'[i])
    PROVE  Invited!OneOpenPerAddress'
BY DEF InvitedInv, Invited!OneOpenPerAddress, Invited!Open, Carries

\* Members that stay are still those invited.
LEMMA MembersStand ==
    ASSUME InvitedInv, inv' \in [Slots -> InvitationRow], entered' \in [Addresses -> EnteredRow],
           \A i \in Slots : RowMoves(inv[i], inv'[i]),
           \A a \in Addresses : entered'[a] = entered[a] \/ entered'[a].from = Nowhere
    PROVE  /\ Invited!JoinedAsInvited'
           /\ \A a \in Addresses, i \in Slots : entered'[a].from = i /\ i # Nowhere => entered[a].from = i
<1>1. \A a \in Addresses : entered'[a].from # Nowhere => entered'[a] = entered[a] /\ entered[a].from \in Slots
  BY DEF InvitedInv, InvitedTypes, EnteredRow
<1>2. \A a \in Addresses : entered[a].from # Nowhere =>
          /\ inv[entered[a].from].addr = a /\ inv[entered[a].from].role = entered[a].role
          /\ inv[entered[a].from].state = "accepted"
          /\ \A b \in Addresses \ {a} : entered[b].from # entered[a].from
  BY DEF InvitedInv, Invited!JoinedAsInvited
<1>3. \A i \in Slots : inv[i].state = "accepted" => RowStands(inv[i], inv'[i])
  BY RowsMove
<1>4. \A a \in Addresses : entered'[a].from # Nowhere =>
          /\ inv'[entered'[a].from].addr = a /\ inv'[entered'[a].from].role = entered'[a].role
          /\ inv'[entered'[a].from].state = "accepted"
          /\ \A b \in Addresses \ {a} : entered'[b].from # entered'[a].from
  BY <1>1, <1>2, <1>3 DEF RowStands, Carries
<1> QED BY <1>1, <1>4 DEF Invited!JoinedAsInvited

\* Steps that open no row and admit nobody.
LEMMA QuietSafe ==
    ASSUME InvitedBounds, InvitedInv, InvitedTypes', CallsPlaced',
           \A i \in Slots : RowMoves(inv[i], inv'[i]) /\ (inv'[i].state = "open" => inv[i].state = "open"),
           \A a \in Addresses : entered'[a] = entered[a] \/ entered'[a].from = Nowhere,
           \A a \in Addresses : entered'[a].role # "none" => a \in account'
    PROVE  InvitedInv' /\ Invited!DecidedOnce
<1>1. inv' \in [Slots -> InvitationRow] /\ entered' \in [Addresses -> EnteredRow]
  BY DEF InvitedTypes
<1>2. \A i \in Slots : GoodInvitation(inv'[i])
  BY <1>1, RowsMove
<1>3. \A i \in Slots : inv[i].state \in {"revoked", "accepted"} => inv'[i].state = inv[i].state
  BY <1>1, RowsMove DEF RowStands
<1>4. \A i \in Slots : inv'[i].state = "open" => inv[i].state = "open" /\ Carries(inv[i], inv'[i])
  BY DEF RowMoves, RowStands
<1>5. Invited!OneOpenPerAddress'
  BY <1>4, NoneOpened
<1>6. /\ Invited!JoinedAsInvited'
      /\ \A a \in Addresses, i \in Slots : entered'[a].from = i => entered[a].from = i
  BY <1>1, MembersStand DEF InvitedBounds
<1> QED BY <1>2, <1>3, <1>5, <1>6 DEF InvitedInv, Invited!DecidedOnce

\* Starting an email changes only a call that was idle.
LEMMA DeliverSafe ==
    ASSUME InvitedBounds, InvitedInv, NEW i \in Slots, NEW link \in 0..MaxLink,
           Invited!Deliver(i, link)
    PROVE  /\ delivery' \in [Deliveries -> EmailCall]
           /\ \A d \in Deliveries : delivery'[d].stage # "idle" => delivery'[d].inv \in Slots
<1>1. CASE delivery' = delivery
  BY <1>1 DEF InvitedInv, InvitedTypes, CallsPlaced
<1>2. CASE \E d \in Deliveries :
              delivery' = [delivery EXCEPT ![d] =
                  [stage |-> "sending", inv |-> i, link |-> link, sent |-> FALSE]]
  <2>1. [stage |-> "sending", inv |-> i, link |-> link, sent |-> FALSE] \in EmailCall
    BY DEF EmailCall
  <2> QED BY <1>2, <2>1 DEF InvitedInv, InvitedTypes, CallsPlaced
<1> QED BY <1>1, <1>2 DEF Invited!Deliver

\* A creation revokes what is open for the address before it opens its row.
LEMMA CreateSafe ==
    ASSUME InvitedBounds, InvitedInv, NEW i \in Slots, NEW a \in Addresses, NEW r \in Invited!Roles,
           Invited!CreateInvitation(i, a, r)
    PROVE  InvitedInv' /\ Invited!DecidedOnce
<1> DEFINE row == [Invited!NoInvitation EXCEPT !.state = "open", !.addr = a, !.role = r, !.link = 1]
<1>1. /\ inv[i].state = "none" /\ UNCHANGED <<account, entered, required, holder, outside>>
      /\ inv' = [Invited!RevokesEarlier(a) EXCEPT ![i] = row]
      /\ Invited!Deliver(i, 1)
  BY DEF Invited!CreateInvitation
<1>2. row \in InvitationRow /\ row.state = "open" /\ row.addr = a /\ row.role = r /\ row.link = 1
      /\ row.used = 0
  <2>1. Invited!NoInvitation \in InvitationRow /\ Invited!NoInvitation.used = 0 /\ 1 \in 0..MaxLink
    BY DEF Invited!NoInvitation, InvitationRow, InvitedBounds
  <2>2. \A old \in InvitationRow, n \in 0..MaxLink :
           LET new == [old EXCEPT !.state = "open", !.addr = a, !.role = r, !.link = n]
           IN  /\ new \in InvitationRow /\ new.state = "open" /\ new.addr = a /\ new.role = r
               /\ new.link = n /\ new.used = old.used
    BY DEF InvitationRow
  <2> QED BY <2>1, <2>2
<1> HIDE DEF row
<1>3. \A j \in Slots : inv[j] \in InvitationRow
  BY DEF InvitedInv, InvitedTypes
<1>4. \A old \in InvitationRow :
         /\ [old EXCEPT !.state = "revoked"] \in InvitationRow
         /\ [old EXCEPT !.state = "revoked"].state = "revoked"
         /\ Carries(old, [old EXCEPT !.state = "revoked"])
         /\ [old EXCEPT !.state = "revoked"].link = old.link
         /\ [old EXCEPT !.state = "revoked"].used = old.used
  BY DEF InvitationRow, Carries
<1>5. /\ inv'[i] = row
      /\ \A j \in Slots \ {i} : inv'[j] = IF Invited!Open(j) /\ inv[j].addr = a
                                          THEN [inv[j] EXCEPT !.state = "revoked"] ELSE inv[j]
      /\ inv' = [j \in Slots |-> inv'[j]]
  BY <1>1 DEF Invited!RevokesEarlier
<1>6. inv' \in [Slots -> InvitationRow]
  BY <1>2, <1>3, <1>4, <1>5
<1>7. \A j \in Slots : RowMoves(inv[j], inv'[j])
  <2>1. RowMoves(inv[i], inv'[i])
    BY <1>1, <1>2, <1>5 DEF RowMoves
  <2>2. ASSUME NEW j \in Slots \ {i} PROVE RowMoves(inv[j], inv'[j])
    <3>1. CASE Invited!Open(j) /\ inv[j].addr = a
      <4>1. inv'[j] = [inv[j] EXCEPT !.state = "revoked"] /\ inv[j].state = "open"
        BY <1>5, <3>1 DEF Invited!Open
      <4>2. /\ inv'[j].state = "revoked" /\ Carries(inv[j], inv'[j])
            /\ inv'[j].link = inv[j].link /\ inv'[j].used = inv[j].used
        BY <1>3, <1>4, <4>1
      <4> QED BY <4>1, <4>2 DEF RowMoves
    <3>2. CASE ~(Invited!Open(j) /\ inv[j].addr = a)
      BY <1>5, <3>2 DEF RowMoves, RowStands, Carries
    <3> QED BY <3>1, <3>2
  <2> QED BY <2>1, <2>2
<1>8. Invited!OneOpenPerAddress'
  <2>1. \A j \in Slots \ {i} : inv'[j].state = "open" => inv[j].state = "open" /\ inv[j].addr # a
                                                         /\ inv'[j] = inv[j]
    BY <1>3, <1>4, <1>5 DEF Invited!Open
  <2> QED BY <1>2, <1>5, <2>1 DEF InvitedInv, Invited!OneOpenPerAddress, Invited!Open
<1>9. InvitedTypes' /\ CallsPlaced'
  <2>1. 1 \in 0..MaxLink
    BY DEF InvitedBounds
  <2> QED BY <1>1, <1>6, <2>1, DeliverSafe DEF InvitedInv, InvitedTypes, CallsPlaced
<1>10. /\ Invited!JoinedAsInvited'
       /\ \A b \in Addresses, j \in Slots : entered'[b].from = j => entered[b].from = j
  BY <1>1, <1>6, <1>7, <1>9, MembersStand DEF InvitedBounds, InvitedTypes
<1>11. /\ \A j \in Slots : GoodInvitation(inv'[j])
       /\ \A j \in Slots : inv[j].state \in {"revoked", "accepted"} => inv'[j].state = inv[j].state
  BY <1>6, <1>7, RowsMove DEF RowStands
<1> QED BY <1>1, <1>8, <1>9, <1>10, <1>11 DEF InvitedInv, Invited!DecidedOnce

\* One row moves, or a mark on it changes; nobody joins.
LEMMA RowSafe ==
    ASSUME InvitedBounds, InvitedInv, NEW i \in Slots,
           \/ Invited!RevokeInvitation(i) \/ Invited!RenewInvitation(i) \/ Invited!Expire(i)
    PROVE  InvitedInv' /\ Invited!DecidedOnce
<1>1. inv[i] \in InvitationRow /\ inv[i].state = "open" /\ inv[i].link \in Nat
  BY DEF InvitedInv, InvitedTypes, InvitationRow, Invited!RevokeInvitation, Invited!RenewInvitation,
         Invited!Expire, Invited!Open
<1>2. UNCHANGED <<account, entered, holder>>
  BY DEF Invited!RevokeInvitation, Invited!RenewInvitation, Invited!Expire
<1>3. \E row \in InvitationRow : /\ inv' = [inv EXCEPT ![i] = row]
                                 /\ RowMoves(inv[i], row)
  <2>1. CASE Invited!RevokeInvitation(i)
    <3>1. inv' = [inv EXCEPT ![i] = [inv[i] EXCEPT !.state = "revoked"]]
      BY <2>1 DEF Invited!RevokeInvitation
    <3>2. /\ [inv[i] EXCEPT !.state = "revoked"] \in InvitationRow
          /\ RowMoves(inv[i], [inv[i] EXCEPT !.state = "revoked"])
      BY <1>1 DEF InvitationRow, RowMoves, Carries
    <3> QED BY <3>1, <3>2
  <2>2. CASE Invited!RenewInvitation(i)
    <3> DEFINE row == [inv[i] EXCEPT !.link = @ + 1, !.expired = FALSE, !.email = "not_requested"]
    <3>1. inv' = [inv EXCEPT ![i] = row] /\ inv[i].link < MaxLink
      BY <2>2 DEF Invited!RenewInvitation, Invited!Renewed
    <3>2. row \in InvitationRow /\ row.state = "open" /\ row.addr = inv[i].addr
          /\ row.role = inv[i].role /\ row.link = inv[i].link + 1 /\ row.used = inv[i].used
      <4>1. inv[i].link + 1 \in 0..MaxLink
        BY <1>1, <3>1 DEF InvitedBounds
      <4>2. \A n \in 0..MaxLink :
               LET new == [inv[i] EXCEPT !.link = n, !.expired = FALSE, !.email = "not_requested"]
               IN  /\ new \in InvitationRow /\ new.state = inv[i].state /\ new.addr = inv[i].addr
                   /\ new.role = inv[i].role /\ new.link = n /\ new.used = inv[i].used
        BY <1>1 DEF InvitationRow
      <4> QED BY <1>1, <4>1, <4>2
    <3> HIDE DEF row
    <3>3. RowMoves(inv[i], row)
      BY <1>1, <3>2 DEF RowMoves, Carries
    <3> QED BY <3>1, <3>2, <3>3
  <2>3. CASE Invited!Expire(i)
    <3>1. inv' = [inv EXCEPT ![i] = [inv[i] EXCEPT !.expired = TRUE]]
      BY <2>3 DEF Invited!Expire
    <3>2. /\ [inv[i] EXCEPT !.expired = TRUE] \in InvitationRow
          /\ RowMoves(inv[i], [inv[i] EXCEPT !.expired = TRUE])
      BY <1>1 DEF InvitationRow, RowMoves, RowStands, Carries
    <3> QED BY <3>1, <3>2
  <2> QED BY <2>1, <2>2, <2>3
<1>4. inv' \in [Slots -> InvitationRow]
  BY <1>3 DEF InvitedInv, InvitedTypes
<1>5. \A j \in Slots : RowMoves(inv[j], inv'[j]) /\ (inv'[j].state = "open" => inv[j].state = "open")
  BY <1>1, <1>3 DEF InvitedInv, InvitedTypes, RowMoves, RowStands, Carries
<1>6. /\ delivery' \in [Deliveries -> EmailCall]
      /\ \A d \in Deliveries : delivery'[d].stage # "idle" => delivery'[d].inv \in Slots
  <2>1. CASE Invited!RenewInvitation(i)
    <3>1. inv[i].link + 1 \in 0..MaxLink /\ Invited!Deliver(i, inv[i].link + 1)
      BY <1>1, <2>1 DEF Invited!RenewInvitation, InvitedBounds
    <3> QED BY <3>1, DeliverSafe
  <2>2. CASE delivery' = delivery
    BY <2>2 DEF InvitedInv, InvitedTypes, CallsPlaced
  <2> QED BY <2>1, <2>2 DEF Invited!RevokeInvitation, Invited!Expire
<1>7. InvitedTypes' /\ CallsPlaced'
  BY <1>2, <1>4, <1>6 DEF InvitedInv, InvitedTypes, CallsPlaced
<1>8. \A a \in Addresses : entered'[a].role # "none" => a \in account'
  BY <1>2 DEF InvitedInv
<1> QED BY <1>2, <1>5, <1>7, <1>8, QuietSafe

\* The email's own steps mark the row and nothing else.
LEMMA EmailSafe ==
    ASSUME InvitedBounds, InvitedInv, NEW d \in Deliveries,
           (\E ok \in BOOLEAN : Invited!SendMail(d, ok)) \/ Invited!RecordInvitationEmail(d)
    PROVE  InvitedInv' /\ Invited!DecidedOnce
<1>1. /\ delivery[d] \in EmailCall /\ delivery[d].inv \in Slots /\ delivery[d].link \in 0..MaxLink
      /\ inv[delivery[d].inv] \in InvitationRow
  BY DEF InvitedInv, InvitedTypes, CallsPlaced, EmailCall, Invited!SendMail,
         Invited!RecordInvitationEmail
<1>2. UNCHANGED <<account, entered, holder>>
  BY DEF Invited!SendMail, Invited!RecordInvitationEmail
<1> DEFINE i == delivery[d].inv
<1>3. \E row \in InvitationRow : /\ inv' = inv \/ inv' = [inv EXCEPT ![i] = row]
                                 /\ RowStands(inv[i], row)
  <2>1. \A mark \in 0..MaxLink, email \in {"sent", "failed"} :
           /\ [inv[i] EXCEPT !.mailed = mark] \in InvitationRow
           /\ RowStands(inv[i], [inv[i] EXCEPT !.mailed = mark])
           /\ [inv[i] EXCEPT !.email = email] \in InvitationRow
           /\ RowStands(inv[i], [inv[i] EXCEPT !.email = email])
    BY <1>1 DEF InvitationRow, RowStands, Carries
  <2>2. CASE \E ok \in BOOLEAN : Invited!SendMail(d, ok)
    <3>1. inv' = inv \/ inv' = [inv EXCEPT ![i] = [inv[i] EXCEPT !.mailed = delivery[d].link]]
      BY <2>2 DEF Invited!SendMail
    <3> QED BY <1>1, <2>1, <3>1
  <2>3. CASE Invited!RecordInvitationEmail(d)
    <3>1. PICK email \in {"sent", "failed"} : inv' = [inv EXCEPT ![i] = [inv[i] EXCEPT !.email = email]]
      BY <2>3 DEF Invited!RecordInvitationEmail
    <3> QED BY <1>1, <2>1, <3>1
  <2> QED BY <2>2, <2>3
<1>4. \E made \in EmailCall : /\ delivery' = [delivery EXCEPT ![d] = made]
                              /\ made.stage # "idle" => made.inv \in Slots
  <2>1. CASE \E ok \in BOOLEAN : Invited!SendMail(d, ok)
    <3>1. PICK ok \in BOOLEAN :
             delivery' = [delivery EXCEPT ![d] = [delivery[d] EXCEPT !.stage = "sent", !.sent = ok]]
      BY <2>1 DEF Invited!SendMail
    <3>2. /\ [delivery[d] EXCEPT !.stage = "sent", !.sent = ok] \in EmailCall
          /\ [delivery[d] EXCEPT !.stage = "sent", !.sent = ok].inv = delivery[d].inv
      BY <1>1 DEF EmailCall
    <3> QED BY <1>1, <3>1, <3>2
  <2>2. CASE Invited!RecordInvitationEmail(d)
    <3>1. delivery' = [delivery EXCEPT ![d] = Invited!NoDelivery]
      BY <2>2 DEF Invited!RecordInvitationEmail
    <3>2. Invited!NoDelivery \in EmailCall /\ Invited!NoDelivery.stage = "idle"
      BY DEF Invited!NoDelivery, EmailCall, InvitedBounds
    <3> QED BY <3>1, <3>2
  <2> QED BY <2>1, <2>2
<1>5. inv' \in [Slots -> InvitationRow]
  BY <1>3 DEF InvitedInv, InvitedTypes
<1>6. \A j \in Slots : RowStands(inv[j], inv'[j])
  <2> HIDE DEF i
  <2>1. i \in Slots
    BY <1>1 DEF i
  <2> QED BY <1>3, <2>1 DEF InvitedInv, InvitedTypes, RowStands, Carries
<1>7. \A j \in Slots : RowMoves(inv[j], inv'[j]) /\ (inv'[j].state = "open" => inv[j].state = "open")
  BY <1>6 DEF RowMoves, RowStands
<1>8. InvitedTypes' /\ CallsPlaced'
  BY <1>2, <1>4, <1>5 DEF InvitedInv, InvitedTypes, CallsPlaced
<1>9. \A a \in Addresses : entered'[a].role # "none" => a \in account'
  BY <1>2 DEF InvitedInv
<1> QED BY <1>2, <1>7, <1>8, <1>9, QuietSafe

\* A link that is still the present one of an open invitation admits the
\* address it is for.
LEMMA FinishSafe ==
    ASSUME InvitedBounds, InvitedInv, NEW i \in Slots, NEW a \in Addresses, NEW link,
           Invited!LockOpenInvitation(i, link), inv[i].addr = a,
           Invited!FinishInvitation(i, a, link),
           a \in account', account \subseteq account',
           holder' \in [Holders -> HolderCall],
           \A h \in Holders : holder'[h].stage = "previewed" => holder'[h].inv \in Slots,
           delivery' = delivery
    PROVE  InvitedInv' /\ Invited!DecidedOnce
<1> DEFINE row == [inv[i] EXCEPT !.state = "accepted", !.used = link]
           joined == [role |-> inv[i].role, from |-> i]
<1>1. /\ inv' = [inv EXCEPT ![i] = row] /\ entered' = [entered EXCEPT ![a] = joined]
  BY DEF Invited!FinishInvitation
<1>2. inv[i] \in InvitationRow /\ inv[i].state = "open" /\ link = inv[i].link
      /\ inv[i].role \in Invited!Roles
  BY DEF InvitedInv, InvitedTypes, GoodInvitation, Invited!LockOpenInvitation, Invited!Open
<1>3. row \in InvitationRow /\ row.state = "accepted" /\ row.addr = a /\ row.role = inv[i].role
      /\ row.link = inv[i].link /\ row.used = inv[i].link
  BY <1>2 DEF InvitationRow
<1>4. joined \in EnteredRow /\ joined.from = i /\ joined.role = inv[i].role
  BY <1>2 DEF EnteredRow
<1> HIDE DEF row, joined
<1>5. /\ inv' \in [Slots -> InvitationRow] /\ inv'[i] = row /\ \A j \in Slots \ {i} : inv'[j] = inv[j]
      /\ entered' \in [Addresses -> EnteredRow] /\ entered'[a] = joined
      /\ \A b \in Addresses \ {a} : entered'[b] = entered[b]
  BY <1>1, <1>3, <1>4 DEF InvitedInv, InvitedTypes
<1>6. \A j \in Slots : RowMoves(inv[j], inv'[j])
  BY <1>2, <1>3, <1>5 DEF RowMoves, RowStands, Carries
<1>7. /\ \A j \in Slots : GoodInvitation(inv'[j])
      /\ \A j \in Slots : inv[j].state \in {"revoked", "accepted"} => inv'[j].state = inv[j].state
      /\ \A j \in Slots : inv[j].state = "accepted" => RowStands(inv[j], inv'[j])
  BY <1>5, <1>6, RowsMove DEF RowStands
<1>8. Invited!OneOpenPerAddress'
  <2>1. \A j \in Slots : inv'[j].state = "open" => inv[j].state = "open" /\ Carries(inv[j], inv'[j])
    BY <1>3, <1>5 DEF Carries
  <2> QED BY <2>1, NoneOpened
<1>9. \A b \in Addresses : entered[b].from # Nowhere =>
          /\ entered[b].from \in Slots \ {i}
          /\ inv[entered[b].from].addr = b /\ inv[entered[b].from].role = entered[b].role
          /\ inv[entered[b].from].state = "accepted"
          /\ \A c \in Addresses \ {b} : entered[c].from # entered[b].from
  BY <1>2 DEF InvitedInv, InvitedTypes, EnteredRow, Invited!JoinedAsInvited
<1>10. Invited!JoinedAsInvited'
  <2> SUFFICES ASSUME NEW b \in Addresses, entered'[b].from # Nowhere
               PROVE  /\ inv'[entered'[b].from].addr = b
                      /\ inv'[entered'[b].from].role = entered'[b].role
                      /\ inv'[entered'[b].from].state = "accepted"
                      /\ \A c \in Addresses \ {b} : entered'[c].from # entered'[b].from
    BY DEF Invited!JoinedAsInvited
  <2>1. CASE b = a
    <3>1. \A c \in Addresses \ {a} : entered'[c].from # i
      BY <1>5, <1>9 DEF InvitedBounds
    <3> QED BY <1>3, <1>4, <1>5, <2>1, <3>1
  <2>2. CASE b # a
    <3>1. entered'[b] = entered[b] /\ entered[b].from \in Slots \ {i}
      BY <1>5, <1>9, <2>2
    <3>2. inv'[entered[b].from] = inv[entered[b].from]
      BY <1>5, <3>1
    <3>3. \A c \in Addresses \ {b} : entered'[c].from # entered[b].from
      BY <1>4, <1>5, <1>9, <2>2, <3>1
    <3> QED BY <1>9, <3>1, <3>2, <3>3
  <2> QED BY <2>1, <2>2
<1>11. InvitedTypes' /\ CallsPlaced'
  BY <1>5 DEF InvitedInv, InvitedTypes, CallsPlaced
<1>12. \A b \in Addresses : entered'[b].role # "none" => b \in account'
  BY <1>5 DEF InvitedInv
<1>13. Invited!DecidedOnce
  <2>1. \A j \in Slots, b \in Addresses :
           inv[j].state \in {"revoked", "accepted"} /\ entered'[b].from = j => entered[b].from = j
    BY <1>2, <1>4, <1>5
  <2> QED BY <1>7, <2>1 DEF Invited!DecidedOnce
<1> QED BY <1>7, <1>8, <1>10, <1>11, <1>12, <1>13 DEF InvitedInv

\* The holder of a link previews it and then accepts; what was renewed,
\* revoked or accepted meanwhile is not found.
LEMMA HolderSafe ==
    ASSUME InvitedBounds, InvitedInv, NEW h \in Holders,
           (\E i \in Slots : Invited!PreviewInvitation(h, i)) \/ Invited!AcceptInvitation(h)
    PROVE  InvitedInv' /\ Invited!DecidedOnce
<1>1. \E made \in HolderCall : /\ holder' = [holder EXCEPT ![h] = made]
                               /\ made.stage = "previewed" => made.inv \in Slots
  <2>1. CASE \E i \in Slots : Invited!PreviewInvitation(h, i)
    <3>1. PICK i \in Slots :
             holder' = [holder EXCEPT ![h] = [stage |-> "previewed", inv |-> i, link |-> inv[i].link]]
      BY <2>1 DEF Invited!PreviewInvitation
    <3>2. inv[i].link \in 0..MaxLink
      BY DEF InvitedInv, InvitedTypes, InvitationRow
    <3>3. [stage |-> "previewed", inv |-> i, link |-> inv[i].link] \in HolderCall
      BY <3>2 DEF HolderCall
    <3> QED BY <3>1, <3>3
  <2>2. CASE Invited!AcceptInvitation(h)
    <3>1. holder' = [holder EXCEPT ![h] = Invited!IdleHolder]
      BY <2>2 DEF Invited!AcceptInvitation
    <3>2. Invited!IdleHolder \in HolderCall /\ Invited!IdleHolder.stage = "idle"
      BY DEF Invited!IdleHolder, HolderCall, InvitedBounds
    <3> QED BY <3>1, <3>2
  <2> QED BY <2>1, <2>2
<1>2. /\ holder' \in [Holders -> HolderCall]
      /\ \A g \in Holders : holder'[g].stage = "previewed" => holder'[g].inv \in Slots
  BY <1>1 DEF InvitedInv, InvitedTypes, CallsPlaced
<1>3. delivery' = delivery
  BY DEF Invited!PreviewInvitation, Invited!AcceptInvitation
<1>4. CASE UNCHANGED <<inv, account, entered>>
  <2>1. InvitedTypes' /\ CallsPlaced'
    BY <1>2, <1>3, <1>4 DEF InvitedInv, InvitedTypes, CallsPlaced
  <2>2. \A i \in Slots : RowMoves(inv[i], inv'[i]) /\ (inv'[i].state = "open" => inv[i].state = "open")
    BY <1>4 DEF RowMoves, RowStands, Carries
  <2>3. \A a \in Addresses : entered'[a].role # "none" => a \in account'
    BY <1>4 DEF InvitedInv
  <2> QED BY <1>4, <2>1, <2>2, <2>3, QuietSafe
<1>5. CASE ~UNCHANGED <<inv, account, entered>>
  <2> DEFINE i == holder[h].inv
             a == inv[i].addr
  <2>1. /\ holder[h].stage = "previewed" /\ Invited!LockOpenInvitation(i, holder[h].link)
        /\ account' = account \cup {a} /\ Invited!FinishInvitation(i, a, holder[h].link)
    BY <1>5 DEF Invited!PreviewInvitation, Invited!AcceptInvitation
  <2>2. i \in Slots
    BY <2>1 DEF InvitedInv, CallsPlaced
  <2>3. a \in Addresses
    BY <2>1, <2>2 DEF InvitedInv, GoodInvitation, Invited!LockOpenInvitation, Invited!Open
  <2> QED BY <1>2, <1>3, <2>1, <2>2, <2>3, FinishSafe
<1> QED BY <1>4, <1>5

LEMMA ClaimSafe ==
    ASSUME InvitedBounds, InvitedInv, NEW i \in Slots, NEW a \in Addresses,
           Invited!ClaimInvitation(i, a)
    PROVE  InvitedInv' /\ Invited!DecidedOnce
<1>1. /\ a \in account /\ Invited!LockOpenInvitation(i, inv[i].link) /\ inv[i].addr = a
      /\ Invited!FinishInvitation(i, a, inv[i].link) /\ UNCHANGED <<account, holder, delivery>>
  BY DEF Invited!ClaimInvitation, Invited!ForAddress
<1>2. /\ holder' \in [Holders -> HolderCall]
      /\ \A h \in Holders : holder'[h].stage = "previewed" => holder'[h].inv \in Slots
  BY <1>1 DEF InvitedInv, InvitedTypes, CallsPlaced
<1> QED BY <1>1, <1>2, FinishSafe

LEMMA OutsideSafe ==
    ASSUME InvitedBounds, InvitedInv,
           \/ Invited!SetRequired
           \/ \E a \in Addresses, r \in Invited!Roles : Invited!JoinOutside(a, r)
    PROVE  InvitedInv' /\ Invited!DecidedOnce
<1>1. UNCHANGED <<inv, holder, delivery>> /\ account \subseteq account'
  BY DEF Invited!SetRequired, Invited!JoinOutside
<1>2. \/ entered' = entered
      \/ \E a \in Addresses, r \in Invited!Roles :
            entered' = [entered EXCEPT ![a] = [role |-> r, from |-> Nowhere]] /\ a \in account'
  BY DEF Invited!SetRequired, Invited!JoinOutside
<1>3. /\ entered' \in [Addresses -> EnteredRow]
      /\ \A a \in Addresses : entered'[a] = entered[a] \/ (entered'[a].from = Nowhere /\ a \in account')
  <2>1. \A r \in Invited!Roles : [role |-> r, from |-> Nowhere] \in EnteredRow
    BY DEF EnteredRow
  <2> QED BY <1>2, <2>1 DEF InvitedInv, InvitedTypes
<1>4. InvitedTypes' /\ CallsPlaced'
  BY <1>1, <1>3 DEF InvitedInv, InvitedTypes, CallsPlaced
<1>5. \A i \in Slots : RowMoves(inv[i], inv'[i]) /\ (inv'[i].state = "open" => inv[i].state = "open")
  BY <1>1 DEF RowMoves, RowStands, Carries
<1>6. \A a \in Addresses : entered'[a].role # "none" => a \in account'
  BY <1>1, <1>3 DEF InvitedInv
<1> QED BY <1>3, <1>4, <1>5, <1>6, QuietSafe

LEMMA InvitedStep ==
    ASSUME InvitedBounds, InvitedInv, [Invited!Next]_(Invited!vars)
    PROVE  InvitedInv' /\ [Invited!DecidedOnce]_(Invited!vars)
<1>1. CASE UNCHANGED Invited!vars
  BY <1>1 DEF Invited!vars, InvitedInv, InvitedTypes, CallsPlaced, Invited!OneOpenPerAddress,
              Invited!Open, Invited!JoinedAsInvited
<1>2. CASE Invited!Next
  BY <1>2, CreateSafe, RowSafe, EmailSafe, HolderSafe, ClaimSafe, OutsideSafe DEF Invited!Next
<1> QED BY <1>1, <1>2

\* An address has one open invitation at a time; an invitation is accepted
\* with its latest link, also when it was renewed between preview and
\* acceptance; and whoever joined by one has the address and role it was for,
\* alone: for any number of invitations, addresses and holders, and also while
\* links are renewed during delivery (adminauth/invitations.go).
THEOREM InvitationsHold ==
    ASSUME InvitedBounds
    PROVE  Invited!Spec => [](/\ Invited!OneOpenPerAddress /\ Invited!LatestLinkOnly
                              /\ Invited!JoinedAsInvited)
<1>1. InvitedInv => /\ Invited!OneOpenPerAddress /\ Invited!LatestLinkOnly
                    /\ Invited!JoinedAsInvited
  BY DEF InvitedInv, GoodInvitation, Invited!LatestLinkOnly
<1>2. Invited!Init => InvitedInv
  BY InvitedInit
<1>3. InvitedInv /\ [Invited!Next]_(Invited!vars) => InvitedInv'
  BY InvitedStep
<1> QED BY <1>1, <1>2, <1>3, PTL DEF Invited!Spec

\* An invitation that was revoked or accepted stays so and admits nobody
\* afterwards, whatever previews are under way (lockOpenInvitation,
\* adminauth/invitations.go).
THEOREM InvitationsDecided ==
    ASSUME InvitedBounds
    PROVE  Invited!Spec => [][Invited!DecidedOnce]_(Invited!vars)
<1>1. Invited!Init => InvitedInv
  BY InvitedInit
<1>2. InvitedInv /\ [Invited!Next]_(Invited!vars) => InvitedInv' /\ [Invited!DecidedOnce]_(Invited!vars)
  BY InvitedStep
<1> QED BY <1>1, <1>2, PTL DEF Invited!Spec


-----------------------------------------------------------------------------
(* Single sign-on logins, and the owner's changes under them.                *)

CONSTANTS Owners, Allowed, Subjects, Issuers, Logins, Browsers, Callbacks, NoRow,
          MaxPending, MaxSaves, MaxSessions
VARIABLES provider, ssoMember, link, login, start, callback, admitted, ssoSession, saves

SignOn == INSTANCE SingleSignOn WITH
    Calls <- Callbacks, None <- NoRow, member <- ssoMember, call <- callback, session <- ssoSession

LoginRef == [id : Logins, by : Browsers]
SignOnSession == [user : Users, method : {"sso", "other"}, active : BOOLEAN, spared : BOOLEAN,
                  late : BOOLEAN, login : LoginRef \cup {NoRow}, subject : Subjects \cup {NoRow},
                  n : Nat]
CallbackRow == [stage : {"idle", "consumed", "read", "resolved"}, login : LoginRef \cup {NoRow},
                provider : SignOn!Providers \cup {SignOn!NoProvider}, subject : Subjects \cup {NoRow},
                user : Users \cup {NoRow}, late : BOOLEAN]
LinkRow == [user : Users \cup {NoRow}, vouched : BOOLEAN, late : BOOLEAN]
LoginRow == [state : {"none", "pending", "consumed"}, browser : Browsers \cup {NoRow}]

SignOnBounds ==
    /\ NoRow \notin Users /\ NoRow \notin Issuers /\ NoRow \notin SignOnSession
    /\ IsFiniteSet(Logins) /\ IsFiniteSet(Browsers) /\ MaxPending \in Nat \ {0}

SignOnTypes ==
    /\ provider \in SignOn!Providers \cup {SignOn!NoProvider}
    /\ ssoMember \in [Users -> {"none", "active", "disabled"}]
    /\ link \in [Issuers -> [Subjects -> LinkRow]]
    /\ login \in [Logins -> LoginRow] /\ start \in [Browsers -> {"idle", "counted"}]
    /\ callback \in [Callbacks -> CallbackRow] /\ admitted \in [Users -> {"none", "checked", "overtaken"}]
    /\ ssoSession \subseteq SignOnSession /\ IsFiniteSet(ssoSession)

Held(c) == callback[c].stage # "idle"

\* A login is spent, in the browser that began it, by whoever has it.
SpentIn(logins, ref) == ref \in LoginRef /\ logins[ref.id] = [state |-> "consumed", browser |-> ref.by]

\* It is one callback's or one session's.
LoginsPaid ==
    /\ \A x \in ssoSession : x.method = "sso" => SpentIn(login, x.login) /\ x.subject \in Subjects
    /\ \A x, y \in ssoSession : x.method = "sso" /\ y.method = "sso" /\ x # y => x.login.id # y.login.id
    /\ \A c \in Callbacks : Held(c) => SpentIn(login, callback[c].login)
    /\ \A c, d \in Callbacks : Held(c) /\ Held(d) /\ c # d => callback[c].login.id # callback[d].login.id
    /\ \A c \in Callbacks, x \in ssoSession :
          Held(c) /\ x.method = "sso" => x.login.id # callback[c].login.id

\* What a callback has read and resolved.
CallbacksRead == \A c \in Callbacks :
    /\ callback[c].stage \in {"read", "resolved"} =>
          callback[c].provider \in SignOn!Providers /\ callback[c].provider.enabled
    /\ callback[c].stage = "resolved" => callback[c].user \in Users /\ callback[c].subject \in Subjects

\* An administrator is linked once.
LinkedOnce == \A i, j \in Issuers, s, t \in Subjects :
    link[i][s].user # NoRow /\ link[i][s].user = link[j][t].user => i = j /\ s = t

RequiredKept ==
    /\ provider.require => provider.enabled
    /\ SignOn!RequiredHolds
    /\ \A u \in Users : admitted[u] = "checked" => ~SignOn!SSORequiredFor(u)

Counted == {b \in Browsers : start[b] = "counted"}
PendingFew == Cardinality(SignOn!Pending) + Cardinality(Counted) < MaxPending + Cardinality(Browsers)

\* A callback that no owner's change overtook has the provider as it is and the
\* link it resolved, and its session rests on both.
ProviderStands ==
    /\ \A c \in Callbacks : callback[c].stage \in {"read", "resolved"} /\ ~callback[c].late =>
          callback[c].provider = provider
    /\ \A c \in Callbacks : callback[c].stage = "resolved" /\ ~callback[c].late =>
          link[callback[c].provider.issuer][callback[c].subject].user = callback[c].user
    /\ \A x \in ssoSession : x.active /\ x.method = "sso" /\ ~x.spared /\ ~x.late =>
          provider.enabled /\ \E i \in Issuers : link[i][x.subject].user = x.user
    /\ SignOn!NoOrphanIdentities

SignOnInv ==
    /\ SignOnTypes /\ LoginsPaid /\ CallbacksRead /\ LinkedOnce /\ RequiredKept
    /\ SignOn!LinksVouched /\ PendingFew /\ ProviderStands

LEMMA SignOnInit ==
    ASSUME SignOnBounds, SignOn!Init PROVE SignOnInv
<1>1. SignOnTypes
  BY FS_EmptySet DEF SignOn!Init, SignOnTypes, SignOn!NoLogin, SignOn!IdleCall, SignOn!Unlinked, LoginRow,
                     LinkRow, CallbackRow
<1>2. \A c \in Callbacks : ~Held(c) /\ callback[c].stage = "idle"
  BY DEF SignOn!Init, SignOn!IdleCall, Held
<1>3. LoginsPaid /\ CallbacksRead /\ RequiredKept
  BY <1>2 DEF SignOn!Init, LoginsPaid, CallbacksRead, RequiredKept, SignOn!NoProvider, SignOn!RequiredHolds,
              SignOn!Active, SignOn!SSORequiredFor
<1>4. \A i \in Issuers, s \in Subjects : link[i][s] = SignOn!Unlinked /\ link[i][s].user = NoRow
  BY DEF SignOn!Init, SignOn!Unlinked
<1>5. LinkedOnce /\ SignOn!LinksVouched
  BY <1>4 DEF LinkedOnce, SignOn!LinksVouched
<1>6. SignOn!Pending = {} /\ Counted = {}
  BY DEF SignOn!Init, SignOn!NoLogin, SignOn!Pending, Counted
<1>7. PendingFew
  <2>1. Cardinality(Browsers) \in Nat
    BY FS_CardinalityType DEF SignOnBounds
  <2> QED BY <1>6, <2>1, FS_EmptySet DEF PendingFew, SignOnBounds
<1>8. ProviderStands
  BY <1>2, <1>4 DEF SignOn!Init, ProviderStands, SignOn!NoOrphanIdentities
<1> QED BY <1>1, <1>3, <1>5, <1>7, <1>8 DEF SignOnInv

\* A session as it is after one that ended it or left it.
SessionStays(x, y) ==
    /\ y.user = x.user /\ y.method = x.method /\ y.login = x.login /\ y.subject = x.subject
    /\ y.late = x.late /\ (y.active => x.active)
    /\ y.active /\ ~y.spared => x.active /\ ~x.spared

LEMMA EndedSessions ==
    ASSUME SignOnBounds, SignOnTypes, NEW S, NEW acting
    PROVE  /\ SignOn!Ended(S, acting) \subseteq SignOnSession /\ IsFiniteSet(SignOn!Ended(S, acting))
           /\ \E f \in [ssoSession -> SignOnSession] :
                 /\ SignOn!Ended(S, acting) = {f[x] : x \in ssoSession}
                 /\ \A x \in ssoSession : SessionStays(x, f[x])
                 /\ \A x \in ssoSession : f[x].active /\ ~f[x].spared => x \notin S
                 /\ \A x \in ssoSession : f[x].active => x \notin S \/ x = acting
<1> DEFINE f == [x \in ssoSession |->
                   CASE x \in S /\ x # acting -> [x EXCEPT !.active = FALSE]
                     [] x \in S /\ x = acting -> [x EXCEPT !.spared = TRUE]
                     [] OTHER -> x]
<1>1. ASSUME NEW x \in ssoSession
      PROVE  /\ f[x] \in SignOnSession /\ SessionStays(x, f[x])
             /\ f[x].active /\ ~f[x].spared => x \notin S
             /\ f[x].active => x \notin S \/ x = acting
  <2>0. x \in SignOnSession
    BY DEF SignOnTypes
  <2>1. CASE x \in S /\ x # acting
    <3>1. f[x] = [x EXCEPT !.active = FALSE]
      BY <2>1
    <3> QED BY <2>0, <2>1, <3>1 DEF SessionStays, SignOnSession
  <2>2. CASE x \in S /\ x = acting
    <3>1. f[x] = [x EXCEPT !.spared = TRUE]
      BY <2>2
    <3> QED BY <2>0, <2>2, <3>1 DEF SessionStays, SignOnSession
  <2>3. CASE x \notin S
    <3>1. f[x] = x
      BY <2>3
    <3> QED BY <2>0, <2>3, <3>1 DEF SessionStays
  <2> QED BY <2>1, <2>2, <2>3
<1>2. SignOn!Ended(S, acting) = {f[x] : x \in ssoSession}
  BY DEF SignOn!Ended
<1> HIDE DEF f
<1>3. f \in [ssoSession -> SignOnSession]
  <2>1. f = [x \in ssoSession |-> f[x]]
    BY DEF f
  <2> QED BY <1>1, <2>1
<1>4. IsFiniteSet({f[x] : x \in ssoSession})
  <2>1. IsFiniteSet(ssoSession)
    BY DEF SignOnTypes
  <2>2. f \in Surjection(ssoSession, {f[x] : x \in ssoSession})
    BY <1>3 DEF Surjection
  <2> QED BY <2>1, <2>2, FS_Surjection
<1> QED BY <1>1, <1>2, <1>3, <1>4

SessionsCarried == \E f \in [ssoSession -> SignOnSession] :
    ssoSession' = {f[x] : x \in ssoSession} /\ \A x \in ssoSession : SessionStays(x, f[x])

LEMMA SameSessionsCarried ==
    ASSUME SignOnTypes, UNCHANGED ssoSession PROVE SessionsCarried
<1> DEFINE f == [x \in ssoSession |-> x]
<1>1. f \in [ssoSession -> SignOnSession] /\ ssoSession' = {f[x] : x \in ssoSession}
  BY DEF SignOnTypes
<1>2. \A x \in ssoSession : SessionStays(x, f[x])
  BY DEF SessionStays
<1> HIDE DEF f
<1> QED BY <1>1, <1>2 DEF SessionsCarried

\* Who has a login keeps it, as long as nobody spends or opens anything.
LEMMA PaidKept ==
    ASSUME SignOnBounds, SignOnTypes, LoginsPaid, SessionsCarried,
           \A l \in Logins : login[l].state = "consumed" => login'[l] = login[l],
           \A c \in Callbacks : Held(c)' => Held(c) /\ callback'[c].login = callback[c].login
    PROVE  LoginsPaid'
<1>1. PICK f \in [ssoSession -> SignOnSession] :
          ssoSession' = {f[x] : x \in ssoSession} /\ \A x \in ssoSession : SessionStays(x, f[x])
  BY DEF SessionsCarried
<1>2. ASSUME NEW ref, SpentIn(login, ref) PROVE SpentIn(login', ref)
  <2>1. ref.id \in Logins /\ login[ref.id].state = "consumed"
    BY <1>2 DEF SpentIn, LoginRef
  <2> QED BY <1>2, <2>1 DEF SpentIn
<1>3. \A x \in ssoSession : /\ f[x].method = x.method /\ f[x].login = x.login
                            /\ f[x].subject = x.subject
  BY <1>1 DEF SessionStays
<1>4. \A x \in ssoSession' : x.method = "sso" => SpentIn(login', x.login) /\ x.subject \in Subjects
  BY <1>1, <1>2, <1>3 DEF LoginsPaid
<1>5. \A x, y \in ssoSession' : x.method = "sso" /\ y.method = "sso" /\ x # y => x.login.id # y.login.id
  BY <1>1, <1>3 DEF LoginsPaid
<1>6. \A c \in Callbacks : Held(c)' => SpentIn(login', callback'[c].login)
  BY <1>2 DEF LoginsPaid
<1>7. \A c, d \in Callbacks : Held(c)' /\ Held(d)' /\ c # d => callback'[c].login.id # callback'[d].login.id
  BY DEF LoginsPaid
<1>8. \A c \in Callbacks, x \in ssoSession' :
          Held(c)' /\ x.method = "sso" => x.login.id # callback'[c].login.id
  BY <1>1, <1>3 DEF LoginsPaid
<1> QED BY <1>4, <1>5, <1>6, <1>7, <1>8 DEF LoginsPaid

LEMMA PendingFinite ==
    ASSUME SignOnBounds, SignOnTypes
    PROVE  /\ IsFiniteSet(SignOn!Pending) /\ IsFiniteSet(Counted)
           /\ Cardinality(SignOn!Pending) \in Nat /\ Cardinality(Counted) \in Nat
           /\ Cardinality(Browsers) \in Nat
<1>1. SignOn!Pending \subseteq Logins /\ Counted \subseteq Browsers
  BY DEF SignOn!Pending, Counted
<1>2. IsFiniteSet(SignOn!Pending) /\ IsFiniteSet(Counted)
  BY <1>1, FS_Subset DEF SignOnBounds
<1> QED BY <1>2, FS_CardinalityType DEF SignOnBounds

LEMMA PendingKept ==
    ASSUME SignOnBounds, SignOnTypes, PendingFew, UNCHANGED start,
           SignOn!Pending' \subseteq SignOn!Pending
    PROVE  PendingFew'
<1>1. /\ IsFiniteSet(SignOn!Pending) /\ Cardinality(SignOn!Pending) \in Nat
      /\ Cardinality(Counted) \in Nat /\ Cardinality(Browsers) \in Nat
  BY PendingFinite
<1>2. /\ Cardinality(SignOn!Pending') <= Cardinality(SignOn!Pending)
      /\ Cardinality(SignOn!Pending') \in Nat
  BY <1>1, FS_Subset, FS_CardinalityType
<1>3. Counted' = Counted
  BY DEF Counted
<1> QED BY <1>1, <1>2, <1>3 DEF PendingFew, SignOnBounds

LEMMA RequiredCarried ==
    ASSUME RequiredKept, SessionsCarried, UNCHANGED <<provider, admitted>>
    PROVE  RequiredKept'
<1>1. PICK f \in [ssoSession -> SignOnSession] :
          ssoSession' = {f[x] : x \in ssoSession} /\ \A x \in ssoSession : SessionStays(x, f[x])
  BY DEF SessionsCarried
<1>2. SignOn!RequiredHolds'
  BY <1>1 DEF RequiredKept, SignOn!RequiredHolds, SignOn!Active, SessionStays
<1> QED BY <1>2 DEF RequiredKept, SignOn!SSORequiredFor

LEMMA RequiredSame ==
    ASSUME RequiredKept, UNCHANGED <<provider, admitted, ssoSession>>
    PROVE  RequiredKept'
BY DEF RequiredKept, SignOn!RequiredHolds, SignOn!Active, SignOn!SSORequiredFor

\* What an owner's change does to the callbacks and the sign-ins under way.
LEMMA OvertakenRows ==
    ASSUME SignOnTypes, SignOn!Overtaken
    PROVE  /\ callback' \in [Callbacks -> CallbackRow]
           /\ admitted' \in [Users -> {"none", "checked", "overtaken"}]
           /\ \A u \in Users : admitted'[u] # "checked"
           /\ \A c \in Callbacks :
                 /\ callback'[c].stage = callback[c].stage /\ callback'[c].login = callback[c].login
                 /\ callback'[c].provider = callback[c].provider /\ callback'[c].user = callback[c].user
                 /\ callback'[c].subject = callback[c].subject
                 /\ callback[c].stage \in {"read", "resolved"} => callback'[c].late
<1>1. ASSUME NEW c \in Callbacks
      PROVE  /\ callback'[c] \in CallbackRow
             /\ callback'[c].stage = callback[c].stage /\ callback'[c].login = callback[c].login
             /\ callback'[c].provider = callback[c].provider /\ callback'[c].user = callback[c].user
             /\ callback'[c].subject = callback[c].subject
             /\ callback[c].stage \in {"read", "resolved"} => callback'[c].late
  <2>1. callback[c] \in CallbackRow
    BY DEF SignOnTypes
  <2>2. CASE callback[c].stage \in {"read", "resolved"}
    <3>1. callback'[c] = [callback[c] EXCEPT !.late = TRUE]
      BY <2>2 DEF SignOn!Overtaken
    <3> QED BY <2>1, <3>1 DEF CallbackRow
  <2>3. CASE callback[c].stage \notin {"read", "resolved"}
    <3>1. callback'[c] = callback[c]
      BY <2>3 DEF SignOn!Overtaken
    <3> QED BY <2>1, <2>3, <3>1
  <2> QED BY <2>2, <2>3
<1>2. callback' = [c \in Callbacks |-> callback'[c]]
  BY DEF SignOn!Overtaken
<1>3. /\ admitted' \in [Users -> {"none", "checked", "overtaken"}]
      /\ \A u \in Users : admitted'[u] # "checked"
  BY DEF SignOn!Overtaken
<1> QED BY <1>1, <1>2, <1>3

\* The owner's changes.
LEMMA SaveSafe ==
    ASSUME SignOnBounds, SignOnInv, NEW p \in SignOn!Providers, NEW acting \in SignOn!Acting,
           SignOn!SaveSSOProvider(p, acting)
    PROVE  SignOnInv'
<1>0. SignOnTypes
  BY DEF SignOnInv
<1> DEFINE S == SignOn!EndedOnSave(p)
<1>1. /\ provider' = p /\ (p.require => p.enabled) /\ ssoSession' = SignOn!Ended(S, acting)
      /\ SignOn!Overtaken /\ UNCHANGED <<ssoMember, link, login, start>>
  BY DEF SignOn!SaveSSOProvider
<1>2. /\ ~p.enabled => {x \in ssoSession : x.method = "sso"} \subseteq S
      /\ p.require => {x \in ssoSession : x.method # "sso" /\ x.user \notin Owners} \subseteq S
  BY <1>1 DEF SignOn!EndedOnSave
<1> HIDE DEF S
<1>3. PICK f \in [ssoSession -> SignOnSession] :
          /\ ssoSession' = {f[x] : x \in ssoSession} /\ \A x \in ssoSession : SessionStays(x, f[x])
          /\ \A x \in ssoSession : f[x].active /\ ~f[x].spared => x \notin S
          /\ \A x \in ssoSession : f[x].active => x \notin S \/ x = acting
  BY <1>0, <1>1, EndedSessions
<1>4. ssoSession' \subseteq SignOnSession /\ IsFiniteSet(ssoSession')
  BY <1>0, <1>1, EndedSessions
<1>t. /\ callback' \in [Callbacks -> CallbackRow]
      /\ admitted' \in [Users -> {"none", "checked", "overtaken"}]
      /\ \A u \in Users : admitted'[u] # "checked"
      /\ \A c \in Callbacks :
            /\ callback'[c].stage = callback[c].stage /\ callback'[c].login = callback[c].login
            /\ callback'[c].provider = callback[c].provider /\ callback'[c].user = callback[c].user
            /\ callback'[c].subject = callback[c].subject
            /\ callback[c].stage \in {"read", "resolved"} => callback'[c].late
  BY <1>0, <1>1, OvertakenRows
<1>5. SignOnTypes'
  BY <1>0, <1>1, <1>4, <1>t DEF SignOnTypes
<1>6. SessionsCarried
  BY <1>3 DEF SessionsCarried
<1>7. LoginsPaid'
  <2>1. /\ \A l \in Logins : login[l].state = "consumed" => login'[l] = login[l]
        /\ \A c \in Callbacks : Held(c)' => Held(c) /\ callback'[c].login = callback[c].login
    BY <1>1, <1>t DEF Held
  <2> QED BY <1>0, <1>6, <2>1, PaidKept DEF SignOnInv
<1>8. CallbacksRead' /\ LinkedOnce' /\ SignOn!LinksVouched'
  BY <1>1, <1>t DEF SignOnInv, CallbacksRead, LinkedOnce, SignOn!LinksVouched
<1>9. RequiredKept'
  <2>1. ASSUME NEW y \in ssoSession', y.active, y.method # "sso", provider'.require, y.user \notin Owners
        PROVE  FALSE
    <3>1. PICK x \in ssoSession : y = f[x]
      BY <1>3
    <3>2. x.active /\ x.method # "sso" /\ x.user \notin Owners
      BY <1>3, <2>1, <3>1 DEF SessionStays
    <3>3. x \in S
      BY <1>1, <1>2, <2>1, <3>2
    <3>4. x = acting /\ x \in SignOnSession
      BY <1>0, <1>3, <2>1, <3>1, <3>3 DEF SignOnTypes
    <3> QED BY <3>2, <3>4 DEF SignOn!Acting, SignOnBounds
  <2> QED BY <1>1, <1>t, <2>1 DEF RequiredKept, SignOn!RequiredHolds, SignOn!Active
<1>10. PendingFew'
  BY <1>0, <1>1, PendingKept DEF SignOnInv, SignOn!Pending
<1>11. ProviderStands'
  <2>1. \A c \in Callbacks : callback'[c].stage \in {"read", "resolved"} => callback'[c].late
    BY <1>t
  <2>2. ASSUME NEW y \in ssoSession', y.active, y.method = "sso", ~y.spared, ~y.late
        PROVE  provider'.enabled /\ \E i \in Issuers : link'[i][y.subject].user = y.user
    <3>1. PICK x \in ssoSession : y = f[x]
      BY <1>3
    <3>2. /\ x \notin S /\ x.active /\ ~x.spared /\ ~x.late /\ x.method = "sso"
          /\ x.subject = y.subject /\ x.user = y.user
      BY <1>3, <2>2, <3>1 DEF SessionStays
    <3>3. p.enabled
      BY <1>2, <3>2 DEF SignOn!Providers
    <3> QED BY <1>1, <3>2, <3>3 DEF SignOnInv, ProviderStands
  <2>3. provider' # SignOn!NoProvider
    BY <1>1 DEF SignOnBounds, SignOn!Providers, SignOn!NoProvider
  <2> QED BY <2>1, <2>2, <2>3 DEF ProviderStands, SignOn!NoOrphanIdentities
<1> QED BY <1>5, <1>7, <1>8, <1>9, <1>10, <1>11 DEF SignOnInv

LEMMA RemoveSafe ==
    ASSUME SignOnBounds, SignOnInv, NEW acting, SignOn!RemoveSSOProvider(acting)
    PROVE  SignOnInv'
<1>0. SignOnTypes
  BY DEF SignOnInv
<1> DEFINE S == {x \in ssoSession : x.method = "sso"}
<1>1. /\ provider' = SignOn!NoProvider /\ link' = SignOn!WithoutIdentities
      /\ ssoSession' = SignOn!Ended(S, acting) /\ SignOn!Overtaken /\ UNCHANGED <<ssoMember, start>>
      /\ login' = [l \in Logins |-> IF login[l].state = "none" THEN login[l]
                                    ELSE [login[l] EXCEPT !.state = "consumed"]]
  BY DEF SignOn!RemoveSSOProvider
<1>2. \A i \in Issuers, s \in Subjects : link'[i][s] = SignOn!Unlinked /\ link'[i][s].user = NoRow
  BY <1>1 DEF SignOn!WithoutIdentities, SignOn!Unlinked
<1> HIDE DEF S
<1>3. PICK f \in [ssoSession -> SignOnSession] :
          /\ ssoSession' = {f[x] : x \in ssoSession} /\ \A x \in ssoSession : SessionStays(x, f[x])
          /\ \A x \in ssoSession : f[x].active /\ ~f[x].spared => x \notin S
  BY <1>0, <1>1, EndedSessions
<1>4. ssoSession' \subseteq SignOnSession /\ IsFiniteSet(ssoSession')
  BY <1>0, <1>1, EndedSessions
<1>t. /\ callback' \in [Callbacks -> CallbackRow]
      /\ admitted' \in [Users -> {"none", "checked", "overtaken"}]
      /\ \A u \in Users : admitted'[u] # "checked"
      /\ \A c \in Callbacks :
            /\ callback'[c].stage = callback[c].stage /\ callback'[c].login = callback[c].login
            /\ callback'[c].provider = callback[c].provider /\ callback'[c].user = callback[c].user
            /\ callback'[c].subject = callback[c].subject
            /\ callback[c].stage \in {"read", "resolved"} => callback'[c].late
  BY <1>0, <1>1, OvertakenRows
<1>5. /\ login' \in [Logins -> LoginRow]
      /\ \A l \in Logins : login[l].state = "consumed" => login'[l] = login[l]
      /\ \A l \in Logins : login'[l].state # "pending"
  <2>1. ASSUME NEW l \in Logins
        PROVE  /\ login'[l] \in LoginRow /\ login'[l].state # "pending"
               /\ login[l].state = "consumed" => login'[l] = login[l]
    <3>1. login[l] \in LoginRow
      BY <1>0 DEF SignOnTypes
    <3>2. login'[l] = IF login[l].state = "none" THEN login[l] ELSE [login[l] EXCEPT !.state = "consumed"]
      BY <1>1
    <3> QED BY <3>1, <3>2 DEF LoginRow
  <2> QED BY <1>1, <2>1
<1>6. SignOnTypes'
  <2>1. link' \in [Issuers -> [Subjects -> LinkRow]]
    BY <1>1 DEF SignOn!WithoutIdentities, SignOn!Unlinked, LinkRow
  <2>2. provider' \in SignOn!Providers \cup {SignOn!NoProvider}
    BY <1>1
  <2> QED BY <1>0, <1>1, <1>4, <1>5, <1>t, <2>1, <2>2 DEF SignOnTypes
<1>7. SessionsCarried
  BY <1>3 DEF SessionsCarried
<1>8. LoginsPaid'
  <2>1. \A c \in Callbacks : Held(c)' => Held(c) /\ callback'[c].login = callback[c].login
    BY <1>t DEF Held
  <2> QED BY <1>0, <1>5, <1>7, <2>1, PaidKept DEF SignOnInv
<1>9. CallbacksRead' /\ LinkedOnce' /\ SignOn!LinksVouched'
  BY <1>2, <1>t DEF SignOnInv, CallbacksRead, LinkedOnce, SignOn!LinksVouched
<1>10. RequiredKept'
  BY <1>1, <1>t DEF RequiredKept, SignOn!RequiredHolds, SignOn!NoProvider
<1>11. PendingFew'
  BY <1>0, <1>1, <1>5, PendingKept DEF SignOnInv, SignOn!Pending
<1>12. ProviderStands'
  <2>1. \A c \in Callbacks : callback'[c].stage \in {"read", "resolved"} => callback'[c].late
    BY <1>t
  <2>2. \A y \in ssoSession' : ~(y.active /\ y.method = "sso" /\ ~y.spared)
    BY <1>3 DEF SessionStays, S
  <2> QED BY <1>2, <2>1, <2>2 DEF ProviderStands, SignOn!NoOrphanIdentities
<1> QED BY <1>6, <1>8, <1>9, <1>10, <1>11, <1>12 DEF SignOnInv

\* Steps that leave the provider and the links alone.
LEMMA StandsCarried ==
    ASSUME ProviderStands, SessionsCarried, UNCHANGED <<provider, link>>,
           \A c \in Callbacks : callback'[c] = callback[c] \/ callback'[c].stage \in {"idle", "consumed"}
    PROVE  ProviderStands'
<1>1. PICK f \in [ssoSession -> SignOnSession] :
          ssoSession' = {f[x] : x \in ssoSession} /\ \A x \in ssoSession : SessionStays(x, f[x])
  BY DEF SessionsCarried
<1>2. \A y \in ssoSession' : y.active /\ y.method = "sso" /\ ~y.spared /\ ~y.late =>
          provider'.enabled /\ \E i \in Issuers : link'[i][y.subject].user = y.user
  BY <1>1 DEF SessionStays, ProviderStands
<1>3. \A c \in Callbacks : /\ callback'[c].stage \in {"read", "resolved"} /\ ~callback'[c].late =>
                                 callback'[c].provider = provider
                           /\ callback'[c].stage = "resolved" /\ ~callback'[c].late =>
                                 link[callback'[c].provider.issuer][callback'[c].subject].user = callback'[c].user
  BY DEF ProviderStands
<1>4. SignOn!NoOrphanIdentities'
  BY DEF ProviderStands, SignOn!NoOrphanIdentities
<1> QED BY <1>2, <1>3, <1>4 DEF ProviderStands

LEMMA EnableSafe ==
    ASSUME SignOnBounds, SignOnInv, NEW u \in Users, SignOn!SetEnabled(u)
    PROVE  SignOnInv'
<1>0. SignOnTypes
  BY DEF SignOnInv
<1>1. /\ UNCHANGED <<provider, link, login, start, callback, admitted>>
      /\ ssoMember' = [ssoMember EXCEPT ![u] = IF @ = "active" THEN "disabled" ELSE "active"]
      /\ ssoSession' = ssoSession \/ ssoSession' = SignOn!Ended({x \in ssoSession : x.user = u}, NoRow)
  BY DEF SignOn!SetEnabled
<1>2. SessionsCarried /\ ssoSession' \subseteq SignOnSession /\ IsFiniteSet(ssoSession')
  <2>1. CASE ssoSession' = ssoSession
    BY <1>0, <2>1, SameSessionsCarried DEF SignOnTypes
  <2>2. CASE ssoSession' = SignOn!Ended({x \in ssoSession : x.user = u}, NoRow)
    <3>1. \E f \in [ssoSession -> SignOnSession] :
             ssoSession' = {f[x] : x \in ssoSession} /\ \A x \in ssoSession : SessionStays(x, f[x])
      <4> DEFINE S == {x \in ssoSession : x.user = u}
      <4>1. ssoSession' = SignOn!Ended(S, NoRow)
        BY <2>2
      <4> HIDE DEF S
      <4> QED BY <1>0, <4>1, EndedSessions
    <3>2. ssoSession' \subseteq SignOnSession /\ IsFiniteSet(ssoSession')
      BY <1>0, <2>2, EndedSessions
    <3> QED BY <3>1, <3>2 DEF SessionsCarried
  <2> QED BY <1>1, <2>1, <2>2
<1>3. SignOnTypes'
  BY <1>0, <1>1, <1>2 DEF SignOnTypes
<1>4. LoginsPaid'
  BY <1>0, <1>1, <1>2, PaidKept DEF SignOnInv, Held
<1>5. CallbacksRead' /\ LinkedOnce' /\ SignOn!LinksVouched'
  BY <1>1 DEF SignOnInv, CallbacksRead, LinkedOnce, SignOn!LinksVouched
<1>6. RequiredKept'
  BY <1>1, <1>2, RequiredCarried DEF SignOnInv
<1>7. PendingFew'
  BY <1>0, <1>1, PendingKept DEF SignOnInv, SignOn!Pending
<1>8. ProviderStands'
  BY <1>1, <1>2, StandsCarried DEF SignOnInv
<1> QED BY <1>3, <1>4, <1>5, <1>6, <1>7, <1>8 DEF SignOnInv

\* A login that begins or expires.
LEMMA StartSafe ==
    ASSUME SignOnBounds, SignOnInv, SignOnTypes', PendingFew',
           UNCHANGED <<provider, ssoMember, link, callback, admitted, ssoSession, saves>>,
           \A l \in Logins : login[l].state = "consumed" => login'[l] = login[l]
    PROVE  SignOnInv'
<1>1. SessionsCarried
  BY SameSessionsCarried DEF SignOnInv
<1>2. LoginsPaid'
  BY <1>1, PaidKept DEF SignOnInv, Held
<1>3. CallbacksRead' /\ LinkedOnce' /\ SignOn!LinksVouched' /\ RequiredKept'
  BY <1>1, RequiredCarried DEF SignOnInv, CallbacksRead, LinkedOnce, SignOn!LinksVouched
<1>4. ProviderStands'
  BY <1>1, StandsCarried DEF SignOnInv
<1> QED BY <1>2, <1>3, <1>4 DEF SignOnInv

LEMMA CountSafe ==
    ASSUME SignOnBounds, SignOnInv, NEW b \in Browsers, SignOn!CountPending(b)
    PROVE  SignOnInv'
<1>0. SignOnTypes
  BY DEF SignOnInv
<1>1. /\ start[b] = "idle" /\ start' = [start EXCEPT ![b] = "counted"] /\ SignOn!Room
      /\ UNCHANGED <<provider, ssoMember, link, login, callback, admitted, ssoSession, saves>>
  BY DEF SignOn!CountPending
<1>2. SignOnTypes'
  BY <1>0, <1>1 DEF SignOnTypes
<1>3. PendingFew'
  <2>1. SignOn!Pending' = SignOn!Pending
    BY <1>1 DEF SignOn!Pending
  <2>2. \A S : SignOn!Cardinality(S) = Cardinality(S)
    BY Zenon DEF SignOn!Cardinality, Cardinality
  <2>3. Cardinality(SignOn!Pending) < MaxPending
    BY <1>1, <2>2 DEF SignOn!Room
  <2>4. /\ Cardinality(SignOn!Pending) \in Nat /\ Cardinality(Browsers) \in Nat
    BY <1>0, PendingFinite
  <2>5. Cardinality(Counted') <= Cardinality(Browsers) /\ Cardinality(Counted') \in Nat
    <3>1. Counted' \subseteq Browsers
      BY DEF Counted
    <3>2. IsFiniteSet(Browsers)
      BY DEF SignOnBounds
    <3> QED BY <3>1, <3>2, FS_Subset, FS_CardinalityType
  <2> QED BY <2>1, <2>3, <2>4, <2>5 DEF PendingFew, SignOnBounds
<1> QED BY <1>1, <1>2, <1>3, StartSafe

LEMMA CreateStateSafe ==
    ASSUME SignOnBounds, SignOnInv, NEW b \in Browsers, NEW l \in Logins, SignOn!CreateSSOState(b, l)
    PROVE  SignOnInv'
<1>0. SignOnTypes
  BY DEF SignOnInv
<1>1. /\ start[b] = "counted" /\ login[l].state = "none" /\ start' = [start EXCEPT ![b] = "idle"]
      /\ login' = [login EXCEPT ![l] = [state |-> "pending", browser |-> b]]
      /\ UNCHANGED <<provider, ssoMember, link, callback, admitted, ssoSession, saves>>
  BY DEF SignOn!CreateSSOState
<1>2. SignOnTypes' /\ \A k \in Logins : login[k].state = "consumed" => login'[k] = login[k]
  BY <1>0, <1>1 DEF SignOnTypes, LoginRow
<1>3. PendingFew'
  <2>1. SignOn!Pending' = SignOn!Pending \cup {l} /\ l \notin SignOn!Pending
    BY <1>0, <1>1 DEF SignOn!Pending, SignOnTypes
  <2>2. Counted' = Counted \ {b} /\ b \in Counted
    BY <1>0, <1>1 DEF Counted, SignOnTypes
  <2>3. /\ IsFiniteSet(SignOn!Pending) /\ IsFiniteSet(Counted) /\ Cardinality(Browsers) \in Nat
        /\ Cardinality(SignOn!Pending) \in Nat /\ Cardinality(Counted) \in Nat
    BY <1>0, PendingFinite
  <2>4. Cardinality(SignOn!Pending') = Cardinality(SignOn!Pending) + 1
    BY <2>1, <2>3, FS_AddElement
  <2>5. Cardinality(Counted') = Cardinality(Counted) - 1
    BY <2>2, <2>3, FS_RemoveElement
  <2>6. Cardinality(SignOn!Pending) + Cardinality(Counted) < MaxPending + Cardinality(Browsers)
    BY DEF SignOnInv, PendingFew
  <2> QED BY <2>3, <2>4, <2>5, <2>6 DEF PendingFew, SignOnBounds
<1> QED BY <1>1, <1>2, <1>3, StartSafe

LEMMA ExpireSafe ==
    ASSUME SignOnBounds, SignOnInv, NEW l \in Logins, SignOn!ExpireLogin(l)
    PROVE  SignOnInv'
<1>0. SignOnTypes
  BY DEF SignOnInv
<1>1. /\ login[l].state = "pending" /\ login' = [login EXCEPT ![l].state = "consumed"]
      /\ UNCHANGED <<provider, ssoMember, link, start, callback, admitted, ssoSession, saves>>
  BY DEF SignOn!ExpireLogin
<1>2. SignOnTypes' /\ \A k \in Logins : login[k].state = "consumed" => login'[k] = login[k]
  BY <1>0, <1>1 DEF SignOnTypes, LoginRow
<1>3. SignOn!Pending' \subseteq SignOn!Pending
  BY <1>0, <1>1 DEF SignOn!Pending, SignOnTypes, LoginRow
<1>4. PendingFew'
  BY <1>0, <1>1, <1>3, PendingKept DEF SignOnInv
<1> QED BY <1>1, <1>2, <1>4, StartSafe

\* The callback takes a login that nobody has.
LEMMA ConsumeSafe ==
    ASSUME SignOnBounds, SignOnInv, NEW c \in Callbacks, NEW l \in Logins, NEW b \in Browsers,
           SignOn!ConsumeSSOState(c, l, b)
    PROVE  SignOnInv'
<1>0. SignOnTypes
  BY DEF SignOnInv
<1> DEFINE ref == [id |-> l, by |-> b]
           row == [SignOn!IdleCall EXCEPT !.stage = "consumed", !.login = ref]
<1>1. /\ callback[c].stage = "idle" /\ login[l].state = "pending" /\ login[l].browser = b
      /\ login' = [login EXCEPT ![l] = [login[l] EXCEPT !.state = "consumed"]]
      /\ callback' = [callback EXCEPT ![c] = row]
      /\ UNCHANGED <<provider, ssoMember, link, start, admitted, ssoSession, saves>>
  BY DEF SignOn!ConsumeSSOState, SignOn!Consumable, SignOn!Spent
<1>2. row \in CallbackRow /\ row.stage = "consumed" /\ row.login = ref /\ ref \in LoginRef
  BY DEF SignOn!IdleCall, CallbackRow, LoginRef
<1>3. ref.id = l /\ ref.by = b
  OBVIOUS
<1> HIDE DEF ref, row
<1>4. /\ login' \in [Logins -> LoginRow] /\ login'[l] = [state |-> "consumed", browser |-> b]
      /\ \A k \in Logins : k # l => login'[k] = login[k]
  BY <1>0, <1>1 DEF SignOnTypes, LoginRow
<1>5. /\ callback' \in [Callbacks -> CallbackRow] /\ callback'[c] = row
      /\ \A d \in Callbacks : d # c => callback'[d] = callback[d]
  BY <1>0, <1>1, <1>2 DEF SignOnTypes
<1>6. SignOnTypes'
  BY <1>0, <1>1, <1>4, <1>5 DEF SignOnTypes
<1>7. \A r : SpentIn(login, r) => r.id # l /\ SpentIn(login', r)
  BY <1>1, <1>4 DEF SpentIn, LoginRef
<1>8. LoginsPaid'
  <2>1. SpentIn(login', ref)
    BY <1>2, <1>3, <1>4 DEF SpentIn
  <2>2. \A x \in ssoSession' : x.method = "sso" =>
           SpentIn(login', x.login) /\ x.login.id # l /\ x.subject \in Subjects
    BY <1>1, <1>7 DEF SignOnInv, LoginsPaid
  <2>3. \A d \in Callbacks : Held(d)' =>
           /\ SpentIn(login', callback'[d].login)
           /\ d # c => Held(d) /\ callback'[d].login.id # l
    BY <1>2, <1>5, <1>7, <2>1 DEF SignOnInv, LoginsPaid, Held
  <2>4. \A d, e \in Callbacks : Held(d)' /\ Held(e)' /\ d # e => callback'[d].login.id # callback'[e].login.id
    BY <1>2, <1>3, <1>5, <2>3 DEF SignOnInv, LoginsPaid
  <2>5. \A d \in Callbacks, x \in ssoSession' : Held(d)' /\ x.method = "sso" =>
           x.login.id # callback'[d].login.id
    BY <1>1, <1>2, <1>3, <1>5, <2>2, <2>3 DEF SignOnInv, LoginsPaid
  <2> QED BY <1>1, <2>2, <2>3, <2>4, <2>5 DEF SignOnInv, LoginsPaid
<1>9. CallbacksRead' /\ LinkedOnce' /\ SignOn!LinksVouched' /\ RequiredKept'
  BY <1>1, <1>2, <1>5, RequiredSame DEF SignOnInv, CallbacksRead, LinkedOnce, SignOn!LinksVouched
<1>10. SignOn!Pending' \subseteq SignOn!Pending
  BY <1>4 DEF SignOn!Pending
<1>11. PendingFew'
  BY <1>0, <1>1, <1>10, PendingKept DEF SignOnInv
<1>12. ProviderStands'
  <2>1. SessionsCarried
    BY <1>0, <1>1, SameSessionsCarried
  <2> QED BY <1>1, <1>2, <1>5, <2>1, StandsCarried DEF SignOnInv
<1> QED BY <1>6, <1>8, <1>9, <1>11, <1>12 DEF SignOnInv

\* A callback that moves on with its login, or ends.
LEMMA CallbackMoves ==
    ASSUME SignOnBounds, SignOnInv, NEW c \in Callbacks, NEW row \in CallbackRow, Held(c),
           callback' = [callback EXCEPT ![c] = row],
           row.stage # "idle" => row.login = callback[c].login,
           UNCHANGED <<login, start, admitted, ssoSession, saves>>
    PROVE  /\ LoginsPaid' /\ PendingFew' /\ callback' \in [Callbacks -> CallbackRow]
           /\ callback'[c] = row /\ \A d \in Callbacks : d # c => callback'[d] = callback[d]
<1>1. SignOnTypes /\ SessionsCarried
  BY SameSessionsCarried DEF SignOnInv
<1>2. /\ callback' \in [Callbacks -> CallbackRow] /\ callback'[c] = row
      /\ \A d \in Callbacks : d # c => callback'[d] = callback[d]
  BY <1>1 DEF SignOnTypes
<1>3. \A d \in Callbacks : Held(d)' => Held(d) /\ callback'[d].login = callback[d].login
  BY <1>2 DEF Held
<1>4. LoginsPaid'
  BY <1>1, <1>3, PaidKept DEF SignOnInv
<1>5. PendingFew'
  BY <1>1, PendingKept DEF SignOnInv, SignOn!Pending
<1> QED BY <1>2, <1>4, <1>5

LEMMA IdleCallback == SignOn!IdleCall \in CallbackRow /\ SignOn!IdleCall.stage = "idle"
BY DEF SignOn!IdleCall, CallbackRow

LEMMA ReadSafe ==
    ASSUME SignOnBounds, SignOnInv, NEW c \in Callbacks, SignOn!ReadProvider(c) \/ SignOn!GiveUp(c)
    PROVE  SignOnInv'
<1>0. SignOnTypes /\ callback[c] \in CallbackRow
  BY DEF SignOnInv, SignOnTypes
<1>1. PICK row \in CallbackRow :
         /\ callback' = [callback EXCEPT ![c] = row]
         /\ row.stage # "idle" => /\ row.login = callback[c].login /\ row.stage = "read"
                                  /\ provider.enabled /\ row.provider = provider
  <2>1. CASE SignOn!GiveUp(c)
    BY <2>1, IdleCallback DEF SignOn!GiveUp
  <2>2. CASE SignOn!ReadProvider(c) /\ ~provider.enabled
    BY <2>2, IdleCallback DEF SignOn!ReadProvider
  <2>3. CASE SignOn!ReadProvider(c) /\ provider.enabled
    <3> DEFINE new == [callback[c] EXCEPT !.stage = "read", !.provider = provider]
    <3>1. callback' = [callback EXCEPT ![c] = new]
      BY <1>0, <2>3 DEF SignOn!ReadProvider, SignOnTypes
    <3>2. /\ new \in CallbackRow /\ new.login = callback[c].login /\ new.stage = "read"
          /\ new.provider = provider
      BY <1>0 DEF SignOnTypes, CallbackRow
    <3> QED BY <2>3, <3>1, <3>2
  <2> QED BY <2>1, <2>2, <2>3
<1>2. /\ Held(c) /\ UNCHANGED <<provider, ssoMember, link, login, start, admitted, ssoSession, saves>>
  BY DEF SignOn!ReadProvider, SignOn!GiveUp, Held
<1>3. /\ LoginsPaid' /\ PendingFew' /\ callback' \in [Callbacks -> CallbackRow]
      /\ callback'[c] = row /\ \A d \in Callbacks : d # c => callback'[d] = callback[d]
  BY <1>1, <1>2, CallbackMoves
<1>4. SignOnTypes'
  BY <1>0, <1>2, <1>3 DEF SignOnTypes
<1>5. provider.enabled => provider \in SignOn!Providers
  BY <1>0 DEF SignOnTypes, SignOn!NoProvider
<1>6. CallbacksRead' /\ LinkedOnce' /\ SignOn!LinksVouched' /\ RequiredKept'
  BY <1>1, <1>2, <1>3, <1>5, RequiredSame DEF SignOnInv, CallbacksRead, LinkedOnce, SignOn!LinksVouched
<1>7. ProviderStands'
  BY <1>1, <1>2, <1>3 DEF SignOnInv, ProviderStands, SignOn!NoOrphanIdentities
<1> QED BY <1>3, <1>4, <1>6, <1>7 DEF SignOnInv

LEMMA ResolveSafe ==
    ASSUME SignOnBounds, SignOnInv, NEW c \in Callbacks, NEW s \in Subjects, NEW u \in Users,
           NEW verified \in BOOLEAN, SignOn!ResolveSSOIdentity(c, s, u, verified)
    PROVE  SignOnInv'
<1>0. SignOnTypes /\ callback[c] \in CallbackRow
  BY DEF SignOnInv, SignOnTypes
<1> DEFINE i == callback[c].provider.issuer
<1>1. /\ callback[c].stage = "read" /\ Held(c)
      /\ UNCHANGED <<provider, login, start, admitted, ssoSession, saves>>
  BY DEF SignOn!ResolveSSOIdentity, Held
<1>2. callback[c].provider \in SignOn!Providers /\ callback[c].provider.enabled /\ i \in Issuers
  BY <1>1 DEF SignOnInv, CallbacksRead, SignOn!Providers
<1> HIDE DEF i
<1>3. \E who \in Users :
         /\ callback' = [callback EXCEPT ![c] = [@ EXCEPT !.stage = "resolved", !.subject = s, !.user = who]]
         /\ link'[i][s].user = who /\ link'[i][s].vouched
         /\ \/ UNCHANGED <<ssoMember, link>>
            \/ /\ link[i][s].user = NoRow /\ ~SignOn!Conflict(who)
               /\ link' = [link EXCEPT ![i][s] = [user |-> who, vouched |-> TRUE, late |-> callback[c].late]]
               /\ link'[i][s].late = callback[c].late
               /\ ssoMember' \in [Users -> {"none", "active", "disabled"}]
  <2>0. link[i][s] \in LinkRow
    BY <1>0, <1>2 DEF SignOnTypes
  <2>1. CASE link[i][s].user # NoRow
    <3>1. /\ callback' = [callback EXCEPT ![c] = [@ EXCEPT !.stage = "resolved", !.subject = s, !.user = link[i][s].user]]
          /\ UNCHANGED <<ssoMember, link>>
      BY <2>1 DEF SignOn!ResolveSSOIdentity, SignOn!Resolved, SignOn!LinkedFirst, i
    <3>2. link[i][s].vouched /\ link[i][s].user \in Users
      BY <1>2, <2>0, <2>1 DEF SignOnInv, SignOn!LinksVouched, LinkRow
    <3> QED BY <3>1, <3>2
  <2>2. CASE link[i][s].user = NoRow
    <3>1. /\ callback' = [callback EXCEPT ![c] = [@ EXCEPT !.stage = "resolved", !.subject = s, !.user = u]]
          /\ SignOn!Vouched(u, verified) /\ ~SignOn!Conflict(u)
          /\ link' = [link EXCEPT ![i][s] = [user |-> u, vouched |-> verified /\ u \in Allowed,
                                           late |-> callback[c].late]]
          /\ ssoMember' = ssoMember \/ ssoMember' = [ssoMember EXCEPT ![u] = "active"]
      BY <2>2 DEF SignOn!ResolveSSOIdentity, SignOn!Resolved, i
    <3>2. (verified /\ u \in Allowed) = TRUE
      BY <3>1 DEF SignOn!Vouched
    <3>3. link' = [link EXCEPT ![i][s] = [user |-> u, vouched |-> TRUE, late |-> callback[c].late]]
      BY <3>1, <3>2
    <3>4. link'[i][s] = [user |-> u, vouched |-> TRUE, late |-> callback[c].late]
      BY <1>0, <1>2, <3>3 DEF SignOnTypes
    <3>5. ssoMember' \in [Users -> {"none", "active", "disabled"}]
      BY <1>0, <3>1 DEF SignOnTypes
    <3>6. link'[i][s].user = u /\ link'[i][s].vouched /\ link'[i][s].late = callback[c].late
      BY <3>4
    <3> QED BY <2>2, <3>1, <3>3, <3>5, <3>6
  <2> QED BY <2>1, <2>2
<1>4. PICK who \in Users :
         /\ callback' = [callback EXCEPT ![c] = [@ EXCEPT !.stage = "resolved", !.subject = s, !.user = who]]
         /\ link'[i][s].user = who /\ link'[i][s].vouched
         /\ \/ UNCHANGED <<ssoMember, link>>
            \/ /\ link[i][s].user = NoRow /\ ~SignOn!Conflict(who)
               /\ link' = [link EXCEPT ![i][s] = [user |-> who, vouched |-> TRUE, late |-> callback[c].late]]
               /\ link'[i][s].late = callback[c].late
               /\ ssoMember' \in [Users -> {"none", "active", "disabled"}]
  BY <1>3
<1> DEFINE new == [callback[c] EXCEPT !.stage = "resolved", !.subject = s, !.user = who]
<1>5. callback' = [callback EXCEPT ![c] = new]
  BY <1>0, <1>4 DEF SignOnTypes
<1>6. /\ new \in CallbackRow /\ new.login = callback[c].login /\ new.stage = "resolved"
      /\ new.provider = callback[c].provider /\ new.subject = s /\ new.user = who
      /\ new.late = callback[c].late
  BY <1>0 DEF CallbackRow
<1> HIDE DEF new
<1>7. /\ LoginsPaid' /\ PendingFew' /\ callback' \in [Callbacks -> CallbackRow]
      /\ callback'[c] = new /\ \A d \in Callbacks : d # c => callback'[d] = callback[d]
  BY <1>1, <1>5, <1>6, CallbackMoves
<1>8. /\ link' \in [Issuers -> [Subjects -> LinkRow]]
      /\ \A j \in Issuers, t \in Subjects :
            \/ link'[j][t] = link[j][t]
            \/ /\ j = i /\ t = s /\ link[j][t].user = NoRow /\ ~SignOn!Conflict(who)
               /\ link'[j][t].late = callback[c].late
  <2>1. CASE UNCHANGED link
    BY <1>0, <2>1 DEF SignOnTypes
  <2>2. CASE /\ link[i][s].user = NoRow /\ ~SignOn!Conflict(who)
             /\ link' = [link EXCEPT ![i][s] = [user |-> who, vouched |-> TRUE, late |-> callback[c].late]]
             /\ link'[i][s].late = callback[c].late
    <3> DEFINE entry == [user |-> who, vouched |-> TRUE, late |-> callback[c].late]
    <3>1. entry \in LinkRow
      BY <1>0 DEF LinkRow, CallbackRow
    <3>2. link' = [link EXCEPT ![i] = [link[i] EXCEPT ![s] = entry]]
      BY <2>2
    <3> HIDE DEF entry
    <3>3. link' \in [Issuers -> [Subjects -> LinkRow]]
      BY <1>0, <1>2, <3>1, <3>2 DEF SignOnTypes
    <3>4. \A j \in Issuers, t \in Subjects : link'[j][t] = link[j][t] \/ (j = i /\ t = s)
      BY <1>0, <1>2, <3>2 DEF SignOnTypes
    <3> QED BY <2>2, <3>3, <3>4
  <2> QED BY <1>4, <2>1, <2>2
<1>9. SignOnTypes'
  BY <1>0, <1>1, <1>4, <1>7, <1>8 DEF SignOnTypes
<1>10. CallbacksRead' /\ RequiredKept'
  BY <1>1, <1>2, <1>6, <1>7, RequiredSame DEF SignOnInv, CallbacksRead
<1>11. LinkedOnce'
  <2>1. ASSUME NEW j \in Issuers, NEW k \in Issuers, NEW t \in Subjects, NEW r \in Subjects,
               link'[j][t].user # NoRow, link'[j][t].user = link'[k][r].user
        PROVE  j = k /\ t = r
    <3>1. CASE link'[j][t] = link[j][t] /\ link'[k][r] = link[k][r]
      BY <2>1, <3>1 DEF SignOnInv, LinkedOnce
    <3>2. CASE j = i /\ t = s /\ ~SignOn!Conflict(who) /\ link'[k][r] = link[k][r]
      BY <1>4, <2>1, <3>2 DEF SignOn!Conflict
    <3>3. CASE k = i /\ r = s /\ ~SignOn!Conflict(who) /\ link'[j][t] = link[j][t]
      BY <1>4, <2>1, <3>3 DEF SignOn!Conflict
    <3> QED BY <1>8, <3>1, <3>2, <3>3
  <2> QED BY <2>1 DEF LinkedOnce
<1>12. SignOn!LinksVouched'
  BY <1>4, <1>8 DEF SignOnInv, SignOn!LinksVouched
<1>13. ProviderStands'
  <2>0. ProviderStands
    BY DEF SignOnInv
  <2>1. \A j \in Issuers, t \in Subjects : link[j][t].user \in Users => link'[j][t].user = link[j][t].user
    BY <1>8 DEF SignOnBounds
  <2>2. ~callback[c].late => provider = callback[c].provider /\ provider # SignOn!NoProvider
    BY <1>1, <1>2, <2>0 DEF ProviderStands, SignOnBounds, SignOn!Providers, SignOn!NoProvider
  <2>3. \A d \in Callbacks : callback'[d].stage \in {"read", "resolved"} /\ ~callback'[d].late =>
           callback'[d].provider = provider'
    BY <1>1, <1>6, <1>7, <2>0, <2>2 DEF ProviderStands
  <2>4. ASSUME NEW d \in Callbacks, callback'[d].stage = "resolved", ~callback'[d].late
        PROVE  link'[callback'[d].provider.issuer][callback'[d].subject].user = callback'[d].user
    <3>1. CASE d = c
      BY <1>4, <1>6, <1>7, <3>1 DEF i
    <3>2. CASE d # c
      <4>1. /\ callback'[d] = callback[d] /\ callback[d].user \in Users /\ callback[d].subject \in Subjects
            /\ callback[d].provider.issuer \in Issuers
            /\ link[callback[d].provider.issuer][callback[d].subject].user = callback[d].user
        BY <1>7, <2>0, <2>4, <3>2 DEF ProviderStands, SignOnInv, CallbacksRead, SignOn!Providers
      <4> QED BY <2>1, <4>1
    <3> QED BY <3>1, <3>2
  <2>5. ASSUME NEW x \in ssoSession', x.active, x.method = "sso", ~x.spared, ~x.late
        PROVE  provider'.enabled /\ \E j \in Issuers : link'[j][x.subject].user = x.user
    <3>1. x \in ssoSession /\ x.user \in Users /\ x.subject \in Subjects
      BY <1>0, <1>1, <2>5 DEF SignOnTypes, SignOnSession, SignOnInv, LoginsPaid
    <3> QED BY <1>1, <2>0, <2>1, <2>5, <3>1 DEF ProviderStands
  <2>6. SignOn!NoOrphanIdentities'
    <3>1. ASSUME provider' = SignOn!NoProvider, NEW j \in Issuers, NEW t \in Subjects
          PROVE  link'[j][t] = SignOn!Unlinked \/ link'[j][t].late
      <4>1. callback[c].late /\ (link[j][t] = SignOn!Unlinked \/ link[j][t].late)
        BY <1>1, <2>0, <2>2, <3>1 DEF ProviderStands, SignOn!NoOrphanIdentities
      <4> QED BY <1>8, <4>1
    <3> QED BY <3>1 DEF SignOn!NoOrphanIdentities
  <2> QED BY <2>3, <2>4, <2>5, <2>6 DEF ProviderStands
<1> QED BY <1>7, <1>9, <1>10, <1>11, <1>12, <1>13 DEF SignOnInv

\* Its session takes over the login of the callback.
LEMMA OpenSafe ==
    ASSUME SignOnBounds, SignOnInv, NEW c \in Callbacks, SignOn!OpenSSOSession(c)
    PROVE  SignOnInv'
<1>0. SignOnTypes /\ callback[c] \in CallbackRow
  BY DEF SignOnInv, SignOnTypes
<1>1. /\ callback[c].stage = "resolved" /\ Held(c) /\ callback' = [callback EXCEPT ![c] = SignOn!IdleCall]
      /\ UNCHANGED <<provider, ssoMember, link, login, start, admitted, saves>>
  BY DEF SignOn!OpenSSOSession, Held
<1>2. /\ callback' \in [Callbacks -> CallbackRow] /\ callback'[c].stage = "idle"
      /\ \A d \in Callbacks : d # c => callback'[d] = callback[d]
  BY <1>0, <1>1, IdleCallback DEF SignOnTypes
<1>3. CASE ssoSession' = ssoSession
  <2>1. LoginsPaid' /\ PendingFew'
    BY <1>1, <1>3, IdleCallback, CallbackMoves
  <2>2. SignOnTypes'
    BY <1>0, <1>1, <1>2, <1>3 DEF SignOnTypes
  <2>3. CallbacksRead' /\ LinkedOnce' /\ SignOn!LinksVouched' /\ RequiredKept'
    BY <1>1, <1>2, <1>3, RequiredSame DEF SignOnInv, CallbacksRead, LinkedOnce, SignOn!LinksVouched
  <2>4. ProviderStands'
    BY <1>1, <1>2, <1>3 DEF SignOnInv, ProviderStands, SignOn!NoOrphanIdentities
  <2> QED BY <2>1, <2>2, <2>3, <2>4 DEF SignOnInv
<1>4. CASE ssoSession' # ssoSession
  <2> DEFINE x == [user |-> callback[c].user, method |-> "sso", active |-> TRUE, spared |-> FALSE,
                   late |-> callback[c].late, login |-> callback[c].login, subject |-> callback[c].subject,
                   n |-> SignOn!Cardinality(ssoSession)]
  <2>1. ssoSession' = ssoSession \cup {x}
    BY <1>4 DEF SignOn!OpenSSOSession, SignOn!Open
  <2>2. /\ x \in SignOnSession /\ x.method = "sso" /\ x.login = callback[c].login /\ x.late = callback[c].late
        /\ x.subject \in Subjects /\ x.subject = callback[c].subject /\ x.user = callback[c].user
    <3>1. \A S : SignOn!Cardinality(S) = Cardinality(S)
      BY Zenon DEF SignOn!Cardinality, Cardinality
    <3>2. SignOn!Cardinality(ssoSession) \in Nat
      BY <1>0, <3>1, FS_CardinalityType DEF SignOnTypes
    <3>3. callback[c].user \in Users /\ callback[c].subject \in Subjects /\ callback[c].login \in LoginRef
      BY <1>1 DEF SignOnInv, CallbacksRead, LoginsPaid, SpentIn
    <3>4. callback[c].late \in BOOLEAN
      BY <1>0 DEF CallbackRow
    <3> QED BY <3>2, <3>3, <3>4 DEF SignOnSession
  <2> HIDE DEF x
  <2>3. SignOnTypes'
    <3>1. IsFiniteSet(ssoSession')
      BY <1>0, <2>1, FS_AddElement DEF SignOnTypes
    <3> QED BY <1>0, <1>1, <1>2, <2>1, <2>2, <3>1 DEF SignOnTypes
  <2>4. \A d \in Callbacks : Held(d)' => d # c /\ Held(d) /\ callback'[d] = callback[d]
    BY <1>2 DEF Held
  <2>5. SpentIn(login, callback[c].login)
    BY <1>1 DEF SignOnInv, LoginsPaid
  <2>6. LoginsPaid'
    <3>1. \A y \in ssoSession' : y.method = "sso" => SpentIn(login', y.login) /\ y.subject \in Subjects
      BY <1>1, <2>1, <2>2, <2>5 DEF SignOnInv, LoginsPaid
    <3>2. \A y, z \in ssoSession' : y.method = "sso" /\ z.method = "sso" /\ y # z => y.login.id # z.login.id
      BY <1>1, <2>1, <2>2 DEF SignOnInv, LoginsPaid
    <3>3. \A d \in Callbacks : Held(d)' => SpentIn(login', callback'[d].login)
      BY <1>1, <2>4 DEF SignOnInv, LoginsPaid
    <3>4. \A d, e \in Callbacks : Held(d)' /\ Held(e)' /\ d # e => callback'[d].login.id # callback'[e].login.id
      BY <2>4 DEF SignOnInv, LoginsPaid
    <3>5. \A d \in Callbacks, y \in ssoSession' : Held(d)' /\ y.method = "sso" =>
             y.login.id # callback'[d].login.id
      BY <1>1, <2>1, <2>2, <2>4 DEF SignOnInv, LoginsPaid
    <3> QED BY <3>1, <3>2, <3>3, <3>4, <3>5 DEF LoginsPaid
  <2>7. CallbacksRead' /\ LinkedOnce' /\ SignOn!LinksVouched' /\ RequiredKept'
    BY <1>1, <1>2, <2>1, <2>2 DEF SignOnInv, CallbacksRead, LinkedOnce, SignOn!LinksVouched, RequiredKept,
                                  SignOn!RequiredHolds, SignOn!Active, SignOn!SSORequiredFor
  <2>8. PendingFew'
    BY <1>0, <1>1, PendingKept DEF SignOnInv, SignOn!Pending
  <2>9. ProviderStands'
    <3>0. ProviderStands
      BY DEF SignOnInv
    <3>1. ~x.late =>
          /\ callback[c].provider = provider /\ provider.enabled /\ provider.issuer \in Issuers
          /\ link[provider.issuer][x.subject].user = x.user
      BY <1>1, <2>2, <3>0 DEF ProviderStands, SignOnInv, CallbacksRead, SignOn!Providers
    <3> QED BY <1>1, <1>2, <2>1, <3>0, <3>1 DEF ProviderStands, SignOn!NoOrphanIdentities
  <2> QED BY <2>3, <2>6, <2>7, <2>8, <2>9 DEF SignOnInv
<1> QED BY <1>3, <1>4

\* A sign-in by other means: its check, or its end without a session.
LEMMA AdmitSafe ==
    ASSUME SignOnBounds, SignOnInv, NEW u \in Users, SignOn!Login(u) \/ SignOn!Abandon(u)
    PROVE  SignOnInv'
<1>0. SignOnTypes
  BY DEF SignOnInv
<1>1. /\ UNCHANGED <<provider, ssoMember, link, login, start, callback, ssoSession, saves>>
      /\ admitted' \in [Users -> {"none", "checked", "overtaken"}]
      /\ \A v \in Users : admitted'[v] = "checked" => admitted[v] = "checked" \/ ~SignOn!SSORequiredFor(v)
  BY <1>0 DEF SignOn!Login, SignOn!Abandon, SignOnTypes
<1>2. SignOnTypes' /\ SessionsCarried
  BY <1>0, <1>1, SameSessionsCarried DEF SignOnTypes
<1>3. LoginsPaid'
  BY <1>0, <1>1, <1>2, PaidKept DEF SignOnInv, Held
<1>4. CallbacksRead' /\ LinkedOnce' /\ SignOn!LinksVouched'
  BY <1>1 DEF SignOnInv, CallbacksRead, LinkedOnce, SignOn!LinksVouched
<1>5. RequiredKept'
  BY <1>1 DEF SignOnInv, RequiredKept, SignOn!RequiredHolds, SignOn!Active, SignOn!SSORequiredFor
<1>6. PendingFew'
  BY <1>0, <1>1, PendingKept DEF SignOnInv, SignOn!Pending
<1>7. ProviderStands'
  BY <1>1, <1>2, StandsCarried DEF SignOnInv
<1> QED BY <1>2, <1>3, <1>4, <1>5, <1>6, <1>7 DEF SignOnInv

\* Its session.
LEMMA CreateSessionSafe ==
    ASSUME SignOnBounds, SignOnInv, NEW u \in Users, SignOn!CreateSession(u)
    PROVE  SignOnInv'
<1>0. SignOnTypes
  BY DEF SignOnInv
<1>1. /\ UNCHANGED <<provider, ssoMember, link, login, start, callback, saves>>
      /\ admitted[u] # "none" /\ admitted' = [admitted EXCEPT ![u] = "none"]
  BY DEF SignOn!CreateSession
<1> DEFINE was == admitted[u] = "overtaken"
           y == [user |-> u, method |-> "other", active |-> TRUE, spared |-> FALSE, late |-> was,
                 login |-> NoRow, subject |-> NoRow, n |-> SignOn!Cardinality(ssoSession)]
<1>2. ssoSession' = ssoSession \cup {y}
  BY DEF SignOn!CreateSession, SignOn!Open
<1>3. was \in BOOLEAN /\ (~was => admitted[u] = "checked")
  BY <1>0, <1>1 DEF SignOnTypes
<1>4. SignOn!Cardinality(ssoSession) \in Nat
  <2>1. \A T : SignOn!Cardinality(T) = Cardinality(T)
    BY Zenon DEF SignOn!Cardinality, Cardinality
  <2> QED BY <1>0, <2>1, FS_CardinalityType DEF SignOnTypes
<1> HIDE DEF was
<1>5. y \in SignOnSession /\ y.method = "other" /\ y.user = u /\ y.late = was
  BY <1>3, <1>4 DEF SignOnSession
<1> HIDE DEF y
<1>6. SignOnTypes'
  <2>1. IsFiniteSet(ssoSession')
    BY <1>0, <1>2, FS_AddElement DEF SignOnTypes
  <2> QED BY <1>0, <1>1, <1>2, <1>5, <2>1 DEF SignOnTypes
<1>7. \A x \in ssoSession' : x.method = "sso" => x \in ssoSession
  BY <1>2, <1>5
<1>8. LoginsPaid'
  <2>1. \A c \in Callbacks : Held(c)' <=> Held(c)
    BY <1>1 DEF Held
  <2> QED BY <1>1, <1>7, <2>1 DEF SignOnInv, LoginsPaid
<1>9. CallbacksRead' /\ LinkedOnce' /\ SignOn!LinksVouched'
  BY <1>1 DEF SignOnInv, CallbacksRead, LinkedOnce, SignOn!LinksVouched
<1>10. RequiredKept'
  <2>1. y.late \/ ~SignOn!SSORequiredFor(u)
    BY <1>3, <1>5 DEF SignOnInv, RequiredKept
  <2>2. SignOn!RequiredHolds'
    BY <1>1, <1>2, <1>5, <2>1 DEF SignOnInv, RequiredKept, SignOn!RequiredHolds, SignOn!Active, SignOn!SSORequiredFor
  <2>3. \A v \in Users : admitted'[v] = "checked" => admitted[v] = "checked"
    BY <1>0, <1>1 DEF SignOnTypes
  <2> QED BY <1>1, <2>2, <2>3 DEF SignOnInv, RequiredKept, SignOn!SSORequiredFor
<1>11. PendingFew'
  BY <1>0, <1>1, PendingKept DEF SignOnInv, SignOn!Pending
<1>12. ProviderStands'
  BY <1>1, <1>7 DEF SignOnInv, ProviderStands, SignOn!NoOrphanIdentities
<1> QED BY <1>6, <1>8, <1>9, <1>10, <1>11, <1>12 DEF SignOnInv

LEMMA SignOnStep ==
    ASSUME SignOnBounds, SignOnInv, [SignOn!Next]_(SignOn!vars) PROVE SignOnInv'
<1>1. CASE UNCHANGED SignOn!vars
  <2>1. SignOnTypes /\ UNCHANGED <<provider, ssoMember, link, login, start, callback, admitted, ssoSession, saves>>
    BY <1>1 DEF SignOn!vars, SignOnInv
  <2>2. SignOnTypes' /\ PendingFew'
    BY <2>1, PendingKept DEF SignOnTypes, SignOnInv, SignOn!Pending
  <2> QED BY <2>1, <2>2, StartSafe
<1>2. CASE SignOn!Next
  <2>1. CASE \E p \in SignOn!Providers, x \in SignOn!Acting : SignOn!SaveSSOProvider(p, x)
    BY <2>1, SaveSafe
  <2>2. CASE \E x \in SignOn!Acting : SignOn!RemoveSSOProvider(x)
    BY <2>2, RemoveSafe
  <2>3. CASE \E u \in Users : SignOn!SetEnabled(u) \/ SignOn!Login(u) \/ SignOn!CreateSession(u) \/ SignOn!Abandon(u)
    BY <2>3, EnableSafe, AdmitSafe, CreateSessionSafe
  <2>4. CASE \/ \E b \in Browsers : SignOn!CountPending(b) \/ \E l \in Logins : SignOn!CreateSSOState(b, l)
             \/ \E l \in Logins : SignOn!ExpireLogin(l)
    BY <2>4, CountSafe, CreateStateSafe, ExpireSafe
  <2>5. CASE \E c \in Callbacks :
                \/ \E l \in Logins, b \in Browsers : SignOn!ConsumeSSOState(c, l, b)
                \/ SignOn!ReadProvider(c) \/ SignOn!GiveUp(c) \/ SignOn!OpenSSOSession(c)
                \/ \E s \in Subjects, u \in Users, v \in BOOLEAN : SignOn!ResolveSSOIdentity(c, s, u, v)
    BY <2>5, ConsumeSafe, ReadSafe, OpenSafe, ResolveSafe
  <2> QED BY <1>2, <2>1, <2>2, <2>3, <2>4, <2>5 DEF SignOn!Next
<1> QED BY <1>1, <1>2

\* What single sign-on shows of the invariant.
LEMMA SignOnShown ==
    ASSUME SignOnBounds, SignOnInv
    PROVE  SignOn!SignOnSafe
<1>0. \A S : SignOn!Cardinality(S) = Cardinality(S)
  BY Zenon DEF SignOn!Cardinality, Cardinality
<1>1. SignOn!TypeOK
  <2>1. ASSUME NEW u \in Users
        PROVE  Cardinality({l \in Issuers \X Subjects : link[l[1]][l[2]].user = u}) <= 1
    <3> DEFINE L == {l \in Issuers \X Subjects : link[l[1]][l[2]].user = u}
    <3>1. \A k, l \in L : k = l
      BY <2>1 DEF SignOnInv, LinkedOnce, SignOnBounds
    <3> HIDE DEF L
    <3>2. CASE L = {}
      BY <3>2, FS_EmptySet DEF L
    <3>3. CASE L # {}
      <4>1. PICK l : L = {l}
        BY <3>1, <3>3
      <4>2. Cardinality(L) = 1
        BY <4>1, FS_Singleton
      <4> QED BY <4>2 DEF L
    <3> QED BY <3>2, <3>3
  <2> QED BY <1>0, <2>1 DEF SignOn!TypeOK, SignOnInv, SignOnTypes, RequiredKept
<1>2. SignOn!LoginOpensOnce
  <2>1. ASSUME NEW x \in ssoSession, x.method = "sso" PROVE login[x.login.id].browser = x.login.by
    <3>1. SpentIn(login, x.login)
      BY <2>1 DEF SignOnInv, LoginsPaid
    <3> QED BY <3>1 DEF SpentIn
  <2> QED BY <2>1 DEF SignOnInv, LoginsPaid, SignOn!LoginOpensOnce
<1>3. SignOn!PendingBounded
  BY <1>0 DEF SignOnInv, PendingFew, Counted, SignOn!PendingBounded
<1>4. SignOn!SubjectKeepsAdministrator /\ SignOn!SessionsNeedProvider
  BY DEF SignOnInv, ProviderStands, SignOn!SubjectKeepsAdministrator, SignOn!SessionsNeedProvider, SignOn!Active
<1> QED BY <1>1, <1>2, <1>3, <1>4 DEF SignOnInv, RequiredKept, ProviderStands, SignOn!SignOnSafe

\* Whatever owners change and whenever they do: a login opens one session, in
\* the browser that began it, however often its callback is replayed; an
\* administrator is linked once and by an address that was vouched for; and but
\* for callbacks and sign-ins that an owner's change overtook between their
\* check and their insert, sessions and links stand and fall with the provider,
\* and nobody but an owner has a session by other means where single sign-on is
\* required (ssoCallback, ResolveSSOIdentity, SaveSSOProvider and
\* SSORequiredFor, internal/adminauth/sso.go).
THEOREM SignOnHolds ==
    ASSUME SignOnBounds
    PROVE  SignOn!Spec => []SignOn!SignOnSafe
<1>1. SignOn!Init => SignOnInv
  BY SignOnInit
<1>2. SignOnInv /\ [SignOn!Next]_(SignOn!vars) => SignOnInv'
  BY SignOnStep
<1>3. SignOnInv => SignOn!SignOnSafe
  BY SignOnShown
<1> QED BY <1>1, <1>2, <1>3, PTL DEF SignOn!Spec

-----------------------------------------------------------------------------
(* Signing in and managing factors.                                          *)

CONSTANTS SignIns, Challenges, Ceremonies, Passkeys, MaxKeys, MaxBatches, Codes, MaxClock, MaxCount,
          Attempts, MaxPendingSignIns, Required, Enrolled
VARIABLES asked, totp, keys, batch, codes, passkey, pendingSignIn, ceremony, failures, timeStep,
          signIn, accepted, opened, proved

SignIn == INSTANCE AdminSignIn WITH
    Calls <- SignIns, required <- asked, challenge <- pendingSignIn, clock <- timeStep, call <- signIn

SignInBounds ==
    /\ IsFiniteSet(SignIns) /\ SignIns # {} /\ NoRow \notin Challenges /\ Challenges \cap Ceremonies = {}
    /\ MaxKeys \in Nat /\ MaxBatches \in Nat /\ MaxClock \in Nat \ {0} /\ MaxCount \in Nat
    /\ Attempts \in Nat /\ Required \subseteq BOOLEAN /\ Overlap \in BOOLEAN /\ Enrolled \in BOOLEAN
    /\ Enrolled => MaxKeys > 0 /\ MaxBatches > 0

SignInOps == {"none", "login", "second", "passkey", "confirm", "disable", "codes", "register", "remove", "add"}
SignInStages == {"idle", "begun", "allowed", "matched", "verified", "asserted", "refused", "counted",
                 "cleared", "consumed", "decided"}
AnyShown == SignIn!Evidence \cup {SignIn!Wrong, SignIn!Password}
SignInRow == [op : SignInOps, stage : SignInStages, on : Challenges \cup Passkeys \cup {NoRow},
              shown : AnyShown, by : Ceremonies \cup {NoRow}, flag : BOOLEAN]

SignInTypes ==
    /\ SignIn!TypeOK
    /\ keys \in 0..MaxKeys /\ batch \in 0..MaxBatches /\ timeStep \in 1..MaxClock
    /\ failures \in [SignIn!Limited -> Nat] /\ signIn \in [SignIns -> SignInRow]
    /\ accepted \in [SignIn!Evidence -> Nat] /\ opened \in [Challenges \cup Ceremonies -> Nat]

\* What a call carries, by its operation and its stage.
SignInCallGood(c) ==
    /\ c.stage = "idle" <=> c = SignIn!Idle
    /\ c.stage = "idle" <=> c.op = "none"
    /\ c.op = "second" =>
          /\ c.on \in Challenges
          /\ \/ c.shown \in SignIn!AppCodes \cup SignIn!RecoveryCodes \cup {SignIn!Wrong}
             \/ c.shown \in SignIn!Assertions /\ c.by \in Ceremonies
    /\ c.op = "passkey" => c.shown \in SignIn!Assertions /\ c.by \in Ceremonies
    /\ c.op \in {"confirm", "disable"} => c.shown \in SignIn!AppCodes \cup {SignIn!Wrong}
    /\ c.op = "codes" => c.shown \in SignIn!AppCodes \cup {SignIn!Password, SignIn!Wrong}
    /\ c.op \in {"login", "register", "remove"} => c.shown \in {SignIn!Password, SignIn!Wrong}
    /\ c.op = "remove" => c.on \in Passkeys
    /\ c.op = "add" => c.shown = SignIn!Wrong /\ c.by \in Ceremonies
    /\ c.stage = "matched" => c.shown \in SignIn!AppCodes /\ c.op \in {"second", "disable", "codes"}
    /\ c.stage = "asserted" => c.op \in {"second", "passkey"} /\ c.shown \in SignIn!Assertions
    /\ c.stage \in {"verified", "cleared"} /\ c.op = "confirm" => c.shown \in SignIn!AppCodes
    /\ c.stage = "consumed" => c.op \in {"second", "passkey"}
    /\ c.stage = "decided" => c.op \in {"disable", "remove", "codes", "add"}
    /\ c.stage = "counted" => c.op = "second"
    /\ c.stage \in {"allowed", "matched", "verified", "refused"} => c.op \notin {"passkey", "add"}

CallsGood == \A p \in SignIns : SignInCallGood(signIn[p])

\* Calls that are about to open a session.
Spends(c) == c.op = "second" /\ c.stage = "consumed"
Asserts(c) == c.op = "passkey" /\ c.stage \in {"asserted", "consumed"}

\* A challenge or ceremony that was consumed is one call's, or has opened a session.
OpensOnce ==
    /\ \A h \in Challenges : opened[h] \in 0..1 /\
          (opened[h] > 0 => pendingSignIn[h].state = "consumed" /\ pendingSignIn[h].failed < Attempts)
    /\ \A w \in Ceremonies : opened[w] \in 0..1 /\ (opened[w] > 0 => ceremony[w].state = "consumed")
    /\ \A p \in SignIns : Spends(signIn[p]) =>
          /\ pendingSignIn[signIn[p].on].state = "consumed" /\ pendingSignIn[signIn[p].on].failed < Attempts
          /\ opened[signIn[p].on] = 0
    /\ \A p \in SignIns : Asserts(signIn[p]) => opened[signIn[p].by] = 0 /\ ceremony[signIn[p].by].state = "consumed"
    /\ \A p, q \in SignIns : Spends(signIn[p]) /\ Spends(signIn[q]) /\ p # q => signIn[p].on # signIn[q].on
    /\ \A p, q \in SignIns : Asserts(signIn[p]) /\ Asserts(signIn[q]) /\ p # q => signIn[p].by # signIn[q].by
    /\ \A p \in SignIns : signIn[p].stage = "asserted" =>
          /\ ceremony[signIn[p].by].state = "consumed"
          /\ signIn[p].op = "second" => ceremony[signIn[p].by].link = signIn[p].on

\* What was accepted can not be shown again.
CeremonyOf(w) == SignIn!Shown("ceremony", w, 0)
SpentForGood ==
    /\ \A w \in Ceremonies : accepted[CeremonyOf(w)] \in 0..1 /\
          (accepted[CeremonyOf(w)] > 0 => ceremony[w].state = "consumed")
    /\ \A e \in SignIn!RecoveryCodes : accepted[e] \in 0..1 /\ (accepted[e] > 0 => e \notin codes /\ e.a <= batch)
    /\ \A e \in SignIn!Assertions : accepted[e] \in 0..1 /\
          (accepted[e] > 0 => passkey[e.a].state # "none" /\ passkey[e.a].count >= e.b /\ e.b > 0)

\* The limiter: failures that were counted, and calls that may still fail.
Guesses(c) == c.stage \in {"allowed", "matched", "asserted", "refused"} /\ c.op # "passkey"
Guessing(k) == {p \in SignIns : Guesses(signIn[p]) /\ SignIn!LimiterKey(signIn[p]) = k}
MayPass == IF Overlap THEN Cardinality(SignIns) - 1 ELSE 0
GuessesCounted == \A k \in SignIn!Limited : failures[k] + Cardinality(Guessing(k)) <= Attempts + MayPass

\* Nobody replaces the authenticator's key under a call that has compared a code.
KeyStays == ~Overlap \/ "start" \notin Operations
KeyRead(t, shownKeys, c) ==
    /\ c.stage = "matched" /\ t.confirmed => c.shown.a = t.key
    /\ c.op = "confirm" /\ c.stage \in {"verified", "cleared"} /\ t.key # 0 /\ ~t.confirmed =>
          c.shown.a = t.key /\ t.key \in shownKeys
CodeSpent(t, made, times, e) ==
    times[e] \in 0..1 /\
        (times[e] > 0 => e.a <= made /\ (e.a = t.key => t.confirmed /\ e.b <= t.step))
KeyInv ==
    /\ "start" \notin Operations => (totp.key # 0 => totp.confirmed)
    /\ \A e \in SignIn!AppCodes : CodeSpent(totp, keys, accepted, e)
    /\ \A p \in SignIns : KeyRead(totp, proved, signIn[p])
    /\ SignIn!ConfirmedKeyWasProved

\* When calls do not overlap, what one of them has decided still holds.
HeldIn(rows) == {k \in Passkeys : rows[k].state = "held"}
DecidedOn(t, rows, need, c) == c.stage = "decided" =>
    /\ c.op = "disable" => t.confirmed /\ c.flag = (HeldIn(rows) # {}) /\ (c.flag \/ ~need)
    /\ c.op = "remove" => /\ c.on \in HeldIn(rows) /\ c.flag = (t.confirmed \/ HeldIn(rows) # {c.on})
                          /\ c.flag \/ ~need
    /\ c.op = "codes" => t.confirmed \/ HeldIn(rows) # {}
SignsAlone == \A p, q \in SignIns : signIn[p].stage # "idle" /\ signIn[q].stage # "idle" => p = q
SignAloneInv ==
    /\ SignsAlone /\ SignIn!CodesNeedFactor
    /\ \A p \in SignIns : DecidedOn(totp, passkey, asked, signIn[p])

SignInInv ==
    /\ SignInTypes /\ CallsGood /\ OpensOnce /\ SpentForGood /\ GuessesCounted
    /\ KeyStays => KeyInv
    /\ ~Overlap => SignAloneInv

\* The kinds of what is shown are different.
LEMMA Kinds ==
    ASSUME SignInBounds
    PROVE  /\ \A e \in SignIn!AppCodes : /\ e.kind = "totp" /\ e.a \in 1..MaxKeys /\ e.b \in 1..MaxClock + 1
                                         /\ e = SignIn!Shown("totp", e.a, e.b)
           /\ \A e \in SignIn!RecoveryCodes : /\ e.kind = "recovery" /\ e.a \in 1..MaxBatches
                                              /\ e.b \in Codes /\ e = SignIn!Shown("recovery", e.a, e.b)
           /\ \A e \in SignIn!Assertions : e.kind = "passkey" /\ e.a \in Passkeys /\ e.b \in 0..MaxCount
           /\ \A e \in SignIn!Used : e.kind = "ceremony"
           /\ \A w \in Ceremonies : CeremonyOf(w) \in SignIn!Used /\ CeremonyOf(w).a = w
           /\ SignIn!Wrong.kind = "wrong" /\ SignIn!Password.kind = "password"
           /\ SignIn!Evidence = SignIn!AppCodes \cup SignIn!RecoveryCodes \cup SignIn!Assertions \cup SignIn!Used
           /\ \A e \in SignIn!Used : \E w \in Ceremonies : e = CeremonyOf(w)
BY DEF SignIn!AppCodes, SignIn!RecoveryCodes, SignIn!Assertions, SignIn!Used, SignIn!Evidence, SignIn!Shown,
       SignIn!Wrong, SignIn!Password, CeremonyOf

LEMMA IdleGood ==
    ASSUME SignInBounds
    PROVE  /\ SignIn!Idle \in SignInRow /\ SignInCallGood(SignIn!Idle) /\ SignIn!Idle.stage = "idle"
           /\ SignIn!Idle.op = "none"
<1>1. SignIn!Idle \in SignInRow /\ SignIn!Idle.stage = "idle" /\ SignIn!Idle.op = "none"
  BY DEF SignIn!Idle, SignInRow, SignInOps, SignInStages, AnyShown
<1> QED BY <1>1 DEF SignInCallGood

LEMMA MayPassNat ==
    ASSUME SignInBounds
    PROVE  MayPass \in Nat /\ Cardinality(SignIns) \in Nat /\ Cardinality(SignIns) > 0
<1>1. Cardinality(SignIns) \in Nat
  BY FS_CardinalityType DEF SignInBounds
<1>2. Cardinality(SignIns) # 0
  BY FS_EmptySet DEF SignInBounds
<1> QED BY <1>1, <1>2 DEF MayPass

LEMMA GuessingFinite ==
    ASSUME SignInBounds, NEW k
    PROVE  /\ IsFiniteSet(Guessing(k)) /\ Cardinality(Guessing(k)) \in Nat
           /\ Cardinality(Guessing(k)) <= Cardinality(SignIns)
<1>1. Guessing(k) \subseteq SignIns /\ IsFiniteSet(SignIns)
  BY DEF Guessing, SignInBounds
<1> QED BY <1>1, FS_Subset, FS_CardinalityType

\* Nobody new guesses, and no failure is added.
LEMMA GuessKept ==
    ASSUME SignInBounds, SignInTypes, GuessesCounted, failures' \in [SignIn!Limited -> Nat],
           \A k \in SignIn!Limited : failures'[k] <= failures[k],
           \A q \in SignIns : Guesses(signIn'[q]) =>
              Guesses(signIn[q]) /\ signIn'[q].op = signIn[q].op /\ signIn'[q].shown = signIn[q].shown
    PROVE  GuessesCounted'
<1> SUFFICES ASSUME NEW k \in SignIn!Limited
             PROVE  failures'[k] + Cardinality(Guessing(k)') <= Attempts + MayPass
  BY DEF GuessesCounted, MayPass
<1>1. \A q \in SignIns : Guesses(signIn'[q]) => SignIn!LimiterKey(signIn'[q]) = SignIn!LimiterKey(signIn[q])
  BY DEF SignIn!LimiterKey
<1>2. Guessing(k)' \subseteq Guessing(k)
  BY <1>1 DEF Guessing
<1>3. IsFiniteSet(Guessing(k)) /\ Cardinality(Guessing(k)) \in Nat
  BY GuessingFinite
<1>4. Cardinality(Guessing(k)') <= Cardinality(Guessing(k)) /\ Cardinality(Guessing(k)') \in Nat
  BY <1>2, <1>3, FS_Subset, FS_CardinalityType
<1>5. failures[k] + Cardinality(Guessing(k)) <= Attempts + MayPass /\ MayPass \in Nat
  BY MayPassNat DEF GuessesCounted
<1>6. failures[k] \in Nat /\ failures'[k] \in Nat /\ failures'[k] <= failures[k]
  BY DEF SignInTypes
<1> QED BY <1>3, <1>4, <1>5, <1>6 DEF SignInBounds

\* The other calls are where they were.
Only(p) == \A q \in SignIns : q # p => signIn'[q] = signIn[q]
SameCall(p, stage) ==
    /\ signIn' \in [SignIns -> SignInRow] /\ Only(p)
    /\ signIn'[p].stage = stage /\ signIn'[p].op = signIn[p].op /\ signIn'[p].on = signIn[p].on
    /\ signIn'[p].shown = signIn[p].shown /\ signIn'[p].by = signIn[p].by

LEMMA Staged ==
    ASSUME SignInTypes, NEW p \in SignIns, NEW stage \in SignInStages, SignIn!To(p, stage)
    PROVE  SameCall(p, stage) /\ signIn'[p].flag = signIn[p].flag
<1>1. signIn[p] \in SignInRow
  BY DEF SignInTypes
<1> DEFINE row == [signIn[p] EXCEPT !.stage = stage]
<1>2. signIn' = [signIn EXCEPT ![p] = row]
  BY DEF SignIn!To, SignInTypes
<1>3. /\ row \in SignInRow /\ row.stage = stage /\ row.op = signIn[p].op /\ row.on = signIn[p].on
      /\ row.shown = signIn[p].shown /\ row.by = signIn[p].by /\ row.flag = signIn[p].flag
  BY <1>1 DEF SignInRow
<1> HIDE DEF row
<1>4. signIn' \in [SignIns -> SignInRow] /\ signIn'[p] = row /\ \A q \in SignIns : q # p => signIn'[q] = signIn[q]
  BY <1>2, <1>3 DEF SignInTypes
<1> QED BY <1>3, <1>4 DEF SameCall, Only

LEMMA Concluded ==
    ASSUME SignInBounds, SignInTypes, NEW p \in SignIns, SignIn!End(p)
    PROVE  signIn' \in [SignIns -> SignInRow] /\ Only(p) /\ signIn'[p] = SignIn!Idle
BY IdleGood DEF SignIn!End, SignInTypes, Only

LEMMA OthersIdle ==
    ASSUME SignInInv, NEW p \in SignIns, signIn[p].stage # "idle", ~Overlap
    PROVE  \A q \in SignIns : q # p => signIn[q].stage = "idle"
BY DEF SignInInv, SignAloneInv, SignsAlone

\* Consumed rows stay, and nothing is accepted or opened.
Settled ==
    /\ UNCHANGED opened
    /\ \A h \in Challenges : pendingSignIn[h].state = "consumed" => pendingSignIn'[h] = pendingSignIn[h]
    /\ \A w \in Ceremonies : ceremony[w].state = "consumed" => ceremony'[w] = ceremony[w]

LEMMA OpensKept ==
    ASSUME SignInBounds, SignInTypes, CallsGood, OpensOnce, Settled,
           \A q \in SignIns : signIn'[q] = signIn[q] \/ signIn'[q].stage \notin {"consumed", "asserted"}
    PROVE  OpensOnce'
<1>1. \A q \in SignIns : Spends(signIn'[q]) \/ Asserts(signIn'[q]) \/ signIn'[q].stage = "asserted" =>
         signIn'[q] = signIn[q]
  BY DEF Spends, Asserts
<1>2. \A h \in Challenges : opened'[h] \in 0..1 /\
         (opened'[h] > 0 => pendingSignIn'[h].state = "consumed" /\ pendingSignIn'[h].failed < Attempts)
  BY DEF OpensOnce, Settled
<1>3. \A w \in Ceremonies : opened'[w] \in 0..1 /\ (opened'[w] > 0 => ceremony'[w].state = "consumed")
  BY DEF OpensOnce, Settled
<1>4. \A q \in SignIns : /\ Spends(signIn[q]) => signIn[q].on \in Challenges
                         /\ Asserts(signIn[q]) \/ signIn[q].stage = "asserted" => signIn[q].by \in Ceremonies
  <2>1. \A q \in SignIns : SignInCallGood(signIn[q])
    BY DEF CallsGood
  <2>2. \A e \in SignIn!Assertions : e \notin SignIn!AppCodes \cup SignIn!RecoveryCodes \cup {SignIn!Wrong}
    BY Kinds
  <2> QED BY <2>1, <2>2 DEF SignInCallGood, Spends, Asserts
<1>5. \A q \in SignIns : Spends(signIn'[q]) =>
          /\ pendingSignIn'[signIn'[q].on].state = "consumed" /\ pendingSignIn'[signIn'[q].on].failed < Attempts
          /\ opened'[signIn'[q].on] = 0
  BY <1>1, <1>4 DEF OpensOnce, Settled
<1>6. \A q \in SignIns : Asserts(signIn'[q]) => opened'[signIn'[q].by] = 0 /\ ceremony'[signIn'[q].by].state = "consumed"
  BY <1>1, <1>4 DEF OpensOnce, Settled
<1>7. \A q \in SignIns : signIn'[q].stage = "asserted" =>
          /\ ceremony'[signIn'[q].by].state = "consumed"
          /\ signIn'[q].op = "second" => ceremony'[signIn'[q].by].link = signIn'[q].on
  BY <1>1, <1>4 DEF OpensOnce, Settled
<1>8. /\ \A p, q \in SignIns : Spends(signIn'[p]) /\ Spends(signIn'[q]) /\ p # q => signIn'[p].on # signIn'[q].on
      /\ \A p, q \in SignIns : Asserts(signIn'[p]) /\ Asserts(signIn'[q]) /\ p # q => signIn'[p].by # signIn'[q].by
  BY <1>1 DEF OpensOnce
<1> QED BY <1>2, <1>3, <1>5, <1>6, <1>7, <1>8 DEF OpensOnce

\* Codes are used up or replaced by a new set, passkeys only come and count on.
CodesMove == \/ codes' \subseteq codes /\ batch' = batch
             \/ batch' = batch + 1 /\ codes' = {SignIn!Shown("recovery", batch', i) : i \in Codes}
PasskeysMove == \A k \in Passkeys : passkey[k].state # "none" =>
    passkey'[k].state # "none" /\ passkey'[k].count >= passkey[k].count

LEMMA SpentKept ==
    ASSUME SignInBounds, SignInTypes, SignInTypes', SpentForGood, CodesMove, PasskeysMove,
           \A w \in Ceremonies : ceremony[w].state = "consumed" => ceremony'[w].state = "consumed",
           \A e \in SignIn!RecoveryCodes \cup SignIn!Assertions \cup SignIn!Used : accepted'[e] = accepted[e]
    PROVE  SpentForGood'
<1>1. \A w \in Ceremonies : accepted'[CeremonyOf(w)] \in 0..1 /\
          (accepted'[CeremonyOf(w)] > 0 => ceremony'[w].state = "consumed")
  BY Kinds DEF SpentForGood
<1>2. ASSUME NEW e \in SignIn!RecoveryCodes
      PROVE  accepted'[e] \in 0..1 /\ (accepted'[e] > 0 => e \notin codes' /\ e.a <= batch')
  <2>1. accepted[e] \in 0..1 /\ (accepted[e] > 0 => e \notin codes /\ e.a <= batch) /\ accepted'[e] = accepted[e]
    BY DEF SpentForGood
  <2>2. e.a \in Nat /\ batch \in Nat
    BY Kinds DEF SignInTypes, SignInBounds
  <2>3. CASE codes' \subseteq codes /\ batch' = batch
    BY <2>1, <2>3
  <2>4. CASE batch' = batch + 1 /\ codes' = {SignIn!Shown("recovery", batch', i) : i \in Codes}
    <3>1. \A f \in codes' : f.a = batch + 1
      BY <2>4 DEF SignIn!Shown
    <3> QED BY <2>1, <2>2, <2>4, <3>1
  <2> QED BY <2>3, <2>4 DEF CodesMove
<1>3. ASSUME NEW e \in SignIn!Assertions
      PROVE  accepted'[e] \in 0..1 /\
                (accepted'[e] > 0 => passkey'[e.a].state # "none" /\ passkey'[e.a].count >= e.b /\ e.b > 0)
  <2>1. /\ accepted[e] \in 0..1 /\ accepted'[e] = accepted[e]
        /\ accepted[e] > 0 => passkey[e.a].state # "none" /\ passkey[e.a].count >= e.b /\ e.b > 0
    BY DEF SpentForGood
  <2>2. e.a \in Passkeys /\ e.b \in Int
    BY Kinds DEF SignInBounds
  <2>3. passkey[e.a].count \in Int /\ passkey'[e.a].count \in Int
    BY <2>2 DEF SignInTypes, SignIn!TypeOK, SignInBounds
  <2> QED BY <2>1, <2>2, <2>3 DEF PasskeysMove
<1> QED BY <1>1, <1>2, <1>3 DEF SpentForGood

LEMMA SignInStart ==
    ASSUME SignInBounds, SignIn!Init PROVE SignInInv
<1>1. \A e \in SignIn!Evidence : accepted[e] = 1 => Enrolled /\ e = SignIn!Shown("totp", 1, 1)
  BY DEF SignIn!Init
<1>2. \A e \in SignIn!Evidence : accepted[e] \in 0..1
  BY DEF SignIn!Init
<1>3. SignInTypes
  <2>1. /\ asked \in BOOLEAN /\ keys \in 0..MaxKeys /\ batch \in 0..MaxBatches /\ batch = keys
        /\ Enrolled => keys = 1
    BY DEF SignIn!Init, SignInBounds
  <2>2. totp \in [key : 0..keys, confirmed : BOOLEAN, step : 0..MaxClock + 1]
    BY <2>1 DEF SignIn!Init, SignIn!NoTOTP, SignInBounds
  <2>3. codes \subseteq {SignIn!Shown("recovery", batch, i) : i \in Codes}
    BY <2>1 DEF SignIn!Init
  <2>4. passkey \in [Passkeys -> [state : {"none", "held", "removed"}, count : 0..MaxCount]]
    BY DEF SignIn!Init, SignInBounds
  <2>5. /\ pendingSignIn \in [Challenges -> [state : {"none", "pending", "consumed", "expired"}, failed : 0..Attempts]]
        /\ ceremony \in [Ceremonies -> [state : {"none", "pending", "consumed", "expired"},
                                        purpose : SignIn!Purposes, link : Challenges \cup {NoRow}]]
        /\ \A w \in Ceremonies : ceremony[w].link = NoRow /\ ceremony[w].purpose = "register"
    BY DEF SignIn!Init, SignInBounds, SignIn!Purposes
  <2>6. /\ timeStep \in 1..MaxClock /\ failures \in [SignIn!Limited -> Nat]
        /\ signIn \in [SignIns -> SignInRow] /\ accepted \in [SignIn!Evidence -> Nat]
        /\ opened \in [Challenges \cup Ceremonies -> Nat]
    BY IdleGood DEF SignIn!Init, SignInBounds
  <2>7. SignIn!TypeOK
    BY <2>1, <2>2, <2>3, <2>4, <2>5 DEF SignIn!TypeOK
  <2> QED BY <2>1, <2>6, <2>7 DEF SignInTypes
<1>4. \A p \in SignIns : signIn[p] = SignIn!Idle /\ signIn[p].stage = "idle" /\ signIn[p].op = "none"
  BY IdleGood DEF SignIn!Init
<1>5. CallsGood
  BY <1>4, IdleGood DEF CallsGood
<1>6. OpensOnce
  BY <1>4 DEF SignIn!Init, OpensOnce, Spends, Asserts
<1>7. SpentForGood
  <2>1. \A e \in SignIn!RecoveryCodes \cup SignIn!Assertions \cup SignIn!Used : accepted[e] = 0
    <3>1. SignIn!Shown("totp", 1, 1).kind = "totp"
      BY DEF SignIn!Shown
    <3> QED BY <1>1, <1>2, <3>1, Kinds
  <2> QED BY <2>1, Kinds DEF SpentForGood
<1>8. GuessesCounted
  <2>1. \A k \in SignIn!Limited : Guessing(k) = {} /\ failures[k] = 0
    BY <1>4 DEF SignIn!Init, Guessing, Guesses
  <2>2. Cardinality({}) = 0 /\ MayPass \in Nat
    BY FS_EmptySet, MayPassNat
  <2> QED BY <2>1, <2>2 DEF GuessesCounted, SignInBounds
<1>9. KeyInv
  <2>1. \/ Enrolled /\ totp.key = 1 /\ totp.confirmed /\ totp.step = 1 /\ keys = 1 /\ proved = {1}
        \/ ~Enrolled /\ totp.key = 0 /\ ~totp.confirmed
    BY DEF SignIn!Init, SignIn!NoTOTP, SignInBounds
  <2>2. ASSUME NEW e \in SignIn!AppCodes PROVE CodeSpent(totp, keys, accepted, e)
    <3>1. SignIn!Shown("totp", 1, 1).a = 1 /\ SignIn!Shown("totp", 1, 1).b = 1
      BY DEF SignIn!Shown
    <3>2. e \in SignIn!Evidence
      BY Kinds
    <3> QED BY <1>1, <1>2, <2>1, <3>1, <3>2 DEF CodeSpent
  <2>3. \A p \in SignIns : KeyRead(totp, proved, signIn[p])
    BY <1>4 DEF KeyRead
  <2> QED BY <2>1, <2>2, <2>3 DEF KeyInv, SignIn!ConfirmedKeyWasProved
<1>10. SignAloneInv
  <2>1. SignIn!CodesNeedFactor
    BY DEF SignIn!Init, SignIn!CodesNeedFactor, SignIn!HasSecondFactor, SignInBounds
  <2>2. SignsAlone /\ \A p \in SignIns : DecidedOn(totp, passkey, asked, signIn[p])
    BY <1>4 DEF SignsAlone, DecidedOn
  <2> QED BY <2>1, <2>2 DEF SignAloneInv
<1> QED BY <1>3, <1>5, <1>6, <1>7, <1>8, <1>9, <1>10 DEF SignInInv

LEMMA KeyKept ==
    ASSUME SignInInv, KeyStays, NEW p \in SignIns, Only(p), UNCHANGED <<totp, keys>>, proved \subseteq proved',
           \A e \in SignIn!AppCodes : accepted'[e] = accepted[e], KeyRead(totp, proved', signIn'[p])
    PROVE  KeyInv'
<1>1. KeyInv
  BY DEF SignInInv
<1>2. \A e \in SignIn!AppCodes : CodeSpent(totp', keys', accepted', e)
  BY <1>1 DEF KeyInv, CodeSpent
<1>3. \A q \in SignIns : KeyRead(totp', proved', signIn'[q])
  BY <1>1 DEF KeyInv, KeyRead, Only
<1> QED BY <1>1, <1>2, <1>3 DEF KeyInv, SignIn!ConfirmedKeyWasProved

LEMMA SameHeld == SignIn!Held = HeldIn(passkey)
BY DEF SignIn!Held, HeldIn

LEMMA SignAloneKept ==
    ASSUME SignInInv, ~Overlap, NEW p \in SignIns, Only(p), UNCHANGED asked, totp'.confirmed = totp.confirmed,
           HeldIn(passkey') = HeldIn(passkey), codes' \subseteq codes,
           signIn'[p].stage # "idle" => \A q \in SignIns : q # p => signIn[q].stage = "idle",
           DecidedOn(totp', passkey', asked', signIn'[p])
    PROVE  SignAloneInv'
<1>1. SignAloneInv
  BY DEF SignInInv
<1>2. SignsAlone'
  BY <1>1 DEF SignAloneInv, SignsAlone, Only
<1>3. \A q \in SignIns : DecidedOn(totp', passkey', asked', signIn'[q])
  BY <1>1 DEF SignAloneInv, DecidedOn, Only
<1>4. SignIn!Held' = SignIn!Held
  BY DEF SignIn!Held, HeldIn
<1>5. SignIn!CodesNeedFactor'
  BY <1>1, <1>4 DEF SignAloneInv, SignIn!CodesNeedFactor, SignIn!HasSecondFactor
<1> QED BY <1>2, <1>3, <1>5 DEF SignAloneInv

\* A step that consumes, accepts and opens nothing.
LEMMA QuietStep ==
    ASSUME SignInBounds, SignInInv, SignInTypes', NEW p \in SignIns, Only(p), SignInCallGood(signIn'[p]), Settled,
           \A e \in SignIn!RecoveryCodes \cup SignIn!Assertions \cup SignIn!Used : accepted'[e] = accepted[e],
           CodesMove, PasskeysMove, GuessesCounted',
           signIn'[p] = signIn[p] \/ signIn'[p].stage \notin {"consumed", "asserted"},
           KeyStays => KeyInv', ~Overlap => SignAloneInv'
    PROVE  SignInInv'
<1>1. SignInTypes /\ CallsGood /\ OpensOnce /\ SpentForGood
  BY DEF SignInInv
<1>2. CallsGood'
  BY <1>1 DEF CallsGood, Only
<1>3. \A q \in SignIns : signIn'[q] = signIn[q] \/ signIn'[q].stage \notin {"consumed", "asserted"}
  BY DEF Only
<1>4. OpensOnce'
  BY <1>1, <1>3, OpensKept
<1>5. \A w \in Ceremonies : ceremony[w].state = "consumed" => ceremony'[w].state = "consumed"
  BY DEF Settled
<1>6. SpentForGood'
  BY <1>1, <1>5, SpentKept
<1> QED BY <1>2, <1>4, <1>6 DEF SignInInv, KeyStays

SignInRows == <<asked, totp, keys, batch, codes, passkey, pendingSignIn, ceremony, timeStep, accepted, opened>>

\* A step of a call in its own memory, and the limiter's.
LEMMA CallStep ==
    ASSUME SignInBounds, SignInInv, NEW p \in SignIns, signIn' \in [SignIns -> SignInRow], Only(p),
           SignInCallGood(signIn'[p]), UNCHANGED SignInRows, proved \subseteq proved', GuessesCounted',
           failures' \in [SignIn!Limited -> Nat],
           signIn'[p] = signIn[p] \/ signIn'[p].stage \notin {"consumed", "asserted"},
           KeyStays => KeyRead(totp, proved', signIn'[p]),
           ~Overlap /\ signIn'[p].stage # "idle" => \A q \in SignIns : q # p => signIn[q].stage = "idle",
           ~Overlap => DecidedOn(totp, passkey, asked, signIn'[p])
    PROVE  SignInInv'
<1>1. UNCHANGED <<asked, totp, keys, batch, codes, passkey, pendingSignIn, ceremony, timeStep, accepted, opened>>
  BY DEF SignInRows
<1>2. SignInTypes
  BY DEF SignInInv
<1>3. SignInTypes'
  BY <1>1, <1>2 DEF SignInTypes, SignIn!TypeOK
<1>4. Settled /\ CodesMove
  BY <1>1 DEF Settled, CodesMove
<1>5. PasskeysMove
  BY <1>1, <1>2 DEF PasskeysMove, SignInTypes, SignIn!TypeOK, SignInBounds
<1>6. KeyStays => KeyInv'
  BY <1>1, KeyKept
<1>7. ~Overlap => SignAloneInv'
  <2>1. totp'.confirmed = totp.confirmed /\ HeldIn(passkey') = HeldIn(passkey) /\ codes' \subseteq codes /\ UNCHANGED asked
    BY <1>1
  <2>2. ~Overlap => DecidedOn(totp', passkey', asked', signIn'[p])
    BY <1>1
  <2> QED BY <2>1, <2>2, SignAloneKept
<1>8. \A e \in SignIn!RecoveryCodes \cup SignIn!Assertions \cup SignIn!Used : accepted'[e] = accepted[e]
  BY <1>1
<1> QED BY <1>3, <1>4, <1>5, <1>6, <1>7, <1>8, QuietStep

\* A call that only moves on, in a stage in which nothing is relied upon, or ends.
LEMMA CallGoesOn ==
    ASSUME SignInBounds, SignInInv, NEW p \in SignIns, signIn[p].stage # "idle",
           signIn' \in [SignIns -> SignInRow], Only(p), SignInCallGood(signIn'[p]),
           UNCHANGED <<SignInRows, failures>>, proved \subseteq proved',
           signIn'[p].stage \notin {"consumed", "asserted"},
           Guesses(signIn'[p]) =>
              Guesses(signIn[p]) /\ signIn'[p].op = signIn[p].op /\ signIn'[p].shown = signIn[p].shown,
           KeyStays => KeyRead(totp, proved', signIn'[p]),
           ~Overlap => DecidedOn(totp, passkey, asked, signIn'[p])
    PROVE  SignInInv'
<1>1. SignInTypes /\ GuessesCounted /\ failures' = failures /\ failures \in [SignIn!Limited -> Nat]
  BY DEF SignInInv, SignInTypes
<1>2. \A k \in SignIn!Limited : failures'[k] <= failures[k]
  BY <1>1
<1>3. \A q \in SignIns : Guesses(signIn'[q]) =>
         Guesses(signIn[q]) /\ signIn'[q].op = signIn[q].op /\ signIn'[q].shown = signIn[q].shown
  BY DEF Only
<1>4. GuessesCounted'
  BY <1>1, <1>2, <1>3, GuessKept
<1>5. ~Overlap => \A q \in SignIns : q # p => signIn[q].stage = "idle"
  BY OthersIdle
<1>6. UNCHANGED SignInRows /\ failures' \in [SignIn!Limited -> Nat]
  BY <1>1
<1> QED BY <1>4, <1>5, <1>6, CallStep

LEMMA BeginStep ==
    ASSUME SignInBounds, SignInInv, NEW p \in SignIns, NEW op \in SignInOps \ {"none"},
           NEW on \in Challenges \cup Passkeys \cup {NoRow}, NEW shown \in AnyShown, NEW by \in Ceremonies \cup {NoRow},
           SignIn!Begin(p, op, on, shown, by),
           op = "second" => /\ on \in Challenges
                            /\ \/ shown \in SignIn!AppCodes \cup SignIn!RecoveryCodes \cup {SignIn!Wrong}
                               \/ shown \in SignIn!Assertions /\ by \in Ceremonies,
           op = "passkey" => shown \in SignIn!Assertions /\ by \in Ceremonies,
           op \in {"confirm", "disable"} => shown \in SignIn!AppCodes \cup {SignIn!Wrong},
           op = "codes" => shown \in SignIn!AppCodes \cup {SignIn!Password, SignIn!Wrong},
           op \in {"login", "register", "remove"} => shown \in {SignIn!Password, SignIn!Wrong},
           op = "remove" => on \in Passkeys,
           op = "add" => shown = SignIn!Wrong /\ by \in Ceremonies
    PROVE  SignInInv'
<1>1. SignInTypes
  BY DEF SignInInv
<1> DEFINE row == [SignIn!Idle EXCEPT !.op = op, !.stage = "begun", !.on = on, !.shown = shown, !.by = by]
<1>2. /\ signIn' = [signIn EXCEPT ![p] = row] /\ signIn[p] = SignIn!Idle
      /\ Overlap \/ \A q \in SignIns : signIn[q] = SignIn!Idle
      /\ UNCHANGED <<asked, totp, keys, batch, codes, passkey, pendingSignIn, ceremony, failures, timeStep,
                     accepted, opened, proved>>
  BY DEF SignIn!Begin, SignIn!MayBegin, SignIn!Undisturbed, SignIn!factors, SignIn!history
<1>3. /\ row \in SignInRow /\ row.stage = "begun" /\ row.op = op /\ row.on = on /\ row.shown = shown /\ row.by = by
  BY DEF SignIn!Idle, SignInRow, SignInStages, SignInOps
<1> HIDE DEF row
<1>4. signIn' \in [SignIns -> SignInRow] /\ Only(p) /\ signIn'[p] = row
  BY <1>1, <1>2, <1>3 DEF SignInTypes, Only
<1>5. row # SignIn!Idle
  BY <1>3, IdleGood
<1>6. SignInCallGood(row)
  BY <1>3, <1>5 DEF SignInCallGood
<1>7. failures \in [SignIn!Limited -> Nat] /\ GuessesCounted
  BY <1>1 DEF SignInInv, SignInTypes
<1>8. GuessesCounted'
  <2>1. \A q \in SignIns : Guesses(signIn'[q]) =>
           Guesses(signIn[q]) /\ signIn'[q].op = signIn[q].op /\ signIn'[q].shown = signIn[q].shown
    BY <1>3, <1>4 DEF Guesses, Only
  <2>2. \A k \in SignIn!Limited : failures'[k] <= failures[k]
    BY <1>2, <1>7
  <2>3. failures' \in [SignIn!Limited -> Nat]
    BY <1>2, <1>7
  <2> QED BY <1>1, <1>7, <2>1, <2>2, <2>3, GuessKept
<1>9. KeyRead(totp, proved', signIn'[p]) /\ DecidedOn(totp, passkey, asked, signIn'[p])
  BY <1>3, <1>4 DEF KeyRead, DecidedOn
<1>10. ~Overlap => \A q \in SignIns : q # p => signIn[q].stage = "idle"
  BY <1>2, IdleGood
<1>11. UNCHANGED SignInRows /\ proved \subseteq proved' /\ failures' \in [SignIn!Limited -> Nat]
  BY <1>2, <1>7 DEF SignInRows
<1>12. SignInCallGood(signIn'[p]) /\ signIn'[p].stage \notin {"consumed", "asserted"}
  BY <1>3, <1>4, <1>6
<1> QED BY <1>4, <1>8, <1>9, <1>10, <1>11, <1>12, CallStep

LEMMA BeginningSafe ==
    ASSUME SignInBounds, SignInInv, NEW p \in SignIns, SignIn!Beginning(p)
    PROVE  SignInInv'
<1>0. /\ SignIn!AppCodes \cup SignIn!RecoveryCodes \cup SignIn!Assertions \cup {SignIn!Wrong, SignIn!Password}
            \subseteq AnyShown
      /\ SignInOps \ {"none"} = {"login", "second", "passkey", "confirm", "disable", "codes", "register", "remove", "add"}
  BY DEF AnyShown, SignIn!Evidence, SignInOps
<1>1. CASE SignIn!BeginLogin(p)
  <2>1. PICK e \in {SignIn!Password, SignIn!Wrong} : SignIn!Begin(p, "login", NoRow, e, NoRow)
    BY <1>1 DEF SignIn!BeginLogin
  <2> QED BY <1>0, <2>1, BeginStep
<1>2. CASE SignIn!BeginSecondFactor(p)
  <2>1. PICK h \in Challenges :
           \/ \E e \in SignIn!AppCodes \cup SignIn!RecoveryCodes \cup {SignIn!Wrong} : SignIn!Begin(p, "second", h, e, NoRow)
           \/ \E e \in SignIn!Assertions, w \in Ceremonies : SignIn!Begin(p, "second", h, e, w)
    BY <1>2 DEF SignIn!BeginSecondFactor
  <2>2. CASE \E e \in SignIn!AppCodes \cup SignIn!RecoveryCodes \cup {SignIn!Wrong} : SignIn!Begin(p, "second", h, e, NoRow)
    BY <1>0, <2>2, BeginStep
  <2>3. CASE \E e \in SignIn!Assertions, w \in Ceremonies : SignIn!Begin(p, "second", h, e, w)
    BY <1>0, <2>3, BeginStep
  <2> QED BY <2>1, <2>2, <2>3
<1>3. CASE SignIn!BeginPasskeySignIn(p)
  <2>1. PICK e \in SignIn!Assertions, w \in Ceremonies : SignIn!Begin(p, "passkey", NoRow, e, w)
    BY <1>3 DEF SignIn!BeginPasskeySignIn
  <2> QED BY <1>0, <2>1, BeginStep
<1>4. CASE SignIn!BeginConfirm(p)
  <2>1. PICK e \in SignIn!AppCodes \cup {SignIn!Wrong} : SignIn!Begin(p, "confirm", NoRow, e, NoRow)
    BY <1>4 DEF SignIn!BeginConfirm
  <2> QED BY <1>0, <2>1, BeginStep
<1>5. CASE SignIn!BeginDisable(p)
  <2>1. PICK e \in SignIn!AppCodes \cup {SignIn!Wrong} : SignIn!Begin(p, "disable", NoRow, e, NoRow)
    BY <1>5 DEF SignIn!BeginDisable
  <2> QED BY <1>0, <2>1, BeginStep
<1>6. CASE SignIn!BeginReplaceCodes(p)
  <2>1. PICK e \in SignIn!AppCodes \cup {SignIn!Password, SignIn!Wrong} : SignIn!Begin(p, "codes", NoRow, e, NoRow)
    BY <1>6 DEF SignIn!BeginReplaceCodes
  <2> QED BY <1>0, <2>1, BeginStep
<1>7. CASE SignIn!BeginRegister(p)
  <2>1. PICK e \in {SignIn!Password, SignIn!Wrong} : SignIn!Begin(p, "register", NoRow, e, NoRow)
    BY <1>7 DEF SignIn!BeginRegister
  <2> QED BY <1>0, <2>1, BeginStep
<1>8. CASE SignIn!BeginRemove(p)
  <2>1. PICK e \in {SignIn!Password, SignIn!Wrong}, k \in Passkeys : SignIn!Begin(p, "remove", k, e, NoRow)
    BY <1>8 DEF SignIn!BeginRemove
  <2> QED BY <1>0, <2>1, BeginStep
<1>9. CASE SignIn!BeginAdd(p)
  <2>1. PICK w \in Ceremonies : SignIn!Begin(p, "add", NoRow, SignIn!Wrong, w)
    BY <1>9 DEF SignIn!BeginAdd
  <2> QED BY <1>0, <2>1, BeginStep
<1> QED BY <1>1, <1>2, <1>3, <1>4, <1>5, <1>6, <1>7, <1>8, <1>9 DEF SignIn!Beginning

LEMMA StageGood ==
    ASSUME SignInBounds, SignInInv, NEW p \in SignIns, signIn[p].stage # "idle",
           NEW stage \in SignInStages \ {"idle"}, SameCall(p, stage),
           stage = "matched" => signIn[p].shown \in SignIn!AppCodes /\ signIn[p].op \in {"second", "disable", "codes"},
           stage = "asserted" => signIn[p].op \in {"second", "passkey"} /\ signIn[p].shown \in SignIn!Assertions,
           stage \in {"verified", "cleared"} /\ signIn[p].op = "confirm" => signIn[p].shown \in SignIn!AppCodes,
           stage = "consumed" => signIn[p].op \in {"second", "passkey"},
           stage = "decided" => signIn[p].op \in {"disable", "remove", "codes", "add"},
           stage = "counted" => signIn[p].op = "second",
           stage \in {"allowed", "matched", "verified", "refused"} => signIn[p].op \notin {"passkey", "add"}
    PROVE  SignInCallGood(signIn'[p])
<1>1. SignInCallGood(signIn[p])
  BY DEF SignInInv, CallsGood
<1>2. signIn'[p] # SignIn!Idle
  BY IdleGood DEF SameCall
<1> QED BY <1>1, <1>2 DEF SignInCallGood, SameCall

LEMMA EndFacts ==
    ASSUME SignInBounds, SignInInv, NEW p \in SignIns, SignIn!End(p)
    PROVE  /\ signIn' \in [SignIns -> SignInRow] /\ Only(p) /\ SignInCallGood(signIn'[p])
           /\ signIn'[p].stage = "idle" /\ ~Guesses(signIn'[p])
           /\ \A t, s : KeyRead(t, s, signIn'[p])
           /\ \A t, r, n : DecidedOn(t, r, n, signIn'[p])
<1>1. signIn' \in [SignIns -> SignInRow] /\ Only(p) /\ signIn'[p] = SignIn!Idle
  BY Concluded DEF SignInInv
<1>2. SignInCallGood(signIn'[p]) /\ signIn'[p].stage = "idle" /\ signIn'[p].op = "none"
  BY <1>1, IdleGood
<1> QED BY <1>1, <1>2 DEF Guesses, KeyRead, DecidedOn

LEMMA EndStep ==
    ASSUME SignInBounds, SignInInv, NEW p \in SignIns, signIn[p].stage # "idle", SignIn!End(p),
           UNCHANGED <<SignInRows, failures, proved>>
    PROVE  SignInInv'
<1>1. /\ signIn' \in [SignIns -> SignInRow] /\ Only(p) /\ SignInCallGood(signIn'[p])
      /\ signIn'[p].stage = "idle" /\ ~Guesses(signIn'[p])
      /\ KeyRead(totp, proved', signIn'[p]) /\ DecidedOn(totp, passkey, asked, signIn'[p])
  BY EndFacts
<1>2. UNCHANGED <<SignInRows, failures>> /\ proved \subseteq proved'
  OBVIOUS
<1>3. signIn'[p].stage \notin {"consumed", "asserted"}
  BY <1>1
<1> QED BY <1>1, <1>2, <1>3, CallGoesOn

\* A call that has failed is about to be counted.
LEMMA RefuseStep ==
    ASSUME SignInBounds, SignInInv, NEW p \in SignIns, Guesses(signIn[p]), signIn[p].op \notin {"passkey", "add"},
           SignIn!To(p, "refused"), UNCHANGED <<SignInRows, failures, proved>>
    PROVE  SignInInv'
<1>1. signIn[p].stage # "idle" /\ SignInTypes
  BY DEF Guesses, SignInInv
<1>2. SameCall(p, "refused")
  BY <1>1, Staged DEF SignInStages
<1>3. SignInCallGood(signIn'[p])
  BY <1>1, <1>2, StageGood DEF SignInStages
<1>4. /\ KeyRead(totp, proved', signIn'[p]) /\ DecidedOn(totp, passkey, asked, signIn'[p])
      /\ signIn' \in [SignIns -> SignInRow] /\ Only(p) /\ signIn'[p].stage = "refused"
      /\ signIn'[p].op = signIn[p].op /\ signIn'[p].shown = signIn[p].shown
  BY <1>2 DEF SameCall, KeyRead, DecidedOn
<1>5. UNCHANGED <<SignInRows, failures>> /\ proved \subseteq proved'
  OBVIOUS
<1>6. signIn'[p].stage \notin {"consumed", "asserted"}
  BY <1>4
<1> QED BY <1>1, <1>3, <1>4, <1>5, <1>6, CallGoesOn

LEMMA AllowSafe ==
    ASSUME SignInBounds, SignInInv, NEW p \in SignIns, SignIn!Allow(p)
    PROVE  SignInInv'
<1>0. SignInTypes /\ GuessesCounted /\ failures \in [SignIn!Limited -> Nat]
  BY DEF SignInInv, SignInTypes
<1>1. /\ signIn[p].stage = "begun" /\ signIn[p].op \notin {"passkey", "add"}
      /\ UNCHANGED <<asked, totp, keys, batch, codes, passkey, pendingSignIn, ceremony, failures, timeStep,
                     accepted, opened, proved>>
      /\ \/ SignIn!Allows(SignIn!LimiterKey(signIn[p])) /\ SignIn!To(p, "allowed")
         \/ SignIn!End(p)
  BY DEF SignIn!Allow, SignIn!factors, SignIn!history
<1>2. UNCHANGED <<SignInRows, failures, proved>>
  BY <1>1 DEF SignInRows
<1>3. CASE SignIn!End(p)
  BY <1>1, <1>2, <1>3, EndStep
<1>4. CASE SignIn!Allows(SignIn!LimiterKey(signIn[p])) /\ SignIn!To(p, "allowed")
  <2>1. SameCall(p, "allowed")
    BY <1>0, <1>4, Staged DEF SignInStages
  <2>2. SignInCallGood(signIn'[p])
    BY <1>1, <2>1, StageGood DEF SignInStages
  <2>3. /\ KeyRead(totp, proved', signIn'[p]) /\ DecidedOn(totp, passkey, asked, signIn'[p])
        /\ signIn' \in [SignIns -> SignInRow] /\ Only(p) /\ signIn'[p].stage = "allowed"
        /\ signIn'[p].op = signIn[p].op /\ signIn'[p].shown = signIn[p].shown
    BY <2>1 DEF SameCall, KeyRead, DecidedOn
  <2>4. ~Overlap => \A q \in SignIns : q # p => signIn[q].stage = "idle"
    BY <1>1, OthersIdle
  <2>5. SignIn!LimiterKey(signIn'[p]) = SignIn!LimiterKey(signIn[p])
    BY <2>3 DEF SignIn!LimiterKey
  <2>6. GuessesCounted'
    <3> SUFFICES ASSUME NEW k \in SignIn!Limited
                 PROVE  failures'[k] + Cardinality(Guessing(k)') <= Attempts + MayPass
      BY DEF GuessesCounted, MayPass
    <3>1. CASE k # SignIn!LimiterKey(signIn[p])
      <4>1. Guessing(k)' = Guessing(k)
        BY <1>1, <2>3, <2>5, <3>1 DEF Guessing, Guesses, Only
      <4> QED BY <1>0, <1>1, <4>1 DEF GuessesCounted
    <3>2. CASE k = SignIn!LimiterKey(signIn[p])
      <4>1. failures[k] < Attempts /\ failures[k] \in Nat
        BY <1>0, <1>4, <3>2 DEF SignIn!Allows
      <4>2. Guessing(k)' \subseteq SignIns /\ (~Overlap => Guessing(k)' \subseteq {p})
        BY <2>3, <2>4 DEF Guessing, Guesses, Only
      <4>3. IsFiniteSet(SignIns) /\ IsFiniteSet({p}) /\ Cardinality({p}) = 1 /\ Cardinality(SignIns) \in Nat
        BY MayPassNat, FS_Singleton DEF SignInBounds
      <4>4. Cardinality(Guessing(k)') \in Nat /\ Cardinality(Guessing(k)') <= MayPass + 1
        <5>1. CASE Overlap
          BY <4>2, <4>3, <5>1, FS_Subset, FS_CardinalityType DEF MayPass
        <5>2. CASE ~Overlap
          BY <4>2, <4>3, <5>2, FS_Subset, FS_CardinalityType DEF MayPass
        <5> QED BY <5>1, <5>2
      <4>5. MayPass \in Nat /\ Attempts \in Nat
        BY MayPassNat DEF SignInBounds
      <4> QED BY <1>1, <4>1, <4>4, <4>5
    <3> QED BY <3>1, <3>2
  <2>7. UNCHANGED SignInRows /\ proved \subseteq proved' /\ failures' \in [SignIn!Limited -> Nat]
    BY <1>0, <1>1, <1>2
  <2>8. signIn'[p].stage \notin {"consumed", "asserted"}
    BY <2>3
  <2> QED BY <2>2, <2>3, <2>4, <2>6, <2>7, <2>8, CallStep
<1> QED BY <1>1, <1>3, <1>4

LEMMA VerifyPasswordSafe ==
    ASSUME SignInBounds, SignInInv, NEW p \in SignIns, SignIn!VerifyPassword(p)
    PROVE  SignInInv'
<1>0. SignInTypes /\ SignInCallGood(signIn[p])
  BY DEF SignInInv, CallsGood
<1>1. /\ signIn[p].stage = "allowed"
      /\ UNCHANGED <<asked, totp, keys, batch, codes, passkey, pendingSignIn, ceremony, failures, timeStep,
                     accepted, opened, proved>>
      /\ \/ signIn[p].shown = SignIn!Password /\ SignIn!To(p, "verified")
         \/ SignIn!To(p, "refused")
  BY DEF SignIn!VerifyPassword, SignIn!factors, SignIn!history
<1>2. UNCHANGED <<SignInRows, failures, proved>> /\ signIn[p].op \notin {"passkey", "add"} /\ Guesses(signIn[p])
  BY <1>0, <1>1 DEF SignInRows, SignInCallGood, Guesses
<1>3. CASE SignIn!To(p, "refused")
  BY <1>2, <1>3, RefuseStep
<1>4. CASE signIn[p].shown = SignIn!Password /\ SignIn!To(p, "verified")
  <2>1. SameCall(p, "verified")
    BY <1>0, <1>4, Staged DEF SignInStages
  <2>2. SignIn!Password \notin SignIn!AppCodes \cup {SignIn!Wrong}
    BY Kinds
  <2>3. signIn[p].op # "confirm"
    BY <1>0, <1>4, <2>2 DEF SignInCallGood
  <2>4. SignInCallGood(signIn'[p])
    BY <1>1, <1>2, <2>1, <2>3, StageGood DEF SignInStages
  <2>5. /\ KeyRead(totp, proved', signIn'[p]) /\ DecidedOn(totp, passkey, asked, signIn'[p])
        /\ signIn' \in [SignIns -> SignInRow] /\ Only(p) /\ signIn'[p].stage = "verified" /\ ~Guesses(signIn'[p])
    BY <2>1, <2>3 DEF SameCall, KeyRead, DecidedOn, Guesses
  <2>6. UNCHANGED <<SignInRows, failures>> /\ proved \subseteq proved' /\ signIn'[p].stage \notin {"consumed", "asserted"}
    BY <1>2, <2>5
  <2> QED BY <1>1, <2>4, <2>5, <2>6, CallGoesOn
<1> QED BY <1>1, <1>3, <1>4

LEMMA ReadTOTPSafe ==
    ASSUME SignInBounds, SignInInv, NEW p \in SignIns, SignIn!ReadTOTP(p)
    PROVE  SignInInv'
<1>0. SignInTypes /\ SignInCallGood(signIn[p]) /\ totp.key \in Nat /\ totp.confirmed \in BOOLEAN
  BY DEF SignInInv, CallsGood, SignInTypes, SignIn!TypeOK
<1> DEFINE want == signIn[p].op # "confirm"
           stage == IF ~SignIn!Matches(signIn[p].shown, want) THEN "refused" ELSE IF want THEN "matched" ELSE "verified"
<1>1. /\ signIn[p].stage = "allowed" /\ signIn[p].shown.kind = "totp" /\ SignIn!To(p, stage)
      /\ UNCHANGED <<asked, totp, keys, batch, codes, passkey, pendingSignIn, ceremony, failures, timeStep,
                     accepted, opened>>
      /\ proved' = IF SignIn!Matches(signIn[p].shown, FALSE) /\ ~want THEN proved \cup {signIn[p].shown.a} ELSE proved
  BY DEF SignIn!ReadTOTP, SignIn!factors
<1>2. /\ UNCHANGED <<SignInRows, failures>> /\ proved \subseteq proved'
      /\ signIn[p].op \notin {"passkey", "add"} /\ Guesses(signIn[p])
  BY <1>0, <1>1 DEF SignInRows, SignInCallGood, Guesses
<1>3. signIn[p].shown \in SignIn!AppCodes
  <2>1. signIn[p].op \notin {"login", "register", "remove"}
    BY <1>0, <1>1, Kinds DEF SignInCallGood
  <2>2. signIn[p].op \in {"second", "confirm", "disable", "codes"}
    <3>1. signIn[p] \in SignInRow /\ signIn[p].op # "none"
      BY <1>0, <1>1 DEF SignInTypes, SignInCallGood
    <3> QED BY <1>2, <2>1, <3>1 DEF SignInRow, SignInOps
  <2>3. \A e \in SignIn!RecoveryCodes \cup SignIn!Assertions \cup {SignIn!Wrong, SignIn!Password} : e.kind # "totp"
    BY Kinds
  <2> QED BY <1>0, <1>1, <2>2, <2>3 DEF SignInCallGood
<1>4. SignIn!Matches(signIn[p].shown, want) => totp.key = signIn[p].shown.a /\ totp.confirmed = want
  BY DEF SignIn!Matches
<1>5. ~want /\ SignIn!Matches(signIn[p].shown, want) => signIn[p].shown.a \in proved'
  <2>1. ASSUME ~want, SignIn!Matches(signIn[p].shown, want) PROVE SignIn!Matches(signIn[p].shown, FALSE)
    BY <2>1 DEF SignIn!Matches
  <2> QED BY <1>1, <2>1
<1>6. stage \in {"refused", "matched", "verified"} /\ stage \in SignInStages \ {"idle"}
  BY DEF SignInStages
<1>7. /\ stage = "matched" => want /\ SignIn!Matches(signIn[p].shown, want)
      /\ stage = "verified" => ~want /\ SignIn!Matches(signIn[p].shown, want)
  OBVIOUS
<1> HIDE DEF stage
<1>8. SameCall(p, stage)
  BY <1>0, <1>1, <1>6, Staged
<1>9. stage = "matched" => signIn[p].op \in {"second", "disable", "codes"}
  <2>1. \A e \in SignIn!AppCodes : e \notin {SignIn!Password, SignIn!Wrong}
    BY Kinds
  <2>2. signIn[p] \in SignInRow /\ signIn[p].op # "none"
    BY <1>0, <1>1 DEF SignInTypes, SignInCallGood
  <2> QED BY <1>0, <1>2, <1>3, <1>7, <2>1, <2>2 DEF SignInCallGood, SignInRow, SignInOps
<1>10. SignInCallGood(signIn'[p])
  <2>1. signIn[p].stage # "idle"
    BY <1>1
  <2> QED BY <1>2, <1>3, <1>6, <1>8, <1>9, <2>1, StageGood
<1>11. /\ signIn' \in [SignIns -> SignInRow] /\ Only(p) /\ signIn'[p].stage = stage
       /\ signIn'[p].op = signIn[p].op /\ signIn'[p].shown = signIn[p].shown
  BY <1>8 DEF SameCall
<1>12. KeyRead(totp, proved', signIn'[p])
  <2>1. CASE stage = "refused"
    BY <1>11, <2>1 DEF KeyRead
  <2>2. CASE stage = "matched"
    BY <1>4, <1>7, <1>11, <2>2 DEF KeyRead
  <2>3. CASE stage = "verified"
    BY <1>4, <1>5, <1>7, <1>11, <2>3 DEF KeyRead
  <2> QED BY <1>6, <2>1, <2>2, <2>3
<1>13. DecidedOn(totp, passkey, asked, signIn'[p]) /\ signIn'[p].stage \notin {"consumed", "asserted"}
  BY <1>6, <1>11 DEF DecidedOn
<1>14. signIn[p].stage # "idle"
  BY <1>1
<1> QED BY <1>2, <1>10, <1>11, <1>12, <1>13, <1>14, CallGoesOn

LEMMA GuessSame ==
    ASSUME SignInBounds, SignInInv, NEW p \in SignIns, Only(p), failures' = failures,
           Guesses(signIn'[p]) =>
              Guesses(signIn[p]) /\ signIn'[p].op = signIn[p].op /\ signIn'[p].shown = signIn[p].shown
    PROVE  GuessesCounted'
<1>1. SignInTypes /\ GuessesCounted /\ failures \in [SignIn!Limited -> Nat]
  BY DEF SignInInv, SignInTypes
<1>2. \A k \in SignIn!Limited : failures'[k] <= failures[k]
  BY <1>1
<1>3. \A q \in SignIns : Guesses(signIn'[q]) =>
         Guesses(signIn[q]) /\ signIn'[q].op = signIn[q].op /\ signIn'[q].shown = signIn[q].shown
  BY DEF Only
<1>4. failures' \in [SignIn!Limited -> Nat]
  BY <1>1
<1> QED BY <1>1, <1>2, <1>3, <1>4, GuessKept

LEMMA PasskeysStay ==
    ASSUME SignInBounds, SignInInv, UNCHANGED passkey PROVE PasskeysMove
BY DEF PasskeysMove, SignInInv, SignInTypes, SignIn!TypeOK, SignInBounds

LEMMA UseTOTPStepSafe ==
    ASSUME SignInBounds, SignInInv, NEW p \in SignIns, SignIn!UseTOTPStep(p)
    PROVE  SignInInv'
<1> DEFINE e == signIn[p].shown
<1>0. SignInTypes /\ SignInCallGood(signIn[p]) /\ e \in SignIn!AppCodes
  <2>1. signIn[p].stage = "matched"
    BY DEF SignIn!UseTOTPStep
  <2> QED BY <2>1 DEF SignInInv, CallsGood, SignInCallGood
<1>1. /\ signIn[p].stage = "matched"
      /\ UNCHANGED <<asked, keys, batch, codes, passkey, pendingSignIn, ceremony, failures, timeStep, opened, proved>>
      /\ \/ /\ SignIn!StepIsNew(e.b) /\ totp' = [totp EXCEPT !.step = e.b]
            /\ accepted' = [accepted EXCEPT ![e] = @ + 1] /\ SignIn!To(p, "verified")
         \/ SignIn!To(p, "refused") /\ UNCHANGED <<totp, accepted>>
  BY DEF SignIn!UseTOTPStep, SignIn!Accept
<1>2. signIn[p].op \in {"second", "disable", "codes"} /\ Guesses(signIn[p])
  BY <1>0, <1>1 DEF SignInCallGood, Guesses
<1>3. CASE SignIn!To(p, "refused") /\ UNCHANGED <<totp, accepted>>
  <2>1. UNCHANGED <<SignInRows, failures, proved>>
    BY <1>1, <1>3 DEF SignInRows
  <2> QED BY <1>2, <1>3, <2>1, RefuseStep
<1>4. CASE /\ SignIn!StepIsNew(e.b) /\ totp' = [totp EXCEPT !.step = e.b]
           /\ accepted' = [accepted EXCEPT ![e] = @ + 1] /\ SignIn!To(p, "verified")
  <2>0. e.b \in 1..MaxClock + 1 /\ e.a \in Nat /\ e \in SignIn!Evidence
    BY <1>0, Kinds
  <2>1. SameCall(p, "verified")
    BY <1>0, <1>4, Staged DEF SignInStages
  <2>2. SignInCallGood(signIn'[p])
    <3>1. signIn[p].stage # "idle"
      BY <1>1
    <3> QED BY <1>2, <2>1, <3>1, StageGood DEF SignInStages
  <2>3. /\ signIn' \in [SignIns -> SignInRow] /\ Only(p) /\ signIn'[p].stage = "verified" /\ ~Guesses(signIn'[p])
        /\ signIn'[p].op # "confirm"
    BY <1>2, <2>1 DEF SameCall, Guesses
  <2>4. /\ totp \in [key : 0..keys, confirmed : BOOLEAN, step : 0..MaxClock + 1]
        /\ accepted \in [SignIn!Evidence -> Nat]
    BY <1>0 DEF SignInTypes, SignIn!TypeOK
  <2>5. /\ totp' \in [key : 0..keys, confirmed : BOOLEAN, step : 0..MaxClock + 1]
        /\ totp'.key = totp.key /\ totp'.confirmed = totp.confirmed /\ totp'.step = e.b
    BY <1>4, <2>0, <2>4 DEF SignInBounds
  <2>6. /\ accepted' \in [SignIn!Evidence -> Nat] /\ accepted'[e] = accepted[e] + 1
        /\ \A f \in SignIn!Evidence : f # e => accepted'[f] = accepted[f]
    BY <1>4, <2>0, <2>4
  <2>7. SignInTypes'
    BY <1>0, <1>1, <2>3, <2>5, <2>6 DEF SignInTypes, SignIn!TypeOK
  <2>8. \A f \in SignIn!RecoveryCodes \cup SignIn!Assertions \cup SignIn!Used : accepted'[f] = accepted[f]
    BY <1>0, <2>6, Kinds
  <2>9. Settled /\ CodesMove
    BY <1>1 DEF Settled, CodesMove
  <2>10. PasskeysMove
    BY <1>1, PasskeysStay
  <2>11. GuessesCounted'
    BY <1>1, <2>3, GuessSame
  <2>12. KeyStays => KeyInv'
    <3> SUFFICES ASSUME KeyStays PROVE KeyInv'
      OBVIOUS
    <3>1. KeyInv
      BY DEF SignInInv
    <3>2. totp.confirmed /\ totp.step < e.b
      BY <1>4 DEF SignIn!StepIsNew
    <3>3. e.a = totp.key
      BY <1>1, <3>1, <3>2 DEF KeyInv, KeyRead
    <3>4. accepted[e] = 0
      <4>1. CodeSpent(totp, keys, accepted, e)
        BY <1>0, <3>1 DEF KeyInv
      <4> QED BY <2>0, <2>4, <3>2, <3>3, <4>1 DEF CodeSpent
    <3>5. ASSUME NEW f \in SignIn!AppCodes PROVE CodeSpent(totp', keys', accepted', f)
      <4>1. CodeSpent(totp, keys, accepted, f) /\ f \in SignIn!Evidence /\ f.b \in Int
        BY <3>1, Kinds DEF KeyInv
      <4>2. CASE f = e
        <5>1. accepted'[f] = 1 /\ f.a = totp'.key /\ totp'.confirmed /\ f.b <= totp'.step
          BY <2>0, <2>5, <2>6, <3>2, <3>3, <3>4, <4>2
        <5>2. f.a <= keys'
          BY <1>1, <2>4, <3>3, <4>2 DEF SignInTypes
        <5> QED BY <5>1, <5>2 DEF CodeSpent
      <4>3. CASE f # e
        BY <1>1, <2>0, <2>4, <2>5, <2>6, <3>2, <4>1, <4>3 DEF CodeSpent
      <4> QED BY <4>2, <4>3
    <3>6. \A q \in SignIns : KeyRead(totp', proved', signIn'[q])
      BY <1>1, <2>3, <2>5, <3>1 DEF KeyInv, KeyRead, Only
    <3>7. "start" \notin Operations => (totp'.key # 0 => totp'.confirmed)
      BY <2>5, <3>1 DEF KeyInv
    <3>8. SignIn!ConfirmedKeyWasProved'
      BY <1>1, <2>5, <3>1 DEF KeyInv, SignIn!ConfirmedKeyWasProved
    <3> QED BY <3>5, <3>6, <3>7, <3>8 DEF KeyInv
  <2>13. ~Overlap => SignAloneInv'
    <3>1. DecidedOn(totp', passkey', asked', signIn'[p])
      BY <2>3 DEF DecidedOn
    <3>2. HeldIn(passkey') = HeldIn(passkey) /\ codes' \subseteq codes /\ UNCHANGED asked
      BY <1>1
    <3>3. ~Overlap => \A q \in SignIns : q # p => signIn[q].stage = "idle"
      BY <1>1, OthersIdle
    <3> QED BY <2>3, <2>5, <3>1, <3>2, <3>3, SignAloneKept
  <2>14. signIn'[p].stage \notin {"consumed", "asserted"}
    BY <2>3
  <2> QED BY <2>2, <2>3, <2>7, <2>8, <2>9, <2>10, <2>11, <2>12, <2>13, <2>14, QuietStep
<1> QED BY <1>1, <1>3, <1>4

LEMMA UseRecoveryCodeSafe ==
    ASSUME SignInBounds, SignInInv, NEW p \in SignIns, SignIn!UseRecoveryCode(p)
    PROVE  SignInInv'
<1> DEFINE e == signIn[p].shown
<1>0. SignInTypes /\ SignInCallGood(signIn[p]) /\ SpentForGood
  BY DEF SignInInv, CallsGood
<1>1. /\ signIn[p].stage = "allowed" /\ e.kind = "recovery"
      /\ UNCHANGED <<asked, totp, keys, batch, passkey, pendingSignIn, ceremony, failures, timeStep, opened, proved>>
      /\ \/ /\ e \in codes /\ codes' = codes \ {e}
            /\ accepted' = [accepted EXCEPT ![e] = @ + 1] /\ SignIn!To(p, "verified")
         \/ SignIn!To(p, "refused") /\ UNCHANGED <<codes, accepted>>
  BY DEF SignIn!UseRecoveryCode, SignIn!Accept
<1>2. signIn[p].op = "second" /\ e \in SignIn!RecoveryCodes /\ Guesses(signIn[p])
  <2>1. signIn[p] \in SignInRow /\ signIn[p].op \notin {"none", "passkey", "add"}
    BY <1>0, <1>1 DEF SignInTypes, SignInCallGood
  <2>2. \A f \in SignIn!AppCodes \cup SignIn!Assertions \cup {SignIn!Wrong, SignIn!Password} : f.kind # "recovery"
    BY Kinds
  <2>3. signIn[p].op = "second"
    BY <1>0, <1>1, <2>1, <2>2 DEF SignInCallGood, SignInRow, SignInOps
  <2> QED BY <1>0, <1>1, <2>2, <2>3 DEF SignInCallGood, Guesses
<1>3. CASE SignIn!To(p, "refused") /\ UNCHANGED <<codes, accepted>>
  <2>1. UNCHANGED <<SignInRows, failures, proved>> /\ signIn[p].op \notin {"passkey", "add"}
    BY <1>1, <1>2, <1>3 DEF SignInRows
  <2> QED BY <1>2, <1>3, <2>1, RefuseStep
<1>4. CASE /\ e \in codes /\ codes' = codes \ {e}
           /\ accepted' = [accepted EXCEPT ![e] = @ + 1] /\ SignIn!To(p, "verified")
  <2>1. SameCall(p, "verified")
    BY <1>0, <1>4, Staged DEF SignInStages
  <2>2. SignInCallGood(signIn'[p])
    <3>1. signIn[p].stage # "idle"
      BY <1>1
    <3> QED BY <1>2, <2>1, <3>1, StageGood DEF SignInStages
  <2>3. /\ signIn' \in [SignIns -> SignInRow] /\ Only(p) /\ signIn'[p].stage = "verified" /\ ~Guesses(signIn'[p])
        /\ signIn'[p].op # "confirm"
    BY <1>2, <2>1 DEF SameCall, Guesses
  <2>4. accepted \in [SignIn!Evidence -> Nat] /\ e \in SignIn!Evidence
    BY <1>0, <1>2, Kinds DEF SignInTypes
  <2>5. /\ accepted' \in [SignIn!Evidence -> Nat] /\ accepted'[e] = accepted[e] + 1
        /\ \A f \in SignIn!Evidence : f # e => accepted'[f] = accepted[f]
    BY <1>4, <2>4
  <2>6. codes' \subseteq codes
    BY <1>4
  <2>7. SignInTypes'
    BY <1>0, <1>1, <2>3, <2>5, <2>6 DEF SignInTypes, SignIn!TypeOK
  <2>8. CallsGood'
    BY <2>2, <2>3 DEF SignInInv, CallsGood, Only
  <2>9. OpensOnce'
    <3>1. Settled /\ OpensOnce /\ CallsGood
      BY <1>1 DEF Settled, SignInInv
    <3>2. \A q \in SignIns : signIn'[q] = signIn[q] \/ signIn'[q].stage \notin {"consumed", "asserted"}
      BY <2>3 DEF Only
    <3> QED BY <1>0, <3>1, <3>2, OpensKept
  <2>10. SpentForGood'
    <3>1. /\ \A f \in SignIn!Assertions \cup SignIn!Used \cup SignIn!AppCodes : accepted'[f] = accepted[f]
      BY <1>2, <2>5, Kinds
    <3>2. \A w \in Ceremonies : accepted'[CeremonyOf(w)] \in 0..1 /\
             (accepted'[CeremonyOf(w)] > 0 => ceremony'[w].state = "consumed")
      BY <1>0, <1>1, <3>1, Kinds DEF SpentForGood
    <3>3. \A f \in SignIn!Assertions : accepted'[f] \in 0..1 /\
             (accepted'[f] > 0 => passkey'[f.a].state # "none" /\ passkey'[f.a].count >= f.b /\ f.b > 0)
      BY <1>0, <1>1, <3>1 DEF SpentForGood
    <3>4. ASSUME NEW f \in SignIn!RecoveryCodes
          PROVE  accepted'[f] \in 0..1 /\ (accepted'[f] > 0 => f \notin codes' /\ f.a <= batch')
      <4>1. accepted[f] \in 0..1 /\ (accepted[f] > 0 => f \notin codes /\ f.a <= batch) /\ f \in SignIn!Evidence
        BY <1>0, Kinds DEF SpentForGood
      <4>2. CASE f # e
        BY <1>1, <2>5, <2>6, <4>1, <4>2
      <4>3. CASE f = e
        <5>1. accepted'[f] = 1 /\ f \notin codes'
          BY <1>4, <2>5, <4>1, <4>3
        <5>2. f.a = batch
          BY <1>0, <1>4, <4>3 DEF SignInTypes, SignIn!TypeOK, SignIn!Shown
        <5>3. batch \in Nat
          BY <1>0 DEF SignInTypes, SignInBounds
        <5> QED BY <1>1, <5>1, <5>2, <5>3
      <4> QED BY <4>2, <4>3
    <3> QED BY <3>2, <3>3, <3>4 DEF SpentForGood
  <2>11. GuessesCounted'
    BY <1>1, <2>3, GuessSame
  <2>12. KeyStays => KeyInv'
    <3>1. UNCHANGED <<totp, keys>> /\ proved \subseteq proved'
      BY <1>1
    <3>2. \A f \in SignIn!AppCodes : accepted'[f] = accepted[f]
      BY <1>2, <2>5, Kinds
    <3>3. KeyRead(totp, proved', signIn'[p])
      BY <2>3 DEF KeyRead
    <3> QED BY <2>3, <3>1, <3>2, <3>3, KeyKept
  <2>13. ~Overlap => SignAloneInv'
    <3>1. DecidedOn(totp', passkey', asked', signIn'[p])
      BY <2>3 DEF DecidedOn
    <3>2. HeldIn(passkey') = HeldIn(passkey) /\ totp'.confirmed = totp.confirmed /\ UNCHANGED asked
      BY <1>1
    <3>3. ~Overlap => \A q \in SignIns : q # p => signIn[q].stage = "idle"
      BY <1>1, OthersIdle
    <3> QED BY <2>3, <2>6, <3>1, <3>2, <3>3, SignAloneKept
  <2> QED BY <2>7, <2>8, <2>9, <2>10, <2>11, <2>12, <2>13 DEF SignInInv, KeyStays
<1> QED BY <1>1, <1>3, <1>4

\* What a call that answers a passkey prompt carries.
LEMMA Prompted ==
    ASSUME SignInBounds, SignInInv, NEW p \in SignIns,
           \/ signIn[p].stage = "allowed" /\ signIn[p].shown.kind = "passkey"
           \/ signIn[p].stage = "begun" /\ signIn[p].op \in {"passkey", "add"}
    PROVE  /\ signIn[p].by \in Ceremonies /\ signIn[p].op \in {"second", "passkey", "add"}
           /\ signIn[p].op = "second" => signIn[p].on \in Challenges /\ signIn[p].stage = "allowed"
           /\ signIn[p].op # "add" => signIn[p].shown \in SignIn!Assertions
<1>1. SignInCallGood(signIn[p]) /\ signIn[p] \in SignInRow
  BY DEF SignInInv, CallsGood, SignInTypes
<1>2. \A f \in SignIn!AppCodes \cup SignIn!RecoveryCodes \cup {SignIn!Wrong, SignIn!Password} : f.kind # "passkey"
  BY Kinds
<1>3. CASE signIn[p].stage = "begun" /\ signIn[p].op \in {"passkey", "add"}
  BY <1>1, <1>3 DEF SignInCallGood
<1>4. CASE signIn[p].stage = "allowed" /\ signIn[p].shown.kind = "passkey"
  <2>1. signIn[p].op \notin {"none", "passkey", "add"}
    BY <1>1, <1>4 DEF SignInCallGood
  <2>2. signIn[p].op = "second"
    BY <1>1, <1>2, <1>4, <2>1 DEF SignInCallGood, SignInRow, SignInOps
  <2> QED BY <1>1, <1>2, <1>4, <2>2 DEF SignInCallGood
<1> QED BY <1>3, <1>4

LEMMA ConsumeCeremonySafe ==
    ASSUME SignInBounds, SignInInv, NEW p \in SignIns, SignIn!ConsumeCeremony(p)
    PROVE  SignInInv'
<1> DEFINE c == signIn[p]
           stage == IF c.op = "add" THEN "cleared" ELSE "asserted"
<1>0. SignInTypes /\ SignInCallGood(c) /\ SpentForGood /\ OpensOnce
  BY DEF SignInInv, CallsGood
<1>1. /\ \/ c.stage = "allowed" /\ c.shown.kind = "passkey"
         \/ c.stage = "begun" /\ c.op \in {"passkey", "add"}
      /\ UNCHANGED <<asked, totp, keys, batch, codes, passkey, pendingSignIn, failures, timeStep, opened, proved>>
      /\ \/ /\ SignIn!Consumable(c) /\ ceremony' = [ceremony EXCEPT ![c.by].state = "consumed"]
            /\ accepted' = [accepted EXCEPT ![CeremonyOf(c.by)] = @ + 1] /\ SignIn!To(p, stage)
         \/ /\ \/ c.op = "second" /\ SignIn!To(p, "refused")
               \/ SignIn!End(p)
            /\ UNCHANGED <<ceremony, accepted>>
  BY DEF SignIn!ConsumeCeremony, SignIn!Accept, SignIn!factors, CeremonyOf
<1>2. /\ c.by \in Ceremonies /\ c.op \in {"second", "passkey", "add"} /\ c.stage # "idle"
      /\ c.op = "second" => c.on \in Challenges /\ c.stage = "allowed"
      /\ c.op # "add" => c.shown \in SignIn!Assertions
  <2>1. c.stage # "idle"
    BY <1>1
  <2> QED BY <1>1, <2>1, Prompted
<1>3. CASE /\ \/ c.op = "second" /\ SignIn!To(p, "refused")
              \/ SignIn!End(p)
           /\ UNCHANGED <<ceremony, accepted>>
  <2>1. UNCHANGED <<SignInRows, failures, proved>>
    BY <1>1, <1>3 DEF SignInRows
  <2>2. CASE c.op = "second" /\ SignIn!To(p, "refused")
    <3>1. Guesses(c) /\ c.op \notin {"passkey", "add"}
      BY <1>2, <2>2 DEF Guesses
    <3> QED BY <2>1, <2>2, <3>1, RefuseStep
  <2>3. CASE SignIn!End(p)
    BY <1>2, <2>1, <2>3, EndStep
  <2> QED BY <1>3, <2>2, <2>3
<1>4. CASE /\ SignIn!Consumable(c) /\ ceremony' = [ceremony EXCEPT ![c.by].state = "consumed"]
           /\ accepted' = [accepted EXCEPT ![CeremonyOf(c.by)] = @ + 1] /\ SignIn!To(p, stage)
  <2>0. stage \in SignInStages \ {"idle"} /\ stage \in {"cleared", "asserted"} /\ (stage = "asserted" <=> c.op # "add")
    BY DEF SignInStages
  <2> HIDE DEF stage
  <2>1. SameCall(p, stage)
    BY <1>0, <1>4, <2>0, Staged
  <2>2. SignInCallGood(signIn'[p])
    BY <1>2, <2>0, <2>1, StageGood
  <2>3. /\ signIn' \in [SignIns -> SignInRow] /\ Only(p) /\ signIn'[p].stage = stage /\ signIn'[p].op = c.op
        /\ signIn'[p].on = c.on /\ signIn'[p].by = c.by /\ signIn'[p].shown = c.shown
    BY <2>1 DEF SameCall
  <2>4. /\ accepted \in [SignIn!Evidence -> Nat] /\ CeremonyOf(c.by) \in SignIn!Evidence
        /\ \A w \in Ceremonies : CeremonyOf(w) = CeremonyOf(c.by) => w = c.by
    BY <1>0, <1>2, Kinds DEF SignInTypes
  <2>5. /\ accepted' \in [SignIn!Evidence -> Nat] /\ accepted'[CeremonyOf(c.by)] = accepted[CeremonyOf(c.by)] + 1
        /\ \A f \in SignIn!Evidence : f # CeremonyOf(c.by) => accepted'[f] = accepted[f]
    <3> DEFINE x == CeremonyOf(c.by)
    <3>1. x \in SignIn!Evidence /\ accepted' = [accepted EXCEPT ![x] = @ + 1]
      BY <1>4, <2>4
    <3> HIDE DEF x
    <3>2. /\ accepted' \in [SignIn!Evidence -> Nat] /\ accepted'[x] = accepted[x] + 1
          /\ \A f \in SignIn!Evidence : f # x => accepted'[f] = accepted[f]
      BY <2>4, <3>1
    <3> QED BY <3>2 DEF x
  <2>6. /\ ceremony \in [Ceremonies -> [state : {"none", "pending", "consumed", "expired"},
                                        purpose : SignIn!Purposes, link : Challenges \cup {NoRow}]]
        /\ \A w \in Ceremonies : (ceremony[w].link # NoRow) <=> (ceremony[w].purpose = "second_factor")
    BY <1>0 DEF SignInTypes, SignIn!TypeOK
  <2>7. /\ ceremony' \in [Ceremonies -> [state : {"none", "pending", "consumed", "expired"},
                                         purpose : SignIn!Purposes, link : Challenges \cup {NoRow}]]
        /\ ceremony'[c.by].state = "consumed"
        /\ \A w \in Ceremonies : /\ w # c.by => ceremony'[w] = ceremony[w]
                                 /\ ceremony'[w].link = ceremony[w].link /\ ceremony'[w].purpose = ceremony[w].purpose
    BY <1>2, <1>4, <2>6
  <2>8. \A w \in Ceremonies : (ceremony'[w].link # NoRow) <=> (ceremony'[w].purpose = "second_factor")
    BY <2>6, <2>7
  <2>9. SignInTypes'
    BY <1>0, <1>1, <2>3, <2>5, <2>7, <2>8 DEF SignInTypes, SignIn!TypeOK
  <2>10. CallsGood'
    BY <2>2, <2>3 DEF SignInInv, CallsGood, Only
  <2>11. ceremony[c.by].state = "pending" /\ (c.op = "second" => ceremony[c.by].link = c.on)
    BY <1>4 DEF SignIn!Consumable
  <2>12. \A w \in Ceremonies : ceremony[w].state = "consumed" => ceremony'[w] = ceremony[w]
    BY <2>7, <2>11
  <2>13. OpensOnce'
    <3>0. opened[c.by] = 0 /\ opened' = opened /\ pendingSignIn' = pendingSignIn
      BY <1>0, <1>1, <1>2, <2>11 DEF OpensOnce
    <3>1. \A q \in SignIns : /\ Spends(signIn'[q]) => q # p /\ signIn'[q] = signIn[q] /\ Spends(signIn[q])
                             /\ Asserts(signIn'[q]) /\ q # p => signIn'[q] = signIn[q] /\ Asserts(signIn[q])
                             /\ signIn'[q].stage = "asserted" /\ q # p => signIn'[q] = signIn[q]
      BY <2>0, <2>3 DEF Spends, Asserts, Only
    <3>2. \A q \in SignIns : Asserts(signIn[q]) => /\ signIn[q].by \in Ceremonies
                                                   /\ ceremony[signIn[q].by].state = "consumed"
                                                   /\ opened[signIn[q].by] = 0
      BY <1>0 DEF OpensOnce, SignInInv, CallsGood, SignInCallGood, Asserts
    <3>3. \A q \in SignIns : signIn[q].stage = "asserted" => signIn[q].by \in Ceremonies
      <4>1. \A f \in SignIn!Assertions : f \notin SignIn!AppCodes \cup SignIn!RecoveryCodes \cup {SignIn!Wrong}
        BY Kinds
      <4>2. \A q \in SignIns : SignInCallGood(signIn[q])
        BY DEF SignInInv, CallsGood
      <4> QED BY <4>1, <4>2 DEF SignInCallGood
    <3>4. /\ \A h \in Challenges : opened'[h] \in 0..1 /\
                (opened'[h] > 0 => pendingSignIn'[h].state = "consumed" /\ pendingSignIn'[h].failed < Attempts)
          /\ \A w \in Ceremonies : opened'[w] \in 0..1 /\ (opened'[w] > 0 => ceremony'[w].state = "consumed")
      BY <1>0, <2>12, <3>0 DEF OpensOnce
    <3>5. \A q \in SignIns : Spends(signIn'[q]) =>
             /\ pendingSignIn'[signIn'[q].on].state = "consumed" /\ pendingSignIn'[signIn'[q].on].failed < Attempts
             /\ opened'[signIn'[q].on] = 0
      BY <1>0, <3>0, <3>1 DEF OpensOnce
    <3>6. \A q \in SignIns : Asserts(signIn'[q]) =>
             opened'[signIn'[q].by] = 0 /\ ceremony'[signIn'[q].by].state = "consumed"
      BY <2>3, <2>7, <2>12, <3>0, <3>1, <3>2
    <3>7. \A q, r \in SignIns : Spends(signIn'[q]) /\ Spends(signIn'[r]) /\ q # r => signIn'[q].on # signIn'[r].on
      BY <1>0, <3>1 DEF OpensOnce
    <3>8. \A q, r \in SignIns : Asserts(signIn'[q]) /\ Asserts(signIn'[r]) /\ q # r => signIn'[q].by # signIn'[r].by
      <4>1. \A q \in SignIns : Asserts(signIn'[q]) /\ q # p => signIn'[q].by # c.by
        BY <2>11, <3>1, <3>2
      <4>2. \A q, r \in SignIns : Asserts(signIn[q]) /\ Asserts(signIn[r]) /\ q # r => signIn[q].by # signIn[r].by
        BY <1>0 DEF OpensOnce
      <4> QED BY <2>3, <3>1, <4>1, <4>2
    <3>9. \A q \in SignIns : signIn'[q].stage = "asserted" =>
             /\ ceremony'[signIn'[q].by].state = "consumed"
             /\ signIn'[q].op = "second" => ceremony'[signIn'[q].by].link = signIn'[q].on
      <4>1. ceremony'[c.by].state = "consumed" /\ (c.op = "second" => ceremony'[c.by].link = c.on)
        BY <1>2, <2>7, <2>11
      <4>2. \A q \in SignIns : signIn[q].stage = "asserted" =>
               /\ ceremony[signIn[q].by].state = "consumed"
               /\ signIn[q].op = "second" => ceremony[signIn[q].by].link = signIn[q].on
        BY <1>0 DEF OpensOnce
      <4> QED BY <2>3, <2>12, <3>1, <3>3, <4>1, <4>2
    <3> QED BY <3>4, <3>5, <3>6, <3>7, <3>8, <3>9 DEF OpensOnce
  <2>14. SpentForGood'
    <3>1. \A f \in SignIn!RecoveryCodes \cup SignIn!Assertions : accepted'[f] = accepted[f]
      BY <1>2, <2>5, Kinds
    <3>2. \A f \in SignIn!RecoveryCodes : accepted'[f] \in 0..1 /\ (accepted'[f] > 0 => f \notin codes' /\ f.a <= batch')
      BY <1>0, <1>1, <3>1 DEF SpentForGood
    <3>3. \A f \in SignIn!Assertions : accepted'[f] \in 0..1 /\
             (accepted'[f] > 0 => passkey'[f.a].state # "none" /\ passkey'[f.a].count >= f.b /\ f.b > 0)
      BY <1>0, <1>1, <3>1 DEF SpentForGood
    <3>4. ASSUME NEW w \in Ceremonies
          PROVE  accepted'[CeremonyOf(w)] \in 0..1 /\ (accepted'[CeremonyOf(w)] > 0 => ceremony'[w].state = "consumed")
      <4>1. accepted[CeremonyOf(w)] \in 0..1 /\ (accepted[CeremonyOf(w)] > 0 => ceremony[w].state = "consumed")
        BY <1>0 DEF SpentForGood
      <4>2. CeremonyOf(w) \in SignIn!Evidence
        BY Kinds
      <4>3. CASE w = c.by
        <5>1. accepted[CeremonyOf(w)] = 0
          BY <2>11, <4>1, <4>3
        <5>2. accepted'[CeremonyOf(w)] = 1
          BY <2>5, <4>3, <5>1
        <5> QED BY <2>7, <4>3, <5>2
      <4>4. CASE w # c.by
        <5>1. accepted'[CeremonyOf(w)] = accepted[CeremonyOf(w)]
          BY <2>4, <2>5, <4>2, <4>4
        <5> QED BY <2>7, <4>1, <4>4, <5>1
      <4> QED BY <4>3, <4>4
    <3> QED BY <3>2, <3>3, <3>4 DEF SpentForGood
  <2>15. GuessesCounted'
    <3>1. Guesses(signIn'[p]) =>
             Guesses(signIn[p]) /\ signIn'[p].op = signIn[p].op /\ signIn'[p].shown = signIn[p].shown
      BY <1>2, <2>0, <2>3 DEF Guesses
    <3> QED BY <1>1, <2>3, <3>1, GuessSame
  <2>16. KeyStays => KeyInv'
    <3>1. UNCHANGED <<totp, keys>> /\ proved \subseteq proved'
      BY <1>1
    <3>2. \A f \in SignIn!AppCodes : accepted'[f] = accepted[f]
      BY <1>2, <2>5, Kinds
    <3>3. KeyRead(totp, proved', signIn'[p])
      BY <1>2, <2>0, <2>3 DEF KeyRead
    <3> QED BY <2>3, <3>1, <3>2, <3>3, KeyKept
  <2>17. ~Overlap => SignAloneInv'
    <3>1. DecidedOn(totp', passkey', asked', signIn'[p])
      BY <2>0, <2>3 DEF DecidedOn
    <3>2. HeldIn(passkey') = HeldIn(passkey) /\ totp'.confirmed = totp.confirmed /\ UNCHANGED asked /\ codes' \subseteq codes
      BY <1>1
    <3>3. ~Overlap => \A q \in SignIns : q # p => signIn[q].stage = "idle"
      BY <1>2, OthersIdle
    <3> QED BY <2>3, <3>1, <3>2, <3>3, SignAloneKept
  <2> QED BY <2>9, <2>10, <2>13, <2>14, <2>15, <2>16, <2>17 DEF SignInInv, KeyStays
<1> QED BY <1>1, <1>3, <1>4

LEMMA RecordPasskeyUseSafe ==
    ASSUME SignInBounds, SignInInv, NEW p \in SignIns, SignIn!RecordPasskeyUse(p)
    PROVE  SignInInv'
<1> DEFINE c == signIn[p]
           e == c.shown
           k == e.a
           n == e.b
           good == passkey[k].state = "held" /\ SignIn!CountAdvances(k, n)
           stage == IF c.op = "second" THEN "verified" ELSE "consumed"
<1>0. SignInTypes /\ SignInCallGood(c) /\ SpentForGood /\ OpensOnce
  BY DEF SignInInv, CallsGood
<1>1. /\ c.stage = "asserted"
      /\ UNCHANGED <<asked, totp, keys, batch, codes, pendingSignIn, ceremony, failures, timeStep, opened, proved>>
      /\ \/ /\ good /\ passkey' = [passkey EXCEPT ![k].count = n]
            /\ accepted' = IF n > 0 THEN [accepted EXCEPT ![e] = @ + 1] ELSE accepted
            /\ SignIn!To(p, stage)
         \/ /\ \/ c.op = "second" /\ SignIn!To(p, "refused")
               \/ SignIn!End(p)
            /\ UNCHANGED <<passkey, accepted>>
  BY DEF SignIn!RecordPasskeyUse
<1>2. /\ c.op \in {"second", "passkey"} /\ e \in SignIn!Assertions /\ c.stage # "idle"
      /\ k \in Passkeys /\ n \in 0..MaxCount
  <2>1. c.op \in {"second", "passkey"} /\ e \in SignIn!Assertions /\ c.stage # "idle"
    BY <1>0, <1>1 DEF SignInCallGood
  <2> QED BY <2>1, Kinds
<1>3. CASE /\ \/ c.op = "second" /\ SignIn!To(p, "refused")
              \/ SignIn!End(p)
           /\ UNCHANGED <<passkey, accepted>>
  <2>1. UNCHANGED <<SignInRows, failures, proved>>
    BY <1>1, <1>3 DEF SignInRows
  <2>2. CASE c.op = "second" /\ SignIn!To(p, "refused")
    <3>1. Guesses(c) /\ c.op \notin {"passkey", "add"}
      BY <1>1, <2>2 DEF Guesses
    <3> QED BY <2>1, <2>2, <3>1, RefuseStep
  <2>3. CASE SignIn!End(p)
    BY <1>2, <2>1, <2>3, EndStep
  <2> QED BY <1>3, <2>2, <2>3
<1>4. CASE /\ good /\ passkey' = [passkey EXCEPT ![k].count = n]
           /\ accepted' = IF n > 0 THEN [accepted EXCEPT ![e] = @ + 1] ELSE accepted
           /\ SignIn!To(p, stage)
  <2>0. /\ stage \in SignInStages \ {"idle"} /\ stage \in {"verified", "consumed"}
        /\ stage = "consumed" <=> c.op = "passkey"
    BY <1>2 DEF SignInStages
  <2> HIDE DEF stage
  <2>1. SameCall(p, stage)
    BY <1>0, <1>4, <2>0, Staged
  <2>2. SignInCallGood(signIn'[p])
    BY <1>2, <2>0, <2>1, StageGood
  <2>3. /\ signIn' \in [SignIns -> SignInRow] /\ Only(p) /\ signIn'[p].stage = stage /\ signIn'[p].op = c.op
        /\ signIn'[p].on = c.on /\ signIn'[p].by = c.by /\ signIn'[p].shown = c.shown
    BY <2>1 DEF SameCall
  <2>4. /\ passkey \in [Passkeys -> [state : {"none", "held", "removed"}, count : 0..MaxCount]]
        /\ accepted \in [SignIn!Evidence -> Nat] /\ e \in SignIn!Evidence
    BY <1>0, <1>2, Kinds DEF SignInTypes, SignIn!TypeOK
  <2>5. /\ passkey' \in [Passkeys -> [state : {"none", "held", "removed"}, count : 0..MaxCount]]
        /\ passkey'[k].count = n
        /\ \A j \in Passkeys : passkey'[j].state = passkey[j].state /\ (j # k => passkey'[j] = passkey[j])
    BY <1>2, <1>4, <2>4
  <2>6. /\ accepted' \in [SignIn!Evidence -> Nat] /\ (n > 0 => accepted'[e] = accepted[e] + 1)
        /\ \A f \in SignIn!Evidence : f # e \/ ~(n > 0) => accepted'[f] = accepted[f]
    BY <1>4, <2>4
  <2>7. SignInTypes'
    BY <1>0, <1>1, <2>3, <2>5, <2>6 DEF SignInTypes, SignIn!TypeOK
  <2>8. CallsGood'
    BY <2>2, <2>3 DEF SignInInv, CallsGood, Only
  <2>9. passkey[k].count <= n /\ (n > 0 => passkey[k].count < n) /\ passkey[k].state = "held"
    <3>1. passkey[k].count \in 0..MaxCount
      BY <1>2, <2>4
    <3> QED BY <1>2, <1>4, <3>1 DEF SignIn!CountAdvances, SignInBounds
  <2>10. OpensOnce'
    <3>1. UNCHANGED <<opened, pendingSignIn, ceremony>>
      BY <1>1
    <3>2. \A q \in SignIns : /\ Spends(signIn'[q]) => signIn'[q] = signIn[q] /\ Spends(signIn[q])
                             /\ Asserts(signIn'[q]) => Asserts(signIn[q]) /\ signIn'[q].by = signIn[q].by
                             /\ signIn'[q].stage = "asserted" => signIn'[q] = signIn[q]
      BY <1>1, <2>0, <2>3 DEF Spends, Asserts, Only
    <3> QED BY <1>0, <3>1, <3>2 DEF OpensOnce
  <2>11. SpentForGood'
    <3>1. \A f \in SignIn!RecoveryCodes \cup SignIn!Used : accepted'[f] = accepted[f]
      BY <1>2, <2>6, Kinds
    <3>2. \A f \in SignIn!RecoveryCodes : accepted'[f] \in 0..1 /\ (accepted'[f] > 0 => f \notin codes' /\ f.a <= batch')
      BY <1>0, <1>1, <3>1 DEF SpentForGood
    <3>3. \A w \in Ceremonies : accepted'[CeremonyOf(w)] \in 0..1 /\
             (accepted'[CeremonyOf(w)] > 0 => ceremony'[w].state = "consumed")
      BY <1>0, <1>1, <3>1, Kinds DEF SpentForGood
    <3>4. ASSUME NEW f \in SignIn!Assertions
          PROVE  accepted'[f] \in 0..1 /\
                    (accepted'[f] > 0 => passkey'[f.a].state # "none" /\ passkey'[f.a].count >= f.b /\ f.b > 0)
      <4>1. /\ accepted[f] \in 0..1
            /\ accepted[f] > 0 => passkey[f.a].state # "none" /\ passkey[f.a].count >= f.b /\ f.b > 0
        BY <1>0 DEF SpentForGood
      <4>2. f \in SignIn!Evidence /\ f.a \in Passkeys /\ f.b \in Int
        BY Kinds DEF SignInBounds
      <4>3. CASE f = e /\ n > 0
        <5>1. accepted[f] = 0
          BY <2>4, <2>9, <4>1, <4>2, <4>3, <1>2 DEF SignInBounds
        <5> QED BY <1>2, <2>5, <2>6, <2>9, <4>2, <4>3, <5>1
      <4>4. CASE f # e \/ ~(n > 0)
        <5>1. accepted'[f] = accepted[f]
          BY <2>6, <4>2, <4>4
        <5>2. passkey'[f.a].count \in Int /\ passkey[f.a].count \in Int
          BY <2>4, <2>5, <4>2 DEF SignInBounds
        <5>3. passkey'[f.a].count >= passkey[f.a].count
          BY <1>2, <2>5, <2>9, <4>2, <5>2
        <5> QED BY <2>5, <4>1, <4>2, <5>1, <5>2, <5>3
      <4> QED BY <4>3, <4>4
    <3> QED BY <3>2, <3>3, <3>4 DEF SpentForGood
  <2>12. GuessesCounted'
    <3>1. ~Guesses(signIn'[p])
      BY <2>0, <2>3 DEF Guesses
    <3> QED BY <1>1, <2>3, <3>1, GuessSame
  <2>13. KeyStays => KeyInv'
    <3>1. UNCHANGED <<totp, keys>> /\ proved \subseteq proved'
      BY <1>1
    <3>2. \A f \in SignIn!AppCodes : accepted'[f] = accepted[f]
      BY <1>2, <2>6, Kinds
    <3>3. KeyRead(totp, proved', signIn'[p])
      BY <1>2, <2>0, <2>3 DEF KeyRead
    <3> QED BY <2>3, <3>1, <3>2, <3>3, KeyKept
  <2>14. ~Overlap => SignAloneInv'
    <3>1. DecidedOn(totp', passkey', asked', signIn'[p])
      BY <2>0, <2>3 DEF DecidedOn
    <3>2. HeldIn(passkey') = HeldIn(passkey)
      BY <2>5 DEF HeldIn
    <3>3. totp'.confirmed = totp.confirmed /\ UNCHANGED asked /\ codes' \subseteq codes
      BY <1>1
    <3>4. ~Overlap => \A q \in SignIns : q # p => signIn[q].stage = "idle"
      BY <1>2, OthersIdle
    <3> QED BY <2>3, <3>1, <3>2, <3>3, <3>4, SignAloneKept
  <2> QED BY <2>7, <2>8, <2>10, <2>11, <2>12, <2>13, <2>14 DEF SignInInv, KeyStays
<1> QED BY <1>1, <1>3, <1>4

LEMMA CountFailureSafe ==
    ASSUME SignInBounds, SignInInv, NEW p \in SignIns, SignIn!CountFailure(p)
    PROVE  SignInInv'
<1> DEFINE key == SignIn!LimiterKey(signIn[p])
<1>0. /\ SignInTypes /\ SignInCallGood(signIn[p]) /\ GuessesCounted /\ failures \in [SignIn!Limited -> Nat]
      /\ key \in SignIn!Limited
  BY DEF SignInInv, CallsGood, SignInTypes, SignIn!LimiterKey, SignIn!Limited
<1>1. /\ signIn[p].stage = "refused" /\ failures' = [failures EXCEPT ![key] = @ + 1]
      /\ \/ signIn[p].op = "second" /\ SignIn!To(p, "counted")
         \/ SignIn!End(p)
      /\ UNCHANGED <<asked, totp, keys, batch, codes, passkey, pendingSignIn, ceremony, timeStep, accepted, opened, proved>>
  BY DEF SignIn!CountFailure, SignIn!factors, SignIn!history
<1> HIDE DEF key
<1>2. signIn[p].stage # "idle" /\ Guesses(signIn[p])
  BY <1>0, <1>1 DEF Guesses, SignInCallGood
<1>3. /\ signIn' \in [SignIns -> SignInRow] /\ Only(p) /\ SignInCallGood(signIn'[p]) /\ ~Guesses(signIn'[p])
      /\ signIn'[p].stage \in {"idle", "counted"}
  <2>1. CASE SignIn!End(p)
    BY <2>1, EndFacts
  <2>2. CASE signIn[p].op = "second" /\ SignIn!To(p, "counted")
    <3>1. SameCall(p, "counted")
      BY <1>0, <2>2, Staged DEF SignInStages
    <3>2. SignInCallGood(signIn'[p])
      BY <1>2, <2>2, <3>1, StageGood DEF SignInStages
    <3> QED BY <3>1, <3>2 DEF SameCall, Guesses
  <2> QED BY <1>1, <2>1, <2>2
<1>4. GuessesCounted'
  <2> SUFFICES ASSUME NEW k \in SignIn!Limited
               PROVE  failures'[k] + Cardinality(Guessing(k)') <= Attempts + MayPass
    BY DEF GuessesCounted, MayPass
  <2>1. failures[k] + Cardinality(Guessing(k)) <= Attempts + MayPass /\ failures[k] \in Nat
    BY <1>0 DEF GuessesCounted
  <2>2. CASE k # key
    <3>1. Guessing(k)' = Guessing(k)
      BY <1>3, <2>2 DEF Guessing, Only, key
    <3>2. failures'[k] = failures[k]
      BY <1>0, <1>1, <2>2
    <3> QED BY <2>1, <3>1, <3>2
  <2>3. CASE k = key
    <3>1. Guessing(k)' = Guessing(k) \ {p} /\ p \in Guessing(k)
      BY <1>2, <1>3, <2>3 DEF Guessing, Only, key
    <3>2. IsFiniteSet(Guessing(k)) /\ Cardinality(Guessing(k)) \in Nat
      BY GuessingFinite
    <3>3. Cardinality(Guessing(k) \ {p}) = Cardinality(Guessing(k)) - 1
      BY <3>1, <3>2, FS_RemoveElement
    <3>4. failures'[k] = failures[k] + 1
      BY <1>0, <1>1, <2>3
    <3>5. Cardinality(Guessing(k)') = Cardinality(Guessing(k)) - 1
      BY <3>1, <3>3
    <3>6. MayPass \in Nat /\ Attempts \in Nat
      BY MayPassNat DEF SignInBounds
    <3> QED BY <2>1, <3>2, <3>4, <3>5, <3>6
  <2> QED BY <2>2, <2>3
<1>5. UNCHANGED SignInRows /\ proved \subseteq proved' /\ failures' \in [SignIn!Limited -> Nat]
  BY <1>0, <1>1 DEF SignInRows
<1>6. KeyRead(totp, proved', signIn'[p]) /\ DecidedOn(totp, passkey, asked, signIn'[p])
  BY <1>3 DEF KeyRead, DecidedOn
<1>7. ~Overlap => \A q \in SignIns : q # p => signIn[q].stage = "idle"
  BY <1>2, OthersIdle
<1>8. signIn'[p].stage \notin {"consumed", "asserted"}
  BY <1>3
<1> QED BY <1>3, <1>4, <1>5, <1>6, <1>7, <1>8, CallStep

LEMMA ClearFailuresSafe ==
    ASSUME SignInBounds, SignInInv, NEW p \in SignIns, SignIn!ClearFailures(p)
    PROVE  SignInInv'
<1> DEFINE key == SignIn!LimiterKey(signIn[p])
<1>0. SignInTypes /\ SignInCallGood(signIn[p]) /\ GuessesCounted /\ failures \in [SignIn!Limited -> Nat]
  BY DEF SignInInv, CallsGood, SignInTypes
<1>1. /\ signIn[p].stage = "verified" /\ failures' = [failures EXCEPT ![key] = 0] /\ SignIn!To(p, "cleared")
      /\ UNCHANGED <<asked, totp, keys, batch, codes, passkey, pendingSignIn, ceremony, timeStep, accepted, opened, proved>>
  BY DEF SignIn!ClearFailures, SignIn!factors, SignIn!history
<1> HIDE DEF key
<1>2. failures' \in [SignIn!Limited -> Nat] /\ \A k \in SignIn!Limited : failures'[k] <= failures[k]
  <2>1. failures' = [failures EXCEPT ![key] = 0] /\ failures \in [SignIn!Limited -> Nat]
    BY <1>0, <1>1
  <2>2. failures' \in [SignIn!Limited -> Nat]
    BY <2>1
  <2>3. \A k \in SignIn!Limited : failures[k] \in Nat /\ failures'[k] \in {0, failures[k]}
    BY <2>1
  <2> QED BY <2>2, <2>3
<1>3. SameCall(p, "cleared")
  BY <1>0, <1>1, Staged DEF SignInStages
<1>4. signIn[p].stage # "idle" /\ (signIn[p].op = "confirm" => signIn[p].shown \in SignIn!AppCodes)
  BY <1>0, <1>1 DEF SignInCallGood
<1>5. SignInCallGood(signIn'[p])
  BY <1>3, <1>4, StageGood DEF SignInStages
<1>6. /\ signIn' \in [SignIns -> SignInRow] /\ Only(p) /\ signIn'[p].stage = "cleared" /\ ~Guesses(signIn'[p])
      /\ signIn'[p].op = signIn[p].op /\ signIn'[p].shown = signIn[p].shown
  BY <1>3 DEF SameCall, Guesses
<1>7. \A q \in SignIns : Guesses(signIn'[q]) =>
         Guesses(signIn[q]) /\ signIn'[q].op = signIn[q].op /\ signIn'[q].shown = signIn[q].shown
  BY <1>6 DEF Only
<1>8. GuessesCounted'
  BY <1>0, <1>2, <1>7, GuessKept
<1>9. KeyStays => KeyRead(totp, proved', signIn'[p])
  <2> SUFFICES ASSUME KeyStays PROVE KeyRead(totp, proved', signIn'[p])
    OBVIOUS
  <2>1. KeyRead(totp, proved, signIn[p])
    BY DEF SignInInv, KeyInv
  <2> QED BY <1>1, <1>6, <2>1 DEF KeyRead
<1>10. DecidedOn(totp, passkey, asked, signIn'[p]) /\ signIn'[p].stage \notin {"consumed", "asserted"}
  BY <1>6 DEF DecidedOn
<1>11. ~Overlap => \A q \in SignIns : q # p => signIn[q].stage = "idle"
  BY <1>4, OthersIdle
<1>12. UNCHANGED SignInRows /\ proved \subseteq proved'
  BY <1>1 DEF SignInRows
<1> QED BY <1>2, <1>5, <1>6, <1>8, <1>9, <1>10, <1>11, <1>12, CallStep

\* A call ends and leaves challenges or ceremonies changed that nobody has consumed.
LEMMA RowsStep ==
    ASSUME SignInBounds, SignInInv, NEW p \in SignIns, signIn[p].stage # "idle", SignIn!End(p),
           UNCHANGED <<asked, totp, keys, batch, codes, passkey, timeStep, failures, accepted, proved>>,
           SignIn!TypeOK', Settled
    PROVE  SignInInv'
<1>0. SignInTypes
  BY DEF SignInInv
<1>1. /\ signIn' \in [SignIns -> SignInRow] /\ Only(p) /\ SignInCallGood(signIn'[p])
      /\ signIn'[p].stage = "idle" /\ ~Guesses(signIn'[p])
      /\ KeyRead(totp, proved', signIn'[p]) /\ DecidedOn(totp', passkey', asked', signIn'[p])
  BY EndFacts
<1>2. SignInTypes'
  BY <1>0, <1>1 DEF SignInTypes, Settled
<1>3. /\ CodesMove /\ proved \subseteq proved' /\ UNCHANGED <<totp, keys>>
      /\ \A e \in SignIn!RecoveryCodes \cup SignIn!Assertions \cup SignIn!Used : accepted'[e] = accepted[e]
      /\ \A e \in SignIn!AppCodes : accepted'[e] = accepted[e]
  BY DEF CodesMove
<1>4. PasskeysMove
  BY PasskeysStay
<1>5. GuessesCounted'
  BY <1>1, GuessSame
<1>6. KeyStays => KeyInv'
  BY <1>1, <1>3, KeyKept
<1>7. ~Overlap => SignAloneInv'
  <2>1. totp'.confirmed = totp.confirmed /\ HeldIn(passkey') = HeldIn(passkey) /\ codes' \subseteq codes /\ UNCHANGED asked
    OBVIOUS
  <2>2. signIn'[p].stage # "idle" => \A q \in SignIns : q # p => signIn[q].stage = "idle"
    BY <1>1
  <2> QED BY <1>1, <2>1, <2>2, SignAloneKept
<1>8. signIn'[p].stage \notin {"consumed", "asserted"}
  BY <1>1
<1> QED BY <1>1, <1>2, <1>3, <1>4, <1>5, <1>6, <1>7, <1>8, QuietStep

LEMMA FailSignInChallengeSafe ==
    ASSUME SignInBounds, SignInInv, NEW p \in SignIns, SignIn!FailSignInChallenge(p)
    PROVE  SignInInv'
<1> DEFINE h == signIn[p].on
           failed == IF pendingSignIn[h].state # "consumed" /\ pendingSignIn[h].failed < Attempts
                        THEN pendingSignIn[h].failed + 1 ELSE pendingSignIn[h].failed
<1>0. SignInTypes /\ SignInCallGood(signIn[p])
  BY DEF SignInInv, CallsGood
<1>1. /\ signIn[p].stage = "counted" /\ SignIn!End(p)
      /\ pendingSignIn' = [pendingSignIn EXCEPT ![h].failed = failed]
      /\ UNCHANGED <<asked, totp, keys, batch, codes, passkey, timeStep, failures, accepted, proved>>
      /\ UNCHANGED <<ceremony, opened>>
  BY DEF SignIn!FailSignInChallenge, SignIn!factors, SignIn!history
<1>2. h \in Challenges /\ signIn[p].stage # "idle"
  BY <1>0, <1>1 DEF SignInCallGood
<1>3. pendingSignIn \in [Challenges -> [state : {"none", "pending", "consumed", "expired"}, failed : 0..Attempts]]
  BY <1>0 DEF SignInTypes, SignIn!TypeOK
<1>4. failed \in 0..Attempts
  BY <1>2, <1>3 DEF SignInBounds
<1>5. pendingSignIn[h].state = "consumed" => failed = pendingSignIn[h].failed
  OBVIOUS
<1> HIDE DEF failed
<1>6. pendingSignIn' \in [Challenges -> [state : {"none", "pending", "consumed", "expired"}, failed : 0..Attempts]]
  BY <1>1, <1>2, <1>3, <1>4
<1>7. \A g \in Challenges : pendingSignIn[g].state = "consumed" => pendingSignIn'[g] = pendingSignIn[g]
  <2>1. \A g \in Challenges : g # h => pendingSignIn'[g] = pendingSignIn[g]
    BY <1>1, <1>3
  <2>2. pendingSignIn'[h] = [pendingSignIn[h] EXCEPT !.failed = failed]
    BY <1>1, <1>2, <1>3
  <2>3. failed = pendingSignIn[h].failed => pendingSignIn'[h] = pendingSignIn[h]
    BY <1>2, <1>3, <2>2
  <2> QED BY <1>5, <2>1, <2>3
<1>8. SignIn!TypeOK'
  BY <1>0, <1>1, <1>6 DEF SignInTypes, SignIn!TypeOK
<1>9. Settled
  BY <1>1, <1>7 DEF Settled
<1> QED BY <1>1, <1>2, <1>8, <1>9, RowsStep

LEMMA LoggedInSafe ==
    ASSUME SignInBounds, SignInInv, NEW p \in SignIns, SignIn!LoggedIn(p)
    PROVE  SignInInv'
<1>0. SignInTypes
  BY DEF SignInInv
<1>1. /\ signIn[p].stage = "cleared" /\ SignIn!End(p)
      /\ \/ \E h \in Challenges : /\ pendingSignIn[h].state = "none"
                                  /\ pendingSignIn' = [pendingSignIn EXCEPT ![h] = [state |-> "pending", failed |-> 0]]
         \/ UNCHANGED pendingSignIn
      /\ UNCHANGED <<asked, totp, keys, batch, codes, passkey, timeStep, failures, accepted, proved>>
      /\ UNCHANGED <<ceremony, opened>>
  BY DEF SignIn!LoggedIn, SignIn!factors, SignIn!history
<1>2. pendingSignIn \in [Challenges -> [state : {"none", "pending", "consumed", "expired"}, failed : 0..Attempts]]
  BY <1>0 DEF SignInTypes, SignIn!TypeOK
<1>3. /\ pendingSignIn' \in [Challenges -> [state : {"none", "pending", "consumed", "expired"}, failed : 0..Attempts]]
      /\ \A g \in Challenges : pendingSignIn[g].state = "consumed" => pendingSignIn'[g] = pendingSignIn[g]
  <2>1. CASE UNCHANGED pendingSignIn
    BY <1>2, <2>1
  <2>2. CASE \E h \in Challenges : /\ pendingSignIn[h].state = "none"
                                   /\ pendingSignIn' = [pendingSignIn EXCEPT ![h] = [state |-> "pending", failed |-> 0]]
    BY <1>2, <2>2 DEF SignInBounds
  <2> QED BY <1>1, <2>1, <2>2
<1>4. SignIn!TypeOK' /\ Settled /\ signIn[p].stage # "idle"
  BY <1>0, <1>1, <1>3 DEF SignInTypes, SignIn!TypeOK, Settled
<1> QED BY <1>1, <1>4, RowsStep

LEMMA RegistrationOptionsSafe ==
    ASSUME SignInBounds, SignInInv, NEW p \in SignIns, SignIn!RegistrationOptions(p)
    PROVE  SignInInv'
<1>0. SignInTypes
  BY DEF SignInInv
<1>1. /\ signIn[p].stage = "cleared" /\ SignIn!End(p)
      /\ \E w \in Ceremonies : SignIn!NewCeremony(w, "register", NoRow)
      /\ UNCHANGED <<asked, totp, keys, batch, codes, passkey, timeStep, failures, accepted, proved>>
      /\ UNCHANGED <<pendingSignIn, opened>>
  BY DEF SignIn!RegistrationOptions, SignIn!factors, SignIn!history
<1>2. PICK w \in Ceremonies :
         /\ ceremony[w].state = "none"
         /\ ceremony' = [ceremony EXCEPT ![w] = [state |-> "pending", purpose |-> "register", link |-> NoRow]]
  BY <1>1 DEF SignIn!NewCeremony
<1>3. /\ ceremony \in [Ceremonies -> [state : {"none", "pending", "consumed", "expired"},
                                      purpose : SignIn!Purposes, link : Challenges \cup {NoRow}]]
      /\ \A v \in Ceremonies : (ceremony[v].link # NoRow) <=> (ceremony[v].purpose = "second_factor")
  BY <1>0 DEF SignInTypes, SignIn!TypeOK
<1>4. /\ ceremony' \in [Ceremonies -> [state : {"none", "pending", "consumed", "expired"},
                                       purpose : SignIn!Purposes, link : Challenges \cup {NoRow}]]
      /\ \A v \in Ceremonies : v # w => ceremony'[v] = ceremony[v]
      /\ ceremony'[w].link = NoRow /\ ceremony'[w].purpose = "register"
  BY <1>2, <1>3 DEF SignIn!Purposes
<1>5. \A v \in Ceremonies : (ceremony'[v].link # NoRow) <=> (ceremony'[v].purpose = "second_factor")
  BY <1>3, <1>4
<1>6. SignIn!TypeOK' /\ signIn[p].stage # "idle"
  BY <1>0, <1>1, <1>4, <1>5 DEF SignInTypes, SignIn!TypeOK
<1>7. Settled
  BY <1>1, <1>2, <1>4 DEF Settled
<1> QED BY <1>1, <1>6, <1>7, RowsStep

LEMMA ConsumeSignInChallengeSafe ==
    ASSUME SignInBounds, SignInInv, NEW p \in SignIns, SignIn!ConsumeSignInChallenge(p)
    PROVE  SignInInv'
<1> DEFINE h == signIn[p].on
<1>0. SignInTypes /\ SignInCallGood(signIn[p]) /\ OpensOnce /\ SpentForGood
  BY DEF SignInInv, CallsGood
<1>1. /\ signIn[p].op = "second" /\ signIn[p].stage = "cleared"
      /\ \/ /\ SignIn!Usable(h) /\ pendingSignIn' = [pendingSignIn EXCEPT ![h].state = "consumed"]
            /\ SignIn!To(p, "consumed")
         \/ SignIn!End(p) /\ UNCHANGED pendingSignIn
      /\ UNCHANGED <<asked, totp, keys, batch, codes, passkey, timeStep, failures, accepted, proved>>
      /\ UNCHANGED <<ceremony, opened>>
  BY DEF SignIn!ConsumeSignInChallenge, SignIn!factors, SignIn!history
<1>2. h \in Challenges /\ signIn[p].stage # "idle"
  BY <1>0, <1>1 DEF SignInCallGood
<1>3. CASE SignIn!End(p) /\ UNCHANGED pendingSignIn
  <2>1. UNCHANGED <<SignInRows, failures, proved>>
    BY <1>1, <1>3 DEF SignInRows
  <2> QED BY <1>2, <1>3, <2>1, EndStep
<1>4. CASE /\ SignIn!Usable(h) /\ pendingSignIn' = [pendingSignIn EXCEPT ![h].state = "consumed"]
           /\ SignIn!To(p, "consumed")
  <2>1. SameCall(p, "consumed")
    BY <1>0, <1>4, Staged DEF SignInStages
  <2>2. SignInCallGood(signIn'[p])
    BY <1>1, <1>2, <2>1, StageGood DEF SignInStages
  <2>3. /\ signIn' \in [SignIns -> SignInRow] /\ Only(p) /\ signIn'[p].stage = "consumed" /\ ~Guesses(signIn'[p])
        /\ signIn'[p].op = "second" /\ signIn'[p].on = h
    BY <1>1, <2>1 DEF SameCall, Guesses
  <2>4. pendingSignIn \in [Challenges -> [state : {"none", "pending", "consumed", "expired"}, failed : 0..Attempts]]
    BY <1>0 DEF SignInTypes, SignIn!TypeOK
  <2>5. /\ pendingSignIn' \in [Challenges -> [state : {"none", "pending", "consumed", "expired"}, failed : 0..Attempts]]
        /\ pendingSignIn'[h].state = "consumed" /\ pendingSignIn'[h].failed = pendingSignIn[h].failed
        /\ \A g \in Challenges : g # h => pendingSignIn'[g] = pendingSignIn[g]
    BY <1>2, <1>4, <2>4
  <2>6. pendingSignIn[h].state = "pending" /\ pendingSignIn[h].failed < Attempts
    BY <1>4 DEF SignIn!Usable
  <2>7. SignInTypes'
    BY <1>0, <1>1, <2>3, <2>5 DEF SignInTypes, SignIn!TypeOK
  <2>8. CallsGood'
    BY <2>2, <2>3 DEF SignInInv, CallsGood, Only
  <2>9. OpensOnce'
    <3>0. opened' = opened /\ ceremony' = ceremony /\ opened[h] = 0
      BY <1>0, <1>1, <1>2, <2>6 DEF OpensOnce
    <3>1. \A q \in SignIns : /\ Spends(signIn'[q]) /\ q # p => signIn'[q] = signIn[q] /\ Spends(signIn[q])
                             /\ Asserts(signIn'[q]) => signIn'[q] = signIn[q] /\ Asserts(signIn[q])
                             /\ signIn'[q].stage = "asserted" => signIn'[q] = signIn[q]
      BY <2>3 DEF Spends, Asserts, Only
    <3>2. \A q \in SignIns : Spends(signIn[q]) => signIn[q].on \in Challenges /\ signIn[q].on # h
      BY <1>0, <2>6 DEF OpensOnce, SignInInv, CallsGood, SignInCallGood, Spends
    <3>3. /\ \A g \in Challenges : opened'[g] \in 0..1 /\
                (opened'[g] > 0 => pendingSignIn'[g].state = "consumed" /\ pendingSignIn'[g].failed < Attempts)
      BY <1>0, <2>5, <2>6, <3>0 DEF OpensOnce
    <3>4. \A q \in SignIns : Spends(signIn'[q]) =>
             /\ pendingSignIn'[signIn'[q].on].state = "consumed" /\ pendingSignIn'[signIn'[q].on].failed < Attempts
             /\ opened'[signIn'[q].on] = 0
      <4>1. \A q \in SignIns : Spends(signIn[q]) =>
               /\ pendingSignIn[signIn[q].on].state = "consumed" /\ pendingSignIn[signIn[q].on].failed < Attempts
               /\ opened[signIn[q].on] = 0
        BY <1>0 DEF OpensOnce
      <4> QED BY <2>3, <2>5, <2>6, <3>0, <3>1, <3>2, <4>1
    <3>5. \A q, r \in SignIns : Spends(signIn'[q]) /\ Spends(signIn'[r]) /\ q # r => signIn'[q].on # signIn'[r].on
      <4>1. \A q, r \in SignIns : Spends(signIn[q]) /\ Spends(signIn[r]) /\ q # r => signIn[q].on # signIn[r].on
        BY <1>0 DEF OpensOnce
      <4> QED BY <2>3, <3>1, <3>2, <4>1
    <3>6. /\ \A w \in Ceremonies : opened'[w] \in 0..1 /\ (opened'[w] > 0 => ceremony'[w].state = "consumed")
          /\ \A q \in SignIns : Asserts(signIn'[q]) =>
                opened'[signIn'[q].by] = 0 /\ ceremony'[signIn'[q].by].state = "consumed"
          /\ \A q, r \in SignIns : Asserts(signIn'[q]) /\ Asserts(signIn'[r]) /\ q # r => signIn'[q].by # signIn'[r].by
          /\ \A q \in SignIns : signIn'[q].stage = "asserted" =>
                /\ ceremony'[signIn'[q].by].state = "consumed"
                /\ signIn'[q].op = "second" => ceremony'[signIn'[q].by].link = signIn'[q].on
      BY <1>0, <3>0, <3>1 DEF OpensOnce
    <3> QED BY <3>3, <3>4, <3>5, <3>6 DEF OpensOnce
  <2>10. SpentForGood'
    BY <1>0, <1>1 DEF SpentForGood
  <2>11. GuessesCounted'
    BY <1>1, <2>3, GuessSame
  <2>12. KeyStays => KeyInv'
    <3>1. UNCHANGED <<totp, keys>> /\ proved \subseteq proved' /\ \A f \in SignIn!AppCodes : accepted'[f] = accepted[f]
      BY <1>1
    <3>2. KeyRead(totp, proved', signIn'[p])
      BY <2>3 DEF KeyRead
    <3> QED BY <2>3, <3>1, <3>2, KeyKept
  <2>13. ~Overlap => SignAloneInv'
    <3>1. DecidedOn(totp', passkey', asked', signIn'[p])
      BY <2>3 DEF DecidedOn
    <3>2. HeldIn(passkey') = HeldIn(passkey) /\ totp'.confirmed = totp.confirmed /\ UNCHANGED asked /\ codes' \subseteq codes
      BY <1>1
    <3>3. ~Overlap => \A q \in SignIns : q # p => signIn[q].stage = "idle"
      BY <1>2, OthersIdle
    <3> QED BY <2>3, <3>1, <3>2, <3>3, SignAloneKept
  <2> QED BY <2>7, <2>8, <2>9, <2>10, <2>11, <2>12, <2>13 DEF SignInInv, KeyStays
<1> QED BY <1>1, <1>3, <1>4

LEMMA SignInAloneEnds ==
    ASSUME SignInInv, ~Overlap, NEW p \in SignIns, signIn[p].stage # "idle", Only(p), signIn'[p].stage = "idle",
           SignIn!CodesNeedFactor'
    PROVE  SignAloneInv'
<1>1. \A q \in SignIns : signIn'[q].stage = "idle"
  BY OthersIdle DEF Only
<1>2. SignsAlone' /\ \A q \in SignIns : DecidedOn(totp', passkey', asked', signIn'[q])
  BY <1>1 DEF SignsAlone, DecidedOn
<1> QED BY <1>2 DEF SignAloneInv

LEMMA IssueSignInSessionSafe ==
    ASSUME SignInBounds, SignInInv, NEW p \in SignIns, SignIn!IssueSignInSession(p)
    PROVE  SignInInv'
<1> DEFINE b == IF signIn[p].op = "second" THEN signIn[p].on ELSE signIn[p].by
<1>0. SignInTypes /\ SignInCallGood(signIn[p]) /\ OpensOnce /\ SpentForGood
  BY DEF SignInInv, CallsGood
<1>1. /\ signIn[p].stage = "consumed" /\ opened' = [opened EXCEPT ![b] = @ + 1] /\ SignIn!End(p)
      /\ UNCHANGED <<asked, totp, keys, batch, codes, passkey, pendingSignIn, ceremony, timeStep, failures, accepted, proved>>
  BY DEF SignIn!IssueSignInSession, SignIn!factors
<1>2. /\ signIn[p].stage # "idle" /\ b \in Challenges \cup Ceremonies
      /\ \/ signIn[p].op = "second" /\ Spends(signIn[p]) /\ b = signIn[p].on /\ b \in Challenges
         \/ signIn[p].op = "passkey" /\ Asserts(signIn[p]) /\ b = signIn[p].by /\ b \in Ceremonies
  BY <1>0, <1>1 DEF SignInCallGood, Spends, Asserts
<1>3. /\ opened[b] = 0
      /\ b \in Challenges => pendingSignIn[b].state = "consumed" /\ pendingSignIn[b].failed < Attempts
      /\ b \in Ceremonies => ceremony[b].state = "consumed"
  <2>1. b \in Challenges => b \notin Ceremonies
    BY DEF SignInBounds
  <2>2. CASE signIn[p].op = "second" /\ Spends(signIn[p]) /\ b = signIn[p].on /\ b \in Challenges
    BY <1>0, <2>1, <2>2 DEF OpensOnce
  <2>3. CASE signIn[p].op = "passkey" /\ Asserts(signIn[p]) /\ b = signIn[p].by /\ b \in Ceremonies
    BY <1>0, <2>1, <2>3 DEF OpensOnce
  <2> QED BY <1>2, <2>2, <2>3
<1>4. /\ signIn' \in [SignIns -> SignInRow] /\ Only(p) /\ SignInCallGood(signIn'[p])
      /\ signIn'[p].stage = "idle" /\ ~Guesses(signIn'[p])
      /\ KeyRead(totp, proved', signIn'[p]) /\ DecidedOn(totp', passkey', asked', signIn'[p])
  BY <1>1, EndFacts
<1>5. \A q \in SignIns : /\ Spends(signIn[q]) /\ q # p => signIn[q].on # b /\ signIn[q].on \in Challenges
                         /\ Asserts(signIn[q]) /\ q # p => signIn[q].by # b /\ signIn[q].by \in Ceremonies
  <2>1. \A q \in SignIns : /\ Spends(signIn[q]) => signIn[q].on \in Challenges
                           /\ Asserts(signIn[q]) => signIn[q].by \in Ceremonies
    BY DEF SignInInv, CallsGood, SignInCallGood, Spends, Asserts
  <2>2. CASE signIn[p].op = "second" /\ Spends(signIn[p]) /\ b = signIn[p].on /\ b \in Challenges
    BY <1>0, <2>1, <2>2 DEF OpensOnce, SignInBounds
  <2>3. CASE signIn[p].op = "passkey" /\ Asserts(signIn[p]) /\ b = signIn[p].by /\ b \in Ceremonies
    BY <1>0, <2>1, <2>3 DEF OpensOnce, SignInBounds
  <2> QED BY <1>2, <2>2, <2>3
<1> HIDE DEF b
<1>6. /\ opened' \in [Challenges \cup Ceremonies -> Nat] /\ opened'[b] = 1
      /\ \A g \in Challenges \cup Ceremonies : g # b => opened'[g] = opened[g]
  BY <1>0, <1>1, <1>2, <1>3 DEF SignInTypes
<1>7. SignInTypes'
  BY <1>0, <1>1, <1>4, <1>6 DEF SignInTypes, SignIn!TypeOK
<1>8. CallsGood'
  BY <1>4 DEF SignInInv, CallsGood, Only
<1>9. OpensOnce'
  <2>1. \A q \in SignIns : /\ Spends(signIn'[q]) => signIn'[q] = signIn[q] /\ Spends(signIn[q]) /\ q # p
                           /\ Asserts(signIn'[q]) => signIn'[q] = signIn[q] /\ Asserts(signIn[q]) /\ q # p
                           /\ signIn'[q].stage = "asserted" => signIn'[q] = signIn[q]
    BY <1>4 DEF Spends, Asserts, Only
  <2>2. \A h \in Challenges : opened'[h] \in 0..1 /\
           (opened'[h] > 0 => pendingSignIn'[h].state = "consumed" /\ pendingSignIn'[h].failed < Attempts)
    BY <1>0, <1>1, <1>3, <1>6 DEF OpensOnce
  <2>3. \A w \in Ceremonies : opened'[w] \in 0..1 /\ (opened'[w] > 0 => ceremony'[w].state = "consumed")
    BY <1>0, <1>1, <1>3, <1>6 DEF OpensOnce
  <2>4. \A q \in SignIns : Spends(signIn'[q]) =>
           /\ pendingSignIn'[signIn'[q].on].state = "consumed" /\ pendingSignIn'[signIn'[q].on].failed < Attempts
           /\ opened'[signIn'[q].on] = 0
    BY <1>0, <1>1, <1>5, <1>6, <2>1 DEF OpensOnce
  <2>5. \A q \in SignIns : Asserts(signIn'[q]) =>
           opened'[signIn'[q].by] = 0 /\ ceremony'[signIn'[q].by].state = "consumed"
    BY <1>0, <1>1, <1>5, <1>6, <2>1 DEF OpensOnce
  <2>6. /\ \A q, r \in SignIns : Spends(signIn'[q]) /\ Spends(signIn'[r]) /\ q # r => signIn'[q].on # signIn'[r].on
        /\ \A q, r \in SignIns : Asserts(signIn'[q]) /\ Asserts(signIn'[r]) /\ q # r => signIn'[q].by # signIn'[r].by
        /\ \A q \in SignIns : signIn'[q].stage = "asserted" =>
              /\ ceremony'[signIn'[q].by].state = "consumed"
              /\ signIn'[q].op = "second" => ceremony'[signIn'[q].by].link = signIn'[q].on
    BY <1>0, <1>1, <2>1 DEF OpensOnce
  <2> QED BY <2>2, <2>3, <2>4, <2>5, <2>6 DEF OpensOnce
<1>10. SpentForGood'
  BY <1>0, <1>1 DEF SpentForGood
<1>11. GuessesCounted'
  BY <1>1, <1>4, GuessSame
<1>12. KeyStays => KeyInv'
  <2>1. UNCHANGED <<totp, keys>> /\ proved \subseteq proved' /\ \A f \in SignIn!AppCodes : accepted'[f] = accepted[f]
    BY <1>1
  <2> QED BY <1>4, <2>1, KeyKept
<1>13. ~Overlap => SignAloneInv'
  <2>1. HeldIn(passkey') = HeldIn(passkey) /\ totp'.confirmed = totp.confirmed /\ UNCHANGED asked /\ codes' \subseteq codes
    BY <1>1
  <2>2. signIn'[p].stage # "idle" => \A q \in SignIns : q # p => signIn[q].stage = "idle"
    BY <1>4
  <2> QED BY <1>4, <2>1, <2>2, SignAloneKept
<1> QED BY <1>7, <1>8, <1>9, <1>10, <1>11, <1>12, <1>13 DEF SignInInv, KeyStays

\* A transaction on the factors commits and its call ends.
LEMMA CommitStep ==
    ASSUME SignInBounds, SignInInv, NEW p \in SignIns, signIn[p].stage # "idle", SignIn!End(p),
           UNCHANGED <<asked, keys, pendingSignIn, ceremony, failures, timeStep, opened, proved>>,
           SignIn!TypeOK', batch' \in 0..MaxBatches, accepted' \in [SignIn!Evidence -> Nat],
           \A e \in SignIn!RecoveryCodes \cup SignIn!Assertions \cup SignIn!Used : accepted'[e] = accepted[e],
           CodesMove, PasskeysMove, KeyStays => KeyInv', ~Overlap => SignIn!CodesNeedFactor'
    PROVE  SignInInv'
<1>0. SignInTypes
  BY DEF SignInInv
<1>1. /\ signIn' \in [SignIns -> SignInRow] /\ Only(p) /\ SignInCallGood(signIn'[p])
      /\ signIn'[p].stage = "idle" /\ ~Guesses(signIn'[p])
  BY EndFacts
<1>2. SignInTypes'
  BY <1>0, <1>1 DEF SignInTypes
<1>3. Settled /\ signIn'[p].stage \notin {"consumed", "asserted"}
  BY <1>1 DEF Settled
<1>4. GuessesCounted'
  BY <1>1, GuessSame
<1>5. ~Overlap => SignAloneInv'
  BY <1>1, SignInAloneEnds
<1> QED BY <1>1, <1>2, <1>3, <1>4, <1>5, QuietStep

LEMMA NewCodesMove ==
    ASSUME SignInBounds, SignInInv, SignIn!NewCodes
    PROVE  /\ CodesMove /\ batch' \in 0..MaxBatches
           /\ codes' \subseteq {SignIn!Shown("recovery", batch', i) : i \in Codes}
<1>1. batch \in 0..MaxBatches /\ batch < MaxBatches /\ batch' = batch + 1
      /\ codes' = {SignIn!Shown("recovery", batch', i) : i \in Codes}
  BY DEF SignInInv, SignInTypes, SignIn!NewCodes
<1>2. batch' \in 0..MaxBatches
  BY <1>1 DEF SignInBounds
<1> QED BY <1>1, <1>2 DEF CodesMove

LEMMA ConfirmTOTPSafe ==
    ASSUME SignInBounds, SignInInv, NEW p \in SignIns, SignIn!ConfirmTOTP(p)
    PROVE  SignInInv'
<1> DEFINE e == signIn[p].shown
<1>0. SignInTypes /\ SignInCallGood(signIn[p])
  BY DEF SignInInv, CallsGood
<1>1. /\ signIn[p].op = "confirm" /\ signIn[p].stage = "cleared" /\ SignIn!End(p)
      /\ UNCHANGED <<asked, keys, pendingSignIn, ceremony, failures, timeStep, opened, proved>> /\ UNCHANGED passkey
      /\ \/ /\ SignIn!Unconfirmed /\ totp' = [totp EXCEPT !.confirmed = TRUE, !.step = e.b]
            /\ accepted' = [accepted EXCEPT ![e] = @ + 1] /\ SignIn!NewCodes
         \/ UNCHANGED <<totp, accepted, batch, codes>>
  BY DEF SignIn!ConfirmTOTP, SignIn!Accept
<1>2. signIn[p].stage # "idle" /\ e \in SignIn!AppCodes
  BY <1>0, <1>1 DEF SignInCallGood
<1>3. CASE UNCHANGED <<totp, accepted, batch, codes>>
  <2>1. UNCHANGED <<SignInRows, failures, proved>>
    BY <1>1, <1>3 DEF SignInRows
  <2> QED BY <1>1, <1>2, <2>1, EndStep
<1>4. CASE /\ SignIn!Unconfirmed /\ totp' = [totp EXCEPT !.confirmed = TRUE, !.step = e.b]
           /\ accepted' = [accepted EXCEPT ![e] = @ + 1] /\ SignIn!NewCodes
  <2>0. e.b \in 1..MaxClock + 1 /\ e.a \in Nat /\ e \in SignIn!Evidence
    BY <1>2, Kinds
  <2>1. /\ totp \in [key : 0..keys, confirmed : BOOLEAN, step : 0..MaxClock + 1]
        /\ accepted \in [SignIn!Evidence -> Nat]
    BY <1>0 DEF SignInTypes, SignIn!TypeOK
  <2>2. /\ totp' \in [key : 0..keys, confirmed : BOOLEAN, step : 0..MaxClock + 1]
        /\ totp'.key = totp.key /\ totp'.confirmed = TRUE /\ totp'.step = e.b
    <3>1. MaxClock \in Nat /\ e.b \in 0..MaxClock + 1
      BY <2>0 DEF SignInBounds
    <3>2. totp' = [totp EXCEPT !.confirmed = TRUE, !.step = e.b]
      BY <1>4
    <3> HIDE DEF e
    <3>3. totp' = [key |-> totp.key, confirmed |-> TRUE, step |-> e.b]
      BY <2>1, <3>2
    <3>4. totp.key \in 0..keys
      BY <2>1
    <3> QED BY <3>1, <3>3, <3>4
  <2>3. /\ accepted' \in [SignIn!Evidence -> Nat] /\ accepted'[e] = accepted[e] + 1
        /\ \A f \in SignIn!Evidence : f # e => accepted'[f] = accepted[f]
    BY <1>4, <2>0, <2>1
  <2>4. /\ CodesMove /\ batch' \in 0..MaxBatches
        /\ codes' \subseteq {SignIn!Shown("recovery", batch', i) : i \in Codes}
    BY <1>4, NewCodesMove
  <2>5. SignIn!TypeOK'
    BY <1>0, <1>1, <2>2, <2>4 DEF SignInTypes, SignIn!TypeOK
  <2>6. PasskeysMove
    BY <1>1, PasskeysStay
  <2>7. \A f \in SignIn!RecoveryCodes \cup SignIn!Assertions \cup SignIn!Used : accepted'[f] = accepted[f]
    BY <1>2, <2>3, Kinds
  <2>8. KeyStays => KeyInv'
    <3> SUFFICES ASSUME KeyStays PROVE KeyInv'
      OBVIOUS
    <3>1. KeyInv
      BY DEF SignInInv
    <3>2. totp.key # 0 /\ ~totp.confirmed
      BY <1>4 DEF SignIn!Unconfirmed
    <3>3. e.a = totp.key /\ totp.key \in proved
      BY <1>1, <3>1, <3>2 DEF KeyInv, KeyRead
    <3>4. "start" \in Operations /\ ~Overlap
      BY <3>1, <3>2 DEF KeyInv, KeyStays
    <3>5. ASSUME NEW f \in SignIn!AppCodes PROVE CodeSpent(totp', keys', accepted', f)
      <4>1. CodeSpent(totp, keys, accepted, f) /\ f \in SignIn!Evidence
        BY <3>1, Kinds DEF KeyInv
      <4>2. CASE f = e
        <5>1. accepted[f] = 0
          BY <3>2, <3>3, <4>1, <4>2 DEF CodeSpent
        <5>2. accepted'[f] = 1 /\ totp'.confirmed /\ f.b <= totp'.step
          BY <2>0, <2>2, <2>3, <4>2, <5>1
        <5>3. f.a <= keys'
          BY <1>1, <2>1, <3>3, <4>2
        <5> QED BY <5>2, <5>3 DEF CodeSpent
      <4>3. CASE f # e
        <5>1. accepted'[f] = accepted[f] /\ accepted[f] \in 0..1 /\ keys' = keys
          BY <1>1, <2>3, <4>1, <4>3 DEF CodeSpent
        <5>2. accepted[f] > 0 => f.a # totp.key /\ f.a <= keys
          BY <3>2, <4>1 DEF CodeSpent
        <5> QED BY <2>2, <5>1, <5>2 DEF CodeSpent
      <4> QED BY <4>2, <4>3
    <3>6. \A q \in SignIns : signIn'[q].stage = "idle"
      BY <1>1, <1>2, <3>4, OthersIdle, EndFacts DEF Only
    <3>7. \A q \in SignIns : KeyRead(totp', proved', signIn'[q])
      BY <3>6 DEF KeyRead
    <3>8. SignIn!ConfirmedKeyWasProved'
      BY <1>1, <2>2, <3>3 DEF SignIn!ConfirmedKeyWasProved
    <3> QED BY <3>4, <3>5, <3>7, <3>8 DEF KeyInv
  <2>9. SignIn!CodesNeedFactor'
    BY <2>2 DEF SignIn!CodesNeedFactor, SignIn!HasSecondFactor
  <2> QED BY <1>1, <1>2, <2>3, <2>4, <2>5, <2>6, <2>7, <2>8, <2>9, CommitStep
<1> QED BY <1>1, <1>3, <1>4

\* A call that reads before it commits keeps what it has read with it.
LEMMA Flagged ==
    ASSUME SignInTypes, NEW p \in SignIns, NEW b \in BOOLEAN,
           signIn' = [signIn EXCEPT ![p].stage = "decided", ![p].flag = b]
    PROVE  SameCall(p, "decided") /\ signIn'[p].flag = b
<1>1. signIn[p] \in SignInRow /\ signIn \in [SignIns -> SignInRow]
  BY DEF SignInTypes
<1> DEFINE row == [signIn[p] EXCEPT !.stage = "decided", !.flag = b]
<1>2. signIn' = [signIn EXCEPT ![p] = row]
  <2> DEFINE first == [signIn EXCEPT ![p] = [signIn[p] EXCEPT !.stage = "decided"]]
  <2>1. DOMAIN first = SignIns /\ \A q \in SignIns : q # p => first[q] = signIn[q]
    BY <1>1
  <2>2. first[p] = [signIn[p] EXCEPT !.stage = "decided"]
    BY <1>1
  <2>3. signIn' = [first EXCEPT ![p] = [first[p] EXCEPT !.flag = b]]
    OBVIOUS
  <2>4. row = [[signIn[p] EXCEPT !.stage = "decided"] EXCEPT !.flag = b]
    OBVIOUS
  <2>5. signIn' = [first EXCEPT ![p] = row]
    BY <2>2, <2>3, <2>4
  <2> HIDE DEF row
  <2> QED BY <1>1, <2>1, <2>5
<1>3. row = [op |-> signIn[p].op, stage |-> "decided", on |-> signIn[p].on, shown |-> signIn[p].shown,
             by |-> signIn[p].by, flag |-> b]
  <2> DEFINE c == signIn[p]
             first == [c EXCEPT !.stage = "decided"]
  <2>1. c \in SignInRow
    BY <1>1
  <2> HIDE DEF c
  <2>2. first = [op |-> c.op, stage |-> "decided", on |-> c.on, shown |-> c.shown, by |-> c.by, flag |-> c.flag]
    BY <2>1 DEF SignInRow
  <2>3. row = [first EXCEPT !.flag = b]
    BY DEF c
  <2> HIDE DEF first, row
  <2>4. row = [op |-> c.op, stage |-> "decided", on |-> c.on, shown |-> c.shown, by |-> c.by, flag |-> b]
    BY <2>2, <2>3
  <2> QED BY <2>4 DEF c
<1>4. /\ row \in SignInRow /\ row.stage = "decided" /\ row.op = signIn[p].op /\ row.on = signIn[p].on
      /\ row.shown = signIn[p].shown /\ row.by = signIn[p].by /\ row.flag = b
  BY <1>1, <1>3 DEF SignInRow, SignInStages
<1> HIDE DEF row
<1>5. signIn' \in [SignIns -> SignInRow] /\ signIn'[p] = row /\ \A q \in SignIns : q # p => signIn'[q] = signIn[q]
  BY <1>1, <1>2, <1>4
<1> QED BY <1>4, <1>5 DEF SameCall, Only

LEMMA DecidedStep ==
    ASSUME SignInBounds, SignInInv, NEW p \in SignIns, signIn[p].stage = "cleared",
           signIn[p].op \in {"disable", "remove", "codes", "add"}, SameCall(p, "decided"),
           UNCHANGED <<SignInRows, failures, proved>>, DecidedOn(totp, passkey, asked, signIn'[p])
    PROVE  SignInInv'
<1>1. signIn[p].stage # "idle"
  OBVIOUS
<1>2. SignInCallGood(signIn'[p])
  BY <1>1, StageGood DEF SignInStages
<1>3. /\ signIn' \in [SignIns -> SignInRow] /\ Only(p) /\ ~Guesses(signIn'[p])
      /\ signIn'[p].stage \notin {"consumed", "asserted"} /\ KeyRead(totp, proved', signIn'[p])
  BY DEF SameCall, Guesses, KeyRead
<1>4. UNCHANGED <<SignInRows, failures>> /\ proved \subseteq proved'
  OBVIOUS
<1> QED BY <1>1, <1>2, <1>3, <1>4, CallGoesOn

LEMMA DecideSafe ==
    ASSUME SignInBounds, SignInInv, NEW p \in SignIns, SignIn!Decide(p)
    PROVE  SignInInv'
<1> DEFINE c == signIn[p]
           b == SignIn!Remaining(c.op, c.on)
<1>0. SignInTypes /\ totp.confirmed \in BOOLEAN /\ asked \in BOOLEAN
  BY DEF SignInInv, SignInTypes, SignIn!TypeOK
<1>1. /\ c.op \in {"disable", "remove"} /\ c.stage = "cleared"
      /\ UNCHANGED <<asked, totp, keys, batch, codes, passkey, pendingSignIn, ceremony, failures, timeStep,
                     accepted, opened, proved>>
      /\ \/ /\ (c.op = "disable" /\ totp.confirmed) \/ (c.op = "remove" /\ c.on \in SignIn!Held)
            /\ b \/ ~asked
            /\ signIn' = [signIn EXCEPT ![p].stage = "decided", ![p].flag = b]
         \/ SignIn!End(p)
  BY DEF SignIn!Decide, SignIn!factors, SignIn!history
<1>2. UNCHANGED <<SignInRows, failures, proved>> /\ c.stage # "idle"
  BY <1>1 DEF SignInRows
<1>3. CASE SignIn!End(p)
  BY <1>2, <1>3, EndStep
<1>4. CASE /\ (c.op = "disable" /\ totp.confirmed) \/ (c.op = "remove" /\ c.on \in SignIn!Held)
           /\ b \/ ~asked
           /\ signIn' = [signIn EXCEPT ![p].stage = "decided", ![p].flag = b]
  <2>1. /\ c.op = "disable" => b = (HeldIn(passkey) # {})
        /\ c.op = "remove" => b = (totp.confirmed \/ HeldIn(passkey) # {c.on})
        /\ SignIn!Held = HeldIn(passkey)
    BY SameHeld DEF SignIn!Remaining
  <2>2. b \in BOOLEAN
    BY <1>0, <1>1, <2>1
  <2>3. SameCall(p, "decided") /\ signIn'[p].flag = b
    <3> HIDE DEF b
    <3> QED BY <1>0, <1>4, <2>2, Flagged
  <2>4. DecidedOn(totp, passkey, asked, signIn'[p])
    <3>1. signIn'[p].op = c.op /\ signIn'[p].on = c.on
      BY <2>3 DEF SameCall
    <3> HIDE DEF b
    <3> QED BY <1>1, <1>4, <2>1, <2>3, <3>1 DEF DecidedOn
  <2> QED BY <1>1, <1>2, <2>3, <2>4, DecidedStep
<1> QED BY <1>1, <1>3, <1>4

LEMMA ReadCodesSafe ==
    ASSUME SignInBounds, SignInInv, NEW p \in SignIns, SignIn!ReadCodes(p)
    PROVE  SignInInv'
<1> DEFINE c == signIn[p]
           b == c.op = "codes" \/ codes = {}
<1>0. SignInTypes
  BY DEF SignInInv
<1>1. /\ c.op \in {"codes", "add"} /\ c.stage = "cleared"
      /\ UNCHANGED <<asked, totp, keys, batch, codes, passkey, pendingSignIn, ceremony, failures, timeStep,
                     accepted, opened, proved>>
      /\ \/ /\ c.op = "codes" => SignIn!HasSecondFactor
            /\ signIn' = [signIn EXCEPT ![p].stage = "decided", ![p].flag = b]
         \/ SignIn!End(p)
  BY DEF SignIn!ReadCodes, SignIn!factors, SignIn!history
<1>2. UNCHANGED <<SignInRows, failures, proved>> /\ c.stage # "idle"
  BY <1>1 DEF SignInRows
<1>3. CASE SignIn!End(p)
  BY <1>2, <1>3, EndStep
<1>4. CASE /\ c.op = "codes" => SignIn!HasSecondFactor
           /\ signIn' = [signIn EXCEPT ![p].stage = "decided", ![p].flag = b]
  <2>1. SameCall(p, "decided")
    <3>1. b \in BOOLEAN
      OBVIOUS
    <3> HIDE DEF b
    <3> QED BY <1>0, <1>4, <3>1, Flagged
  <2>2. DecidedOn(totp, passkey, asked, signIn'[p])
    <3>1. signIn'[p].op = c.op
      BY <2>1 DEF SameCall
    <3> QED BY <1>1, <1>4, <3>1, SameHeld DEF DecidedOn, SignIn!HasSecondFactor
  <2> QED BY <1>1, <1>2, <2>1, <2>2, DecidedStep
<1> QED BY <1>1, <1>3, <1>4

\* With no key stored there is nothing left to be careful about.
LEMMA KeyGone ==
    ASSUME SignInBounds, SignInInv, KeyStays, totp' = SignIn!NoTOTP, UNCHANGED <<keys, accepted>>
    PROVE  KeyInv'
<1>1. KeyInv /\ totp'.key = 0 /\ ~totp'.confirmed
  BY DEF SignInInv, SignIn!NoTOTP
<1>2. ASSUME NEW e \in SignIn!AppCodes PROVE CodeSpent(totp', keys', accepted', e)
  <2>1. e.a # 0 /\ CodeSpent(totp, keys, accepted, e)
    BY <1>1, Kinds DEF KeyInv
  <2> QED BY <1>1, <2>1 DEF CodeSpent
<1>3. \A q \in SignIns : KeyRead(totp', proved', signIn'[q])
  BY <1>1 DEF KeyRead
<1> QED BY <1>1, <1>2, <1>3 DEF KeyInv, SignIn!ConfirmedKeyWasProved

LEMMA NoTOTPTyped ==
    ASSUME SignInBounds, SignInInv
    PROVE  SignIn!NoTOTP \in [key : 0..keys, confirmed : BOOLEAN, step : 0..MaxClock + 1]
<1>1. keys \in Nat /\ MaxClock \in Nat
  BY DEF SignInInv, SignInTypes, SignInBounds
<1> QED BY <1>1 DEF SignIn!NoTOTP

LEMMA DisableTwoFactorSafe ==
    ASSUME SignInBounds, SignInInv, NEW p \in SignIns, SignIn!DisableTwoFactor(p)
    PROVE  SignInInv'
<1>0. SignInTypes
  BY DEF SignInInv
<1>1. /\ signIn[p].op = "disable" /\ signIn[p].stage = "decided" /\ SignIn!End(p)
      /\ UNCHANGED <<asked, keys, pendingSignIn, ceremony, failures, timeStep, opened, proved>>
      /\ UNCHANGED <<batch, passkey, accepted>>
      /\ \/ totp' = SignIn!NoTOTP /\ codes' = SignIn!CodesLeft(signIn[p].flag)
         \/ UNCHANGED <<totp, codes>>
  BY DEF SignIn!DisableTwoFactor, SignIn!history
<1>2. signIn[p].stage # "idle"
  BY <1>1
<1>3. CASE UNCHANGED <<totp, codes>>
  <2>1. UNCHANGED <<SignInRows, failures, proved>>
    BY <1>1, <1>3 DEF SignInRows
  <2> QED BY <1>1, <1>2, <2>1, EndStep
<1>4. CASE totp' = SignIn!NoTOTP /\ codes' = SignIn!CodesLeft(signIn[p].flag)
  <2>1. codes' \subseteq codes /\ (codes' # {} => signIn[p].flag)
    BY <1>4 DEF SignIn!CodesLeft
  <2>2. totp' \in [key : 0..keys, confirmed : BOOLEAN, step : 0..MaxClock + 1]
    BY <1>4, NoTOTPTyped
  <2>3. SignIn!TypeOK'
    BY <1>0, <1>1, <2>1, <2>2 DEF SignInTypes, SignIn!TypeOK
  <2>4. /\ CodesMove /\ batch' \in 0..MaxBatches /\ accepted' \in [SignIn!Evidence -> Nat]
        /\ \A e \in SignIn!RecoveryCodes \cup SignIn!Assertions \cup SignIn!Used : accepted'[e] = accepted[e]
    BY <1>0, <1>1, <2>1 DEF CodesMove, SignInTypes
  <2>5. PasskeysMove
    BY <1>1, PasskeysStay
  <2>6. KeyStays => KeyInv'
    BY <1>1, <1>4, KeyGone
  <2>7. ~Overlap => SignIn!CodesNeedFactor'
    <3> SUFFICES ASSUME ~Overlap PROVE SignIn!CodesNeedFactor'
      OBVIOUS
    <3>1. DecidedOn(totp, passkey, asked, signIn[p])
      BY DEF SignInInv, SignAloneInv
    <3>2. signIn[p].flag = (HeldIn(passkey) # {})
      BY <1>1, <3>1 DEF DecidedOn
    <3>3. SignIn!Held' = HeldIn(passkey)
      BY <1>1 DEF SignIn!Held, HeldIn
    <3> QED BY <2>1, <3>2, <3>3 DEF SignIn!CodesNeedFactor, SignIn!HasSecondFactor
  <2> QED BY <1>1, <1>2, <2>3, <2>4, <2>5, <2>6, <2>7, CommitStep
<1> QED BY <1>1, <1>3, <1>4

LEMMA RemovePasskeySafe ==
    ASSUME SignInBounds, SignInInv, NEW p \in SignIns, SignIn!RemovePasskey(p)
    PROVE  SignInInv'
<1> DEFINE k == signIn[p].on
<1>0. SignInTypes /\ SignInCallGood(signIn[p])
  BY DEF SignInInv, CallsGood
<1>1. /\ signIn[p].op = "remove" /\ signIn[p].stage = "decided" /\ SignIn!End(p)
      /\ UNCHANGED <<asked, keys, pendingSignIn, ceremony, failures, timeStep, opened, proved>>
      /\ UNCHANGED <<batch, totp, accepted>>
      /\ \/ /\ k \in SignIn!Held /\ passkey' = [passkey EXCEPT ![k].state = "removed"]
            /\ codes' = SignIn!CodesLeft(signIn[p].flag)
         \/ UNCHANGED <<passkey, codes>>
  BY DEF SignIn!RemovePasskey, SignIn!history
<1>2. signIn[p].stage # "idle" /\ k \in Passkeys
  BY <1>0, <1>1 DEF SignInCallGood
<1>3. CASE UNCHANGED <<passkey, codes>>
  <2>1. UNCHANGED <<SignInRows, failures, proved>>
    BY <1>1, <1>3 DEF SignInRows
  <2> QED BY <1>1, <1>2, <2>1, EndStep
<1>4. CASE /\ k \in SignIn!Held /\ passkey' = [passkey EXCEPT ![k].state = "removed"]
           /\ codes' = SignIn!CodesLeft(signIn[p].flag)
  <2>1. codes' \subseteq codes /\ (codes' # {} => signIn[p].flag)
    BY <1>4 DEF SignIn!CodesLeft
  <2>2. passkey \in [Passkeys -> [state : {"none", "held", "removed"}, count : 0..MaxCount]]
    BY <1>0 DEF SignInTypes, SignIn!TypeOK
  <2>3. /\ passkey' \in [Passkeys -> [state : {"none", "held", "removed"}, count : 0..MaxCount]]
        /\ passkey'[k].state = "removed" /\ passkey'[k].count = passkey[k].count
        /\ \A j \in Passkeys : j # k => passkey'[j] = passkey[j]
    BY <1>2, <1>4, <2>2
  <2>4. SignIn!TypeOK'
    BY <1>0, <1>1, <2>1, <2>3 DEF SignInTypes, SignIn!TypeOK
  <2>5. /\ CodesMove /\ batch' \in 0..MaxBatches /\ accepted' \in [SignIn!Evidence -> Nat]
        /\ \A e \in SignIn!RecoveryCodes \cup SignIn!Assertions \cup SignIn!Used : accepted'[e] = accepted[e]
    BY <1>0, <1>1, <2>1 DEF CodesMove, SignInTypes
  <2>6. PasskeysMove
    <3>1. \A j \in Passkeys : passkey[j].count \in Int
      BY <2>2 DEF SignInBounds
    <3>2. \A j \in Passkeys : passkey'[j].count = passkey[j].count /\ (passkey[j].state # "none" => passkey'[j].state # "none")
      BY <2>3
    <3> QED BY <3>1, <3>2 DEF PasskeysMove
  <2>7. KeyStays => KeyInv'
    <3>1. UNCHANGED <<totp, keys>> /\ proved \subseteq proved' /\ \A e \in SignIn!AppCodes : accepted'[e] = accepted[e]
      BY <1>1
    <3>2. Only(p) /\ KeyRead(totp, proved', signIn'[p])
      BY <1>1, EndFacts
    <3> QED BY <3>1, <3>2, KeyKept
  <2>8. ~Overlap => SignIn!CodesNeedFactor'
    <3> SUFFICES ASSUME ~Overlap PROVE SignIn!CodesNeedFactor'
      OBVIOUS
    <3>1. DecidedOn(totp, passkey, asked, signIn[p])
      BY DEF SignInInv, SignAloneInv
    <3>2. k \in HeldIn(passkey) /\ signIn[p].flag = (totp.confirmed \/ HeldIn(passkey) # {k})
      BY <1>1, <3>1 DEF DecidedOn
    <3>3. SignIn!Held' = HeldIn(passkey) \ {k}
      BY <2>3 DEF SignIn!Held, HeldIn
    <3>4. HeldIn(passkey) # {k} => SignIn!Held' # {}
      BY <3>2, <3>3
    <3>5. totp' = totp
      BY <1>1
    <3> QED BY <2>1, <3>2, <3>4, <3>5 DEF SignIn!CodesNeedFactor, SignIn!HasSecondFactor
  <2> QED BY <1>1, <1>2, <2>4, <2>5, <2>6, <2>7, <2>8, CommitStep
<1> QED BY <1>1, <1>3, <1>4

LEMMA ReplaceRecoveryCodesSafe ==
    ASSUME SignInBounds, SignInInv, NEW p \in SignIns, SignIn!ReplaceRecoveryCodes(p)
    PROVE  SignInInv'
<1>0. SignInTypes
  BY DEF SignInInv
<1>1. /\ signIn[p].op = "codes" /\ signIn[p].stage = "decided" /\ SignIn!End(p) /\ SignIn!NewCodes
      /\ UNCHANGED <<asked, keys, pendingSignIn, ceremony, failures, timeStep, opened, proved>>
      /\ UNCHANGED <<totp, passkey, accepted>>
  BY DEF SignIn!ReplaceRecoveryCodes, SignIn!history
<1>2. /\ CodesMove /\ batch' \in 0..MaxBatches
      /\ codes' \subseteq {SignIn!Shown("recovery", batch', i) : i \in Codes}
  BY <1>1, NewCodesMove
<1>3. SignIn!TypeOK' /\ signIn[p].stage # "idle"
  BY <1>0, <1>1, <1>2 DEF SignInTypes, SignIn!TypeOK
<1>4. /\ accepted' \in [SignIn!Evidence -> Nat]
      /\ \A e \in SignIn!RecoveryCodes \cup SignIn!Assertions \cup SignIn!Used : accepted'[e] = accepted[e]
  BY <1>0, <1>1 DEF SignInTypes
<1>5. PasskeysMove
  BY <1>1, PasskeysStay
<1>6. KeyStays => KeyInv'
  <2>1. UNCHANGED <<totp, keys>> /\ proved \subseteq proved' /\ \A e \in SignIn!AppCodes : accepted'[e] = accepted[e]
    BY <1>1
  <2>2. Only(p) /\ KeyRead(totp, proved', signIn'[p])
    BY <1>1, EndFacts
  <2> QED BY <2>1, <2>2, KeyKept
<1>7. ~Overlap => SignIn!CodesNeedFactor'
  <2> SUFFICES ASSUME ~Overlap PROVE SignIn!CodesNeedFactor'
    OBVIOUS
  <2>1. DecidedOn(totp, passkey, asked, signIn[p])
    BY DEF SignInInv, SignAloneInv
  <2>2. totp.confirmed \/ HeldIn(passkey) # {}
    BY <1>1, <2>1 DEF DecidedOn
  <2>3. SignIn!Held' = HeldIn(passkey) /\ totp' = totp
    BY <1>1 DEF SignIn!Held, HeldIn
  <2> QED BY <2>2, <2>3 DEF SignIn!CodesNeedFactor, SignIn!HasSecondFactor
<1> QED BY <1>1, <1>2, <1>3, <1>4, <1>5, <1>6, <1>7, CommitStep

LEMMA AddPasskeySafe ==
    ASSUME SignInBounds, SignInInv, NEW p \in SignIns, SignIn!AddPasskey(p)
    PROVE  SignInInv'
<1>0. SignInTypes
  BY DEF SignInInv
<1>1. /\ signIn[p].stage = "decided" /\ SignIn!End(p)
      /\ SignIn!NewCodes \/ UNCHANGED <<batch, codes>>
      /\ UNCHANGED <<asked, keys, pendingSignIn, ceremony, failures, timeStep, opened, proved>>
      /\ UNCHANGED <<totp, accepted>>
      /\ \E k \in Passkeys, n \in 0..MaxCount :
            passkey[k].state = "none" /\ passkey' = [passkey EXCEPT ![k] = [state |-> "held", count |-> n]]
  BY DEF SignIn!AddPasskey, SignIn!history
<1>2. PICK k \in Passkeys, n \in 0..MaxCount :
         passkey[k].state = "none" /\ passkey' = [passkey EXCEPT ![k] = [state |-> "held", count |-> n]]
  BY <1>1
<1>3. /\ CodesMove /\ batch' \in 0..MaxBatches
      /\ codes' \subseteq {SignIn!Shown("recovery", batch', i) : i \in Codes}
  <2>1. CASE SignIn!NewCodes
    BY <2>1, NewCodesMove
  <2>2. CASE UNCHANGED <<batch, codes>>
    <3>1. /\ batch' = batch /\ codes' = codes /\ batch \in 0..MaxBatches
          /\ codes \subseteq {SignIn!Shown("recovery", batch, i) : i \in Codes}
      BY <1>0, <2>2 DEF SignInTypes, SignIn!TypeOK
    <3> QED BY <3>1 DEF CodesMove
  <2> QED BY <1>1, <2>1, <2>2
<1>4. passkey \in [Passkeys -> [state : {"none", "held", "removed"}, count : 0..MaxCount]]
  BY <1>0 DEF SignInTypes, SignIn!TypeOK
<1>5. /\ passkey' \in [Passkeys -> [state : {"none", "held", "removed"}, count : 0..MaxCount]]
      /\ passkey'[k].state = "held" /\ \A j \in Passkeys : j # k => passkey'[j] = passkey[j]
  BY <1>2, <1>4
<1>6. PasskeysMove
  <2>1. \A j \in Passkeys : passkey[j].count \in Int /\ (passkey[j].state # "none" => passkey'[j] = passkey[j])
    BY <1>2, <1>4, <1>5 DEF SignInBounds
  <2> QED BY <2>1 DEF PasskeysMove
<1>7. SignIn!TypeOK' /\ signIn[p].stage # "idle"
  BY <1>0, <1>1, <1>3, <1>5 DEF SignInTypes, SignIn!TypeOK
<1>8. /\ accepted' \in [SignIn!Evidence -> Nat]
      /\ \A e \in SignIn!RecoveryCodes \cup SignIn!Assertions \cup SignIn!Used : accepted'[e] = accepted[e]
  BY <1>0, <1>1 DEF SignInTypes
<1>9. KeyStays => KeyInv'
  <2>1. UNCHANGED <<totp, keys>> /\ proved \subseteq proved' /\ \A e \in SignIn!AppCodes : accepted'[e] = accepted[e]
    BY <1>1
  <2>2. Only(p) /\ KeyRead(totp, proved', signIn'[p])
    BY <1>1, EndFacts
  <2> QED BY <2>1, <2>2, KeyKept
<1>10. SignIn!CodesNeedFactor'
  BY <1>5 DEF SignIn!CodesNeedFactor, SignIn!HasSecondFactor, SignIn!Held
<1> QED BY <1>1, <1>3, <1>6, <1>7, <1>8, <1>9, <1>10, CommitStep

\* A step that is nobody's call.
LEMMA OutsideStep ==
    ASSUME SignInBounds, SignInInv, UNCHANGED <<signIn, accepted, opened>>, SignIn!TypeOK',
           keys' \in 0..MaxKeys, batch' \in 0..MaxBatches, timeStep' \in 1..MaxClock,
           failures' \in [SignIn!Limited -> Nat], \A k \in SignIn!Limited : failures'[k] <= failures[k],
           Settled, CodesMove, PasskeysMove, KeyStays => KeyInv', ~Overlap => SignAloneInv'
    PROVE  SignInInv'
<1>0. SignInTypes /\ CallsGood /\ GuessesCounted
  BY DEF SignInInv
<1>1. PICK p \in SignIns : TRUE
  BY DEF SignInBounds
<1>2. SignInTypes'
  BY <1>0 DEF SignInTypes
<1>3. Only(p) /\ SignInCallGood(signIn'[p]) /\ signIn'[p] = signIn[p]
  BY <1>0 DEF Only, CallsGood
<1>4. \A q \in SignIns : Guesses(signIn'[q]) =>
         Guesses(signIn[q]) /\ signIn'[q].op = signIn[q].op /\ signIn'[q].shown = signIn[q].shown
  OBVIOUS
<1>5. GuessesCounted'
  BY <1>0, <1>4, GuessKept
<1>6. \A e \in SignIn!RecoveryCodes \cup SignIn!Assertions \cup SignIn!Used : accepted'[e] = accepted[e]
  OBVIOUS
<1> QED BY <1>1, <1>2, <1>3, <1>5, <1>6, QuietStep

\* The same when the account's factors stay.
LEMMA FactorsStay ==
    ASSUME SignInBounds, SignInInv, UNCHANGED <<asked, totp, keys, batch, codes, passkey, signIn, accepted, opened, proved>>,
           SignIn!TypeOK', timeStep' \in 1..MaxClock,
           failures' \in [SignIn!Limited -> Nat], \A k \in SignIn!Limited : failures'[k] <= failures[k], Settled
    PROVE  SignInInv'
<1>1. keys' \in 0..MaxKeys /\ batch' \in 0..MaxBatches /\ CodesMove
  BY DEF SignInInv, SignInTypes, CodesMove
<1>2. PasskeysMove
  BY PasskeysStay
<1>3. KeyStays => KeyInv'
  BY DEF SignInInv, KeyInv, KeyStays, CodeSpent, KeyRead, SignIn!ConfirmedKeyWasProved
<1>4. ~Overlap => SignAloneInv'
  BY DEF SignInInv, SignAloneInv, SignsAlone, DecidedOn, SignIn!CodesNeedFactor, SignIn!HasSecondFactor, SignIn!Held
<1>5. UNCHANGED <<signIn, accepted, opened>>
  OBVIOUS
<1> QED BY <1>1, <1>2, <1>3, <1>4, <1>5, OutsideStep

LEMMA AllIdle ==
    ASSUME SignInBounds, SignIn!Undisturbed, ~Overlap PROVE \A q \in SignIns : signIn[q].stage = "idle"
BY IdleGood DEF SignIn!Undisturbed

LEMMA PruneSafe ==
    ASSUME SignInBounds, SignInInv, NEW k \in SignIn!Limited, SignIn!Prune(k)
    PROVE  SignInInv'
<1>0. SignInTypes /\ failures \in [SignIn!Limited -> Nat]
  BY DEF SignInInv, SignInTypes
<1>1. /\ failures[k] > 0 /\ failures' = [failures EXCEPT ![k] = failures[k] - 1]
      /\ UNCHANGED <<asked, totp, keys, batch, codes, passkey, signIn, accepted, opened, proved>>
      /\ UNCHANGED <<pendingSignIn, ceremony, timeStep>>
  BY DEF SignIn!Prune, SignIn!factors, SignIn!history
<1>2. failures[k] - 1 \in Nat
  BY <1>0, <1>1
<1>3. failures' \in [SignIn!Limited -> Nat] /\ \A j \in SignIn!Limited : failures'[j] <= failures[j]
  BY <1>0, <1>1, <1>2
<1>4. SignIn!TypeOK' /\ timeStep' \in 1..MaxClock /\ Settled
  BY <1>0, <1>1 DEF SignInTypes, SignIn!TypeOK, Settled
<1> QED BY <1>1, <1>3, <1>4, FactorsStay

\* Challenges and ceremonies come and go while nobody's call moves.
LEMMA SignInRowsMove ==
    ASSUME SignInBounds, SignInInv, UNCHANGED <<asked, totp, keys, batch, codes, passkey, signIn, accepted, opened, proved>>,
           UNCHANGED <<failures, timeStep>>, Settled,
           pendingSignIn' \in [Challenges -> [state : {"none", "pending", "consumed", "expired"}, failed : 0..Attempts]],
           ceremony' \in [Ceremonies -> [state : {"none", "pending", "consumed", "expired"},
                                         purpose : SignIn!Purposes, link : Challenges \cup {NoRow}]],
           \A w \in Ceremonies : (ceremony'[w].link # NoRow) <=> (ceremony'[w].purpose = "second_factor")
    PROVE  SignInInv'
<1>0. SignInTypes
  BY DEF SignInInv
<1>1. SignIn!TypeOK' /\ timeStep' \in 1..MaxClock /\ failures' \in [SignIn!Limited -> Nat]
  BY <1>0 DEF SignInTypes, SignIn!TypeOK
<1>2. \A k \in SignIn!Limited : failures'[k] <= failures[k]
  BY <1>0 DEF SignInTypes
<1>3. UNCHANGED <<asked, totp, keys, batch, codes, passkey, signIn, accepted, opened, proved>>
  OBVIOUS
<1> QED BY <1>1, <1>2, <1>3, FactorsStay

LEMMA RowTypes ==
    ASSUME SignInInv
    PROVE  /\ pendingSignIn \in [Challenges -> [state : {"none", "pending", "consumed", "expired"}, failed : 0..Attempts]]
           /\ ceremony \in [Ceremonies -> [state : {"none", "pending", "consumed", "expired"},
                                           purpose : SignIn!Purposes, link : Challenges \cup {NoRow}]]
           /\ \A w \in Ceremonies : (ceremony[w].link # NoRow) <=> (ceremony[w].purpose = "second_factor")
BY DEF SignInInv, SignInTypes, SignIn!TypeOK

LEMMA NewCeremonySafe ==
    ASSUME SignInBounds, SignInInv, UNCHANGED <<asked, totp, keys, batch, codes, passkey, signIn, accepted, opened, proved>>,
           UNCHANGED <<failures, timeStep, pendingSignIn>>, NEW w \in Ceremonies, NEW purpose \in SignIn!Purposes,
           NEW tie \in Challenges \cup {NoRow}, (tie # NoRow) <=> (purpose = "second_factor"),
           SignIn!NewCeremony(w, purpose, tie)
    PROVE  SignInInv'
<1>1. /\ ceremony[w].state = "none"
      /\ ceremony' = [ceremony EXCEPT ![w] = [state |-> "pending", purpose |-> purpose, link |-> tie]]
  BY DEF SignIn!NewCeremony
<1>2. /\ pendingSignIn \in [Challenges -> [state : {"none", "pending", "consumed", "expired"}, failed : 0..Attempts]]
      /\ ceremony \in [Ceremonies -> [state : {"none", "pending", "consumed", "expired"},
                                      purpose : SignIn!Purposes, link : Challenges \cup {NoRow}]]
      /\ \A v \in Ceremonies : (ceremony[v].link # NoRow) <=> (ceremony[v].purpose = "second_factor")
  BY RowTypes
<1>3. /\ ceremony' \in [Ceremonies -> [state : {"none", "pending", "consumed", "expired"},
                                       purpose : SignIn!Purposes, link : Challenges \cup {NoRow}]]
      /\ \A v \in Ceremonies : v # w => ceremony'[v] = ceremony[v]
      /\ ceremony'[w].link = tie /\ ceremony'[w].purpose = purpose
  BY <1>1, <1>2
<1>4. \A v \in Ceremonies : (ceremony'[v].link # NoRow) <=> (ceremony'[v].purpose = "second_factor")
  BY <1>2, <1>3
<1>5. Settled
  BY <1>1, <1>3 DEF Settled
<1>6. /\ pendingSignIn' \in [Challenges -> [state : {"none", "pending", "consumed", "expired"}, failed : 0..Attempts]]
      /\ UNCHANGED <<failures, timeStep>>
  BY <1>2
<1> QED BY <1>3, <1>4, <1>5, <1>6, SignInRowsMove

LEMMA OptionsSafe ==
    ASSUME SignInBounds, SignInInv, SignIn!SecondFactorPasskeyOptions \/ SignIn!PasskeySignInOptions
    PROVE  SignInInv'
<1>1. CASE SignIn!SecondFactorPasskeyOptions
  <2>1. /\ UNCHANGED <<asked, totp, keys, batch, codes, passkey, signIn, accepted, opened, proved>>
        /\ UNCHANGED <<failures, timeStep, pendingSignIn>>
        /\ \E h \in Challenges, w \in Ceremonies : SignIn!NewCeremony(w, "second_factor", h)
    BY <1>1 DEF SignIn!SecondFactorPasskeyOptions, SignIn!factors, SignIn!history
  <2>2. PICK h \in Challenges, w \in Ceremonies : SignIn!NewCeremony(w, "second_factor", h)
    BY <2>1
  <2>3. "second_factor" \in SignIn!Purposes /\ h # NoRow
    BY DEF SignIn!Purposes, SignInBounds
  <2> QED BY <2>1, <2>2, <2>3, NewCeremonySafe
<1>2. CASE SignIn!PasskeySignInOptions
  <2>1. /\ UNCHANGED <<asked, totp, keys, batch, codes, passkey, signIn, accepted, opened, proved>>
        /\ UNCHANGED <<failures, timeStep, pendingSignIn>>
        /\ \E w \in Ceremonies : SignIn!NewCeremony(w, "sign_in", NoRow)
    BY <1>2 DEF SignIn!PasskeySignInOptions, SignIn!factors, SignIn!history
  <2>2. PICK w \in Ceremonies : SignIn!NewCeremony(w, "sign_in", NoRow)
    BY <2>1
  <2>3. "sign_in" \in SignIn!Purposes
    BY DEF SignIn!Purposes
  <2> QED BY <2>1, <2>2, <2>3, NewCeremonySafe
<1> QED BY <1>1, <1>2

LEMMA SignInExpireSafe ==
    ASSUME SignInBounds, SignInInv, SignIn!Expire PROVE SignInInv'
<1>1. /\ UNCHANGED <<asked, totp, keys, batch, codes, passkey, signIn, accepted, opened, proved>>
      /\ UNCHANGED <<failures, timeStep>>
      /\ \/ /\ \E h \in Challenges : /\ pendingSignIn[h].state = "pending"
                                     /\ pendingSignIn' = [pendingSignIn EXCEPT ![h].state = "expired"]
            /\ UNCHANGED ceremony
         \/ /\ \E w \in Ceremonies : /\ ceremony[w].state = "pending"
                                     /\ ceremony' = [ceremony EXCEPT ![w].state = "expired"]
            /\ UNCHANGED pendingSignIn
  BY DEF SignIn!Expire, SignIn!factors, SignIn!history
<1>2. /\ pendingSignIn \in [Challenges -> [state : {"none", "pending", "consumed", "expired"}, failed : 0..Attempts]]
      /\ ceremony \in [Ceremonies -> [state : {"none", "pending", "consumed", "expired"},
                                      purpose : SignIn!Purposes, link : Challenges \cup {NoRow}]]
      /\ \A v \in Ceremonies : (ceremony[v].link # NoRow) <=> (ceremony[v].purpose = "second_factor")
  BY RowTypes
<1>3. CASE /\ \E h \in Challenges : /\ pendingSignIn[h].state = "pending"
                                    /\ pendingSignIn' = [pendingSignIn EXCEPT ![h].state = "expired"]
           /\ UNCHANGED ceremony
  <2>1. PICK h \in Challenges : /\ pendingSignIn[h].state = "pending"
                                /\ pendingSignIn' = [pendingSignIn EXCEPT ![h].state = "expired"]
    BY <1>3
  <2>2. /\ pendingSignIn' \in [Challenges -> [state : {"none", "pending", "consumed", "expired"}, failed : 0..Attempts]]
        /\ \A g \in Challenges : g # h => pendingSignIn'[g] = pendingSignIn[g]
    BY <1>2, <2>1
  <2>3. Settled /\ ceremony' = ceremony
    BY <1>1, <1>3, <2>1, <2>2 DEF Settled
  <2> QED BY <1>1, <1>2, <2>2, <2>3, SignInRowsMove
<1>4. CASE /\ \E w \in Ceremonies : /\ ceremony[w].state = "pending"
                                    /\ ceremony' = [ceremony EXCEPT ![w].state = "expired"]
           /\ UNCHANGED pendingSignIn
  <2>1. PICK w \in Ceremonies : /\ ceremony[w].state = "pending"
                                /\ ceremony' = [ceremony EXCEPT ![w].state = "expired"]
    BY <1>4
  <2>2. /\ ceremony' \in [Ceremonies -> [state : {"none", "pending", "consumed", "expired"},
                                         purpose : SignIn!Purposes, link : Challenges \cup {NoRow}]]
        /\ \A v \in Ceremonies : /\ v # w => ceremony'[v] = ceremony[v]
                                 /\ ceremony'[v].link = ceremony[v].link /\ ceremony'[v].purpose = ceremony[v].purpose
    BY <1>2, <2>1
  <2>3. \A v \in Ceremonies : (ceremony'[v].link # NoRow) <=> (ceremony'[v].purpose = "second_factor")
    BY <1>2, <2>2
  <2>4. Settled /\ pendingSignIn' = pendingSignIn
    BY <1>1, <1>4, <2>1, <2>2 DEF Settled
  <2> QED BY <1>1, <1>2, <2>2, <2>3, <2>4, SignInRowsMove
<1> QED BY <1>1, <1>3, <1>4

LEMMA TickSafe ==
    ASSUME SignInBounds, SignInInv, SignIn!Tick PROVE SignInInv'
<1>0. SignInTypes
  BY DEF SignInInv
<1>1. /\ timeStep < MaxClock /\ timeStep' = timeStep + 1
      /\ UNCHANGED <<asked, totp, keys, batch, codes, passkey, signIn, accepted, opened, proved>>
      /\ UNCHANGED <<pendingSignIn, ceremony, failures>>
  BY DEF SignIn!Tick, SignIn!factors, SignIn!history
<1>2. timeStep' \in 1..MaxClock
  BY <1>0, <1>1 DEF SignInTypes, SignInBounds
<1>3. failures' \in [SignIn!Limited -> Nat] /\ \A k \in SignIn!Limited : failures'[k] <= failures[k]
  BY <1>0, <1>1 DEF SignInTypes
<1>4. SignIn!TypeOK' /\ Settled
  BY <1>0, <1>1 DEF SignInTypes, SignIn!TypeOK, Settled
<1> QED BY <1>1, <1>2, <1>3, <1>4, FactorsStay

LEMMA RequirementSafe ==
    ASSUME SignInBounds, SignInInv, SignIn!SetTwoFactorRequirement PROVE SignInInv'
<1>0. SignInTypes
  BY DEF SignInInv
<1>1. /\ SignIn!Undisturbed /\ asked' = ~asked /\ UNCHANGED <<signIn, accepted, opened>>
      /\ UNCHANGED <<totp, keys, batch, codes, passkey, pendingSignIn, ceremony, failures, timeStep, proved>>
  BY DEF SignIn!SetTwoFactorRequirement, SignIn!factors, SignIn!history
<1>2. /\ keys' \in 0..MaxKeys /\ batch' \in 0..MaxBatches /\ timeStep' \in 1..MaxClock /\ CodesMove /\ Settled
      /\ failures' \in [SignIn!Limited -> Nat] /\ \A k \in SignIn!Limited : failures'[k] <= failures[k]
  BY <1>0, <1>1 DEF SignInTypes, CodesMove, Settled
<1>3. SignIn!TypeOK'
  BY <1>0, <1>1 DEF SignInTypes, SignIn!TypeOK
<1>4. PasskeysMove
  BY <1>1, PasskeysStay
<1>5. KeyStays => KeyInv'
  BY <1>1 DEF SignInInv, KeyInv, KeyStays, CodeSpent, KeyRead, SignIn!ConfirmedKeyWasProved
<1>6. ~Overlap => SignAloneInv'
  <2> SUFFICES ASSUME ~Overlap PROVE SignAloneInv'
    OBVIOUS
  <2>1. \A q \in SignIns : signIn'[q].stage = "idle"
    BY <1>1, AllIdle
  <2>2. SignsAlone' /\ \A q \in SignIns : DecidedOn(totp', passkey', asked', signIn'[q])
    BY <2>1 DEF SignsAlone, DecidedOn
  <2>3. SignIn!CodesNeedFactor'
    BY <1>1 DEF SignInInv, SignAloneInv, SignIn!CodesNeedFactor, SignIn!HasSecondFactor, SignIn!Held
  <2> QED BY <2>2, <2>3 DEF SignAloneInv
<1> QED BY <1>1, <1>2, <1>3, <1>4, <1>5, <1>6, OutsideStep

LEMMA ResetSafe ==
    ASSUME SignInBounds, SignInInv, SignIn!ResetAdministratorTwoFactor PROVE SignInInv'
<1>0. SignInTypes
  BY DEF SignInInv
<1>1. /\ SignIn!Undisturbed /\ UNCHANGED <<signIn, accepted, opened>> /\ totp' = SignIn!NoTOTP /\ codes' = {}
      /\ passkey' = [k \in Passkeys |-> IF k \in SignIn!Held THEN [passkey[k] EXCEPT !.state = "removed"] ELSE passkey[k]]
      /\ UNCHANGED <<asked, keys, batch, pendingSignIn, ceremony, failures, timeStep, proved>>
  BY DEF SignIn!ResetAdministratorTwoFactor, SignIn!history
<1>2. /\ keys' \in 0..MaxKeys /\ batch' \in 0..MaxBatches /\ timeStep' \in 1..MaxClock /\ CodesMove /\ Settled
      /\ failures' \in [SignIn!Limited -> Nat] /\ \A k \in SignIn!Limited : failures'[k] <= failures[k]
  BY <1>0, <1>1 DEF SignInTypes, CodesMove, Settled
<1>3. passkey \in [Passkeys -> [state : {"none", "held", "removed"}, count : 0..MaxCount]]
  BY <1>0 DEF SignInTypes, SignIn!TypeOK
<1>4. /\ passkey' \in [Passkeys -> [state : {"none", "held", "removed"}, count : 0..MaxCount]]
      /\ \A k \in Passkeys : /\ passkey'[k].count = passkey[k].count
                             /\ passkey[k].state # "none" => passkey'[k].state # "none"
  BY <1>1, <1>3
<1>5. PasskeysMove
  <2>1. \A k \in Passkeys : passkey[k].count \in Int
    BY <1>3 DEF SignInBounds
  <2> QED BY <1>4, <2>1 DEF PasskeysMove
<1>6. totp' \in [key : 0..keys, confirmed : BOOLEAN, step : 0..MaxClock + 1]
  BY <1>1, NoTOTPTyped
<1>7. SignIn!TypeOK'
  BY <1>0, <1>1, <1>4, <1>6 DEF SignInTypes, SignIn!TypeOK
<1>8. KeyStays => KeyInv'
  BY <1>1, KeyGone
<1>9. ~Overlap => SignAloneInv'
  <2> SUFFICES ASSUME ~Overlap PROVE SignAloneInv'
    OBVIOUS
  <2>1. \A q \in SignIns : signIn'[q].stage = "idle"
    BY <1>1, AllIdle
  <2>2. SignsAlone' /\ \A q \in SignIns : DecidedOn(totp', passkey', asked', signIn'[q])
    BY <2>1 DEF SignsAlone, DecidedOn
  <2>3. SignIn!CodesNeedFactor'
    BY <1>1 DEF SignIn!CodesNeedFactor
  <2> QED BY <2>2, <2>3 DEF SignAloneInv
<1> QED BY <1>1, <1>2, <1>5, <1>7, <1>8, <1>9, OutsideStep

LEMMA EnrollmentSafe ==
    ASSUME SignInBounds, SignInInv, SignIn!SaveTOTPEnrollment PROVE SignInInv'
<1>0. SignInTypes
  BY DEF SignInInv
<1>1. /\ SignIn!Undisturbed /\ UNCHANGED <<signIn, accepted, opened>> /\ "start" \in Operations
      /\ keys < MaxKeys /\ ~totp.confirmed /\ keys' = keys + 1
      /\ totp' = [SignIn!NoTOTP EXCEPT !.key = keys + 1]
      /\ UNCHANGED <<asked, batch, codes, passkey, pendingSignIn, ceremony, failures, timeStep, proved>>
  BY DEF SignIn!SaveTOTPEnrollment, SignIn!history
<1>2. keys \in Nat /\ keys' \in 0..MaxKeys /\ MaxClock \in Nat
  BY <1>0, <1>1 DEF SignInTypes, SignInBounds
<1>3. totp'.key = keys' /\ totp'.confirmed = FALSE /\ totp' \in [key : 0..keys', confirmed : BOOLEAN, step : 0..MaxClock + 1]
  <2>1. totp' = [key |-> keys', confirmed |-> FALSE, step |-> 0]
    BY <1>1 DEF SignIn!NoTOTP
  <2>2. keys' \in 0..keys' /\ 0 \in 0..MaxClock + 1
    BY <1>1, <1>2
  <2> QED BY <2>1, <2>2
<1>4. /\ batch' \in 0..MaxBatches /\ timeStep' \in 1..MaxClock /\ CodesMove /\ Settled
      /\ failures' \in [SignIn!Limited -> Nat] /\ \A k \in SignIn!Limited : failures'[k] <= failures[k]
  BY <1>0, <1>1 DEF SignInTypes, CodesMove, Settled
<1>5. SignIn!TypeOK'
  BY <1>0, <1>1, <1>3 DEF SignInTypes, SignIn!TypeOK
<1>6. PasskeysMove
  BY <1>1, PasskeysStay
<1>7. KeyStays => KeyInv'
  <2> SUFFICES ASSUME KeyStays PROVE KeyInv'
    OBVIOUS
  <2>1. KeyInv /\ ~Overlap
    BY <1>1 DEF SignInInv, KeyStays
  <2>2. ASSUME NEW e \in SignIn!AppCodes PROVE CodeSpent(totp', keys', accepted', e)
    <3>1. CodeSpent(totp, keys, accepted, e) /\ e.a \in Nat
      BY <2>1, Kinds DEF KeyInv
    <3> QED BY <1>1, <1>2, <1>3, <3>1 DEF CodeSpent
  <2>3. \A q \in SignIns : signIn'[q].stage = "idle"
    BY <1>1, <2>1, AllIdle
  <2>4. \A q \in SignIns : KeyRead(totp', proved', signIn'[q])
    BY <2>3 DEF KeyRead
  <2> QED BY <1>1, <1>3, <2>2, <2>4 DEF KeyInv, SignIn!ConfirmedKeyWasProved
<1>8. ~Overlap => SignAloneInv'
  <2> SUFFICES ASSUME ~Overlap PROVE SignAloneInv'
    OBVIOUS
  <2>1. \A q \in SignIns : signIn'[q].stage = "idle"
    BY <1>1, AllIdle
  <2>2. SignsAlone' /\ \A q \in SignIns : DecidedOn(totp', passkey', asked', signIn'[q])
    BY <2>1 DEF SignsAlone, DecidedOn
  <2>3. SignIn!CodesNeedFactor'
    BY <1>1, <1>3 DEF SignInInv, SignAloneInv, SignIn!CodesNeedFactor, SignIn!HasSecondFactor, SignIn!Held
  <2> QED BY <2>2, <2>3 DEF SignAloneInv
<1> QED BY <1>1, <1>2, <1>4, <1>5, <1>6, <1>7, <1>8, OutsideStep

LEMMA RejectRegistrationSafe ==
    ASSUME SignInBounds, SignInInv, NEW p \in SignIns, SignIn!RejectRegistration(p)
    PROVE  SignInInv'
<1>1. signIn[p].stage # "idle" /\ SignIn!End(p)
  BY DEF SignIn!RejectRegistration
<1>2. UNCHANGED <<SignInRows, failures, proved>>
  BY DEF SignIn!RejectRegistration, SignIn!factors, SignIn!history, SignInRows
<1> QED BY <1>1, <1>2, EndStep

\* Every step keeps the invariant.
LEMMA SignInStep ==
    ASSUME SignInBounds, SignInInv, [SignIn!Next]_(SignIn!vars)
    PROVE  SignInInv'
<1>1. ASSUME NEW p \in SignIns, SignIn!Verifying(p) PROVE SignInInv'
  BY <1>1, AllowSafe, VerifyPasswordSafe, ReadTOTPSafe, UseTOTPStepSafe, UseRecoveryCodeSafe, ConsumeCeremonySafe,
     RejectRegistrationSafe, RecordPasskeyUseSafe, CountFailureSafe, FailSignInChallengeSafe, ClearFailuresSafe DEF SignIn!Verifying
<1>2. ASSUME NEW p \in SignIns, SignIn!Acting(p) PROVE SignInInv'
  BY <1>2, LoggedInSafe, ConsumeSignInChallengeSafe, IssueSignInSessionSafe, RegistrationOptionsSafe, ConfirmTOTPSafe,
     DecideSafe, DisableTwoFactorSafe, RemovePasskeySafe, ReadCodesSafe, ReplaceRecoveryCodesSafe, AddPasskeySafe
     DEF SignIn!Acting
<1>3. CASE UNCHANGED SignIn!vars
  <2>1. /\ UNCHANGED <<asked, totp, keys, batch, codes, passkey, signIn, accepted, opened, proved>>
        /\ UNCHANGED <<pendingSignIn, ceremony, failures, timeStep>>
    BY <1>3 DEF SignIn!vars, SignIn!factors, SignIn!history
  <2>2. Settled /\ UNCHANGED <<failures, timeStep>>
    BY <2>1 DEF Settled
  <2>3. /\ pendingSignIn' \in [Challenges -> [state : {"none", "pending", "consumed", "expired"}, failed : 0..Attempts]]
        /\ ceremony' \in [Ceremonies -> [state : {"none", "pending", "consumed", "expired"},
                                         purpose : SignIn!Purposes, link : Challenges \cup {NoRow}]]
        /\ \A w \in Ceremonies : (ceremony'[w].link # NoRow) <=> (ceremony'[w].purpose = "second_factor")
    BY <2>1, RowTypes
  <2> QED BY <2>1, <2>2, <2>3, SignInRowsMove
<1>4. CASE SignIn!Next
  <2>1. CASE \E p \in SignIns : SignIn!Beginning(p) \/ SignIn!Verifying(p) \/ SignIn!Acting(p)
    BY <1>1, <1>2, <2>1, BeginningSafe
  <2>2. CASE \E k \in SignIn!Limited : SignIn!Prune(k)
    BY <2>2, PruneSafe
  <2>3. CASE SignIn!SecondFactorPasskeyOptions \/ SignIn!PasskeySignInOptions
    BY <2>3, OptionsSafe
  <2> QED BY <1>4, <2>1, <2>2, <2>3, EnrollmentSafe, ResetSafe, RequirementSafe, TickSafe, SignInExpireSafe DEF SignIn!Next
<1> QED BY <1>3, <1>4

LEMMA SignInClaims ==
    ASSUME SignInBounds, SignInInv
    PROVE  /\ SignIn!TypeOK /\ SignIn!OneSessionPerChallenge /\ SignIn!FailedOpensNothing
           /\ SignIn!CeremonyFinishesItsOwn /\ SignIn!GuessesBounded
           /\ \A e \in SignIn!RecoveryCodes \cup SignIn!Assertions \cup SignIn!Used : accepted[e] <= 1
           /\ KeyStays => SignIn!EvidenceWorksOnce /\ SignIn!ConfirmedKeyWasProved
           /\ ~Overlap => SignIn!CodesNeedFactor
<1>0. SignInTypes /\ OpensOnce /\ SpentForGood /\ GuessesCounted
  BY DEF SignInInv
<1>1. SignIn!TypeOK
  BY <1>0 DEF SignInTypes
<1>2. SignIn!OneSessionPerChallenge
  BY <1>0 DEF OpensOnce, SignIn!OneSessionPerChallenge
<1>3. SignIn!FailedOpensNothing
  <2>1. \A h \in Challenges : opened[h] \in 0..1 /\ (opened[h] > 0 => pendingSignIn[h].failed < Attempts)
    BY <1>0 DEF OpensOnce
  <2> QED BY <2>1 DEF SignIn!FailedOpensNothing, SignInBounds
<1>4. SignIn!CeremonyFinishesItsOwn
  BY <1>0 DEF OpensOnce, SignIn!CeremonyFinishesItsOwn
<1>5. SignIn!GuessesBounded
  <2>1. SignIn!Cardinality(SignIns) = Cardinality(SignIns)
    BY Zenon DEF SignIn!Cardinality, Cardinality
  <2>2. ASSUME NEW k \in SignIn!Limited PROVE failures[k] <= Attempts + MayPass
    <3>1. failures[k] + Cardinality(Guessing(k)) <= Attempts + MayPass /\ failures[k] \in Nat
      BY <1>0 DEF GuessesCounted, SignInTypes
    <3>2. Cardinality(Guessing(k)) \in Nat /\ MayPass \in Nat /\ Attempts \in Nat
      BY GuessingFinite, MayPassNat DEF SignInBounds
    <3> QED BY <3>1, <3>2
  <2> QED BY <2>1, <2>2 DEF SignIn!GuessesBounded, MayPass
<1>6. \A e \in SignIn!RecoveryCodes \cup SignIn!Assertions \cup SignIn!Used : accepted[e] <= 1
  <2>1. \A e \in SignIn!RecoveryCodes \cup SignIn!Assertions : accepted[e] \in 0..1
    BY <1>0 DEF SpentForGood
  <2>2. \A e \in SignIn!Used : accepted[e] \in 0..1
    BY <1>0, Kinds DEF SpentForGood
  <2> QED BY <2>1, <2>2
<1>7. KeyStays => SignIn!EvidenceWorksOnce /\ SignIn!ConfirmedKeyWasProved
  <2> SUFFICES ASSUME KeyStays PROVE SignIn!EvidenceWorksOnce /\ SignIn!ConfirmedKeyWasProved
    OBVIOUS
  <2>1. KeyInv
    BY DEF SignInInv
  <2>2. \A e \in SignIn!AppCodes : accepted[e] <= 1
    BY <2>1 DEF KeyInv, CodeSpent
  <2>3. SignIn!EvidenceWorksOnce
    BY <1>6, <2>2, Kinds DEF SignIn!EvidenceWorksOnce
  <2> QED BY <2>1, <2>3 DEF KeyInv
<1>8. ~Overlap => SignIn!CodesNeedFactor
  BY DEF SignInInv, SignAloneInv
<1> QED BY <1>1, <1>2, <1>3, <1>4, <1>5, <1>6, <1>7, <1>8

\* However calls that carry the same evidence overlap, a sign-in challenge or a
\* passkey ceremony opens one session, a challenge that failed too often opens
\* none, a prompt finishes the sign-in it was made for, failures stay within the
\* limit and the calls in flight, and a recovery code, a counter and a ceremony
\* are accepted once.  Authenticator codes too, and a confirmed key is one whose
\* code was shown, unless a key can be replaced under a call that has read the
\* last one; and recovery codes need a factor while calls do not overlap
\* (UseTOTPStep, ConsumeWebAuthnChallenge, ConsumeSignInChallenge and
\* enforceRemainingFactorTx, internal/adminauth).
THEOREM SignInsEarned ==
    ASSUME SignInBounds
    PROVE  SignIn!Spec =>
              []( /\ SignIn!TypeOK /\ SignIn!OneSessionPerChallenge /\ SignIn!FailedOpensNothing
                  /\ SignIn!CeremonyFinishesItsOwn /\ SignIn!GuessesBounded
                  /\ \A e \in SignIn!RecoveryCodes \cup SignIn!Assertions \cup SignIn!Used : accepted[e] <= 1
                  /\ KeyStays => SignIn!EvidenceWorksOnce /\ SignIn!ConfirmedKeyWasProved
                  /\ ~Overlap => SignIn!CodesNeedFactor )
<1>1. SignIn!Init => SignInInv
  BY SignInStart
<1>2. SignInInv /\ [SignIn!Next]_(SignIn!vars) => SignInInv'
  BY SignInStep
<1>3. SignInInv =>
         /\ SignIn!TypeOK /\ SignIn!OneSessionPerChallenge /\ SignIn!FailedOpensNothing
         /\ SignIn!CeremonyFinishesItsOwn /\ SignIn!GuessesBounded
         /\ \A e \in SignIn!RecoveryCodes \cup SignIn!Assertions \cup SignIn!Used : accepted[e] <= 1
         /\ KeyStays => SignIn!EvidenceWorksOnce /\ SignIn!ConfirmedKeyWasProved
         /\ ~Overlap => SignIn!CodesNeedFactor
  BY SignInClaims
<1> QED BY <1>1, <1>2, <1>3, PTL DEF SignIn!Spec
=============================================================================
