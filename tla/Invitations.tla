----------------------------- MODULE Invitations -----------------------------
(***************************************************************************)
(* Invitations to one organization (internal/adminauth/invitations.go and  *)
(* internal/adminapi/invitations_api.go): an owner creates, renews and     *)
(* revokes them, each with a link that is emailed after the commit; the    *)
(* holder of a link previews it and then accepts it with a new account, or *)
(* claims it while signed in; people also join in other ways meanwhile.    *)
(***************************************************************************)
EXTENDS Naturals, FiniteSets

CONSTANTS Addresses, Slots, Holders, Deliveries, None,
          MaxLink,      \* bound on the links of one invitation
          MaxOutside,   \* bound on accounts and memberships that come another way
          Overlap       \* whether links may be renewed while an email is under way

VARIABLES inv,        \* admin_invitations
          account,    \* addresses with an account
          member,     \* memberships by address: role and the invitation it came from
          required,   \* whether the organization requires single sign-on
          holder,     \* the accept handler between preview and commit
          delivery,   \* deliverInvitation between send and record
          outside     \* how many joined another way

vars == <<inv, account, member, required, holder, delivery, outside>>

Roles == {"owner", "viewer"}
NoInvitation == [state |-> "none", addr |-> None, role |-> "none", link |-> 0, expired |-> FALSE,
                 email |-> "not_requested", mailed |-> 0, used |-> 0]
NotMember == [role |-> "none", from |-> None]
IdleHolder == [stage |-> "idle", inv |-> None, link |-> 0]
NoDelivery == [stage |-> "idle", inv |-> None, link |-> 0, sent |-> FALSE]

Open(i) == inv[i].state = "open"

\* SSORequiredFor: owners keep their other methods.
SSORequiredFor(role) == required /\ role # "owner"

(***************************************************************************)
(* The owner's side.                                                       *)
(***************************************************************************)
\* deliverInvitation starts once the row is committed, when email was asked for.
Deliver(i, link) ==
    \/ UNCHANGED delivery
    \/ \E d \in Deliveries : /\ delivery[d].stage = "idle"
                             /\ delivery' = [delivery EXCEPT ![d] = [stage |-> "sending", inv |-> i, link |-> link, sent |-> FALSE]]

\* Slip: an earlier invitation to the address stays open.
LeavesEarlier(a) == inv

\* "replacing any open invitation for the same address".
RevokesEarlier(a) == [j \in Slots |-> IF Open(j) /\ inv[j].addr = a THEN [inv[j] EXCEPT !.state = "revoked"] ELSE inv[j]]

CreateInvitation(i, a, role) ==
    /\ inv[i].state = "none"
    /\ ~SSORequiredFor(role)
    /\ member[a].role = "none"
    /\ inv' = [RevokesEarlier(a) EXCEPT ![i] = [NoInvitation EXCEPT !.state = "open", !.addr = a, !.role = role, !.link = 1]]
    /\ Deliver(i, 1)
    /\ UNCHANGED <<account, member, required, holder, outside>>

RevokeInvitation(i) ==
    /\ Open(i)
    /\ inv' = [inv EXCEPT ![i].state = "revoked"]
    /\ UNCHANGED <<account, member, required, holder, delivery, outside>>

Quiet == \A d \in Deliveries : delivery[d].stage = "idle"

\* Slip: the status of the earlier email is kept.
KeepsStatus(i) == [inv[i] EXCEPT !.link = @ + 1, !.expired = FALSE]

\* A new link and expiry, and no email for it yet.
Renewed(i) == [inv[i] EXCEPT !.link = @ + 1, !.expired = FALSE, !.email = "not_requested"]

RenewInvitation(i) ==
    /\ Open(i) /\ inv[i].link < MaxLink
    /\ Overlap \/ Quiet
    /\ inv' = [inv EXCEPT ![i] = Renewed(i)]
    /\ Deliver(i, inv[i].link + 1)
    /\ UNCHANGED <<account, member, required, holder, outside>>

SendMail(d, ok) ==
    /\ delivery[d].stage = "sending"
    /\ delivery' = [delivery EXCEPT ![d].stage = "sent", ![d].sent = ok]
    /\ inv' = IF ok THEN [inv EXCEPT ![delivery[d].inv].mailed = delivery[d].link] ELSE inv
    /\ UNCHANGED <<account, member, required, holder, outside>>

\* RecordInvitationEmail names the invitation, not the link.
RecordInvitationEmail(d) ==
    /\ delivery[d].stage = "sent"
    /\ inv' = [inv EXCEPT ![delivery[d].inv].email = IF delivery[d].sent THEN "sent" ELSE "failed"]
    /\ delivery' = [delivery EXCEPT ![d] = NoDelivery]
    /\ UNCHANGED <<account, member, required, holder, outside>>

(***************************************************************************)
(* The holder's side.                                                      *)
(***************************************************************************)
\* PreviewInvitation and the checks of acceptInvitation, by whoever has a link.
PreviewInvitation(h, i) ==
    /\ holder[h].stage = "idle"
    /\ Open(i) /\ ~inv[i].expired
    /\ inv[i].addr \notin account /\ ~SSORequiredFor(inv[i].role)
    /\ holder' = [holder EXCEPT ![h] = [stage |-> "previewed", inv |-> i, link |-> inv[i].link]]
    /\ UNCHANGED <<inv, account, member, required, delivery, outside>>

\* Slip: the invitation is looked up by what the preview showed.
ByPreview(i, link) == inv[i].state # "accepted"

\* Slip: the row is found whatever link it has by now.
AnyLink(i, link) == Open(i) /\ ~inv[i].expired

\* lockOpenInvitation finds a row by the hash of its present link.
LockOpenInvitation(i, link) == Open(i) /\ ~inv[i].expired /\ inv[i].link = link

\* Slip: the invitation is left open.
LeavesOpen(i, a, link) ==
    /\ member[a].role = "none"
    /\ member' = [member EXCEPT ![a] = [role |-> inv[i].role, from |-> i]]
    /\ inv' = [inv EXCEPT ![i].used = link]

\* finishInvitation, for an address that is not a member.
FinishInvitation(i, a, link) ==
    /\ member[a].role = "none"
    /\ member' = [member EXCEPT ![a] = [role |-> inv[i].role, from |-> i]]
    /\ inv' = [inv EXCEPT ![i].state = "accepted", ![i].used = link]

\* AcceptInvitationWithNewAccount: refused when the address got an account.
AcceptInvitation(h) ==
    LET i == holder[h].inv IN
    /\ holder[h].stage = "previewed"
    /\ \/ /\ LockOpenInvitation(i, holder[h].link) /\ inv[i].addr \notin account
          /\ account' = account \cup {inv[i].addr}
          /\ FinishInvitation(i, inv[i].addr, holder[h].link)
       \/ /\ ~(LockOpenInvitation(i, holder[h].link) /\ inv[i].addr \notin account)
          /\ UNCHANGED <<inv, account, member>>
    /\ holder' = [holder EXCEPT ![h] = IdleHolder]
    /\ UNCHANGED <<required, delivery, outside>>

\* Slip: any signed-in administrator may use the link.
AnyAddress(i, a) == TRUE

\* ErrInvitationEmail.
ForAddress(i, a) == inv[i].addr = a

\* ClaimInvitation by the administrator with address a; a member already is refused.
ClaimInvitation(i, a) ==
    /\ a \in account /\ LockOpenInvitation(i, inv[i].link) /\ ForAddress(i, a)
    /\ FinishInvitation(i, a, inv[i].link)
    /\ UNCHANGED <<account, required, holder, delivery, outside>>

(***************************************************************************)
(* Everything else.                                                        *)
(***************************************************************************)
Expire(i) ==
    /\ Open(i) /\ ~inv[i].expired
    /\ inv' = [inv EXCEPT ![i].expired = TRUE]
    /\ UNCHANGED <<account, member, required, holder, delivery, outside>>

\* SaveSSOProvider turns the requirement on or off.
SetRequired ==
    /\ required' = ~required
    /\ UNCHANGED <<inv, account, member, holder, delivery, outside>>

\* An account, or a membership, that comes from an owner or from single sign-on.
JoinOutside(a, role) ==
    /\ outside < MaxOutside
    /\ outside' = outside + 1
    /\ account' = account \cup {a}
    /\ \/ member[a].role = "none" /\ member' = [member EXCEPT ![a] = [role |-> role, from |-> None]]
       \/ a \notin account /\ UNCHANGED member
    /\ UNCHANGED <<inv, required, holder, delivery>>

Init ==
    /\ inv = [i \in Slots |-> NoInvitation]
    /\ account = {} /\ member = [a \in Addresses |-> NotMember] /\ required = FALSE
    /\ holder = [h \in Holders |-> IdleHolder]
    /\ delivery = [d \in Deliveries |-> NoDelivery]
    /\ outside = 0

Next ==
    \/ \E i \in Slots : \/ \E a \in Addresses, r \in Roles : CreateInvitation(i, a, r)
                        \/ RevokeInvitation(i) \/ RenewInvitation(i) \/ Expire(i)
                        \/ \E h \in Holders : PreviewInvitation(h, i)
                        \/ \E a \in Addresses : ClaimInvitation(i, a)
    \/ \E d \in Deliveries : (\E ok \in BOOLEAN : SendMail(d, ok)) \/ RecordInvitationEmail(d)
    \/ \E h \in Holders : AcceptInvitation(h)
    \/ SetRequired
    \/ \E a \in Addresses, r \in Roles : JoinOutside(a, r)

Spec == Init /\ [][Next]_vars

(***************************************************************************)
(* Properties.                                                             *)
(***************************************************************************)
\* Members have accounts, accepted invitations a used link.
TypeOK ==
    /\ \A i \in Slots : /\ inv[i].state \in {"none", "open", "revoked", "accepted"}
                        /\ inv[i].link \in 0..MaxLink
                        /\ inv[i].state = "accepted" <=> inv[i].used # 0
    /\ \A a \in Addresses : member[a].role # "none" => a \in account

\* An address has one open invitation at a time, so that revoking what the
\* list shows ends every way in (CreateInvitation).
OneOpenPerAddress == \A i, j \in Slots : Open(i) /\ Open(j) /\ inv[i].addr = inv[j].addr => i = j

\* "the earlier link stops working": an invitation is accepted with its latest
\* link, also when it was renewed or revoked between preview and acceptance.
LatestLinkOnly == \A i \in Slots : inv[i].state = "accepted" => inv[i].used = inv[i].link

\* Whoever joined by an invitation has the address and the role it was for, and
\* no invitation made two members (ClaimInvitation, finishInvitation).
JoinedAsInvited ==
    \A a \in Addresses : member[a].from # None =>
        /\ inv[member[a].from].addr = a /\ inv[member[a].from].role = member[a].role
        /\ inv[member[a].from].state = "accepted"
        /\ \A b \in Addresses \ {a} : member[b].from # member[a].from

\* The status shown is that of the present link: "sent" means that the link
\* which works was emailed.  Holds while links are not renewed during delivery.
EmailStatusTrue == \A i \in Slots : inv[i].email = "sent" => inv[i].mailed = inv[i].link

\* What was revoked or accepted stays so, and admits nobody afterwards.
DecidedOnce ==
    \A i \in Slots : inv[i].state \in {"revoked", "accepted"} =>
     /\ inv'[i].state = inv[i].state
     /\ \A a \in Addresses : member'[a].from = i => member[a].from = i
=============================================================================
