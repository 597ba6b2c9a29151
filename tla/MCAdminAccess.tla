------------------------------- MODULE MCAdminAccess -------------------------------
(***************************************************************************)
(* How administrators get in, checked in one run: sign-in with codes, with *)
(* passkeys and with two ceremonies at once, the management of factors,    *)
(* the first owner, and invitations with and without their e-mails.  Each  *)
(* behaviour is one of one part, chosen at the start; the variables of the *)
(* other parts are unused in it.                                           *)
(***************************************************************************)
EXTENDS Naturals, FiniteSets, Sequences, TLC

CONSTANTS x1, x2, y1, y2, z1, z2, h1, w1, k1, m1, nil

VARIABLES part, required, totp, keys, batch, codes, passkey, challenge, ceremony, failures, clock,
          call, accepted, opened, proved, row, owners, replica, caller, inv, account, member,
          holder, delivery, outside

Managing == {"confirm", "disable", "codes", "register", "add", "remove", "start", "reset", "require"}

ByCode == INSTANCE AdminSignIn WITH
    Calls <- {x1, x2}, Challenges <- {h1}, Ceremonies <- {}, Passkeys <- {}, NoRow <- nil,
    Operations <- {"login", "second", "reset"}, Overlap <- TRUE, Enrolled <- TRUE, MaxKeys <- 1,
    MaxBatches <- 1, Codes <- {1, 2}, MaxClock <- 2, MaxCount <- 1, Attempts <- 2,
    MaxPendingSignIns <- 1, Required <- {FALSE}
ByPasskey == INSTANCE AdminSignIn WITH
    Calls <- {x1}, Challenges <- {y1, y2}, Ceremonies <- {w1}, Passkeys <- {k1}, NoRow <- nil,
    Operations <- {"login", "second", "passkey"}, Overlap <- TRUE, Enrolled <- TRUE, MaxKeys <- 1,
    MaxBatches <- 1, Codes <- {}, MaxClock <- 1, MaxCount <- 1, Attempts <- 1,
    MaxPendingSignIns <- 1, Required <- {FALSE}
ByCounter == INSTANCE AdminSignIn WITH
    Calls <- {x1, x2}, Challenges <- {h1}, Ceremonies <- {y1, y2}, Passkeys <- {k1}, NoRow <- nil,
    Operations <- {"login", "second", "passkey"}, Overlap <- TRUE, Enrolled <- TRUE, MaxKeys <- 1,
    MaxBatches <- 1, Codes <- {}, MaxClock <- 1, MaxCount <- 1, Attempts <- 1,
    MaxPendingSignIns <- 1, Required <- {FALSE}
Managed == INSTANCE AdminSignIn WITH
    Calls <- {x1}, Challenges <- {h1}, Ceremonies <- {w1}, Passkeys <- {k1}, NoRow <- nil,
    Operations <- Managing, Overlap <- FALSE, Enrolled <- FALSE, MaxKeys <- 2, MaxBatches <- 2,
    Codes <- {1}, MaxClock <- 1, MaxCount <- 1, Attempts <- 1, MaxPendingSignIns <- 1,
    Required <- BOOLEAN
Bootstrap == INSTANCE AdminBootstrap WITH
    Replicas <- {x1, x2}, Callers <- {y1, y2}, Secrets <- {z1, z2}, Lifetimes <- BOOLEAN,
    None <- nil
Replicated == INSTANCE AdminBootstrap WITH
    Replicas <- {x1, x2}, Callers <- {y1, y2}, Secrets <- {z1, z2}, Lifetimes <- {FALSE},
    None <- nil
Invited == INSTANCE Invitations WITH
    Addresses <- {x1, x2}, Slots <- {y1, y2}, Holders <- {z1, z2}, Deliveries <- {}, MaxLink <- 2,
    MaxOutside <- 1, Overlap <- TRUE, None <- nil
Emailed == INSTANCE Invitations WITH
    Addresses <- {x1}, Slots <- {y1, y2}, Holders <- {z1}, Deliveries <- {m1}, MaxLink <- 2,
    MaxOutside <- 1, Overlap <- FALSE, None <- nil

vars == <<part, required, totp, keys, batch, codes, passkey, challenge, ceremony, failures, clock,
          call, accepted, opened, proved, row, owners, replica, caller, inv, account, member,
          holder, delivery, outside>>

Unused == "unused"

OnlyAdminSignIn ==
    /\ row = Unused /\ owners = Unused /\ replica = Unused /\ caller = Unused /\ inv = Unused
    /\ account = Unused /\ member = Unused /\ holder = Unused /\ delivery = Unused
    /\ outside = Unused
outsideAdminSignIn == <<part, row, owners, replica, caller, inv, account, member, holder, delivery,
                       outside>>
OnlyAdminBootstrap ==
    /\ required = Unused /\ totp = Unused /\ keys = Unused /\ batch = Unused /\ codes = Unused
    /\ passkey = Unused /\ challenge = Unused /\ ceremony = Unused /\ failures = Unused
    /\ clock = Unused /\ call = Unused /\ accepted = Unused /\ opened = Unused
    /\ proved = Unused /\ inv = Unused /\ account = Unused /\ member = Unused /\ holder = Unused
    /\ delivery = Unused /\ outside = Unused
outsideAdminBootstrap == <<part, required, totp, keys, batch, codes, passkey, challenge, ceremony,
                          failures, clock, call, accepted, opened, proved, inv, account, member,
                          holder, delivery, outside>>
OnlyInvitations ==
    /\ totp = Unused /\ keys = Unused /\ batch = Unused /\ codes = Unused /\ passkey = Unused
    /\ challenge = Unused /\ ceremony = Unused /\ failures = Unused /\ clock = Unused
    /\ call = Unused /\ accepted = Unused /\ opened = Unused /\ proved = Unused /\ row = Unused
    /\ owners = Unused /\ replica = Unused /\ caller = Unused
outsideInvitations == <<part, totp, keys, batch, codes, passkey, challenge, ceremony, failures,
                       clock, call, accepted, opened, proved, row, owners, replica, caller>>

Init ==
    \/ part = "codes" /\ ByCode!Init /\ OnlyAdminSignIn
    \/ part = "passkeys" /\ ByPasskey!Init /\ OnlyAdminSignIn
    \/ part = "counters" /\ ByCounter!Init /\ OnlyAdminSignIn
    \/ part = "factors" /\ Managed!Init /\ OnlyAdminSignIn
    \/ part = "bootstrap" /\ Bootstrap!Init /\ OnlyAdminBootstrap
    \/ part = "replicas" /\ Replicated!Init /\ OnlyAdminBootstrap
    \/ part = "invitations" /\ Invited!Init /\ OnlyInvitations
    \/ part = "emails" /\ Emailed!Init /\ OnlyInvitations

Next ==
    \/ part = "codes" /\ ByCode!Next /\ UNCHANGED outsideAdminSignIn
    \/ part = "passkeys" /\ ByPasskey!Next /\ UNCHANGED outsideAdminSignIn
    \/ part = "counters" /\ ByCounter!Next /\ UNCHANGED outsideAdminSignIn
    \/ part = "factors" /\ Managed!Next /\ UNCHANGED outsideAdminSignIn
    \/ part = "bootstrap" /\ Bootstrap!Next /\ UNCHANGED outsideAdminBootstrap
    \/ part = "replicas" /\ Replicated!Next /\ UNCHANGED outsideAdminBootstrap
    \/ part = "invitations" /\ Invited!Next /\ UNCHANGED outsideInvitations
    \/ part = "emails" /\ Emailed!Next /\ UNCHANGED outsideInvitations

Spec == Init /\ [][Next]_vars

Symmetry == Permutations({x1, x2}) \cup Permutations({y1, y2})

(***************************************************************************)
(* Properties.                                                             *)
(***************************************************************************)
\* A one-time code, a recovery code or a signature works once, although two
\* calls present it together; a sign-in challenge opens one session, none
\* after it failed, and takes a bounded number of guesses; a passkey ceremony
\* finishes the sign-in it was begun for; and recovery codes and confirmed
\* keys exist only beside a factor that was proved.  The last is said of one
\* call at a time: an enrolment started between the check of a code and its
\* confirmation is confirmed unproved (two_factor.go:137).  The rows keep their
\* types.
SignInIsEarned ==
    /\ part = "codes" =>
       /\ ByCode!TypeOK /\ ByCode!EvidenceWorksOnce /\ ByCode!OneSessionPerChallenge
       /\ ByCode!FailedOpensNothing /\ ByCode!GuessesBounded
    /\ part = "passkeys" =>
       /\ ByPasskey!TypeOK /\ ByPasskey!EvidenceWorksOnce /\ ByPasskey!OneSessionPerChallenge
       /\ ByPasskey!CeremonyFinishesItsOwn
    /\ part = "counters" =>
       /\ ByCounter!TypeOK /\ ByCounter!EvidenceWorksOnce /\ ByCounter!OneSessionPerChallenge
       /\ ByCounter!CeremonyFinishesItsOwn
    /\ part = "factors" =>
       /\ Managed!TypeOK /\ Managed!EvidenceWorksOnce /\ Managed!CodesNeedFactor
       /\ Managed!ConfirmedKeyWasProved

\* Setup makes one first owner, with one secret that all replicas show, and
\* an address has one open invitation, of which only the latest link works,
\* for the role it was made for; what is said of its e-mail is true as long as
\* the link is not renewed while the e-mail is delivered (invitations.go:316).
\* The rows keep their types.
EntryIsOnce ==
    /\ part = "bootstrap" =>
       /\ Bootstrap!TypeOK /\ Bootstrap!OneOwner
    /\ part = "replicas" =>
       /\ Replicated!TypeOK /\ Replicated!ReplicasAgree
    /\ part = "invitations" =>
       /\ Invited!TypeOK /\ Invited!OneOpenPerAddress /\ Invited!LatestLinkOnly
       /\ Invited!JoinedAsInvited
    /\ part = "emails" =>
       /\ Emailed!TypeOK /\ Emailed!EmailStatusTrue

\* Setup never opens again once an owner exists and an invitation is decided
\* once, whatever else is under way; and, one call at a time, the last factor
\* is not removed by its owner where one is required.  Two removals at once
\* each count on the other's factor (passkeys.go:351).
DecidedForGood ==
    [][/\ part = "factors" => Managed!RequiredFactorRemains
       /\ part = "bootstrap" => Bootstrap!ClosedForGood
       /\ part = "invitations" => Invited!DecidedOnce]_vars
=============================================================================
