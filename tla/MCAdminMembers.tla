------------------------------- MODULE MCAdminMembers -------------------------------
(***************************************************************************)
(* Who administrators are and what their sessions rest on, checked in one  *)
(* run: two owners acting on each other at once while they sign in and     *)
(* switch between organizations, or grant application roles; the accounts' *)
(* passwords, sessions and tokens one call at a time; single sign-on       *)
(* logins side by side; and changes of the provider under callbacks and    *)
(* sign-ins.  Each behaviour is one of one part, chosen at the start; the  *)
(* variables of the other parts keep their initial values in it.           *)
(***************************************************************************)
EXTENDS AdminMembers, Sequences, TLC

CONSTANTS x1, x2, y1, y2, u1, u2, o1, o2, t1, s1, s2, i1, i2, b1, b2, NoRow

VARIABLES part, heldMember, heldAppRole, heldPassword, heldForced, heldSession, heldToken,
          heldLock, heldCall, provider, ssoMember, link, login, start, ssoCall, admitted,
          ssoSession, saves

OwningOps == {"login", "role", "disable", "switch"}
GrantingOps == {"login", "role", "grant", "ungrant"}
HoldingOps == {"login", "create", "role", "disable", "enable", "password", "end_session",
               "own_password", "switch", "token", "revoke"}

Holding == INSTANCE AdminMembers WITH
    Orgs <- {o1, o2}, Users <- {u1, u2}, Founders <- {u1}, Calls <- {x1}, Sessions <- {y1, y2},
    Tokens <- {t1}, Operations <- HoldingOps, Overlap <- FALSE, MaxPassword <- 2,
    Nobody <- NoRow, member <- heldMember, appRole <- heldAppRole, password <- heldPassword,
    forced <- heldForced, session <- heldSession, token <- heldToken, lock <- heldLock,
    call <- heldCall
Granting == INSTANCE AdminMembers WITH
    Orgs <- {o1}, Users <- {u1, u2}, Founders <- {u1, u2}, Calls <- {x1, x2}, Sessions <- {y1, y2},
    Tokens <- {}, Operations <- GrantingOps, Overlap <- TRUE, MaxPassword <- 1, Nobody <- NoRow,
    member <- heldMember, appRole <- heldAppRole, password <- heldPassword, forced <- heldForced,
    session <- heldSession, token <- heldToken, lock <- heldLock, call <- heldCall
LogIn == INSTANCE SingleSignOn WITH
    Users <- {u1, u2}, Owners <- {u1}, Allowed <- {u2},
    Subjects <- {s1, s2}, Issuers <- {i1}, Logins <- {x1, x2}, Browsers <- {b1, b2},
    Calls <- {y1, y2}, MaxPending <- 1, MaxSaves <- 1, MaxSessions <- 2,
    None <- NoRow, member <- ssoMember, call <- ssoCall, session <- ssoSession
Change == INSTANCE SingleSignOn WITH
    Users <- {u1, u2}, Owners <- {u1}, Allowed <- {u1, u2}, Subjects <- {s1},
    Issuers <- {i1}, Logins <- {x1}, Browsers <- {b1}, Calls <- {y1}, MaxPending <- 1,
    MaxSaves <- 3, MaxSessions <- 2, None <- NoRow, member <- ssoMember,
    call <- ssoCall, session <- ssoSession

allVars == <<part, member, appRole, password, forced, session, token, lock, call, heldMember,
             heldAppRole, heldPassword, heldForced, heldSession, heldToken, heldLock,
             heldCall, provider, ssoMember, link, login, start, ssoCall, admitted, ssoSession,
             saves>>

Unused == "unused"

OnlyOwners ==
    /\ heldMember = Unused /\ heldAppRole = Unused /\ heldPassword = Unused
    /\ heldForced = Unused /\ heldSession = Unused /\ heldToken = Unused
    /\ heldLock = Unused /\ heldCall = Unused /\ provider = Unused /\ ssoMember = Unused
    /\ link = Unused /\ login = Unused /\ start = Unused /\ ssoCall = Unused
    /\ admitted = Unused /\ ssoSession = Unused /\ saves = Unused
outsideOwners == <<part, heldMember, heldAppRole, heldPassword, heldForced, heldSession, heldToken,
                   heldLock, heldCall, provider, ssoMember, link, login, start, ssoCall, admitted,
                   ssoSession, saves>>
OnlyCredentials ==
    /\ provider = Unused /\ ssoMember = Unused /\ link = Unused /\ login = Unused
    /\ start = Unused /\ ssoCall = Unused /\ admitted = Unused /\ ssoSession = Unused
    /\ saves = Unused
outsideCredentials == <<part, member, appRole, password, forced, session, token, lock, call,
                        provider, ssoMember, link, login, start, ssoCall, admitted, ssoSession,
                        saves>>
OnlySingleSignOn ==
    /\ heldMember = Unused /\ heldAppRole = Unused /\ heldPassword = Unused
    /\ heldForced = Unused /\ heldSession = Unused /\ heldToken = Unused
    /\ heldLock = Unused /\ heldCall = Unused
outsideSingleSignOn == <<part, member, appRole, password, forced, session, token, lock, call,
                         heldMember, heldAppRole, heldPassword, heldForced, heldSession, heldToken,
                         heldLock, heldCall>>

AllInit ==
    /\ Init
    /\ \/ part = "owners" /\ OnlyOwners
       \/ part = "credentials" /\ Holding!Init /\ OnlyCredentials
       \/ part = "grants" /\ Granting!Init /\ OnlyCredentials
       \/ part = "logins" /\ LogIn!Init /\ OnlySingleSignOn
       \/ part = "changes" /\ Change!Init /\ OnlySingleSignOn

AllNext ==
    \/ part = "owners" /\ Next /\ UNCHANGED outsideOwners
    \/ part = "credentials" /\ Holding!Next /\ UNCHANGED outsideCredentials
    \/ part = "grants" /\ Granting!Next /\ UNCHANGED outsideCredentials
    \/ part = "logins" /\ LogIn!Next /\ UNCHANGED outsideSingleSignOn
    \/ part = "changes" /\ Change!Next /\ UNCHANGED outsideSingleSignOn

AllSpec == AllInit /\ [][AllNext]_allVars

AllSymmetry ==
    Permutations({x1, x2}) \cup Permutations({y1, y2}) \cup Permutations({o1, o2})

=============================================================================
