---------------------------- MODULE AdminSignIn ----------------------------
(***************************************************************************)
(* An administrator's sign-in and second factors: password, authenticator  *)
(* codes, recovery codes and passkeys (internal/adminapi/api.go,           *)
(* two_factor_api.go, passkeys_api.go over internal/adminauth/             *)
(* two_factor.go, passkeys.go, totp.go).  Each call goes through the       *)
(* process's failure limiter, reads, spends what it was shown and only     *)
(* then acts; every statement or transaction is a step, so two calls can   *)
(* meet between them.  One account, one process.  Codes of different keys  *)
(* are different, assertions are unforgeable.                              *)
(***************************************************************************)
EXTENDS Integers, FiniteSets

CONSTANTS Calls, Challenges, Ceremonies, Passkeys, NoRow,
          MaxKeys, MaxBatches,   \* bounds on authenticator keys and code sets ever made
          Codes,                 \* recovery codes of one set
          MaxClock, MaxCount,    \* bounds on time steps and signature counters
          Attempts,              \* signInChallengeAttempts, and the limiter's limit
          MaxPendingSignIns,     \* maxPendingPasskeySignIns
          Operations,            \* what the callers may do
          Overlap,               \* whether two calls may be in flight
          Required,              \* what the organizations may require at the start
          Enrolled               \* whether the account starts with every factor

VARIABLES required,    \* an organization of theirs has require_two_factor
          totp,        \* the row of admin_totp_factors: key (0 none), confirmed, last_used_step
          keys,        \* authenticator keys made so far
          batch,       \* recovery code sets made so far
          codes,       \* unused codes of the current set
          passkey,     \* admin_passkeys: state and sign_count
          challenge,   \* admin_sign_in_challenges
          ceremony,    \* admin_webauthn_challenges
          failures,    \* the limiter's recent failures per key
          clock,       \* the time step of an authenticator code
          call,        \* calls in flight
          accepted,    \* history: how often each piece of evidence was accepted
          opened,      \* history: sessions opened per challenge or ceremony
          proved       \* history: keys whose code was shown to confirm them

factors == <<totp, keys, batch, codes, passkey>>
history == <<accepted, opened, proved>>
vars == <<required, factors, challenge, ceremony, failures, clock, call, history>>

Limited == {"email", "second-factor", "password-change"}
Purposes == {"register", "sign_in", "second_factor"}

NoTOTP == [key |-> 0, confirmed |-> FALSE, step |-> 0]
Shown(kind, a, b) == [kind |-> kind, a |-> a, b |-> b]
Wrong == Shown("wrong", 0, 0)
Password == Shown("password", 0, 0)
AppCodes == {Shown("totp", k, s) : k \in 1..MaxKeys, s \in 1..MaxClock + 1}
RecoveryCodes == {Shown("recovery", b, i) : b \in 1..MaxBatches, i \in Codes}
Assertions == {Shown("passkey", p, n) : p \in Passkeys, n \in 0..MaxCount}
Used == {Shown("ceremony", w, 0) : w \in Ceremonies}
Evidence == AppCodes \cup RecoveryCodes \cup Assertions \cup Used

Idle == [op |-> "none", stage |-> "idle", on |-> NoRow, shown |-> Wrong, by |-> NoRow, flag |-> FALSE]

(***************************************************************************)
(* Factors.                                                                *)
(***************************************************************************)
Held == {p \in Passkeys : passkey[p].state = "held"}
HasSecondFactor == totp.confirmed \/ Held # {}

\* replaceRecoveryCodesTx.
NewCodes == /\ batch < MaxBatches
            /\ batch' = batch + 1
            /\ codes' = {Shown("recovery", batch', i) : i \in Codes}

\* Slip: the newest accepted step may come again.
StepAgain(s) == totp.confirmed /\ totp.step <= s

\* The WHERE of UseTOTPStep.
StepIsNew(s) == totp.confirmed /\ totp.step < s

\* Slip: any counter is taken.
CountAny(p, n) == TRUE

\* The WHERE of RecordPasskeyUse.
CountAdvances(p, n) == passkey[p].count < n \/ (n = 0 /\ passkey[p].count = 0)

\* Slip: the code of a key that was replaced still matches.
MatchesOld(e, confirmed) == /\ e.kind = "totp" /\ totp.key >= e.a /\ totp.key # 0
                            /\ totp.confirmed = confirmed
                            /\ e.b \in (clock - 1)..(clock + 1)

\* MatchTOTP: the code of the stored key, for a step next to the present one.
Matches(e, confirmed) == /\ e.kind = "totp" /\ totp.key = e.a /\ totp.key # 0
                         /\ totp.confirmed = confirmed
                         /\ e.b \in (clock - 1)..(clock + 1)

(***************************************************************************)
(* The limiter.                                                            *)
(***************************************************************************)
LimiterKey(c) ==
    CASE c.op = "login" -> "email"
      [] c.op \in {"second", "confirm", "disable"} \/ (c.op = "codes" /\ c.shown.kind = "totp") -> "second-factor"
      [] OTHER -> "password-change"

\* Slip: one failure too many.
AllowsMore(k) == failures[k] <= Attempts

Allows(k) == failures[k] < Attempts

\* prune: the oldest failure leaves the window.
Prune(k) ==
    /\ failures[k] > 0
    /\ failures' = [failures EXCEPT ![k] = @ - 1]
    /\ UNCHANGED <<required, factors, challenge, ceremony, clock, call, history>>

(***************************************************************************)
(* The beginning of a call.                                                *)
(***************************************************************************)
Pending(h) == challenge[h].state = "pending" /\ challenge[h].failed < Attempts

Undisturbed == Overlap \/ \A q \in Calls : call[q] = Idle
MayBegin(p, op) == op \in Operations /\ call[p] = Idle /\ Undisturbed

Begin(p, op, on, shown, by) ==
    /\ MayBegin(p, op)
    /\ call' = [call EXCEPT ![p] = [Idle EXCEPT !.op = op, !.stage = "begun", !.on = on, !.shown = shown, !.by = by]]
    /\ UNCHANGED <<required, factors, challenge, ceremony, failures, clock, history>>

\* Codes the caller may know: of keys and sets that were made.
Known(e) == \/ e = Wrong
            \/ e.kind = "totp" /\ e.a <= keys /\ e.b \in (clock - 1)..(clock + 1)
            \/ e.kind = "recovery" /\ e.a <= batch

\* login.
BeginLogin(p) == \E e \in {Password, Wrong} : Begin(p, "login", NoRow, e, NoRow)

\* loginSecondFactor: the challenge is read, not consumed.
BeginSecondFactor(p) ==
    \E h \in Challenges : Pending(h) /\
        \/ \E e \in AppCodes \cup RecoveryCodes \cup {Wrong} : Known(e) /\ Begin(p, "second", h, e, NoRow)
        \/ \E e \in Assertions, w \in Ceremonies :
               passkey[e.a].state # "none" /\ ceremony[w].state # "none" /\ Begin(p, "second", h, e, w)

\* passkeySignIn.
BeginPasskeySignIn(p) ==
    \E e \in Assertions, w \in Ceremonies :
        passkey[e.a].state # "none" /\ ceremony[w].state # "none" /\ Begin(p, "passkey", NoRow, e, w)

\* confirmTOTPEnrollment.
BeginConfirm(p) == \E e \in AppCodes \cup {Wrong} : Known(e) /\ Begin(p, "confirm", NoRow, e, NoRow)

\* disableTwoFactor: its own password was right, the code comes next.
BeginDisable(p) == \E e \in AppCodes \cup {Wrong} : Known(e) /\ Begin(p, "disable", NoRow, e, NoRow)

\* replaceRecoveryCodes, with a password, right or wrong, or with a code: a guess
\* is the code of a key not made yet, and counts as a code (checkCurrentTOTP).
BeginReplaceCodes(p) == \E e \in AppCodes \cup {Password, Wrong} : Begin(p, "codes", NoRow, e, NoRow)

\* passkeyRegistrationOptions and removePasskey, after the path is read.
BeginRegister(p) == \E e \in {Password, Wrong} : Begin(p, "register", NoRow, e, NoRow)
BeginRemove(p) == \E e \in {Password, Wrong}, k \in Passkeys : Begin(p, "remove", k, e, NoRow)

To(p, stage) == call' = [call EXCEPT ![p].stage = stage]
End(p) == call' = [call EXCEPT ![p] = Idle]

\* loginLimiter.allow; a passkey alone is not limited.
Allow(p) ==
    /\ call[p].stage = "begun" /\ call[p].op \notin {"passkey", "add"}
    /\ IF Allows(LimiterKey(call[p])) THEN To(p, "allowed") ELSE End(p)
    /\ UNCHANGED <<required, factors, challenge, ceremony, failures, clock, history>>

(***************************************************************************)
(* Verification.                                                           *)
(***************************************************************************)
Accept(e) == accepted' = [accepted EXCEPT ![e] = @ + 1]

\* A password, right or wrong; a wrong code.
VerifyPassword(p) ==
    /\ call[p].stage = "allowed" /\ call[p].shown \in {Password, Wrong}
    /\ To(p, IF call[p].shown = Password THEN "verified" ELSE "refused")
    /\ UNCHANGED <<required, factors, challenge, ceremony, failures, clock, history>>

\* verifyTOTP up to the match: the key is read and the code compared.
ReadTOTP(p) ==
    LET c == call[p] want == c.op # "confirm" IN
    /\ c.stage = "allowed" /\ c.shown.kind = "totp"
    /\ To(p, IF ~Matches(c.shown, want) THEN "refused" ELSE IF want THEN "matched" ELSE "verified")
    /\ proved' = IF Matches(c.shown, FALSE) /\ ~want THEN proved \cup {c.shown.a} ELSE proved
    /\ UNCHANGED <<required, factors, challenge, ceremony, failures, clock, accepted, opened>>

\* UseTOTPStep.
UseTOTPStep(p) ==
    LET c == call[p] IN
    /\ c.stage = "matched"
    /\ \/ /\ StepIsNew(c.shown.b)
          /\ totp' = [totp EXCEPT !.step = c.shown.b]
          /\ Accept(c.shown) /\ To(p, "verified")
       \/ ~StepIsNew(c.shown.b) /\ To(p, "refused") /\ UNCHANGED <<totp, accepted>>
    /\ UNCHANGED <<required, keys, batch, codes, passkey, challenge, ceremony, failures, clock, opened, proved>>

\* Slip: the code is looked up and not marked as used.
UnspentRecoveryCode(p) ==
    LET c == call[p] IN
    /\ c.stage = "allowed" /\ c.shown.kind = "recovery"
    /\ IF c.shown \in codes THEN Accept(c.shown) /\ To(p, "verified") ELSE To(p, "refused") /\ UNCHANGED accepted
    /\ UNCHANGED <<required, totp, keys, batch, codes, passkey, challenge, ceremony, failures, clock, opened, proved>>

UseRecoveryCode(p) ==
    LET c == call[p] IN
    /\ c.stage = "allowed" /\ c.shown.kind = "recovery"
    /\ \/ c.shown \in codes /\ codes' = codes \ {c.shown} /\ Accept(c.shown) /\ To(p, "verified")
       \/ c.shown \notin codes /\ To(p, "refused") /\ UNCHANGED <<codes, accepted>>
    /\ UNCHANGED <<required, totp, keys, batch, passkey, challenge, ceremony, failures, clock, opened, proved>>

\* The purpose an operation consumes a ceremony for.
Purpose(op) == CASE op = "second" -> "second_factor" [] op = "passkey" -> "sign_in" [] OTHER -> "register"

\* Slip: a ceremony tied to another sign-in is taken.
ForAnySignIn(c) == /\ ceremony[c.by].state = "pending"
                   /\ ceremony[c.by].purpose = Purpose(c.op)

\* The WHERE of ConsumeWebAuthnChallenge.
Consumable(c) == /\ ceremony[c.by].state = "pending"
                 /\ ceremony[c.by].purpose = Purpose(c.op)
                 /\ ceremony[c.by].link = (IF c.op = "second" THEN c.on ELSE NoRow)

\* ConsumeWebAuthnChallenge; a sign-in with a passkey alone that fails counts nowhere.
ConsumeCeremony(p) ==
    LET c == call[p] IN
    /\ \/ c.stage = "allowed" /\ c.shown.kind = "passkey"
       \/ c.stage = "begun" /\ c.op \in {"passkey", "add"}
    /\ \/ /\ Consumable(c)
          /\ ceremony' = [ceremony EXCEPT ![c.by].state = "consumed"]
          /\ Accept(Shown("ceremony", c.by, 0))
          /\ To(p, IF c.op = "add" THEN "cleared" ELSE "asserted")
       \/ /\ ~Consumable(c)
          /\ IF c.op = "second" THEN To(p, "refused") ELSE End(p)
          /\ UNCHANGED <<ceremony, accepted>>
    /\ UNCHANGED <<required, factors, challenge, failures, clock, opened, proved>>

\* VerifyRegistration, of a response that cannot be verified: the ceremony is spent.
RejectRegistration(p) ==
    /\ call[p].op = "add" /\ call[p].stage = "cleared"
    /\ End(p)
    /\ UNCHANGED <<required, factors, challenge, ceremony, failures, clock, history>>

\* verifyPasskeyAssertion: the credential is found and its counter recorded.
RecordPasskeyUse(p) ==
    LET c == call[p] k == c.shown.a n == c.shown.b
        good == passkey[k].state = "held" /\ CountAdvances(k, n) IN
    /\ c.stage = "asserted"
    /\ \/ /\ good
          /\ passkey' = [passkey EXCEPT ![k].count = n]
          /\ accepted' = IF n > 0 THEN [accepted EXCEPT ![c.shown] = @ + 1] ELSE accepted
          /\ To(p, IF c.op = "second" THEN "verified" ELSE "consumed")
       \/ /\ ~good
          /\ IF c.op = "second" THEN To(p, "refused") ELSE End(p)
          /\ UNCHANGED <<passkey, accepted>>
    /\ UNCHANGED <<required, totp, keys, batch, codes, challenge, ceremony, failures, clock, opened, proved>>

\* loginLimiter.failure.
CountFailure(p) ==
    /\ call[p].stage = "refused"
    /\ failures' = [failures EXCEPT ![LimiterKey(call[p])] = @ + 1]
    /\ IF call[p].op = "second" THEN To(p, "counted") ELSE End(p)
    /\ UNCHANGED <<required, factors, challenge, ceremony, clock, history>>

\* Slip: the count has no ceiling.
CountsOn(p) ==
    LET h == call[p].on IN
    /\ call[p].stage = "counted"
    /\ challenge' = [challenge EXCEPT ![h].failed = IF challenge[h].state # "consumed" THEN @ + 1 ELSE @]
    /\ End(p)
    /\ UNCHANGED <<required, factors, ceremony, failures, clock, history>>

\* FailSignInChallenge, of a challenge not yet consumed.
FailSignInChallenge(p) ==
    LET h == call[p].on IN
    /\ call[p].stage = "counted"
    /\ challenge' = [challenge EXCEPT ![h].failed =
            IF challenge[h].state # "consumed" /\ @ < Attempts THEN @ + 1 ELSE @]
    /\ End(p)
    /\ UNCHANGED <<required, factors, ceremony, failures, clock, history>>

\* loginLimiter.success.
ClearFailures(p) ==
    /\ call[p].stage = "verified"
    /\ failures' = [failures EXCEPT ![LimiterKey(call[p])] = 0]
    /\ To(p, "cleared")
    /\ UNCHANGED <<required, factors, challenge, ceremony, clock, history>>

(***************************************************************************)
(* Sessions.                                                               *)
(***************************************************************************)
\* login after the password: a challenge, or a session when there is no factor.
LoggedIn(p) ==
    /\ call[p].op = "login" /\ call[p].stage = "cleared"
    /\ \/ /\ HasSecondFactor
          /\ \E h \in Challenges : /\ challenge[h].state = "none"
                                   /\ challenge' = [challenge EXCEPT ![h] = [state |-> "pending", failed |-> 0]]
       \/ ~HasSecondFactor /\ UNCHANGED challenge
    /\ End(p)
    /\ UNCHANGED <<required, factors, ceremony, failures, clock, history>>

\* Slip: the UPDATE names the challenge alone.
ConsumeAny(h) == challenge[h].state # "expired" /\ challenge[h].failed < Attempts

\* Slip: consumed however often the factor was wrong before.
ConsumeFailed(h) == challenge[h].state = "pending"

\* The WHERE of ConsumeSignInChallenge.
Usable(h) == challenge[h].state = "pending" /\ challenge[h].failed < Attempts

ConsumeSignInChallenge(p) ==
    LET h == call[p].on IN
    /\ call[p].op = "second" /\ call[p].stage = "cleared"
    /\ \/ Usable(h) /\ challenge' = [challenge EXCEPT ![h].state = "consumed"] /\ To(p, "consumed")
       \/ ~Usable(h) /\ End(p) /\ UNCHANGED challenge
    /\ UNCHANGED <<required, factors, ceremony, failures, clock, history>>

\* issueSignInSession.
IssueSignInSession(p) ==
    LET by == IF call[p].op = "second" THEN call[p].on ELSE call[p].by IN
    /\ call[p].stage = "consumed"
    /\ opened' = [opened EXCEPT ![by] = @ + 1]
    /\ End(p)
    /\ UNCHANGED <<required, factors, challenge, ceremony, failures, clock, accepted, proved>>

(***************************************************************************)
(* Ceremonies, registration and the authenticator.                         *)
(***************************************************************************)
\* CreateWebAuthnChallenge.
NewCeremony(w, purpose, link) ==
    /\ ceremony[w].state = "none"
    /\ ceremony' = [ceremony EXCEPT ![w] = [state |-> "pending", purpose |-> purpose, link |-> link]]

\* secondFactorPasskeyOptions.
SecondFactorPasskeyOptions ==
    /\ "second" \in Operations /\ Held # {}
    /\ \E h \in Challenges, w \in Ceremonies : Pending(h) /\ NewCeremony(w, "second_factor", h)
    /\ UNCHANGED <<required, factors, challenge, failures, clock, call, history>>

\* passkeySignInOptions.
PasskeySignInOptions ==
    /\ "passkey" \in Operations
    /\ Cardinality({w \in Ceremonies : ceremony[w].state = "pending" /\ ceremony[w].purpose = "sign_in"}) < MaxPendingSignIns
    /\ \E w \in Ceremonies : NewCeremony(w, "sign_in", NoRow)
    /\ UNCHANGED <<required, factors, challenge, failures, clock, call, history>>

\* passkeyRegistrationOptions after the password; then addPasskey with it.
RegistrationOptions(p) ==
    /\ call[p].op = "register" /\ call[p].stage = "cleared"
    /\ \E w \in Ceremonies : NewCeremony(w, "register", NoRow)
    /\ End(p)
    /\ UNCHANGED <<required, factors, challenge, failures, clock, history>>

BeginAdd(p) == \E w \in Ceremonies : ceremony[w].state # "none" /\ Begin(p, "add", NoRow, Wrong, w)

\* startTOTPEnrollment: a new key takes the place of an unconfirmed one.
SaveTOTPEnrollment ==
    /\ "start" \in Operations /\ Undisturbed
    /\ keys < MaxKeys /\ ~totp.confirmed
    /\ keys' = keys + 1
    /\ totp' = [NoTOTP EXCEPT !.key = keys']
    /\ UNCHANGED <<required, batch, codes, passkey, challenge, ceremony, failures, clock, call, history>>

\* Slip: an enrolment that was confirmed already is confirmed again.
ConfirmsAgain == totp.key # 0

\* The WHERE of ConfirmTOTP.
Unconfirmed == totp.key # 0 /\ ~totp.confirmed

\* ConfirmTOTP.
ConfirmTOTP(p) ==
    LET c == call[p] IN
    /\ c.op = "confirm" /\ c.stage = "cleared"
    /\ \/ /\ Unconfirmed
          /\ totp' = [totp EXCEPT !.confirmed = TRUE, !.step = c.shown.b]
          /\ Accept(c.shown) /\ NewCodes
       \/ ~Unconfirmed /\ UNCHANGED <<totp, accepted, batch, codes>>
    /\ End(p)
    /\ UNCHANGED <<required, keys, passkey, challenge, ceremony, failures, clock, opened, proved>>

(***************************************************************************)
(* Transactions on the factors: what they read, then their commit.         *)
(***************************************************************************)
Remaining(op, on) == CASE op = "disable" -> Held # {}
                       [] op = "remove" -> totp.confirmed \/ Held # {on}

\* Slip: what remains is not asked.
DecideBlindly(p) ==
    LET c == call[p] IN
    /\ c.op \in {"disable", "remove"} /\ c.stage = "cleared"
    /\ c.op = "disable" => totp.confirmed
    /\ c.op = "remove" => c.on \in Held
    /\ call' = [call EXCEPT ![p].stage = "decided", ![p].flag = Remaining(c.op, c.on)]
    /\ UNCHANGED <<required, factors, challenge, ceremony, failures, clock, history>>

\* DisableTwoFactor, RemovePasskey: the row is deleted and
\* enforceRemainingFactorTx looks at what else there is.
Decide(p) ==
    LET c == call[p] found == (c.op = "disable" /\ totp.confirmed) \/ (c.op = "remove" /\ c.on \in Held) IN
    /\ c.op \in {"disable", "remove"} /\ c.stage = "cleared"
    /\ \/ /\ found /\ (Remaining(c.op, c.on) \/ ~required)
          /\ call' = [call EXCEPT ![p].stage = "decided", ![p].flag = Remaining(c.op, c.on)]
       \/ (found => ~Remaining(c.op, c.on) /\ required) /\ End(p)
    /\ UNCHANGED <<required, factors, challenge, ceremony, failures, clock, history>>

\* Slip: with the last factor gone the codes stay.
CodesStay(remaining) == codes

\* enforceRemainingFactorTx: with no factor left the codes go too.
CodesLeft(remaining) == IF remaining THEN codes ELSE {}

DisableTwoFactor(p) ==
    /\ call[p].op = "disable" /\ call[p].stage = "decided"
    /\ IF totp.confirmed THEN totp' = NoTOTP /\ codes' = CodesLeft(call[p].flag) ELSE UNCHANGED <<totp, codes>>
    /\ End(p)
    /\ UNCHANGED <<required, keys, batch, passkey, challenge, ceremony, failures, clock, history>>

RemovePasskey(p) ==
    LET k == call[p].on IN
    /\ call[p].op = "remove" /\ call[p].stage = "decided"
    /\ IF k \in Held THEN passkey' = [passkey EXCEPT ![k].state = "removed"] /\ codes' = CodesLeft(call[p].flag)
                     ELSE UNCHANGED <<passkey, codes>>
    /\ End(p)
    /\ UNCHANGED <<required, totp, keys, batch, challenge, ceremony, failures, clock, history>>

\* ReplaceRecoveryCodes and AddPasskey read, then write and commit.
ReadCodes(p) ==
    LET c == call[p] IN
    /\ c.op \in {"codes", "add"} /\ c.stage = "cleared"
    /\ \/ /\ c.op = "codes" => HasSecondFactor
          /\ call' = [call EXCEPT ![p].stage = "decided", ![p].flag = c.op = "codes" \/ codes = {}]
       \/ c.op = "codes" /\ ~HasSecondFactor /\ End(p)
    /\ UNCHANGED <<required, factors, challenge, ceremony, failures, clock, history>>

ReplaceRecoveryCodes(p) ==
    /\ call[p].op = "codes" /\ call[p].stage = "decided"
    /\ NewCodes /\ End(p)
    /\ UNCHANGED <<required, totp, keys, passkey, challenge, ceremony, failures, clock, history>>

AddPasskey(p) ==
    /\ call[p].op = "add" /\ call[p].stage = "decided"
    /\ \E k \in Passkeys, n \in 0..MaxCount :
        /\ passkey[k].state = "none"
        /\ passkey' = [passkey EXCEPT ![k] = [state |-> "held", count |-> n]]
    /\ IF call[p].flag THEN NewCodes ELSE UNCHANGED <<batch, codes>>
    /\ End(p)
    /\ UNCHANGED <<required, totp, keys, challenge, ceremony, failures, clock, history>>

\* ResetAdministratorTwoFactor, by an owner.
ResetAdministratorTwoFactor ==
    /\ "reset" \in Operations /\ Undisturbed
    /\ totp.key # 0 \/ Held # {}
    /\ totp' = NoTOTP /\ codes' = {}
    /\ passkey' = [k \in Passkeys |-> IF k \in Held THEN [passkey[k] EXCEPT !.state = "removed"] ELSE passkey[k]]
    /\ UNCHANGED <<required, keys, batch, challenge, ceremony, failures, clock, call, history>>

SetTwoFactorRequirement ==
    /\ "require" \in Operations /\ Undisturbed
    /\ required' = ~required
    /\ UNCHANGED <<factors, challenge, ceremony, failures, clock, call, history>>

Tick ==
    /\ clock < MaxClock
    /\ clock' = clock + 1
    /\ UNCHANGED <<required, factors, challenge, ceremony, failures, call, history>>

\* Challenges and ceremonies run out.
Expire ==
    /\ \/ /\ \E h \in Challenges : /\ challenge[h].state = "pending"
                                   /\ challenge' = [challenge EXCEPT ![h].state = "expired"]
          /\ UNCHANGED ceremony
       \/ /\ \E w \in Ceremonies : /\ ceremony[w].state = "pending"
                                   /\ ceremony' = [ceremony EXCEPT ![w].state = "expired"]
          /\ UNCHANGED challenge
    /\ UNCHANGED <<required, factors, failures, clock, call, history>>

(***************************************************************************)
(* The specification.                                                      *)
(***************************************************************************)
Init ==
    /\ required \in Required
    /\ totp = IF Enrolled THEN [key |-> 1, confirmed |-> TRUE, step |-> 1] ELSE NoTOTP
    /\ keys = IF Enrolled THEN 1 ELSE 0
    /\ batch = keys
    /\ codes = IF Enrolled THEN {Shown("recovery", 1, i) : i \in Codes} ELSE {}
    /\ passkey = [k \in Passkeys |-> [state |-> IF Enrolled THEN "held" ELSE "none", count |-> 0]]
    /\ challenge = [h \in Challenges |-> [state |-> "none", failed |-> 0]]
    /\ ceremony = [w \in Ceremonies |-> [state |-> "none", purpose |-> "register", link |-> NoRow]]
    /\ failures = [k \in Limited |-> 0]
    /\ clock = 1
    /\ call = [p \in Calls |-> Idle]
    /\ accepted = [e \in Evidence |-> IF Enrolled /\ e = Shown("totp", 1, 1) THEN 1 ELSE 0]
    /\ opened = [b \in Challenges \cup Ceremonies |-> 0]
    /\ proved = IF Enrolled THEN {1} ELSE {}

Beginning(p) == \/ BeginLogin(p) \/ BeginSecondFactor(p) \/ BeginPasskeySignIn(p) \/ BeginConfirm(p)
                \/ BeginDisable(p) \/ BeginReplaceCodes(p) \/ BeginRegister(p) \/ BeginRemove(p) \/ BeginAdd(p)

Verifying(p) == \/ Allow(p) \/ VerifyPassword(p) \/ ReadTOTP(p) \/ UseTOTPStep(p) \/ UseRecoveryCode(p)
                \/ ConsumeCeremony(p) \/ RejectRegistration(p) \/ RecordPasskeyUse(p) \/ CountFailure(p)
                \/ FailSignInChallenge(p) \/ ClearFailures(p)

Acting(p) == \/ LoggedIn(p) \/ ConsumeSignInChallenge(p) \/ IssueSignInSession(p) \/ RegistrationOptions(p)
             \/ ConfirmTOTP(p) \/ Decide(p) \/ DisableTwoFactor(p) \/ RemovePasskey(p)
             \/ ReadCodes(p) \/ ReplaceRecoveryCodes(p) \/ AddPasskey(p)

Next == \/ \E p \in Calls : Beginning(p) \/ Verifying(p) \/ Acting(p)
        \/ \E k \in Limited : Prune(k)
        \/ SecondFactorPasskeyOptions \/ PasskeySignInOptions \/ SaveTOTPEnrollment
        \/ ResetAdministratorTwoFactor \/ SetTwoFactorRequirement \/ Tick \/ Expire

Spec == Init /\ [][Next]_vars

(***************************************************************************)
(* Properties.                                                             *)
(***************************************************************************)
\* Every row and every call in flight has the shape the tables give it.
TypeOK ==
    /\ required \in BOOLEAN
    /\ totp \in [key : 0..keys, confirmed : BOOLEAN, step : 0..MaxClock + 1]
    /\ codes \subseteq {Shown("recovery", batch, i) : i \in Codes}
    /\ passkey \in [Passkeys -> [state : {"none", "held", "removed"}, count : 0..MaxCount]]
    /\ challenge \in [Challenges -> [state : {"none", "pending", "consumed", "expired"}, failed : 0..Attempts]]
    /\ ceremony \in [Ceremonies -> [state : {"none", "pending", "consumed", "expired"},
                                    purpose : Purposes, link : Challenges \cup {NoRow}]]
    /\ \A w \in Ceremonies : (ceremony[w].link # NoRow) <=> (ceremony[w].purpose = "second_factor")

\* "so a code works at most once" (UseTOTPStep): nothing that was shown is
\* accepted twice, whether a code, a recovery code, a passkey's counter or
\* the ceremony it answers, however calls that carry it overlap.
EvidenceWorksOnce == \A e \in Evidence : accepted[e] <= 1

\* A sign-in challenge or passkey ceremony opens one session, whatever
\* second factors are shown for it side by side.
OneSessionPerChallenge == \A b \in Challenges \cup Ceremonies : opened[b] <= 1

\* "the fifth ends the challenge" (FailSignInChallenge): a challenge with that
\* many wrong factors has opened no session and never will.
FailedOpensNothing == \A h \in Challenges : challenge[h].failed = Attempts => opened[h] = 0

\* The passkey prompt of one sign-in finishes no other: a ceremony that was
\* consumed for a sign-in is the one that sign-in was given.
CeremonyFinishesItsOwn ==
    \A p \in Calls : call[p].op = "second" /\ call[p].stage = "asserted" =>
        ceremony[call[p].by].link = call[p].on

\* The limiter may be passed by every call in flight at once, and by no more:
\* at most limit + calls - 1 failures stand in the window.
GuessesBounded ==
    \A k \in Limited : failures[k] <= Attempts + (IF Overlap THEN Cardinality(Calls) - 1 ELSE 0)

\* Recovery codes stand in for a factor, they never outlive the last one
\* (enforceRemainingFactorTx drops "the now-unneeded recovery codes").
CodesNeedFactor == codes # {} => HasSecondFactor

\* An own removal never takes the last factor while an organization requires
\* one (DisableTwoFactor, RemovePasskey); only an owner's reset may.
RequiredFactorRemains ==
    HasSecondFactor /\ ~HasSecondFactor' /\ required => UNCHANGED call

\* A confirmed authenticator key is one whose code was shown: ConfirmTOTP
\* confirms "a pending authenticator key with the time step of a valid code".
ConfirmedKeyWasProved == totp.confirmed => totp.key \in proved
=============================================================================
