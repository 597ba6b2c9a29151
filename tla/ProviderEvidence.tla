-------------------------- MODULE ProviderEvidence --------------------------
(***************************************************************************)
(* Attestation evidence that another party answers for: Turnstile, Play    *)
(* Integrity, Firebase App Check, and signed debug evidence                *)
(* (internal/attestation; the choice of a verifier and the access token    *)
(* for Google in internal/session/mobile_attestation.go; the exchange in   *)
(* coordinator.go and store.go).                                           *)
(*                                                                         *)
(* Challenges of one platform, whose selected provider is drawn at the     *)
(* start.  A token is what the provider gave the client; the call that     *)
(* carries it asks the provider, over a network that loses answers, and    *)
(* judges the answer by the time that has passed since.  Formats, keys and *)
(* signatures are external: every token in `minted' is genuine.            *)
(***************************************************************************)
EXTENDS Naturals, FiniteSets

CONSTANTS Calls, Challenges, None,
          Selections,   \* what a configuration may select for the platform
          MaxTokens,    \* bound: tokens a client obtains
          MaxTime,      \* bound: the clock
          Skew, MaximumAge, ResultLifetime, PolicyMaximumAge,
          MaximumAttempts, AccessLifetime

VARIABLES now, selection,
          issued,       \* when each challenge was issued, None before
          minted,       \* tokens of the provider
          redeemed,     \* Siteverify's record: token to idempotency key
          access,       \* the cached Google access token: its expiry as the cache
                        \* has it, and as Google means it
          gate,         \* the call that obtains an access token
          call,
          sessions      \* sessions opened

vars == <<now, selection, issued, minted, redeemed, access, gate, call, sessions>>

Providers == {"turnstile", "play_integrity", "firebase_app_check", "debug"}

\* What a native token says of the device: its rank (basic, device, strong)
\* and whether the answer is one the developer console made up for testing.
Verdicts == [rank : 1..3, testing : BOOLEAN]
Plain == [rank |-> 1, testing |-> FALSE]

NoCall == [step |-> "idle", challenge |-> None, token |-> None, attempt |-> 0,
           verifiedAt |-> 0, expiresAt |-> 0, level |-> None]

TypeOK ==
    /\ now \in 0..MaxTime
    /\ access \in [until : 0..(MaxTime + AccessLifetime), real : 0..(MaxTime + AccessLifetime)]
    /\ selection \in Selections /\ gate \in Calls \cup {None}
    /\ issued \in [Challenges -> 0..MaxTime \cup {None}]
    /\ \A t \in minted : t.at <= now /\ t.at < t.until /\ t.binding \in Challenges
    /\ \A k \in Calls : call[k].step \in
          {"idle", "read", "gate", "access", "sent", "answered", "verified", "refused", "failed"}
    /\ \A k \in Calls : gate = k => call[k].step = "gate"

-----------------------------------------------------------------------------
(* Clients and providers. *)

Tick ==
    /\ now < MaxTime /\ now' = now + 1
    /\ UNCHANGED <<selection, issued, minted, redeemed, access, gate, call, sessions>>

CreateChallenge(c) ==
    /\ issued[c] = None
    /\ issued' = [issued EXCEPT ![c] = now]
    /\ UNCHANGED <<now, selection, minted, redeemed, access, gate, call, sessions>>

\* The client obtains a token for the challenge; a native one comes with what
\* the platform says of the device.
Mint(c, verdict, life) ==
    /\ issued[c] # None /\ Cardinality(minted) < MaxTokens
    /\ selection.provider = "play_integrity" \/ verdict = Plain
    /\ \E token \in {[id |-> Cardinality(minted), binding |-> c, verdict |-> verdict,
                      at |-> now, until |-> now + life]} :
          minted' = minted \cup {token}
    /\ UNCHANGED <<now, selection, issued, redeemed, access, gate, call, sessions>>

-----------------------------------------------------------------------------
(* ExchangeSession up to the provider. *)

Demanded == IF selection.strong THEN "strong_device_verified" ELSE "device_verified"
Opened(c) == \E s \in sessions : s.challenge = c

\* buildMobileAttestationVerifier and NewDebugVerifier: a verifier exists only
\* for a selection that asks for what its provider can show, and test evidence
\* is kept out of the environments it is not meant for.
Buildable ==
    CASE selection.provider = "turnstile" -> selection.minimum = "web_risk_verified"
      [] selection.provider = "play_integrity" ->
            /\ selection.testing => selection.kind = "development"
            /\ selection.minimum = Demanded
      [] selection.provider = "firebase_app_check" ->
            selection.minimum = IF selection.web THEN "web_risk_verified" ELSE "app_verified"
      [] selection.provider = "debug" -> selection.kind # "production" \/ selection.dangerous

\* Every Verify makes an idempotency key of its own: what an earlier call of the
\* slot redeemed is under a key that no call has any more.
EarlierKey == <<None, 0>>
UnderKeyOf(k, key) == key # None /\ key[1] = k

BeginExchange(k, c, t) ==
    /\ call[k].step = "idle" /\ issued[c] # None /\ ~Opened(c)
    /\ call' = [call EXCEPT ![k] =
                  [NoCall EXCEPT !.step = IF Buildable THEN "read" ELSE "failed",
                                 !.challenge = c, !.token = t]]
    /\ redeemed' = [i \in DOMAIN redeemed |-> IF UnderKeyOf(k, redeemed[i]) THEN EarlierKey ELSE redeemed[i]]
    /\ UNCHANGED <<now, selection, issued, minted, access, gate, sessions>>

Ends(k, step) == call' = [call EXCEPT ![k].step = step]

\* A call that fails or is refused answers its client and is gone.
EndCall(k) ==
    /\ call[k].step \in {"refused", "failed"}
    /\ call' = [call EXCEPT ![k] = NoCall]
    /\ UNCHANGED <<now, selection, issued, minted, redeemed, access, gate, sessions>>

\* Slip: a key per attempt.
KeyPerAttempt(k) == <<k, call[k].attempt>>

\* Turnstile.  One idempotency key serves every attempt of a call.
IdempotencyKey(k) == <<k, 0>>

\* Siteverify, external: a token passes once, and again under the same key.
Passes(k) == redeemed[call[k].token.id] \in {None, IdempotencyKey(k)}
Redeems(k) == redeemed' = [redeemed EXCEPT ![call[k].token.id] =
                             IF Passes(k) THEN IdempotencyKey(k) ELSE @]

Answer(k) == Redeems(k) /\ Ends(k, IF Passes(k) THEN "answered" ELSE "refused")

\* The request was lost, or its answer was, or Siteverify failed.
Transient(k) ==
    /\ Redeems(k) \/ UNCHANGED redeemed
    /\ call' = [call EXCEPT ![k].attempt = @ + 1,
                  ![k].step = IF call[k].attempt + 1 = MaximumAttempts THEN "failed" ELSE "sent"]

Siteverify(k) ==
    /\ selection.provider = "turnstile" /\ call[k].step \in {"read", "sent"}
    /\ Answer(k) \/ Transient(k) \/ (Ends(k, "failed") /\ UNCHANGED redeemed)
    /\ UNCHANGED <<now, selection, issued, minted, access, gate, sessions>>

\* Play Integrity.  One call at a time obtains an access token, and not before
\* the cached one nears its expiry.
CachedUsable(at) == access.until > at + 1

EnterGate(k) ==
    /\ selection.provider = "play_integrity"
    /\ call[k].step = "read" /\ gate = None
    /\ gate' = k /\ call' = [call EXCEPT ![k].step = "gate", ![k].verifiedAt = now]
    /\ UNCHANGED <<now, selection, issued, minted, redeemed, access, sessions>>

\* Slip: the expiry is counted from the answer, not from the request.
AnchoredAtAnswer(at) == now + AccessLifetime

\* The answer only says how long the token lasts; its expiry is counted from
\* the time of the request.
AccessExpiry(at) == at + AccessLifetime

\* Google issued the token at some time between the request and its answer.
LoadToken(at) ==
    \E issue \in at..now :
        access' = [until |-> AccessExpiry(at), real |-> issue + AccessLifetime]

AccessToken(k) ==
    LET at == call[k].verifiedAt IN
    /\ call[k].step = "gate"
    /\ gate' = None
    /\ \/ CachedUsable(at) /\ Ends(k, "access") /\ UNCHANGED access
       \/ ~CachedUsable(at) /\ LoadToken(at) /\ Ends(k, "access")
       \/ ~CachedUsable(at) /\ Ends(k, "failed") /\ UNCHANGED access
    /\ UNCHANGED <<now, selection, issued, minted, redeemed, sessions>>

\* DecodeIntegrityToken: sent only with an access token that is still valid.
Decode(k) ==
    /\ call[k].step = "access"
    /\ Ends(k, "failed") \/ (access.until > now /\ Ends(k, "answered"))
    /\ UNCHANGED <<now, selection, issued, minted, redeemed, access, gate, sessions>>

\* Firebase evidence needs the keys of its issuer, which may have to be fetched,
\* and is judged by the clock as it was before; debug evidence needs nothing.
VerifyLocally(k) ==
    /\ selection.provider \in {"firebase_app_check", "debug"}
    /\ call[k].step = "read"
    /\ \/ call' = [call EXCEPT ![k].step = "answered", ![k].verifiedAt = now]
       \/ selection.provider = "firebase_app_check" /\ Ends(k, "failed")
    /\ UNCHANGED <<now, selection, issued, minted, redeemed, access, gate, sessions>>

-----------------------------------------------------------------------------
(* Judging the answer, at the time it is judged. *)

\* Not older than the limit, not of the future, not before the challenge.
Fresh(t, c) ==
    /\ t.at + MaximumAge >= now /\ t.at <= now + Skew
    /\ issued[c] <= t.at + Skew

ValidatePayload(t, c) ==
    /\ t.binding = c /\ Fresh(t, c)
    /\ t.verdict.rank >= IF selection.strong THEN 3 ELSE 2
    /\ t.verdict.testing => selection.testing

\* validateFirebaseAppCheckJWTDates.
DatesHold(t, at) == t.at <= at + Skew /\ t.until + Skew > at

\* Slip: what the token was made for is not looked at.
AcceptsAnyBinding(t, c, at) ==
    IF selection.provider = "firebase_app_check" THEN DatesHold(t, at) ELSE Fresh(t, c)

Accepts(t, c, at) ==
    CASE selection.provider = "turnstile" -> Fresh(t, c) /\ t.binding = c
      [] selection.provider = "play_integrity" -> ValidatePayload(t, c)
      [] selection.provider = "firebase_app_check" -> DatesHold(t, at)
      [] selection.provider = "debug" ->
            t.binding = c /\ t.until + Skew > now /\ t.until <= now + ResultLifetime

\* Slip: a testing answer counts like any other.
TrustLevelOfRank(t) == IF t.verdict.rank = 3 THEN "strong_device_verified" ELSE "device_verified"

\* The trust a result claims.
TrustLevel(t) ==
    CASE selection.provider = "turnstile" -> "web_risk_verified"
      [] selection.provider = "play_integrity" ->
            IF t.verdict.testing THEN "debug"
            ELSE IF t.verdict.rank = 3 THEN "strong_device_verified" ELSE "device_verified"
      [] selection.provider = "firebase_app_check" ->
            IF selection.web THEN "web_risk_verified" ELSE "app_verified"
      [] selection.provider = "debug" -> "debug"

\* Slip: a result always lasts its configured lifetime.
LifetimeOnly(t, at) == at + ResultLifetime

\* A result does not outlast the token it comes from, where that has an expiry.
ExpiresAt(t, at) ==
    CASE selection.provider = "debug" -> t.until
      [] selection.provider = "firebase_app_check" /\ t.until < at + ResultLifetime -> t.until
      [] OTHER -> at + ResultLifetime

Judge(k) ==
    LET t == call[k].token
        c == call[k].challenge
        at == IF selection.provider = "firebase_app_check" THEN call[k].verifiedAt ELSE now IN
    /\ call[k].step = "answered"
    /\ IF Accepts(t, c, at) /\ ExpiresAt(t, at) > at
       THEN call' = [call EXCEPT ![k].step = "verified", ![k].verifiedAt = at,
                        ![k].expiresAt = ExpiresAt(t, at), ![k].level = TrustLevel(t)]
       ELSE Ends(k, "refused")
    /\ UNCHANGED <<now, selection, issued, minted, redeemed, access, gate, sessions>>

-----------------------------------------------------------------------------
(* The session. *)

TrustRank(level) == CASE level = "web_risk_verified" -> 2 [] level = "app_verified" -> 3
                      [] level = "device_verified" -> 4 [] level = "strong_device_verified" -> 5

\* Debug evidence stands outside the order of trust.
TrustSatisfies(actual, minimum) ==
    IF actual = "debug" \/ minimum = "debug" THEN actual = minimum
    ELSE TrustRank(actual) >= TrustRank(minimum)

\* A testing answer of Play Integrity is debug evidence that a development
\* configuration may accept in place of what it asks for.
TrustSatisfiesSelection(level) ==
    IF selection.provider = "play_integrity" /\ level = "debug"
    THEN selection.kind = "development" /\ selection.testing /\ selection.minimum = Demanded
    ELSE TrustSatisfies(level, selection.minimum)

\* Exchange, from the validated snapshot of the result to the commit.
Exchange(k) ==
    LET c == call[k].challenge IN
    /\ call[k].step = "verified"
    /\ IF /\ call[k].expiresAt > now /\ call[k].verifiedAt + PolicyMaximumAge > now
          /\ TrustSatisfiesSelection(call[k].level) /\ ~Opened(c)
       THEN /\ sessions' = sessions \cup {[challenge |-> c, token |-> call[k].token,
                                           level |-> call[k].level, at |-> now,
                                           expiresAt |-> call[k].expiresAt]}
            /\ call' = [call EXCEPT ![k] = NoCall]
       ELSE Ends(k, "refused") /\ UNCHANGED sessions
    /\ UNCHANGED <<now, selection, issued, minted, redeemed, access, gate>>

-----------------------------------------------------------------------------
Init ==
    /\ now = 0 /\ selection \in Selections
    /\ issued = [c \in Challenges |-> None] /\ minted = {}
    /\ redeemed = [i \in 0..(MaxTokens - 1) |-> None]
    /\ access = [until |-> 0, real |-> 0] /\ gate = None
    /\ call = [k \in Calls |-> NoCall] /\ sessions = {}

Next ==
    \/ Tick
    \/ \E c \in Challenges :
          \/ CreateChallenge(c)
          \/ \E verdict \in Verdicts, life \in {1, MaximumAge} : Mint(c, verdict, life)
    \/ \E k \in Calls :
          \/ \E c \in Challenges, t \in minted : BeginExchange(k, c, t)
          \/ Siteverify(k) \/ EnterGate(k) \/ AccessToken(k) \/ Decode(k)
          \/ VerifyLocally(k) \/ Judge(k) \/ Exchange(k) \/ EndCall(k)

Spec == Init /\ [][Next]_vars

-----------------------------------------------------------------------------
(* Properties. *)

\* A session rests on evidence made for its own challenge and after it was
\* issued, unless the provider cannot say what it was made for (App Check).
EvidenceIsForSession ==
    \A s \in sessions : selection.provider # "firebase_app_check" =>
        s.token.binding = s.challenge /\ s.token.at >= issued[s.challenge]

\* However long the provider took, a session is opened within the limits of
\* its evidence, and its trust does not outlast a token that has an expiry.
EvidenceInTime ==
    \A s \in sessions :
        /\ s.at < s.expiresAt
        /\ selection.provider \in {"firebase_app_check", "debug"} => s.expiresAt <= s.token.until
        /\ selection.provider \in {"turnstile", "play_integrity"} =>
              s.at < s.token.at + MaximumAge + ResultLifetime

\* Whatever a configuration selects, test evidence opens no session in
\* production unless the danger was accepted, testing answers none outside
\* development, and no other session has less trust than is asked for.
TrustIsEarned ==
    \A s \in sessions :
        /\ s.level = "debug" => selection.kind # "production" \/ selection.dangerous
        /\ s.token.verdict.testing => s.level = "debug" /\ selection.kind = "development"
        /\ s.level = "strong_device_verified" => s.token.verdict.rank = 3
        /\ s.level # "debug" => TrustRank(s.level) >= TrustRank(selection.minimum)

\* The cache never holds an access token for longer than Google honours it.
AccessNotOverstayed == access.until <= access.real

\* A client whose token was redeemed by its own call is not told that the
\* token was used: a lost answer costs an attempt, not the token.
OwnRetryPasses ==
    \A k \in Calls : call[k].step = "refused" /\ selection.provider = "turnstile" =>
        \/ redeemed[call[k].token.id] = IdempotencyKey(k)
        \/ redeemed[call[k].token.id][1] # k
=============================================================================
