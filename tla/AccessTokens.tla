---------------------------- MODULE AccessTokens ----------------------------
(***************************************************************************)
(* The credentials a client's request carries: access tokens and the keys  *)
(* that sign them (internal/session/signing.go, token.go), the proof of    *)
(* possession with its replay store (internal/dpop, session/replay.go) and *)
(* the authorization of the request (session/authorization.go).            *)
(*                                                                         *)
(* Two specifications share the clock.  In the first, replicas select,     *)
(* rotate and retire signing keys and issue tokens; each reads the clock   *)
(* before it waits for the lock.  In the second, requests prove possession *)
(* and are authorized, while tokens are renewed, the session is revoked    *)
(* and an administrator replaces the user's limit plan.                    *)
(***************************************************************************)
EXTENDS Integers, FiniteSets

CONSTANTS Calls, None,
          MaxTime,      \* bound: the clock
          MaxKeys,      \* bound: signing keys ever created
          KeyLifetime, RotationLead, Lifetime, Skew,
          Proofs, MaxAge, Retention,
          MaxTokens     \* bound: access tokens of the session

VARIABLES now,
          keys,         \* gateway_signing_keys
          tokens,       \* access tokens that were issued
          call,         \* a selection of the active key, with its issuance
          issuedAt,     \* when each proof says it was made
          replay,       \* dpop_replay_entries: the expiry of each proof's entry
          grant,        \* the session: its present token, and whether it is revoked
          override,     \* the user's limit-plan override, in force or none
          request, accepted

keyVars == <<now, keys, tokens, call>>
requestVars == <<now, issuedAt, replay, grant, override, request, accepted>>

Tick == now < MaxTime /\ now' = now + 1

-----------------------------------------------------------------------------
(* Signing keys. *)

KeyIds == 1..MaxKeys
NoKey == [status |-> "none", from |-> 0, until |-> 0]
NoCall == [step |-> "idle", began |-> 0, key |-> 0]

ActiveKeys == {i \in KeyIds : keys[i].status = "active"}

\* Slip: the key is used to its last moment.
UsableToTheEnd(i, at) == keys[i].until > at /\ keys[i].from <= at

\* A key is rotated ahead of its end, by more than the lifetime of a token.
Usable(i, at) == keys[i].until > at + RotationLead /\ keys[i].from <= at

NextKey(ks) == CHOOSE i \in KeyIds : ks[i].status = "none" /\ \A j \in 1..(i - 1) : ks[j].status # "none"

\* create: valid from a little before the clock that was read.
Create(ks, at) ==
    [ks EXCEPT ![NextKey(ks)] = [status |-> "active", from |-> at - 1, until |-> at + KeyLifetime]]

Retire(ks, ids) == [i \in KeyIds |-> IF i \in ids THEN [ks[i] EXCEPT !.status = "retiring"] ELSE ks[i]]

\* Active, before the advisory lock.
Active(k) ==
    /\ call[k].step = "idle"
    /\ call' = [call EXCEPT ![k] = [step |-> "selecting", began |-> now, key |-> 0]]
    /\ UNCHANGED <<now, keys, tokens>>

\* Under the lock: the active key, or a new one in its place.
SelectKey(k) ==
    /\ call[k].step = "selecting"
    /\ \/ \E i \in ActiveKeys :
             /\ Usable(i, call[k].began)
             /\ call' = [call EXCEPT ![k].step = "prepared", ![k].key = i]
             /\ UNCHANGED keys
       \/ /\ \A i \in ActiveKeys : ~Usable(i, call[k].began)
          /\ keys[MaxKeys].status = "none"
          /\ keys' = Create(Retire(keys, ActiveKeys), call[k].began)
          /\ call' = [call EXCEPT ![k].step = "prepared", ![k].key = NextKey(keys)]
    /\ UNCHANGED <<now, tokens>>

\* Slip: a token may outlive the key that signed it.
SignsWhileValid(i, expires) == now <= keys[i].until

Signs(i, expires) == now >= keys[i].from - Skew /\ expires <= keys[i].until

\* IssueFor, with the key prepared before the caller opened its transaction.
IssueFor(k) ==
    LET expires == now + Lifetime IN
    /\ call[k].step = "prepared"
    /\ IF Signs(call[k].key, expires)
       THEN /\ tokens' = tokens \cup {[key |-> call[k].key, expires |-> expires]}
            /\ call' = [call EXCEPT ![k] = NoCall]
       ELSE /\ call' = [call EXCEPT ![k].step = "unavailable"]
            /\ UNCHANGED tokens
    /\ UNCHANGED <<now, keys>>

EndCall(k) ==
    /\ call[k].step = "unavailable"
    /\ call' = [call EXCEPT ![k] = NoCall]
    /\ UNCHANGED <<now, keys, tokens>>

\* The second half of MaintainSigningKeys; the first is Active.
RetireExpired ==
    /\ keys' = [i \in KeyIds |-> IF keys[i].status = "retiring" /\ keys[i].until <= now
                                 THEN [keys[i] EXCEPT !.status = "retired"] ELSE keys[i]]
    /\ UNCHANGED <<now, tokens, call>>

\* PublicKey, and what PublicJWKS shows to the others.
PublicKeys == {i \in KeyIds : keys[i].status \in {"active", "retiring"} /\ keys[i].from <= now /\ now < keys[i].until}

KeysInit ==
    /\ now = 0 /\ keys = [i \in KeyIds |-> NoKey] /\ tokens = {} /\ call = [k \in Calls |-> NoCall]

KeysNext ==
    \/ Tick /\ UNCHANGED <<keys, tokens, call>>
    \/ RetireExpired
    \/ \E k \in Calls : Active(k) \/ SelectKey(k) \/ IssueFor(k) \/ EndCall(k)

-----------------------------------------------------------------------------
(* Properties of the keys. *)

KeysTypeOK ==
    /\ now \in 0..MaxTime
    /\ keys \in [KeyIds -> [status : {"none", "active", "retiring", "retired"},
                            from : -1..MaxTime, until : 0..(MaxTime + KeyLifetime)]]
    /\ tokens \subseteq [key : KeyIds, expires : 0..(MaxTime + Lifetime)]
    /\ Cardinality(ActiveKeys) <= 1

\* Every access token can be verified until it expires, through rotations,
\* retirements and selections that used a clock read long before.
TokensVerify == \A t \in tokens : now < t.expires => t.key \in PublicKeys

\* A token is refused for want of a key only when its caller waited longer,
\* between the selection of the key and the signature, than the lead of the
\* rotation exceeds the lifetime of a token.
PreparedKeyLasts ==
    \A k \in Calls : call[k].step = "unavailable" => now - call[k].began >= RotationLead - Lifetime

-----------------------------------------------------------------------------
(* Requests.  A proof is made once and may be presented again. *)

Idle == [step |-> "idle", token |-> 0, proof |-> None, began |-> 0, override |-> None]
Locking == {k \in Calls : request[k].step \in {"locked", "loaded"}}

\* Slip: the window of a proof is measured from one side only.
InWindowOnce(proof) == now <= issuedAt[proof] + MaxAge + Skew

\* dpop.Validate: not from the future and not too old, by the leeway on both sides.
InWindow(proof) == issuedAt[proof] <= now + Skew /\ now <= issuedAt[proof] + MaxAge + Skew

MakeProof(proof, at) ==
    /\ issuedAt[proof] = None
    /\ issuedAt' = [issuedAt EXCEPT ![proof] = at]
    /\ UNCHANGED <<now, replay, grant, override, request, accepted>>

\* Verify and the checks before the transaction; the clock is read here.
Present(k, token, proof) ==
    /\ request[k].step = "idle" /\ issuedAt[proof] # None /\ InWindow(proof)
    /\ request' = [request EXCEPT ![k] = [Idle EXCEPT !.step = "presented", !.token = token,
                                                      !.proof = proof, !.began = now]]
    /\ UNCHANGED <<now, issuedAt, replay, grant, override, accepted>>

\* authorizationMatchesPrincipal: the token is the session's present one.
Bound(k) == ~grant.revoked /\ request[k].token = grant.token

\* The share locks: scope, installation, user and grant.
LockAccess(k) ==
    /\ request[k].step = "presented"
    /\ request' = [request EXCEPT ![k].step = IF Bound(k) THEN "locked" ELSE "refused"]
    /\ UNCHANGED <<now, issuedAt, replay, grant, override, accepted>>

\* loadAuthorizationState, with loadActiveUserOverride as a statement of its own.
LoadOverride(k) ==
    /\ request[k].step = "locked"
    /\ request' = [request EXCEPT ![k].step = "loaded", ![k].override = override]
    /\ UNCHANGED <<now, issuedAt, replay, grant, override, accepted>>

\* accept: the entry is inserted unless there is one, with its own reading of
\* the clock, and commits with the request.
Accept(k) ==
    LET proof == request[k].proof IN
    /\ request[k].step = "loaded"
    /\ IF replay[proof] = None
       THEN /\ replay' = [replay EXCEPT ![proof] = now + Retention]
            /\ request' = [request EXCEPT ![k].step = "authorized"]
            /\ accepted' = [accepted EXCEPT ![proof] = @ + 1]
       ELSE /\ request' = [request EXCEPT ![k].step = "refused"]
            /\ UNCHANGED <<replay, accepted>>
    /\ UNCHANGED <<now, issuedAt, grant, override>>

EndRequest(k) ==
    /\ request[k].step \in {"authorized", "refused"}
    /\ request' = [request EXCEPT ![k] = Idle]
    /\ UNCHANGED <<now, issuedAt, replay, grant, override, accepted>>

\* Slip: entries are swept before their time.
ExpiredEarly(proof) == replay[proof] # None /\ replay[proof] <= now + 1

Expired(proof) == replay[proof] # None /\ replay[proof] <= now

DeleteExpired ==
    /\ \E proof \in Proofs : Expired(proof)
    /\ replay' = [proof \in Proofs |-> IF Expired(proof) THEN None ELSE replay[proof]]
    /\ UNCHANGED <<now, issuedAt, grant, override, request, accepted>>

\* Slip: the writer does not wait for requests under way.
WritesAnyhow == TRUE

\* Writers of the user, the grant and the override wait for share locks.
Unlocked == Locking = {}

RenewToken ==
    /\ Unlocked /\ ~grant.revoked /\ grant.token < MaxTokens
    /\ grant' = [grant EXCEPT !.token = @ + 1]
    /\ UNCHANGED <<now, issuedAt, replay, override, request, accepted>>

RevokeSession ==
    /\ Unlocked
    /\ grant' = [grant EXCEPT !.revoked = TRUE]
    /\ UNCHANGED <<now, issuedAt, replay, override, request, accepted>>

ReplaceOverride(plan) ==
    /\ Unlocked /\ override' = plan
    /\ UNCHANGED <<now, issuedAt, replay, grant, request, accepted>>

RequestsInit ==
    /\ now = 0 /\ issuedAt = [proof \in Proofs |-> None] /\ replay = [proof \in Proofs |-> None]
    /\ grant = [token |-> 1, revoked |-> FALSE] /\ override = None
    /\ request = [k \in Calls |-> Idle] /\ accepted = [proof \in Proofs |-> 0]

RequestsNext ==
    \/ Tick /\ UNCHANGED <<issuedAt, replay, grant, override, request, accepted>>
    \/ DeleteExpired \/ RenewToken \/ RevokeSession
    \/ \E plan \in {"plan", None} : ReplaceOverride(plan)
    \/ \E proof \in Proofs, at \in 0..(MaxTime + Skew) : MakeProof(proof, at)
    \/ \E k \in Calls :
          \/ \E token \in 1..grant.token, proof \in Proofs : Present(k, token, proof)
          \/ LockAccess(k) \/ LoadOverride(k) \/ Accept(k) \/ EndRequest(k)

-----------------------------------------------------------------------------
(* Properties of the requests. *)

RequestsTypeOK ==
    /\ now \in 0..MaxTime /\ grant.token \in 1..MaxTokens
    /\ \A proof \in Proofs : replay[proof] # None => issuedAt[proof] # None /\ accepted[proof] > 0

\* A proof is accepted once.  The entry is kept for longer than the proof can
\* be valid, counting the leeway on both sides; only a request that waited for
\* the difference, after its proof was looked at, finds the entry gone.
AcceptedOnce ==
    \A k \in Calls : request[k].step = "loaded" /\ request'[k].step = "authorized" =>
        \/ accepted[request[k].proof] = 0
        \/ now - request[k].began >= Retention - (MaxAge + 2 * Skew)

\* A request is authorized by the token and with the override in force when it
\* commits: renewals, revocations and override changes wait for it.
AuthorizedAsItStands ==
    \A k \in Calls : request[k].step = "loaded" /\ request'[k].step = "authorized" =>
        /\ request[k].token = grant.token /\ ~grant.revoked
        /\ request[k].override = override
=============================================================================
