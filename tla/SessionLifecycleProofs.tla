----------------------- MODULE SessionLifecycleProofs -----------------------
(***************************************************************************)
(* Proofs about SessionLifecycle: SessionsAreExclusive is an invariant for *)
(* any number of calls, challenges and sessions, any levels of trust and   *)
(* any lifetimes; the access tokens and the proofs that present them, and  *)
(* the administrator's operations on sessions, each as a component of its  *)
(* own.                                                                    *)
(***************************************************************************)
EXTENDS SessionLifecycle, Integers, FiniteSetTheorems, TLAPS

(* The inductive invariant. *)

Usables == {"active", "provisioning"}

\* What a session's row says by itself: a row that is not written yet holds
\* nothing, whatever can still be used was made since the last disable, and a
\* token that can be refreshed has had a grant.
RowGood(r, e) ==
    /\ r.status = "none" => r.token = "none" /\ r.grant = "none" /\ r.from = 0
    /\ r.grant = "live" \/ r.token \in Usables => r.era = e
    /\ r.token = "active" => r.grant # "none"
    /\ r.status # "none" => r.trust \in TrustLevels

\* The challenge a session was bought with is spent.
RowPaid(r, ch) == r.from # 0 => ch[r.from].status \in {"consumed", "deleted"}

\* A revoked installation has no live grant.
RowClosed(r, i) == i.status = "revoked" => r.grant # "live"

\* The child's session stays within the delegation.
RowWithin(r, d) ==
    r.of = "child" /\ r.status = "active" => r.tokenUntil <= d.until /\ r.trust <= d.trust

ScopeInv ==
    /\ clock \in 0..MaxTime /\ scope \in {"active", "disabled"} /\ era \in 0..MaxEra
    /\ revision \in 1..MaxRevision

OwnersInv == installation \in InstallationRow /\ family \in {"none", "active", "revoked"}

SessionsInv ==
    /\ session \in [Sessions -> SessionRow]
    /\ OneActiveSession /\ ChallengeBuysOnce
    /\ \A s \in Sessions : /\ RowGood(session[s], era) /\ RowPaid(session[s], challenge)
                           /\ RowClosed(session[s], installation)
                           /\ RowWithin(session[s], delegation)

\* A delegation lasts no longer than the evidence behind it, nor the child's
\* trust longer than the delegation.
DelegationInv ==
    /\ component \in [Components -> ComponentRow]
    /\ delegation \in DelegationRow
    /\ delegation.until <= delegation.attested
    /\ component["child"].until <= delegation.until
    /\ delegation.status = "open" => delegation.trust \in TrustLevels

ChallengesInv ==
    /\ challenge \in [Challenges -> ChallengeRow]
    /\ \A i \in Challenges : challenge[i].status = "open" => challenge[i].era = era

\* What a call was begun with; the lock of a scope keeps it from being disabled.
CallGood(r, e) ==
    /\ r.op \in {"exchange", "stepUp"} => r.arg \in Challenges /\ r.trust \in TrustLevels
    /\ r.op \in {"provision", "redeem", "stepUpChallenge"} => r.arg \in Sessions
    /\ r.pc = "locked" => r.era = e

CallsInv == call \in [Callers -> CallRow] /\ \A c \in Callers : CallGood(call[c], era)

LifecycleInv ==
    ScopeInv /\ OwnersInv /\ SessionsInv /\ DelegationInv /\ ChallengesInv /\ CallsInv

\* Under the invariant the properties hold.
LEMMA InvIsExclusive == LifecycleInv => SessionsAreExclusive
<1> SUFFICES ASSUME LifecycleInv PROVE SessionsAreExclusive
  OBVIOUS
<1> USE DEF LifecycleInv
<1>1. TypeOK
  BY DEF TypeOK, ScopeInv, OwnersInv, SessionsInv, DelegationInv, ChallengesInv, CallsInv, RowGood
<1>2. OneActiveSession /\ ChallengeBuysOnce
  BY DEF SessionsInv
<1>3. \A s \in Sessions : RowGood(session[s], era) /\ RowClosed(session[s], installation)
  BY DEF SessionsInv
<1>4. NothingRevived
  BY <1>3 DEF NothingRevived, Usable, Admitted, Refreshable, Redeemable, RowGood, Usables,
              ChallengesInv
<1>5. RevokedIsClosed
  <2> SUFFICES ASSUME "revoked" \in {installation.status, family}, NEW s \in Sessions
               PROVE  /\ ~Admitted(s) /\ ~Refreshable(s)
                      /\ ~(installation.status = "active" /\ Redeemable(s, clock, revision))
    BY DEF RevokedIsClosed
  <2>1. CASE family = "revoked"
    BY <2>1 DEF Admitted, Refreshable, Redeemable, Open
  <2>2. CASE installation.status = "revoked"
    <3>1. session[s].grant # "live" /\ session[s].grant \in {"none", "live", "revoked"}
      BY <2>2, <1>3, <1>1 DEF RowClosed, TypeOK, SessionRow
    <3> QED BY <2>2, <3>1, <1>3 DEF Admitted, Refreshable, RowGood
  <2> QED BY <2>1, <2>2
<1>6. DelegationBounds
  BY DEF DelegationBounds, SessionsInv, RowWithin, DelegationInv
<1> QED BY <1>1, <1>2, <1>4, <1>5, <1>6 DEF SessionsAreExclusive

-----------------------------------------------------------------------------
(* Helpers. *)

LEMMA Bounds ==
    /\ \A t \in TrustLevels : t \in Nat
    /\ Trust \subseteq Nat /\ TrustLevels \subseteq Trust /\ 0 \in Trust
    /\ ChallengeTTL \in Nat /\ AccessLifetime \in Nat /\ RefreshLifetime \in Nat
    /\ AttestationLifetime \in Nat /\ DelegationLifetime \in Nat /\ Retention \in Nat
    /\ MaxChallenges \in Nat /\ MaxSessions \in Nat /\ MaxEra \in Nat /\ MaxTime \in Nat
    /\ MaxKeys \in Nat /\ MaxKeys > 0 /\ MaxRevision \in Nat /\ MaxRevision > 0
BY LifecycleBounds DEF Trust

\* The least of two numbers, and of four.
LEMMA LeastOfTwo ==
    ASSUME NEW a \in Nat, NEW b \in Nat
    PROVE  /\ Least({a, b}) \in {a, b}
           /\ Least({a, b}) <= a /\ Least({a, b}) <= b
<1>1. \E x \in {a, b} : \A y \in {a, b} : x <= y
  OBVIOUS
<1> QED BY <1>1 DEF Least

LEMMA LeastOfFour ==
    ASSUME NEW a \in Nat, NEW b \in Nat, NEW c \in Nat, NEW d \in Nat
    PROVE  /\ Least({a, b, c, d}) \in Nat
           /\ Least({a, b, c, d}) <= a /\ Least({a, b, c, d}) <= b
           /\ Least({a, b, c, d}) <= c /\ Least({a, b, c, d}) <= d
<1> DEFINE S == {a, b, c, d}
           m == Least({Least({a, b}), Least({c, d})})
<1>1. Least({a, b}) \in {a, b} /\ Least({a, b}) <= a /\ Least({a, b}) <= b
  BY LeastOfTwo
<1>2. Least({c, d}) \in {c, d} /\ Least({c, d}) <= c /\ Least({c, d}) <= d
  BY LeastOfTwo
<1>3. Least({a, b}) \in Nat /\ Least({c, d}) \in Nat
  BY <1>1, <1>2
<1>4. m \in {Least({a, b}), Least({c, d})} /\ m <= Least({a, b}) /\ m <= Least({c, d})
  BY <1>3, LeastOfTwo
<1>5. m \in Nat /\ m <= a /\ m <= b /\ m <= c /\ m <= d /\ m \in S
  BY <1>1, <1>2, <1>3, <1>4
<1> HIDE DEF m
<1>6. \E x \in S : \A y \in S : x <= y
  BY <1>5
<1>7. Least(S) \in S /\ \A y \in S : Least(S) <= y
  BY <1>6 DEF Least
<1> QED BY <1>7

LEMMA EmptyRows ==
    /\ NoChallenge \in ChallengeRow /\ NoComponent \in ComponentRow
    /\ NoDelegation \in DelegationRow /\ NoSession \in SessionRow
    /\ NoCall \in CallRow /\ \A e : CallGood(NoCall, e)
<1>1. NoChallenge \in ChallengeRow
  BY Bounds DEF NoChallenge, ChallengeRow, Components
<1>2. NoComponent \in ComponentRow
  BY Bounds DEF NoComponent, ComponentRow
<1>3. NoDelegation \in DelegationRow
  BY Bounds DEF NoDelegation, DelegationRow
<1>4. NoSession \in SessionRow
  BY Bounds DEF NoSession, SessionRow, Components
<1>5. NoCall \in CallRow
  BY Bounds DEF NoCall, CallRow, Operations
<1>6. \A e : CallGood(NoCall, e)
  BY DEF CallGood, NoCall
<1> QED BY <1>1, <1>2, <1>3, <1>4, <1>5, <1>6

LEMMA InitInv == Init => LifecycleInv
<1> SUFFICES ASSUME Init PROVE LifecycleInv
  OBVIOUS
<1>1. ScopeInv /\ OwnersInv
  BY Bounds DEF Init, ScopeInv, OwnersInv, InstallationRow
<1>2. SessionsInv
  BY EmptyRows DEF Init, SessionsInv, OneActiveSession, ChallengeBuysOnce, RowGood, RowPaid,
         RowClosed, RowWithin, NoSession, Usables
<1>3. DelegationInv
  <2>1. component["child"] = NoComponent /\ component \in [Components -> ComponentRow]
    BY EmptyRows DEF Init, Components
  <2> QED BY <2>1, EmptyRows DEF Init, DelegationInv, NoComponent, NoDelegation
<1>4. ChallengesInv
  BY EmptyRows DEF Init, ChallengesInv, NoChallenge
<1>5. CallsInv
  BY EmptyRows DEF Init, CallsInv
<1> QED BY <1>1, <1>2, <1>3, <1>4, <1>5 DEF LifecycleInv

-----------------------------------------------------------------------------
(* Changes of the sessions' rows. *)

\* q is r, or r with its status, token or grant ended.
Weaker(r, q) ==
    /\ q.of = r.of /\ q.era = r.era /\ q.from = r.from /\ q.trust = r.trust
    /\ q.tokenUntil = r.tokenUntil
    /\ q.status = r.status \/ (r.status = "active" /\ q.status \in {"replaced", "revoked"})
    /\ q.token = r.token \/ (r.token \in Usables /\ q.token = "revoked")
    /\ q.grant = r.grant \/ (r.grant = "live" /\ q.grant = "revoked")

LEMMA WeakerGood ==
    ASSUME NEW r \in SessionRow, NEW q \in SessionRow, Weaker(r, q)
    PROVE  /\ q.from = r.from /\ q.of = r.of /\ (q.status = "active" => r.status = "active")
           /\ r.status = "none" => q.status = "none"
           /\ \A e : RowGood(r, e) => RowGood(q, e)
           /\ \A ch : RowPaid(r, ch) => RowPaid(q, ch)
           /\ \A i : RowClosed(r, i) => RowClosed(q, i)
           /\ \A d : RowWithin(r, d) => RowWithin(q, d)
<1>1. /\ q.from = r.from /\ q.of = r.of /\ (q.status = "active" => r.status = "active")
      /\ r.status = "none" => q.status = "none"
  BY DEF Weaker
<1>2. ASSUME NEW e, RowGood(r, e) PROVE RowGood(q, e)
  BY <1>2 DEF Weaker, RowGood, Usables
<1>3. ASSUME NEW i, RowClosed(r, i) PROVE RowClosed(q, i)
  BY <1>3 DEF Weaker, RowClosed
<1>4. ASSUME NEW d, RowWithin(r, d) PROVE RowWithin(q, d)
  BY <1>4 DEF Weaker, RowWithin
<1>5. ASSUME NEW ch, RowPaid(r, ch) PROVE RowPaid(q, ch)
  BY <1>5 DEF Weaker, RowPaid
<1> QED BY <1>1, <1>2, <1>3, <1>4, <1>5

\* Spent challenges stay spent.
SpentStays ==
    \A i \in Challenges : challenge[i].status \in {"consumed", "deleted"} =>
        challenge'[i].status \in {"consumed", "deleted"}

\* The installation is not revoked, or was already.
NotRevoked == installation'.status = "revoked" => installation.status = "revoked"

\* Steps that end sessions and begin none.
LEMMA SessionsEnd ==
    ASSUME LifecycleInv, session' \in [Sessions -> SessionRow],
           \A s \in Sessions : Weaker(session[s], session'[s]),
           SpentStays,
           era' = era \/ \A s \in Sessions : session'[s].grant # "live" /\ session'[s].token \notin Usables,
           NotRevoked \/ \A s \in Sessions : session'[s].grant # "live",
           delegation'.until = delegation.until, delegation'.trust = delegation.trust
    PROVE  SessionsInv'
<1> USE DEF LifecycleInv
<1>1. \A s \in Sessions : session[s] \in SessionRow /\ session'[s] \in SessionRow
  BY DEF SessionsInv
<1>2. \A s \in Sessions : /\ session'[s].from = session[s].from /\ session'[s].of = session[s].of
                          /\ session'[s].status = "active" => session[s].status = "active"
  BY <1>1, WeakerGood
<1>3. OneActiveSession'
  BY <1>2 DEF SessionsInv, OneActiveSession
<1>4. ChallengeBuysOnce'
  BY <1>2 DEF SessionsInv, ChallengeBuysOnce
<1>5. ASSUME NEW s \in Sessions
      PROVE  /\ RowGood(session[s], era) => RowGood(session'[s], era)
             /\ RowPaid(session[s], challenge) => RowPaid(session'[s], challenge)
             /\ RowClosed(session[s], installation) => RowClosed(session'[s], installation)
             /\ RowWithin(session[s], delegation) => RowWithin(session'[s], delegation)
  BY <1>1, WeakerGood
<1>6. ASSUME NEW s \in Sessions
      PROVE  /\ RowGood(session'[s], era) /\ RowPaid(session'[s], challenge)
             /\ RowClosed(session'[s], installation) /\ RowWithin(session'[s], delegation)
  BY <1>5 DEF SessionsInv
<1>7. ASSUME NEW s \in Sessions
      PROVE  /\ RowGood(session'[s], era') /\ RowPaid(session'[s], challenge')
             /\ RowClosed(session'[s], installation') /\ RowWithin(session'[s], delegation')
  <2>1. RowGood(session'[s], era')
    BY <1>6 DEF RowGood
  <2>2. session'[s].from = 0 \/ session'[s].from \in Challenges
    BY <1>1 DEF SessionRow
  <2>3. RowPaid(session'[s], challenge')
    BY <1>6, <2>2 DEF RowPaid, SpentStays
  <2>4. RowClosed(session'[s], installation')
    BY <1>6 DEF RowClosed, NotRevoked
  <2>5. RowWithin(session'[s], delegation')
    BY <1>6 DEF RowWithin
  <2> QED BY <2>1, <2>3, <2>4, <2>5
<1> QED BY <1>3, <1>4, <1>7 DEF SessionsInv

\* Steps that begin a session and end those it replaces.
LEMMA SessionBegins ==
    ASSUME LifecycleInv, NEW n \in Sessions, session[n].status = "none",
           NEW kept \in [Sessions -> SessionRow], \A s \in Sessions : Weaker(session[s], kept[s]),
           NEW q \in SessionRow, session' = [kept EXCEPT ![n] = q],
           \A s \in Sessions : kept[s].of = q.of => kept[s].status # "active",
           SpentStays, era' = era, NotRevoked,
           \/ q.of = "child"
           \/ delegation'.until = delegation.until /\ delegation'.trust = delegation.trust,
           RowGood(q, era), RowPaid(q, challenge'), RowClosed(q, installation'),
           RowWithin(q, delegation'),
           q.from # 0 => challenge[q.from].status = "open"
    PROVE  SessionsInv'
<1> USE DEF LifecycleInv
<1>1. \A s \in Sessions : session[s] \in SessionRow /\ kept[s] \in SessionRow
  BY DEF SessionsInv
<1>2. session' \in [Sessions -> SessionRow] /\ session'[n] = q
  OBVIOUS
<1>3. \A s \in Sessions : s # n => session'[s] = kept[s]
  OBVIOUS
<1>4. \A s \in Sessions : /\ kept[s].from = session[s].from /\ kept[s].of = session[s].of
                          /\ kept[s].status = "active" => session[s].status = "active"
  BY <1>1, WeakerGood
<1>5. OneActiveSession'
  <2> SUFFICES ASSUME NEW s \in Sessions, NEW t \in Sessions, session'[s].status = "active",
                      session'[t].status = "active", session'[s].of = session'[t].of
               PROVE  s = t
    BY DEF OneActiveSession
  <2>1. CASE s = n \/ t = n
    BY <2>1, <1>2, <1>3
  <2>2. CASE s # n /\ t # n
    BY <2>2, <1>3, <1>4 DEF SessionsInv, OneActiveSession
  <2> QED BY <2>1, <2>2
<1>6. \A s \in Sessions : RowPaid(session[s], challenge)
  BY DEF SessionsInv
<1>7. ChallengeBuysOnce'
  <2> SUFFICES ASSUME NEW s \in Sessions, NEW t \in Sessions,
                      session'[s].from = session'[t].from, session'[s].from # 0
               PROVE  s = t
    BY DEF ChallengeBuysOnce
  <2>1. ASSUME NEW u \in Sessions, u # n, session'[u].from = q.from, q.from # 0 PROVE FALSE
    BY <2>1, <1>3, <1>4, <1>6 DEF RowPaid
  <2>2. CASE s = n \/ t = n
    BY <2>1, <2>2, <1>2
  <2>3. CASE s # n /\ t # n
    BY <2>3, <1>3, <1>4 DEF SessionsInv, ChallengeBuysOnce
  <2> QED BY <2>2, <2>3
<1>8. ASSUME NEW s \in Sessions, s # n
      PROVE  /\ RowGood(session'[s], era') /\ RowPaid(session'[s], challenge')
             /\ RowClosed(session'[s], installation') /\ RowWithin(session'[s], delegation')
  <2>1. /\ RowGood(session[s], era) => RowGood(kept[s], era)
        /\ RowPaid(session[s], challenge) => RowPaid(kept[s], challenge)
        /\ RowClosed(session[s], installation) => RowClosed(kept[s], installation)
        /\ RowWithin(session[s], delegation) => RowWithin(kept[s], delegation)
    BY <1>1, WeakerGood
  <2>2. /\ RowGood(kept[s], era) /\ RowPaid(kept[s], challenge)
        /\ RowClosed(kept[s], installation) /\ RowWithin(kept[s], delegation)
    BY <2>1 DEF SessionsInv
  <2>3. RowGood(kept[s], era')
    BY <2>2
  <2>4. kept[s].from = 0 \/ kept[s].from \in Challenges
    BY <1>1 DEF SessionRow
  <2>5. RowPaid(kept[s], challenge')
    BY <2>2, <2>4 DEF RowPaid, SpentStays
  <2>6. RowClosed(kept[s], installation')
    BY <2>2 DEF RowClosed, NotRevoked
  <2>7. RowWithin(kept[s], delegation')
    BY <2>2 DEF RowWithin
  <2> QED BY <1>8, <1>3, <2>3, <2>5, <2>6, <2>7
<1>9. \A s \in Sessions :
        /\ RowGood(session'[s], era') /\ RowPaid(session'[s], challenge')
        /\ RowClosed(session'[s], installation') /\ RowWithin(session'[s], delegation')
  BY <1>2, <1>8
<1> QED BY <1>2, <1>5, <1>7, <1>9 DEF SessionsInv

\* Steps that renew one session.
LEMMA SessionRenewed ==
    ASSUME LifecycleInv, NEW s \in Sessions, NEW q \in SessionRow,
           session' = [session EXCEPT ![s] = q],
           q.of = session[s].of, q.status = session[s].status, q.from = session[s].from,
           RowGood(q, era), RowClosed(q, installation), RowWithin(q, delegation),
           UNCHANGED <<era, challenge, installation>>,
           delegation'.until = delegation.until, delegation'.trust = delegation.trust
    PROVE  SessionsInv'
<1> USE DEF LifecycleInv
<1>1. session' \in [Sessions -> SessionRow] /\ session'[s] = q
  BY DEF SessionsInv
<1>2. \A t \in Sessions : t # s => session'[t] = session[t]
  BY DEF SessionsInv
<1>3. \A t \in Sessions : /\ session'[t].of = session[t].of /\ session'[t].from = session[t].from
                          /\ session'[t].status = session[t].status
  BY <1>1, <1>2
<1>4. OneActiveSession' /\ ChallengeBuysOnce'
  BY <1>3 DEF SessionsInv, OneActiveSession, ChallengeBuysOnce
<1>5. RowPaid(q, challenge)
  BY DEF SessionsInv, RowPaid
<1>6. \A t \in Sessions :
        /\ RowGood(session'[t], era) /\ RowPaid(session'[t], challenge)
        /\ RowClosed(session'[t], installation) /\ RowWithin(session'[t], delegation)
  BY <1>1, <1>2, <1>5 DEF SessionsInv
<1>7. \A t \in Sessions : RowWithin(session'[t], delegation')
  BY <1>6 DEF RowWithin
<1> QED BY <1>1, <1>4, <1>6, <1>7 DEF SessionsInv

\* Steps that leave the sessions alone.
LEMMA SessionsStay ==
    ASSUME LifecycleInv, SpentStays, UNCHANGED <<session, era, installation, delegation>>
    PROVE  SessionsInv'
<1> USE DEF LifecycleInv
<1>1. OneActiveSession' /\ ChallengeBuysOnce'
  BY DEF SessionsInv, OneActiveSession, ChallengeBuysOnce
<1>2. ASSUME NEW s \in Sessions PROVE RowPaid(session[s], challenge')
  <2>1. session[s].from = 0 \/ session[s].from \in Challenges
    BY DEF SessionsInv, SessionRow
  <2> QED BY <2>1 DEF SessionsInv, RowPaid, SpentStays
<1> QED BY <1>1, <1>2 DEF SessionsInv

-----------------------------------------------------------------------------
(* What the operators on sessions return. *)

LEMMA WeakerItself ==
    ASSUME NEW r PROVE Weaker(r, r)
BY DEF Weaker

LEMMA WeakerTwice ==
    ASSUME NEW r \in SessionRow, NEW q \in SessionRow, NEW p \in SessionRow, Weaker(r, q), Weaker(q, p)
    PROVE  Weaker(r, p)
BY DEF Weaker, Usables

LEMMA GrantEnded ==
    ASSUME NEW r \in SessionRow, r.grant = "live"
    PROVE  LET q == [r EXCEPT !.grant = "revoked"]
           IN q \in SessionRow /\ Weaker(r, q) /\ q.grant = "revoked" /\ q.status = r.status /\ q.of = r.of
BY DEF SessionRow, Weaker

LEMMA TokenEnded ==
    ASSUME NEW r \in SessionRow, r.token \in Usables
    PROVE  LET q == [r EXCEPT !.token = "revoked"] IN q \in SessionRow /\ Weaker(r, q)
BY DEF SessionRow, Weaker, Usables

LEMMA RowEnded ==
    ASSUME NEW r \in SessionRow, NEW st \in {"replaced", "revoked", r.status},
           st = r.status \/ r.status = "active"
    PROVE  LET q == [r EXCEPT !.status = st,
                        !.token = IF @ \in {"active", "provisioning"} THEN "revoked" ELSE @,
                        !.grant = IF @ = "live" THEN "revoked" ELSE @]
           IN /\ q \in SessionRow /\ Weaker(r, q) /\ q.status = st /\ q.of = r.of
              /\ q.grant # "live" /\ q.token \notin Usables
<1> DEFINE tk == IF r.token \in {"active", "provisioning"} THEN "revoked" ELSE r.token
           gr == IF r.grant = "live" THEN "revoked" ELSE r.grant
           q == [r EXCEPT !.status = st, !.token = tk, !.grant = gr]
<1>1. /\ tk \in {"none", "revoked"} /\ gr \in {"none", "revoked"}
      /\ tk = r.token \/ (r.token \in Usables /\ tk = "revoked")
      /\ gr = r.grant \/ (r.grant = "live" /\ gr = "revoked")
      /\ st \in {"none", "active", "replaced", "revoked"}
  BY DEF SessionRow, Usables
<1> HIDE DEF tk, gr
<1>2. /\ q \in SessionRow
      /\ q.status = st /\ q.of = r.of /\ q.era = r.era /\ q.from = r.from /\ q.trust = r.trust
      /\ q.tokenUntil = r.tokenUntil /\ q.token = tk /\ q.grant = gr
  BY <1>1 DEF SessionRow
<1> HIDE DEF q
<1>3. Weaker(r, q) /\ q.grant # "live" /\ q.token \notin Usables
  BY <1>1, <1>2 DEF Weaker, Usables
<1> QED BY <1>2, <1>3 DEF q, tk, gr

\* revokeActiveComponentSessions leaves no active session of the component.
LEMMA ReplacedRows ==
    ASSUME NEW ss \in [Sessions -> SessionRow], NEW x
    PROVE  /\ Replaced(ss, x) \in [Sessions -> SessionRow]
           /\ \A s \in Sessions : /\ Weaker(ss[s], Replaced(ss, x)[s])
                                  /\ Replaced(ss, x)[s].of = x => Replaced(ss, x)[s].status # "active"
<1> DEFINE row(s) == IF ss[s].of = x /\ ss[s].status = "active"
                     THEN [ss[s] EXCEPT !.status = "replaced",
                              !.token = IF @ \in {"active", "provisioning"} THEN "revoked" ELSE @,
                              !.grant = IF @ = "live" THEN "revoked" ELSE @]
                     ELSE ss[s]
<1>1. ASSUME NEW s \in Sessions
      PROVE  /\ row(s) \in SessionRow /\ Weaker(ss[s], row(s))
             /\ row(s).of = x => row(s).status # "active"
  <2>1. ss[s] \in SessionRow
    OBVIOUS
  <2>2. CASE ss[s].of = x /\ ss[s].status = "active"
    <3> DEFINE q == [ss[s] EXCEPT !.status = "replaced",
                        !.token = IF @ \in {"active", "provisioning"} THEN "revoked" ELSE @,
                        !.grant = IF @ = "live" THEN "revoked" ELSE @]
    <3>1. q \in SessionRow /\ Weaker(ss[s], q) /\ q.status = "replaced"
      BY <2>1, <2>2, RowEnded
    <3>2. row(s) = q
      BY <2>2
    <3> QED BY <3>1, <3>2
  <2>3. CASE ~(ss[s].of = x /\ ss[s].status = "active")
    BY <2>1, <2>3, WeakerItself
  <2> QED BY <2>2, <2>3
<1>2. Replaced(ss, x) = [s \in Sessions |-> row(s)]
  BY DEF Replaced
<1> HIDE DEF row
<1> QED BY <1>1, <1>2

LEMMA GrantsRevokedRows ==
    ASSUME NEW ss \in [Sessions -> SessionRow]
    PROVE  /\ GrantsRevoked(ss) \in [Sessions -> SessionRow]
           /\ \A s \in Sessions : /\ Weaker(ss[s], GrantsRevoked(ss)[s])
                                  /\ GrantsRevoked(ss)[s].grant # "live"
                                  /\ GrantsRevoked(ss)[s].of = ss[s].of
                                  /\ GrantsRevoked(ss)[s].status = ss[s].status
<1> DEFINE row(s) == IF ss[s].grant = "live" THEN [ss[s] EXCEPT !.grant = "revoked"] ELSE ss[s]
<1>1. ASSUME NEW s \in Sessions
      PROVE  /\ row(s) \in SessionRow /\ Weaker(ss[s], row(s)) /\ row(s).grant # "live"
             /\ row(s).of = ss[s].of /\ row(s).status = ss[s].status
  <2>1. ss[s] \in SessionRow
    OBVIOUS
  <2>2. CASE ss[s].grant = "live"
    BY <2>1, <2>2, GrantEnded
  <2>3. CASE ss[s].grant # "live"
    BY <2>1, <2>3, WeakerItself
  <2> QED BY <2>2, <2>3
<1>2. GrantsRevoked(ss) = [s \in Sessions |-> row(s)]
  BY DEF GrantsRevoked
<1> HIDE DEF row
<1> QED BY <1>1, <1>2

\* revokeComponentCredentials leaves nothing of the components that is usable.
LEMMA RevokedRows ==
    ASSUME LifecycleInv, NEW xs
    PROVE  /\ Revoked(xs) \in [Sessions -> SessionRow]
           /\ \A s \in Sessions :
                /\ Weaker(session[s], Revoked(xs)[s])
                /\ session[s].of \in xs => Revoked(xs)[s].grant # "live" /\ Revoked(xs)[s].token \notin Usables
<1> DEFINE q(s) == [session[s] EXCEPT !.status = IF @ = "active" THEN "revoked" ELSE @,
                        !.token = IF @ \in {"active", "provisioning"} THEN "revoked" ELSE @,
                        !.grant = IF @ = "live" THEN "revoked" ELSE @]
           row(s) == IF session[s].of \in xs /\ session[s].status # "none" THEN q(s) ELSE session[s]
<1>1. ASSUME NEW s \in Sessions
      PROVE  /\ row(s) \in SessionRow /\ Weaker(session[s], row(s))
             /\ session[s].of \in xs => row(s).grant # "live" /\ row(s).token \notin Usables
  <2>1. session[s] \in SessionRow /\ RowGood(session[s], era)
    BY DEF LifecycleInv, SessionsInv
  <2>2. CASE session[s].of \in xs /\ session[s].status # "none"
    <3> DEFINE st == IF session[s].status = "active" THEN "revoked" ELSE session[s].status
               p == [session[s] EXCEPT !.status = st,
                        !.token = IF @ \in {"active", "provisioning"} THEN "revoked" ELSE @,
                        !.grant = IF @ = "live" THEN "revoked" ELSE @]
    <3>1. st \in {"replaced", "revoked", session[s].status}
          /\ (st = session[s].status \/ session[s].status = "active")
      OBVIOUS
    <3>2. row(s) = p
      BY <2>2
    <3> HIDE DEF st
    <3>3. p \in SessionRow /\ Weaker(session[s], p) /\ p.grant # "live" /\ p.token \notin Usables
      BY <2>1, <3>1, RowEnded
    <3> HIDE DEF p
    <3> QED BY <3>2, <3>3
  <2>3. CASE session[s].of \in xs /\ session[s].status = "none"
    BY <2>1, <2>3, WeakerItself DEF RowGood, Usables
  <2>4. CASE session[s].of \notin xs
    BY <2>1, <2>4, WeakerItself
  <2> QED BY <2>2, <2>3, <2>4
<1>2. Revoked(xs) = [s \in Sessions |-> row(s)]
  BY DEF Revoked
<1> HIDE DEF row
<1> QED BY <1>1, <1>2

-----------------------------------------------------------------------------
(* Changes of one call and of one challenge. *)

LEMMA CallMoves ==
    ASSUME LifecycleInv, NEW c \in Callers, NEW r \in CallRow, CallGood(r, era),
           call' = [call EXCEPT ![c] = r], era' = era
    PROVE  CallsInv'
<1>1. call' \in [Callers -> CallRow] /\ call'[c] = r /\ \A d \in Callers : d # c => call'[d] = call[d]
  BY DEF LifecycleInv, CallsInv
<1>2. \A d \in Callers : CallGood(call'[d], era)
  BY <1>1 DEF LifecycleInv, CallsInv
<1> QED BY <1>1, <1>2 DEF CallsInv

LEMMA ChallengeMoves ==
    ASSUME LifecycleInv, NEW i \in Challenges, NEW r \in ChallengeRow,
           challenge' = [challenge EXCEPT ![i] = r], era' = era,
           r.status = "open" => r.era = era /\ challenge[i].status = "none",
           r.status # "none"
    PROVE  ChallengesInv' /\ SpentStays
<1>1. /\ challenge \in [Challenges -> ChallengeRow]
      /\ challenge' \in [Challenges -> ChallengeRow] /\ challenge'[i] = r
      /\ \A j \in Challenges : j # i => challenge'[j] = challenge[j]
  BY DEF LifecycleInv, ChallengesInv
<1>2. ChallengesInv'
  BY <1>1 DEF LifecycleInv, ChallengesInv
<1>3. SpentStays
  BY <1>1 DEF SpentStays, ChallengeRow
<1> QED BY <1>2, <1>3

LEMMA CommitMade ==
    ASSUME LifecycleInv, NEW c \in Callers, NEW op, Commits(c, op)
    PROVE  /\ CallsInv' /\ ScopeInv' /\ UNCHANGED <<clock, scope, era, revision>>
           /\ call[c] \in CallRow /\ CallGood(call[c], era) /\ call[c].era = era /\ call[c].op = op
<1>1. call' = [call EXCEPT ![c] = NoCall] /\ UNCHANGED <<clock, scope, era, revision>>
  BY DEF Commits
<1>2. CallsInv'
  BY <1>1, CallMoves, EmptyRows
<1>3. call[c] \in CallRow /\ CallGood(call[c], era) /\ call[c].pc = "locked" /\ call[c].op = op
  BY DEF LifecycleInv, CallsInv, Commits
<1> QED BY <1>1, <1>2, <1>3 DEF LifecycleInv, ScopeInv, CallGood

\* What a step leaves alone keeps its part of the invariant.
LEMMA OthersKept ==
    ASSUME LifecycleInv
    PROVE  /\ UNCHANGED <<clock, scope, era, revision>> => ScopeInv'
           /\ UNCHANGED <<installation, family>> => OwnersInv'
           /\ UNCHANGED <<component, delegation>> => DelegationInv'
           /\ UNCHANGED <<challenge, era>> => ChallengesInv' /\ SpentStays
           /\ UNCHANGED challenge => SpentStays
           /\ UNCHANGED <<call, era>> => CallsInv'
<1> USE DEF LifecycleInv
<1>1. UNCHANGED <<clock, scope, era, revision>> => ScopeInv'
  BY DEF ScopeInv
<1>2. UNCHANGED <<installation, family>> => OwnersInv'
  BY DEF OwnersInv
<1>3. UNCHANGED <<component, delegation>> => DelegationInv'
  BY DEF DelegationInv
<1>4. UNCHANGED <<challenge, era>> => ChallengesInv' /\ SpentStays
  BY DEF ChallengesInv, SpentStays
<1>5. UNCHANGED challenge => SpentStays
  BY DEF SpentStays
<1>6. UNCHANGED <<call, era>> => CallsInv'
  BY DEF CallsInv
<1> QED BY <1>1, <1>2, <1>3, <1>4, <1>5, <1>6

\* A step that changes one call's row only.
LEMMA OnlyCall ==
    ASSUME LifecycleInv, NEW c \in Callers, NEW r \in CallRow, CallGood(r, era),
           call' = [call EXCEPT ![c] = r], UNCHANGED <<clock, scope, era, revision, stored>>
    PROVE  LifecycleInv'
<1>1. CallsInv'
  BY CallMoves
<1>2. UNCHANGED <<challenge, installation, family, component, delegation, session>>
  BY DEF stored
<1>3. ScopeInv' /\ OwnersInv' /\ DelegationInv' /\ ChallengesInv' /\ SpentStays
  BY <1>2, OthersKept
<1>4. SessionsInv'
  BY <1>2, <1>3, SessionsStay
<1> QED BY <1>1, <1>3, <1>4 DEF LifecycleInv

LEMMA BeginKeeps ==
    ASSUME LifecycleInv, NEW c \in Callers, NEW op \in Operations, NEW arg \in Nat, NEW trust \in Trust,
           Begin(c, op, arg, trust),
           op \in {"exchange", "stepUp"} => arg \in Challenges /\ trust \in TrustLevels,
           op \in {"provision", "redeem", "stepUpChallenge"} => arg \in Sessions
    PROVE  LifecycleInv'
<1> DEFINE r == [pc |-> "begun", op |-> op, arg |-> arg, at |-> clock, rev |-> revision,
                 trust |-> trust, era |-> 0]
<1>1. clock \in 0..MaxTime /\ revision \in 0..MaxRevision /\ 0 \in 0..MaxEra
  BY Bounds DEF LifecycleInv, ScopeInv
<1>2. r \in CallRow /\ CallGood(r, era)
  BY <1>1 DEF CallRow, CallGood
<1>3. call' = [call EXCEPT ![c] = r] /\ UNCHANGED <<clock, scope, era, revision, stored>>
  BY DEF Begin
<1> HIDE DEF r
<1> QED BY <1>2, <1>3, OnlyCall

LEMMA CallStepsKeep ==
    ASSUME LifecycleInv, NEW c \in Callers
    PROVE  /\ LockScope(c) => LifecycleInv'
           /\ Fail(c) => LifecycleInv'
           /\ BeginCreateChallenge(c) => LifecycleInv'
           /\ \A i \in Challenges, t \in TrustLevels :
                BeginExchange(c, i, t) \/ BeginStepUp(c, i, t) => LifecycleInv'
           /\ \A s \in Sessions :
                BeginProvision(c, s) \/ BeginRedeem(c, s) \/ BeginStepUpChallenge(c, s) => LifecycleInv'
<1>1. ASSUME LockScope(c) PROVE LifecycleInv'
  <2> DEFINE r == [call[c] EXCEPT !.pc = "locked", !.era = era]
             q == IF scope = "active" THEN r ELSE NoCall
  <2>1. call[c] \in CallRow /\ CallGood(call[c], era) /\ era \in 0..MaxEra
    BY DEF LifecycleInv, CallsInv, ScopeInv
  <2>2. /\ r \in CallRow
        /\ r.op = call[c].op /\ r.arg = call[c].arg /\ r.trust = call[c].trust /\ r.era = era
    BY <2>1 DEF CallRow
  <2>3. CallGood(r, era)
    BY <2>1, <2>2 DEF CallGood
  <2>4. q \in CallRow /\ CallGood(q, era)
    BY <2>2, <2>3, EmptyRows
  <2>5. call' = [call EXCEPT ![c] = q] /\ UNCHANGED <<clock, scope, era, revision, stored>>
    <3>1. call \in [Callers -> CallRow]
      BY DEF LifecycleInv, CallsInv
    <3> QED BY <1>1, <3>1 DEF LockScope
  <2> HIDE DEF q
  <2> QED BY <2>4, <2>5, OnlyCall
<1>2. ASSUME Fail(c) PROVE LifecycleInv'
  BY <1>2, EmptyRows, OnlyCall DEF Fail
<1>3. ASSUME BeginCreateChallenge(c) PROVE LifecycleInv'
  BY <1>3, BeginKeeps, Bounds DEF BeginCreateChallenge, Operations
<1>4. ASSUME NEW i \in Challenges, NEW t \in TrustLevels, BeginExchange(c, i, t) \/ BeginStepUp(c, i, t)
      PROVE  LifecycleInv'
  <2>1. i \in Nat /\ t \in Trust
    BY Bounds DEF Challenges
  <2>2. "exchange" \in Operations /\ "stepUp" \in Operations
    BY DEF Operations
  <2> QED BY <1>4, <2>1, <2>2, BeginKeeps DEF BeginExchange, BeginStepUp
<1>5. ASSUME NEW s \in Sessions,
             BeginProvision(c, s) \/ BeginRedeem(c, s) \/ BeginStepUpChallenge(c, s)
      PROVE  LifecycleInv'
  <2>1. s \in Nat /\ 0 \in Trust
    BY Bounds DEF Sessions
  <2>2. "provision" \in Operations /\ "redeem" \in Operations /\ "stepUpChallenge" \in Operations
    BY DEF Operations
  <2> QED BY <1>5, <2>1, <2>2, BeginKeeps DEF BeginProvision, BeginRedeem, BeginStepUpChallenge
<1> QED BY <1>1, <1>2, <1>3, <1>4, <1>5

-----------------------------------------------------------------------------
(* Challenges. *)

LEMMA ChallengeSpent ==
    ASSUME NEW r \in ChallengeRow, NEW st \in {"consumed", "deleted"}
    PROVE  LET q == [r EXCEPT !.status = st] IN q \in ChallengeRow /\ q.status = st
BY DEF ChallengeRow

LEMMA CreateChallengeKeeps ==
    ASSUME LifecycleInv, NEW c \in Callers, CreateChallenge(c)
    PROVE  LifecycleInv'
<1>1. PICK i \in Challenges :
        /\ challenge[i].status = "none"
        /\ challenge' = [challenge EXCEPT ![i] = [status |-> "open", for |-> "root", key |-> 0,
                            rev |-> revision, ends |-> call[c].at + ChallengeTTL, era |-> call[c].era]]
  BY DEF CreateChallenge
<1>2. /\ CallsInv' /\ ScopeInv' /\ era' = era /\ call[c] \in CallRow /\ call[c].era = era
  BY CommitMade DEF CreateChallenge
<1> DEFINE r == [status |-> "open", for |-> "root", key |-> 0, rev |-> revision,
                 ends |-> call[c].at + ChallengeTTL, era |-> call[c].era]
<1>3. /\ call[c].at \in 0..MaxTime /\ call[c].era \in 0..MaxEra /\ revision \in 0..MaxRevision
      /\ 0 \in 0..MaxKeys
  BY <1>2, Bounds DEF CallRow, LifecycleInv, ScopeInv
<1>4. call[c].at + ChallengeTTL \in 0..(MaxTime + ChallengeTTL)
  BY <1>3, Bounds
<1>5. r \in ChallengeRow /\ r.status = "open" /\ r.era = era
  BY <1>2, <1>3, <1>4 DEF ChallengeRow, Components
<1>6. challenge' = [challenge EXCEPT ![i] = r]
  BY <1>1
<1> HIDE DEF r
<1>7. ChallengesInv' /\ SpentStays
  BY <1>1, <1>2, <1>5, <1>6, ChallengeMoves
<1>8. UNCHANGED <<installation, family, component, delegation, session>>
  BY DEF CreateChallenge
<1>9. SessionsInv'
  BY <1>2, <1>7, <1>8, SessionsStay
<1>10. OwnersInv' /\ DelegationInv'
  BY <1>8, OthersKept
<1> QED BY <1>2, <1>7, <1>9, <1>10 DEF LifecycleInv

LEMMA DeleteExpiredKeeps ==
    ASSUME LifecycleInv, NEW i \in Challenges, DeleteExpired(i)
    PROVE  LifecycleInv'
<1> DEFINE r == [challenge[i] EXCEPT !.status = "deleted"]
<1>1. challenge[i] \in ChallengeRow /\ challenge \in [Challenges -> ChallengeRow]
  BY DEF LifecycleInv, ChallengesInv
<1>2. r \in ChallengeRow /\ r.status = "deleted"
  BY <1>1, ChallengeSpent
<1>3. /\ challenge' = [challenge EXCEPT ![i] = r]
      /\ UNCHANGED <<clock, scope, era, revision, installation, family, component, delegation,
                     session, call>>
  BY <1>1 DEF DeleteExpired
<1> HIDE DEF r
<1>4. ChallengesInv' /\ SpentStays
  BY <1>2, <1>3, ChallengeMoves
<1>5. ScopeInv' /\ OwnersInv' /\ DelegationInv' /\ CallsInv'
  BY <1>3, OthersKept
<1>6. SessionsInv'
  BY <1>3, <1>4, SessionsStay
<1> QED BY <1>4, <1>5, <1>6 DEF LifecycleInv

LEMMA StepUpChallengeKeeps ==
    ASSUME LifecycleInv, NEW c \in Callers, CreateComponentAttestationChallenge(c)
    PROVE  LifecycleInv'
<1> DEFINE s == call[c].arg
           ends == Least({call[c].at + ChallengeTTL, delegation.until})
           r == [status |-> "open", for |-> "child", key |-> session[s].key, rev |-> call[c].rev,
                 ends |-> ends, era |-> call[c].era]
<1>1. PICK i \in Challenges :
        challenge[i].status = "none" /\ challenge' = [challenge EXCEPT ![i] = r]
  BY DEF CreateComponentAttestationChallenge
<1>2. /\ CallsInv' /\ ScopeInv' /\ era' = era
      /\ call[c] \in CallRow /\ call[c].era = era /\ s \in Sessions
  <2>1. Commits(c, "stepUpChallenge")
    BY DEF CreateComponentAttestationChallenge
  <2> QED BY <2>1, CommitMade DEF CallGood
<1>3. /\ call[c].at \in 0..MaxTime /\ call[c].era \in 0..MaxEra /\ call[c].rev \in 0..MaxRevision
      /\ session[s].key \in 0..MaxKeys /\ delegation.until \in Nat
  BY <1>2 DEF CallRow, LifecycleInv, SessionsInv, SessionRow, DelegationInv, DelegationRow
<1>4. ends \in 0..(MaxTime + ChallengeTTL)
  <2>1. call[c].at + ChallengeTTL \in Nat /\ call[c].at + ChallengeTTL <= MaxTime + ChallengeTTL
    BY <1>3, Bounds
  <2>2. ends \in {call[c].at + ChallengeTTL, delegation.until} /\ ends <= call[c].at + ChallengeTTL
    BY <2>1, <1>3, LeastOfTwo
  <2> QED BY <2>1, <2>2, <1>3, Bounds
<1> HIDE DEF ends, s
<1>5. r \in ChallengeRow /\ r.status = "open" /\ r.era = era
  BY <1>2, <1>3, <1>4 DEF ChallengeRow, Components
<1> HIDE DEF r
<1>6. ChallengesInv' /\ SpentStays
  BY <1>1, <1>2, <1>5, ChallengeMoves
<1>7. UNCHANGED <<installation, family, component, delegation, session>>
  BY DEF CreateComponentAttestationChallenge
<1>8. SessionsInv'
  BY <1>2, <1>6, <1>7, SessionsStay
<1>9. OwnersInv' /\ DelegationInv'
  BY <1>7, OthersKept
<1> QED BY <1>2, <1>6, <1>8, <1>9 DEF LifecycleInv

\* consumeChallenge spends a challenge that was open.
LEMMA ChallengeConsumed ==
    ASSUME LifecycleInv, NEW i \in Challenges, challenge[i].status = "open", challenge' = Consumed(i),
           era' = era
    PROVE  ChallengesInv' /\ SpentStays /\ challenge'[i].status = "consumed"
<1> DEFINE r == [challenge[i] EXCEPT !.status = "consumed"]
<1>1. challenge[i] \in ChallengeRow /\ challenge \in [Challenges -> ChallengeRow]
  BY DEF LifecycleInv, ChallengesInv
<1>2. r \in ChallengeRow /\ r.status = "consumed"
  BY <1>1, ChallengeSpent
<1>3. challenge' = [challenge EXCEPT ![i] = r]
  BY <1>1 DEF Consumed
<1> HIDE DEF r
<1>4. ChallengesInv' /\ SpentStays
  BY <1>2, <1>3, ChallengeMoves
<1> QED BY <1>1, <1>2, <1>3, <1>4

-----------------------------------------------------------------------------
(* Sessions that begin. *)

\* The row of a new session.
LEMMA NewSessionRow ==
    ASSUME LifecycleInv, NEW c \in Callers, NEW x \in Components, NEW key \in 0..MaxKeys,
           NEW tok \in Usables, NEW until \in Nat, NEW trust \in TrustLevels, NEW att \in Nat,
           NEW rev \in 0..MaxRevision, NEW from \in {0} \cup Challenges,
           call[c] \in CallRow, call[c].era = era
    PROVE  LET q == NewSession(c, x, key, [token |-> tok, until |-> until, trust |-> trust,
                                           attested |-> att, rev |-> rev, from |-> from])
           IN /\ q \in SessionRow /\ RowGood(q, era)
              /\ q.of = x /\ q.status = "active" /\ q.from = from /\ q.tokenUntil = until
              /\ q.trust = trust
<1> DEFINE g == IF tok = "active" THEN "live" ELSE "none"
           gu == clock + AccessLifetime
           q == [of |-> x, status |-> "active", key |-> key, token |-> tok, tokenUntil |-> until,
                 grant |-> g, grantUntil |-> gu, trust |-> trust, attested |-> att,
                 rev |-> rev, era |-> call[c].era, from |-> from]
<1>1. g \in {"none", "live", "revoked"} /\ (tok = "active" => g # "none")
  OBVIOUS
<1>2. gu \in Nat
  BY Bounds DEF LifecycleInv, ScopeInv
<1>3. /\ trust \in Trust /\ call[c].era \in 0..MaxEra
      /\ tok \in {"none", "provisioning", "active", "revoked"}
  BY Bounds DEF CallRow, Usables
<1> HIDE DEF g, gu
<1>4. q \in SessionRow
  BY <1>1, <1>2, <1>3 DEF SessionRow
<1>5. RowGood(q, era)
  BY <1>1 DEF RowGood
<1>6. /\ q.of = x /\ q.status = "active" /\ q.from = from /\ q.tokenUntil = until /\ q.trust = trust
  OBVIOUS
<1>7. NewSession(c, x, key, [token |-> tok, until |-> until, trust |-> trust,
                             attested |-> att, rev |-> rev, from |-> from]) = q
  BY DEF NewSession, g, gu
<1> HIDE DEF q
<1> QED BY <1>4, <1>5, <1>6, <1>7

LEMMA ExchangeKeeps ==
    ASSUME LifecycleInv, NEW c \in Callers, Exchange(c)
    PROVE  LifecycleInv'
<1> DEFINE i == call[c].arg
           attested == call[c].at + AttestationLifetime
           until == call[c].at + RefreshLifetime
           trust == call[c].trust
           kept == IF TrustChanged(call[c].trust) THEN GrantsRevoked(Replaced(session, "root"))
                                                  ELSE Replaced(session, "root")
           q == NewSession(c, "root", 1, [token |-> "active", until |-> until, trust |-> trust,
                               attested |-> attested, rev |-> revision, from |-> i])
<1>1. /\ CallsInv' /\ ScopeInv' /\ era' = era
      /\ call[c] \in CallRow /\ call[c].era = era /\ i \in Challenges /\ trust \in TrustLevels
  <2>1. Commits(c, "exchange")
    BY DEF Exchange
  <2> QED BY <2>1, CommitMade DEF CallGood
<1>2. challenge[i].status = "open" /\ challenge' = Consumed(i)
  BY DEF Exchange, Consumes, Exchangeable
<1>3. ChallengesInv' /\ SpentStays /\ challenge'[i].status = "consumed"
  BY <1>1, <1>2, ChallengeConsumed
<1>4. attested \in Nat /\ until \in Nat /\ revision \in 0..MaxRevision /\ 1 \in 0..MaxKeys
  BY <1>1, Bounds DEF CallRow, LifecycleInv, ScopeInv
<1>5. PICK n \in Unused : session' = [kept EXCEPT ![n] = q]
  BY DEF Exchange
<1>6. n \in Sessions /\ session[n].status = "none"
  BY DEF Unused
<1>7. /\ kept \in [Sessions -> SessionRow]
      /\ \A s \in Sessions : /\ Weaker(session[s], kept[s])
                             /\ kept[s].of = "root" => kept[s].status # "active"
  <2> DEFINE ss == Replaced(session, "root")
             gs == GrantsRevoked(ss)
  <2>1. session \in [Sessions -> SessionRow]
    BY DEF LifecycleInv, SessionsInv
  <2>2. /\ ss \in [Sessions -> SessionRow]
        /\ \A s \in Sessions : /\ Weaker(session[s], ss[s])
                               /\ ss[s].of = "root" => ss[s].status # "active"
    BY <2>1, ReplacedRows
  <2>3. kept = ss \/ kept = gs
    OBVIOUS
  <2> HIDE DEF ss, kept
  <2>4. /\ gs \in [Sessions -> SessionRow]
        /\ \A s \in Sessions : /\ Weaker(ss[s], gs[s]) /\ gs[s].of = ss[s].of
                               /\ gs[s].status = ss[s].status
    BY <2>2, GrantsRevokedRows
  <2> HIDE DEF gs
  <2>5. \A s \in Sessions : Weaker(session[s], gs[s])
    BY <2>1, <2>2, <2>4, WeakerTwice
  <2> QED BY <2>2, <2>3, <2>4, <2>5
<1> HIDE DEF kept, until, attested, trust, i
<1>8. /\ q \in SessionRow /\ RowGood(q, era)
      /\ q.of = "root" /\ q.status = "active" /\ q.from = i
  <2>1. "root" \in Components /\ "active" \in Usables /\ i \in {0} \cup Challenges
    BY <1>1 DEF Components, Usables
  <2> QED BY <2>1, <1>1, <1>4, NewSessionRow
<1> HIDE DEF q
<1>9. installation' = [status |-> "active", trust |-> trust] /\ family' = "active" /\ delegation' = delegation
  BY DEF Exchange, trust
<1>10. installation'.status = "active" /\ OwnersInv'
  BY <1>1, <1>9, Bounds DEF OwnersInv, InstallationRow
<1>11. RowPaid(q, challenge') /\ RowClosed(q, installation') /\ RowWithin(q, delegation')
  BY <1>3, <1>8, <1>10 DEF RowPaid, RowClosed, RowWithin
<1>12. SessionsInv'
  BY <1>1, <1>2, <1>3, <1>5, <1>6, <1>7, <1>8, <1>9, <1>10, <1>11, SessionBegins DEF NotRevoked
<1>13. DelegationInv'
  <2> DEFINE r == [status |-> "active", key |-> 1, direct |-> TRUE, until |-> attested]
  <2>1. r \in ComponentRow
    BY <1>4 DEF ComponentRow
  <2>2. component' = [component EXCEPT !["root"] = r] /\ component \in [Components -> ComponentRow]
    BY DEF Exchange, LifecycleInv, DelegationInv, attested
  <2> HIDE DEF r
  <2>3. component' \in [Components -> ComponentRow] /\ component'["child"] = component["child"]
    BY <2>1, <2>2 DEF Components
  <2> QED BY <2>3, <1>9 DEF DelegationInv, LifecycleInv
<1> QED BY <1>1, <1>3, <1>10, <1>12, <1>13 DEF LifecycleInv

LEMMA ProvisionKeeps ==
    ASSUME LifecycleInv, NEW c \in Callers, ProvisionComponent(c)
    PROVE  LifecycleInv'
<1> DEFINE s == call[c].arg
           key == component["child"].key + 1
           until == TrustExpires(c)
           trust == session[s].trust
           att == session[s].attested
           kept == Replaced(session, "child")
           q == NewSession(c, "child", key, [token |-> "provisioning", until |-> until, trust |-> trust,
                               attested |-> att, rev |-> revision, from |-> 0])
<1>1. /\ CallsInv' /\ ScopeInv' /\ era' = era
      /\ call[c] \in CallRow /\ call[c].era = era /\ s \in Sessions
  <2>1. Commits(c, "provision")
    BY DEF ProvisionComponent
  <2> QED BY <2>1, CommitMade DEF CallGood
<1>2. session[s] \in SessionRow /\ RowGood(session[s], era) /\ session[s].status = "active"
  BY <1>1 DEF LifecycleInv, SessionsInv, ProvisionComponent, Admitted, Open
<1>3. trust \in TrustLevels /\ att \in Nat
  BY <1>2 DEF RowGood, SessionRow
<1>4. until \in Nat /\ until <= att
  <2>1. call[c].at + DelegationLifetime \in Nat
    BY <1>1, Bounds DEF CallRow
  <2>2. until \in {call[c].at + DelegationLifetime, att} /\ until <= att
    BY <2>1, <1>3, LeastOfTwo DEF TrustExpires
  <2> QED BY <2>1, <2>2, <1>3
<1>5. key \in 0..MaxKeys /\ revision \in 0..MaxRevision /\ 0 \in {0} \cup Challenges
  <2>1. component["child"] \in ComponentRow
    BY DEF LifecycleInv, DelegationInv, Components
  <2>2. component["child"].key \in Nat /\ component["child"].key + 1 <= MaxKeys
    BY <2>1 DEF ProvisionComponent, ComponentRow
  <2> QED BY <2>2, Bounds DEF LifecycleInv, ScopeInv
<1>6. PICK n \in Unused : session' = [kept EXCEPT ![n] = q]
  BY DEF ProvisionComponent
<1>7. n \in Sessions /\ session[n].status = "none"
  BY DEF Unused
<1>8. /\ kept \in [Sessions -> SessionRow]
      /\ \A t \in Sessions : /\ Weaker(session[t], kept[t])
                             /\ kept[t].of = "child" => kept[t].status # "active"
  <2>1. session \in [Sessions -> SessionRow]
    BY DEF LifecycleInv, SessionsInv
  <2> QED BY <2>1, ReplacedRows
<1>9. /\ component' = [component EXCEPT !["child"] =
                [status |-> "active", key |-> key, direct |-> FALSE, until |-> until]]
      /\ delegation' = [status |-> "open", key |-> key, rev |-> revision, until |-> until,
                        trust |-> trust, attested |-> att]
      /\ UNCHANGED <<challenge, installation, family>>
  BY DEF ProvisionComponent
<1> HIDE DEF kept, until, trust, att, key, s
<1>10. /\ q \in SessionRow /\ RowGood(q, era)
       /\ q.of = "child" /\ q.status = "active" /\ q.from = 0 /\ q.tokenUntil = until /\ q.trust = trust
  BY <1>1, <1>3, <1>4, <1>5, NewSessionRow DEF Components, Usables
<1>11. q.grant = "none"
  BY DEF NewSession
<1> HIDE DEF q
<1>12. /\ delegation' \in DelegationRow /\ delegation'.until = until /\ delegation'.trust = trust
       /\ delegation'.attested = att
  BY <1>3, <1>4, <1>5, <1>9, Bounds DEF DelegationRow
<1>13. RowPaid(q, challenge') /\ RowClosed(q, installation') /\ RowWithin(q, delegation')
  BY <1>3, <1>4, <1>10, <1>11, <1>12, Bounds DEF RowPaid, RowClosed, RowWithin
<1>14. OwnersInv' /\ ChallengesInv' /\ SpentStays /\ NotRevoked
  BY <1>1, <1>9, OthersKept DEF NotRevoked
<1>15. SessionsInv'
  <2>1. \A t \in Sessions : kept[t].of = q.of => kept[t].status # "active"
    BY <1>8, <1>10
  <2>2. q.from # 0 => challenge[q.from].status = "open"
    BY <1>10
  <2> QED BY <2>1, <2>2, <1>1, <1>6, <1>7, <1>8, <1>10, <1>13, <1>14, SessionBegins
<1>16. DelegationInv'
  <2> DEFINE r == [status |-> "active", key |-> key, direct |-> FALSE, until |-> until]
  <2>1. r \in ComponentRow /\ r.until = until
    BY <1>4, <1>5 DEF ComponentRow
  <2>2. component' = [component EXCEPT !["child"] = r] /\ component \in [Components -> ComponentRow]
    BY <1>9 DEF LifecycleInv, DelegationInv
  <2> HIDE DEF r
  <2>3. component' \in [Components -> ComponentRow] /\ component'["child"].until = until
    BY <2>1, <2>2 DEF Components
  <2> QED BY <2>3, <1>3, <1>4, <1>12 DEF DelegationInv
<1> QED BY <1>1, <1>14, <1>15, <1>16 DEF LifecycleInv

LEMMA StepUpKeeps ==
    ASSUME LifecycleInv, NEW c \in Callers, ExchangeComponentAttestation(c)
    PROVE  LifecycleInv'
<1> DEFINE i == call[c].arg
<1>1. /\ CallsInv' /\ ScopeInv' /\ era' = era
      /\ call[c] \in CallRow /\ call[c].era = era /\ i \in Challenges /\ call[c].trust \in TrustLevels
  <2>1. Commits(c, "stepUp")
    BY DEF ExchangeComponentAttestation
  <2> QED BY <2>1, CommitMade DEF CallGood
<1>2. PICK s \in Sessions : LET until == EffectiveExpiry(c, s) IN
        /\ session[s].of = "child" /\ Admitted(s)
        /\ Consumes(c) /\ challenge' = Consumed(i)
        /\ component' = [component EXCEPT !["child"] = [@ EXCEPT !.direct = TRUE, !.until = until]]
        /\ \E n \in Unused :
             session' = [Replaced(session, "child") EXCEPT ![n] =
                NewSession(c, "child", session[s].key, [token |-> "active",
                    until |-> Least({call[c].at + RefreshLifetime, until}),
                    trust |-> MinimumTrust(session[s].trust, call[c].trust),
                    attested |-> until, rev |-> revision, from |-> i])]
  BY DEF ExchangeComponentAttestation
<1> DEFINE until == EffectiveExpiry(c, s)
           ends == Least({call[c].at + RefreshLifetime, until})
           trust == MinimumTrust(session[s].trust, call[c].trust)
           key == session[s].key
           kept == Replaced(session, "child")
           q == NewSession(c, "child", key, [token |-> "active", until |-> ends, trust |-> trust,
                               attested |-> until, rev |-> revision, from |-> i])
<1>3. PICK n \in Unused : session' = [kept EXCEPT ![n] = q]
  BY <1>2
<1>4. n \in Sessions /\ session[n].status = "none"
  BY DEF Unused
<1>5. /\ session[s] \in SessionRow /\ session[s].status = "active" /\ installation.status = "active"
      /\ RowGood(session[s], era) /\ RowWithin(session[s], delegation)
  BY <1>2 DEF LifecycleInv, SessionsInv, Admitted, Open
<1>6. /\ session[s].trust \in TrustLevels /\ session[s].trust <= delegation.trust
      /\ key \in 0..MaxKeys /\ session[s].attested \in Nat
  BY <1>2, <1>5 DEF SessionRow, RowGood, RowWithin
<1>7. /\ delegation \in DelegationRow /\ delegation.until \in Nat /\ delegation.trust \in Trust
      /\ component["root"].until \in Nat /\ component["child"] \in ComponentRow
  BY DEF LifecycleInv, DelegationInv, DelegationRow, ComponentRow, Components
<1>8. call[c].at + AttestationLifetime \in Nat /\ call[c].at + RefreshLifetime \in Nat
  BY <1>1, Bounds DEF CallRow
<1>9. until \in Nat /\ until <= delegation.until
  BY <1>6, <1>7, <1>8, LeastOfFour DEF EffectiveExpiry
<1>10. /\ component' = [component EXCEPT !["child"] = [@ EXCEPT !.direct = TRUE, !.until = until]]
       /\ UNCHANGED <<installation, family, delegation>>
  BY <1>2 DEF ExchangeComponentAttestation
<1> HIDE DEF until
<1>11. ends \in Nat /\ ends <= delegation.until
  <2>1. ends \in {call[c].at + RefreshLifetime, until} /\ ends <= until
    BY <1>8, <1>9, LeastOfTwo
  <2> HIDE DEF ends
  <2> QED BY <2>1, <1>7, <1>8, <1>9
<1>12. trust \in TrustLevels /\ trust <= delegation.trust
  <2>1. session[s].trust \in Nat /\ call[c].trust \in Nat /\ delegation.trust \in Nat
    BY <1>1, <1>6, <1>7, Bounds
  <2>2. trust \in {session[s].trust, call[c].trust} /\ trust <= session[s].trust
    BY <2>1, LeastOfTwo DEF MinimumTrust
  <2> HIDE DEF trust
  <2> QED BY <2>1, <2>2, <1>1, <1>6
<1>13. /\ kept \in [Sessions -> SessionRow]
       /\ \A t \in Sessions : /\ Weaker(session[t], kept[t])
                              /\ kept[t].of = "child" => kept[t].status # "active"
  <2>1. session \in [Sessions -> SessionRow]
    BY DEF LifecycleInv, SessionsInv
  <2> QED BY <2>1, ReplacedRows
<1>14. challenge[i].status = "open" /\ challenge' = Consumed(i)
  BY <1>2 DEF Consumes, Exchangeable
<1>15. ChallengesInv' /\ SpentStays /\ challenge'[i].status = "consumed"
  BY <1>1, <1>14, ChallengeConsumed
<1> HIDE DEF kept, ends, trust, key, i
<1>16. /\ q \in SessionRow /\ RowGood(q, era)
       /\ q.of = "child" /\ q.status = "active" /\ q.from = i /\ q.tokenUntil = ends /\ q.trust = trust
  <2>1. /\ "child" \in Components /\ "active" \in Usables /\ i \in {0} \cup Challenges
        /\ revision \in 0..MaxRevision
    BY <1>1 DEF Components, Usables, LifecycleInv, ScopeInv
  <2> QED BY <2>1, <1>1, <1>6, <1>9, <1>11, <1>12, NewSessionRow
<1> HIDE DEF q
<1>17. RowPaid(q, challenge') /\ RowClosed(q, installation') /\ RowWithin(q, delegation')
  BY <1>5, <1>10, <1>11, <1>12, <1>15, <1>16 DEF RowPaid, RowClosed, RowWithin
<1>18. SessionsInv'
  <2>1. \A t \in Sessions : kept[t].of = q.of => kept[t].status # "active"
    BY <1>13, <1>16
  <2>2. q.from # 0 => challenge[q.from].status = "open"
    BY <1>14, <1>16
  <2>3. NotRevoked
    BY <1>10 DEF NotRevoked
  <2> QED BY <2>1, <2>2, <2>3, <1>1, <1>3, <1>4, <1>10, <1>13, <1>15, <1>16, <1>17, SessionBegins
<1>19. DelegationInv'
  <2> DEFINE r == [component["child"] EXCEPT !.direct = TRUE, !.until = until]
  <2>1. r \in ComponentRow /\ r.until = until
    BY <1>7, <1>9 DEF ComponentRow
  <2>2. component' = [component EXCEPT !["child"] = r] /\ component \in [Components -> ComponentRow]
    <3>1. component \in [Components -> ComponentRow]
      BY DEF LifecycleInv, DelegationInv
    <3> QED BY <3>1, <1>10
  <2> HIDE DEF r
  <2>3. component' \in [Components -> ComponentRow] /\ component'["child"].until = until
    BY <2>1, <2>2 DEF Components
  <2> QED BY <2>3, <1>9, <1>10 DEF LifecycleInv, DelegationInv
<1>20. OwnersInv'
  BY <1>10, OthersKept
<1> QED BY <1>1, <1>15, <1>18, <1>19, <1>20 DEF LifecycleInv

-----------------------------------------------------------------------------
(* Sessions that are renewed. *)

LEMMA RedeemKeeps ==
    ASSUME LifecycleInv, NEW c \in Callers, CreateComponentSession(c)
    PROVE  LifecycleInv'
<1> DEFINE s == call[c].arg
           ends == Least({call[c].at + RefreshLifetime, component["child"].until})
           gu == call[c].at + AccessLifetime
           q == [session[s] EXCEPT !.token = "active", !.grant = "live", !.tokenUntil = ends,
                    !.grantUntil = gu, !.trust = delegation.trust, !.rev = call[c].rev]
<1>1. /\ CallsInv' /\ ScopeInv' /\ era' = era /\ call[c] \in CallRow /\ s \in Sessions
  <2>1. Commits(c, "redeem")
    BY DEF CreateComponentSession
  <2> QED BY <2>1, CommitMade DEF CallGood
<1>2. session' = [session EXCEPT ![s] = q]
  <2>1. session \in [Sessions -> SessionRow]
    BY DEF LifecycleInv, SessionsInv
  <2> QED BY <2>1, <1>1 DEF CreateComponentSession
<1>3. /\ session[s] \in SessionRow /\ RowGood(session[s], era)
      /\ session[s].token = "provisioning" /\ session[s].status = "active"
      /\ delegation.status = "open" /\ installation.status = "active"
  BY <1>1 DEF CreateComponentSession, Redeemable, Open, LifecycleInv, SessionsInv
<1>4. /\ delegation \in DelegationRow /\ delegation.until \in Nat /\ delegation.trust \in TrustLevels
      /\ component["child"].until \in Nat /\ component["child"].until <= delegation.until
  BY <1>3 DEF LifecycleInv, DelegationInv, DelegationRow, ComponentRow, Components
<1>5. call[c].at + RefreshLifetime \in Nat /\ gu \in Nat /\ call[c].rev \in 0..MaxRevision
  BY <1>1, Bounds DEF CallRow
<1>6. ends \in Nat /\ ends <= delegation.until
  <2>1. /\ ends \in {call[c].at + RefreshLifetime, component["child"].until}
        /\ ends <= component["child"].until
    BY <1>4, <1>5, LeastOfTwo
  <2> HIDE DEF ends
  <2> QED BY <2>1, <1>4, <1>5
<1>7. /\ delegation' = [delegation EXCEPT !.status = "consumed"]
      /\ UNCHANGED <<challenge, installation, family, component>>
  BY DEF CreateComponentSession
<1> HIDE DEF ends, gu, s
<1>8. /\ q \in SessionRow
      /\ q.of = session[s].of /\ q.status = session[s].status /\ q.from = session[s].from
      /\ q.era = session[s].era /\ q.token = "active" /\ q.grant = "live"
      /\ q.tokenUntil = ends /\ q.trust = delegation.trust
  BY <1>3, <1>4, <1>5, <1>6, Bounds DEF SessionRow
<1> HIDE DEF q
<1>9. RowGood(q, era)
  BY <1>3, <1>4, <1>8 DEF RowGood, Usables
<1>10. RowClosed(q, installation)
  BY <1>3 DEF RowClosed
<1>11. RowWithin(q, delegation)
  <2>1. delegation.trust \in Nat
    BY <1>4, Bounds
  <2>2. q.tokenUntil <= delegation.until /\ q.trust <= delegation.trust
    BY <2>1, <1>6, <1>8
  <2> QED BY <2>2 DEF RowWithin
<1>12. /\ delegation' \in DelegationRow /\ delegation'.until = delegation.until
       /\ delegation'.trust = delegation.trust /\ delegation'.attested = delegation.attested
       /\ delegation'.status = "consumed"
  BY <1>4, <1>7 DEF DelegationRow
<1>13. SessionsInv'
  BY <1>1, <1>2, <1>7, <1>8, <1>9, <1>10, <1>11, <1>12, SessionRenewed
<1>14. OwnersInv' /\ ChallengesInv'
  BY <1>1, <1>7, OthersKept
<1>15. DelegationInv'
  BY <1>7, <1>12 DEF LifecycleInv, DelegationInv
<1> QED BY <1>1, <1>13, <1>14, <1>15 DEF LifecycleInv

LEMMA RefreshKeeps ==
    ASSUME LifecycleInv, NEW s \in Sessions, Refresh(s)
    PROVE  LifecycleInv'
<1> DEFINE ends == IF session[s].of = "root" THEN clock + RefreshLifetime
                   ELSE Least({clock + RefreshLifetime, component["child"].until})
           gu == clock + AccessLifetime
           q == [session[s] EXCEPT !.grantUntil = gu, !.rev = revision, !.tokenUntil = ends]
<1>1. /\ session' = [session EXCEPT ![s] = q]
      /\ UNCHANGED <<clock, scope, era, revision, challenge, installation, family, component,
                     delegation, call>>
  <2>1. session \in [Sessions -> SessionRow]
    BY DEF LifecycleInv, SessionsInv
  <2> QED BY <2>1 DEF Refresh
<1>2. /\ session[s] \in SessionRow /\ RowGood(session[s], era) /\ RowClosed(session[s], installation)
      /\ RowWithin(session[s], delegation)
  BY DEF LifecycleInv, SessionsInv
<1>3. /\ delegation.until \in Nat
      /\ component["child"].until \in Nat /\ component["child"].until <= delegation.until
  BY DEF LifecycleInv, DelegationInv, DelegationRow, ComponentRow, Components
<1>4. clock + RefreshLifetime \in Nat /\ gu \in Nat /\ revision \in 0..MaxRevision
  BY Bounds DEF LifecycleInv, ScopeInv
<1>5. ends \in Nat /\ (session[s].of = "child" => ends <= delegation.until)
  <2> DEFINE e == Least({clock + RefreshLifetime, component["child"].until})
  <2>1. e \in {clock + RefreshLifetime, component["child"].until} /\ e <= component["child"].until
    BY <1>3, <1>4, LeastOfTwo
  <2>2. ends = IF session[s].of = "root" THEN clock + RefreshLifetime ELSE e
    OBVIOUS
  <2> HIDE DEF e, ends
  <2> QED BY <2>1, <2>2, <1>3, <1>4
<1> HIDE DEF ends, gu
<1>6. /\ q \in SessionRow
      /\ q.of = session[s].of /\ q.status = session[s].status /\ q.from = session[s].from
      /\ q.era = session[s].era /\ q.token = session[s].token /\ q.grant = session[s].grant
      /\ q.tokenUntil = ends /\ q.trust = session[s].trust
  BY <1>2, <1>4, <1>5 DEF SessionRow
<1> HIDE DEF q
<1>7. RowGood(q, era) /\ RowClosed(q, installation) /\ RowWithin(q, delegation)
  BY <1>2, <1>5, <1>6 DEF RowGood, RowClosed, RowWithin
<1>8. SessionsInv'
  BY <1>1, <1>6, <1>7, SessionRenewed
<1>9. ScopeInv' /\ OwnersInv' /\ ChallengesInv' /\ DelegationInv' /\ CallsInv'
  BY <1>1, OthersKept
<1> QED BY <1>8, <1>9 DEF LifecycleInv

-----------------------------------------------------------------------------
(* Revocation. *)

LEMMA ComponentChanged ==
    ASSUME LifecycleInv, NEW r \in ComponentRow,
           component' = [component EXCEPT !["child"] = r], r.until <= component["child"].until,
           delegation' \in DelegationRow, delegation'.until = delegation.until,
           delegation'.attested = delegation.attested, delegation'.status # "open"
    PROVE  DelegationInv'
<1>1. component \in [Components -> ComponentRow] /\ "child" \in Components
  BY DEF LifecycleInv, DelegationInv, Components
<1>2. component' \in [Components -> ComponentRow] /\ component'["child"] = r
  BY <1>1
<1>3. /\ r.until \in Nat /\ component["child"].until \in Nat /\ delegation.until \in Nat
  BY <1>1 DEF ComponentRow, LifecycleInv, DelegationInv, DelegationRow
<1> QED BY <1>2, <1>3 DEF LifecycleInv, DelegationInv

\* The rows of the delegation keep their times when it is revoked.
LEMMA DelegationEnded ==
    ASSUME LifecycleInv, NEW st \in {"none", "consumed", "revoked"},
           delegation' = [delegation EXCEPT !.status = st]
    PROVE  /\ delegation' \in DelegationRow /\ delegation'.status = st
           /\ delegation'.until = delegation.until /\ delegation'.trust = delegation.trust
           /\ delegation'.attested = delegation.attested
<1>1. delegation \in DelegationRow
  BY DEF LifecycleInv, DelegationInv
<1> QED BY <1>1 DEF DelegationRow

LEMMA RevokeComponentKeeps ==
    ASSUME LifecycleInv, RevokeComponent
    PROVE  LifecycleInv'
<1> DEFINE r == [component["child"] EXCEPT !.status = "revoked"]
<1>1. UNCHANGED <<clock, scope, era, revision, challenge, installation, family, call>>
  BY DEF RevokeComponent
<1>2. component \in [Components -> ComponentRow] /\ component["child"] \in ComponentRow
  BY DEF LifecycleInv, DelegationInv, Components
<1>3. r \in ComponentRow /\ r.until = component["child"].until /\ component["child"].until \in Nat
  BY <1>2 DEF ComponentRow
<1>4. component' = [component EXCEPT !["child"] = r]
  BY <1>2 DEF RevokeComponent
<1> HIDE DEF r
<1>5. /\ delegation' \in DelegationRow /\ delegation'.status = "revoked"
      /\ delegation'.until = delegation.until /\ delegation'.trust = delegation.trust
      /\ delegation'.attested = delegation.attested
  BY DelegationEnded DEF RevokeComponent
<1>6. DelegationInv'
  <2>1. r.until <= component["child"].until
    BY <1>3
  <2>2. delegation'.status # "open"
    BY <1>5
  <2> QED BY <2>1, <2>2, <1>3, <1>4, <1>5, ComponentChanged
<1>7. ScopeInv' /\ OwnersInv' /\ ChallengesInv' /\ SpentStays /\ CallsInv' /\ NotRevoked
  BY <1>1, OthersKept DEF NotRevoked
<1>8. session' = Revoked({"child"})
  BY DEF RevokeComponent
<1>9. session' \in [Sessions -> SessionRow] /\ \A s \in Sessions : Weaker(session[s], session'[s])
  BY <1>8, RevokedRows
<1>10. SessionsInv'
  BY <1>1, <1>5, <1>7, <1>9, SessionsEnd
<1> QED BY <1>6, <1>7, <1>10 DEF LifecycleInv

\* Everything of both components is ended.
LEMMA AllRevoked ==
    ASSUME LifecycleInv, session' = Revoked(Components)
    PROVE  /\ session' \in [Sessions -> SessionRow]
           /\ \A s \in Sessions : /\ Weaker(session[s], session'[s])
                                  /\ session'[s].grant # "live" /\ session'[s].token \notin Usables
<1>1. \A s \in Sessions : session[s].of \in Components
  BY DEF LifecycleInv, SessionsInv, SessionRow
<1> QED BY <1>1, RevokedRows

LEMMA RevokeFamilyKeeps ==
    ASSUME LifecycleInv, RevokeCurrentFamily
    PROVE  LifecycleInv'
<1> DEFINE row(x) == IF component[x].status = "active" THEN [component[x] EXCEPT !.status = "revoked"]
                     ELSE component[x]
           st == IF delegation.status = "none" THEN delegation.status ELSE "revoked"
<1>1. UNCHANGED <<clock, scope, era, revision, challenge, call>>
  BY DEF RevokeCurrentFamily
<1>2. \A x \in Components : row(x) \in ComponentRow /\ row(x).until = component[x].until
  BY DEF LifecycleInv, DelegationInv, ComponentRow
<1>3. component' = [x \in Components |-> row(x)] /\ "child" \in Components
  BY DEF RevokeCurrentFamily, Components
<1> HIDE DEF row
<1>4. component' \in [Components -> ComponentRow] /\ component'["child"].until = component["child"].until
  BY <1>2, <1>3
<1>5. delegation' = [delegation EXCEPT !.status = st] /\ st \in {"none", "consumed", "revoked"}
  BY DEF RevokeCurrentFamily
<1>6. /\ delegation' \in DelegationRow /\ delegation'.status # "open"
      /\ delegation'.until = delegation.until /\ delegation'.trust = delegation.trust
      /\ delegation'.attested = delegation.attested
  <2> HIDE DEF st
  <2> QED BY <1>5, DelegationEnded
<1>7. DelegationInv'
  BY <1>4, <1>6 DEF LifecycleInv, DelegationInv
<1>8. ScopeInv' /\ ChallengesInv' /\ SpentStays /\ CallsInv'
  BY <1>1, OthersKept
<1>9. OwnersInv'
  BY DEF RevokeCurrentFamily, LifecycleInv, OwnersInv, InstallationRow
<1>10. SessionsInv'
  BY <1>1, <1>6, <1>8, AllRevoked, SessionsEnd DEF RevokeCurrentFamily
<1> QED BY <1>7, <1>8, <1>9, <1>10 DEF LifecycleInv

LEMMA RevokeInstallationKeeps ==
    ASSUME LifecycleInv, RevokeCurrentInstallation
    PROVE  LifecycleInv'
<1>1. UNCHANGED <<clock, scope, era, revision, challenge, family, component, delegation, call>>
  BY DEF RevokeCurrentInstallation
<1>2. ScopeInv' /\ ChallengesInv' /\ SpentStays /\ CallsInv' /\ DelegationInv'
  BY <1>1, OthersKept
<1>3. OwnersInv'
  BY DEF RevokeCurrentInstallation, LifecycleInv, OwnersInv, InstallationRow
<1>4. session \in [Sessions -> SessionRow] /\ session' = GrantsRevoked(session)
  BY DEF LifecycleInv, SessionsInv, RevokeCurrentInstallation, InstallationGrantsRevoked
<1>5. /\ session' \in [Sessions -> SessionRow]
      /\ \A s \in Sessions : Weaker(session[s], session'[s]) /\ session'[s].grant # "live"
  BY <1>4, GrantsRevokedRows
<1>6. SessionsInv'
  BY <1>1, <1>2, <1>5, SessionsEnd
<1> QED BY <1>2, <1>3, <1>6 DEF LifecycleInv

LEMMA ExpireTrustKeeps ==
    ASSUME LifecycleInv, NEW xs, ExpireTrust(xs)
    PROVE  LifecycleInv'
<1> DEFINE row(x) == IF x \in xs THEN [component[x] EXCEPT !.until = Least({component[x].until, clock})]
                     ELSE component[x]
           ses(s) == IF session[s].of \in xs /\ session[s].token \in {"active", "provisioning"}
                     THEN [session[s] EXCEPT !.token = "revoked"] ELSE session[s]
<1>1. UNCHANGED <<clock, scope, era, revision, challenge, installation, family, delegation, call>>
  BY DEF ExpireTrust
<1>2. ASSUME NEW x \in Components
      PROVE  row(x) \in ComponentRow /\ row(x).until <= component[x].until
  <2> DEFINE u == Least({component[x].until, clock})
  <2>1. component[x] \in ComponentRow /\ component[x].until \in Nat /\ clock \in Nat
    BY DEF LifecycleInv, DelegationInv, ComponentRow, ScopeInv
  <2>2. u \in {component[x].until, clock} /\ u <= component[x].until
    BY <2>1, LeastOfTwo
  <2>3. u \in Nat
    BY <2>1, <2>2
  <2> HIDE DEF u
  <2>4. [component[x] EXCEPT !.until = u] \in ComponentRow /\ [component[x] EXCEPT !.until = u].until = u
    BY <2>1, <2>3 DEF ComponentRow
  <2> QED BY <2>1, <2>2, <2>4 DEF u
<1>3. component' = [x \in Components |-> row(x)] /\ "child" \in Components
  BY DEF ExpireTrust, Components
<1> HIDE DEF row
<1>4. component' \in [Components -> ComponentRow] /\ component'["child"].until <= component["child"].until
  BY <1>2, <1>3
<1>5. DelegationInv'
  <2>1. /\ component'["child"].until \in Nat /\ component["child"].until \in Nat
        /\ delegation.until \in Nat
    BY <1>3, <1>4 DEF LifecycleInv, DelegationInv, ComponentRow, DelegationRow
  <2> QED BY <2>1, <1>1, <1>4 DEF LifecycleInv, DelegationInv
<1>6. ScopeInv' /\ OwnersInv' /\ ChallengesInv' /\ SpentStays /\ CallsInv' /\ NotRevoked
  BY <1>1, OthersKept DEF NotRevoked
<1>7. ASSUME NEW s \in Sessions PROVE ses(s) \in SessionRow /\ Weaker(session[s], ses(s))
  <2>1. session[s] \in SessionRow
    BY DEF LifecycleInv, SessionsInv
  <2>2. CASE session[s].of \in xs /\ session[s].token \in Usables
    BY <2>1, <2>2, TokenEnded DEF Usables
  <2>3. CASE ~(session[s].of \in xs /\ session[s].token \in Usables)
    BY <2>1, <2>3, WeakerItself DEF Usables
  <2> QED BY <2>2, <2>3
<1>8. session' = [s \in Sessions |-> ses(s)]
  BY DEF ExpireTrust
<1> HIDE DEF ses
<1>9. session' \in [Sessions -> SessionRow] /\ \A s \in Sessions : Weaker(session[s], session'[s])
  BY <1>7, <1>8
<1>10. SessionsInv'
  BY <1>1, <1>6, <1>9, SessionsEnd
<1> QED BY <1>5, <1>6, <1>10 DEF LifecycleInv

-----------------------------------------------------------------------------
(* Disabling and enabling. *)

\* revokeScopedCredentials ends whatever was made, and no call holds the scope.
LEMMA DisableKeeps ==
    ASSUME LifecycleInv, DisableScope
    PROVE  LifecycleInv'
<1> DEFINE row(i) == IF challenge[i].status = "open" THEN [challenge[i] EXCEPT !.status = "consumed"]
                     ELSE challenge[i]
           st == IF delegation.status = "none" THEN delegation.status ELSE "revoked"
<1>1. UNCHANGED <<clock, revision, installation, family, component, call>>
  BY DEF DisableScope
<1>2. ScopeInv' /\ OwnersInv'
  BY <1>1, Bounds, OthersKept DEF DisableScope, LifecycleInv, ScopeInv
<1>3. ASSUME NEW i \in Challenges
      PROVE  /\ row(i) \in ChallengeRow /\ row(i).status # "open"
             /\ challenge[i].status \in {"consumed", "deleted"} => row(i) = challenge[i]
  <2>1. challenge[i] \in ChallengeRow
    BY DEF LifecycleInv, ChallengesInv
  <2>2. CASE challenge[i].status = "open"
    BY <2>1, <2>2, ChallengeSpent
  <2>3. CASE challenge[i].status # "open"
    BY <2>1, <2>3
  <2> QED BY <2>2, <2>3
<1>4. challenge' = [i \in Challenges |-> row(i)]
  <2>1. \A i \in Challenges : Consumed(i)[i] = [challenge[i] EXCEPT !.status = "consumed"]
    BY DEF Consumed, LifecycleInv, ChallengesInv
  <2> QED BY <2>1 DEF DisableScope
<1> HIDE DEF row
<1>5. ChallengesInv' /\ SpentStays
  BY <1>3, <1>4 DEF ChallengesInv, SpentStays
<1>6. delegation' = [delegation EXCEPT !.status = st] /\ st \in {"none", "consumed", "revoked"}
  BY DEF DisableScope
<1>7. /\ delegation' \in DelegationRow /\ delegation'.status # "open"
      /\ delegation'.until = delegation.until /\ delegation'.trust = delegation.trust
      /\ delegation'.attested = delegation.attested
  <2> HIDE DEF st
  <2> QED BY <1>6, DelegationEnded
<1>8. DelegationInv'
  BY <1>1, <1>7 DEF LifecycleInv, DelegationInv
<1>9. CallsInv'
  BY <1>1 DEF DisableScope, ScopeLockFree, LifecycleInv, CallsInv, CallGood
<1>10. SessionsInv'
  BY <1>1, <1>5, <1>7, AllRevoked, SessionsEnd DEF DisableScope
<1> QED BY <1>2, <1>5, <1>8, <1>9, <1>10 DEF LifecycleInv

\* Steps that change the scope's status, the revision or the clock only.
LEMMA OnlyScope ==
    ASSUME LifecycleInv, ScopeInv', UNCHANGED <<era, stored, call>>
    PROVE  LifecycleInv'
<1>1. UNCHANGED <<challenge, installation, family, component, delegation, session>>
  BY DEF stored
<1>2. OwnersInv' /\ ChallengesInv' /\ SpentStays /\ CallsInv' /\ DelegationInv'
  BY <1>1, OthersKept
<1>3. SessionsInv'
  BY <1>1, <1>2, SessionsStay
<1> QED BY <1>2, <1>3 DEF LifecycleInv

LEMMA ScopeStepsKeep ==
    ASSUME LifecycleInv, EnableScope \/ ActivateRevision \/ Tick
    PROVE  LifecycleInv'
<1>1. ScopeInv' /\ UNCHANGED <<era, stored, call>>
  BY Bounds DEF EnableScope, ActivateRevision, Tick, LifecycleInv, ScopeInv
<1> QED BY <1>1, OnlyScope

-----------------------------------------------------------------------------
LEMMA StepKeeps == LifecycleInv /\ [Next]_vars => LifecycleInv'
<1> SUFFICES ASSUME LifecycleInv, [Next]_vars PROVE LifecycleInv'
  OBVIOUS
<1>1. ASSUME NEW c \in Callers, Step(c) PROVE LifecycleInv'
  BY <1>1, CallStepsKeep, CreateChallengeKeeps, ExchangeKeeps, ProvisionKeeps, RedeemKeeps,
     StepUpChallengeKeeps, StepUpKeeps DEF Step
<1>2. ASSUME NEW i \in Challenges, DeleteExpired(i) PROVE LifecycleInv'
  BY <1>2, DeleteExpiredKeeps
<1>3. ASSUME NEW s \in Sessions, Refresh(s) PROVE LifecycleInv'
  BY <1>3, RefreshKeeps
<1>4. CASE RevokeComponent \/ RevokeCurrentFamily \/ RevokeCurrentInstallation
  BY <1>4, RevokeComponentKeeps, RevokeFamilyKeeps, RevokeInstallationKeeps
<1>5. CASE ExpireTrust(Components) \/ ExpireTrust({"child"})
  BY <1>5, ExpireTrustKeeps
<1>6. CASE DisableScope \/ EnableScope \/ ActivateRevision \/ Tick
  BY <1>6, DisableKeeps, ScopeStepsKeep
<1>7. CASE UNCHANGED vars
  <2>1. ScopeInv' /\ UNCHANGED <<era, stored, call>>
    BY <1>7 DEF vars, stored, LifecycleInv, ScopeInv
  <2> QED BY <2>1, OnlyScope
<1> QED BY <1>1, <1>2, <1>3, <1>4, <1>5, <1>6, <1>7 DEF Next

\* Calls that create, exchange, delegate, step up, refresh and revoke sessions
\* interleave freely, and still a component has one active session, a challenge
\* buys one, nothing is revived by enabling the scope again, nothing revoked is
\* admitted, and a child stays within its delegation.
THEOREM LifecycleSafe == Spec => []SessionsAreExclusive
<1>1. Spec => []LifecycleInv
  BY InitInv, StepKeeps, PTL DEF Spec
<1> QED BY <1>1, InvIsExclusive, PTL

-----------------------------------------------------------------------------
(* The credentials requests carry: signing keys with the tokens they sign,  *)
(* and proofs of possession.                                                *)

CONSTANTS Presenters, Nothing, TokenTime, SigningKeys, KeyLifetime, RotationLead, TokenLifetime,
          Skew, Proofs, MaxAge, ReplayRetention, MaxTokens
VARIABLES now, keys, tokens, signer, issuedAt, replay, grant, override, request, accepted

Tokens == INSTANCE AccessTokens WITH
    Calls <- Presenters, None <- Nothing, MaxTime <- TokenTime, MaxKeys <- SigningKeys,
    Lifetime <- TokenLifetime, Retention <- ReplayRetention, call <- signer

\* What NewSigningKeyManager demands of the durations.
KeyBounds ==
    /\ TokenTime \in Nat /\ SigningKeys \in Nat \ {0} /\ TokenLifetime \in Nat /\ Skew \in Nat
    /\ KeyLifetime \in Nat /\ RotationLead \in Nat /\ RotationLead < KeyLifetime

KeyRow == [status : {"none", "active", "retiring", "retired"},
           from : -1..TokenTime, until : 0..(TokenTime + KeyLifetime)]
SignerRow == [step : {"idle", "selecting", "prepared", "unavailable"},
              began : 0..TokenTime, key : 0..SigningKeys]
TokenRow == [key : Tokens!KeyIds, expires : 0..(TokenTime + TokenLifetime)]

KeyTypes ==
    /\ now \in 0..TokenTime /\ keys \in [Tokens!KeyIds -> KeyRow] /\ tokens \subseteq TokenRow
    /\ signer \in [Presenters -> SignerRow]

\* Keys are created one after another, and one is active at a time.
KeysInOrder ==
    /\ \E n \in 0..SigningKeys : \A i \in Tokens!KeyIds : keys[i].status # "none" <=> i <= n
    /\ \A i, j \in Tokens!ActiveKeys : i = j

\* A key that exists is valid since some time, and is retired after its end.
KeyLives(i) == keys[i].status # "none" =>
    keys[i].from <= now /\ (keys[i].status = "retired" => keys[i].until <= now)

TokenSigned(t) == keys[t.key].status # "none" /\ t.expires <= keys[t.key].until

\* The key a call has prepared outlasts the lead, counted from when it began.
SignerGood(k) ==
    /\ signer[k].began <= now
    /\ signer[k].step = "prepared" =>
          /\ signer[k].key \in Tokens!KeyIds /\ keys[signer[k].key].status # "none"
          /\ keys[signer[k].key].from <= signer[k].began
          /\ signer[k].began + RotationLead < keys[signer[k].key].until
    /\ signer[k].step = "unavailable" => now - signer[k].began >= RotationLead - TokenLifetime

KeysInv ==
    /\ KeyTypes /\ KeysInOrder
    /\ \A i \in Tokens!KeyIds : KeyLives(i)
    /\ \A t \in tokens : TokenSigned(t)
    /\ \A k \in Presenters : SignerGood(k)

LEMMA KeysStart ==
    ASSUME KeyBounds, Tokens!KeysInit PROVE KeysInv
<1>1. KeyTypes
  BY DEF KeyBounds, Tokens!KeysInit, KeyTypes, KeyRow, SignerRow, Tokens!NoKey, Tokens!NoCall
<1>2. \A i \in Tokens!KeyIds : keys[i].status = "none"
  BY DEF Tokens!KeysInit, Tokens!NoKey
<1>3. KeysInOrder
  <2>1. 0 \in 0..SigningKeys /\ \A i \in Tokens!KeyIds : ~(i <= 0)
    BY DEF KeyBounds, Tokens!KeyIds
  <2> QED BY <1>2, <2>1 DEF KeysInOrder, Tokens!ActiveKeys
<1>4. \A k \in Presenters : SignerGood(k)
  BY DEF Tokens!KeysInit, Tokens!NoCall, SignerGood
<1> QED BY <1>1, <1>2, <1>3, <1>4 DEF KeysInv, KeyLives, Tokens!KeysInit

\* What was signed stays so as long as no key is taken back, and so does what
\* the calls rely on, as long as the clock does not go back.
LEMMA KeysKept ==
    ASSUME KeyBounds, KeysInv, KeyTypes', now' >= now,
           \A i \in Tokens!KeyIds : keys[i].status # "none" =>
               /\ keys'[i].status # "none" /\ keys'[i].from = keys[i].from
               /\ keys'[i].until = keys[i].until
    PROVE  /\ \A t \in tokens : TokenSigned(t)'
           /\ \A k \in Presenters : signer'[k] = signer[k] => SignerGood(k)'
<1>1. \A t \in tokens : t.key \in Tokens!KeyIds /\ TokenSigned(t)
  BY DEF KeysInv, KeyTypes, TokenRow
<1>2. ASSUME NEW t \in tokens PROVE TokenSigned(t)'
  BY <1>1 DEF TokenSigned
<1>3. ASSUME NEW k \in Presenters, signer'[k] = signer[k] PROVE SignerGood(k)'
  <2>1. SignerGood(k) /\ signer[k].began \in Nat /\ now \in Nat /\ now' \in Nat
    BY DEF KeysInv, KeyTypes, SignerRow, KeyBounds
  <2> QED BY <1>3, <2>1 DEF SignerGood, KeyBounds
<1> QED BY <1>2, <1>3

LEMMA SelectSafe ==
    ASSUME KeyBounds, KeysInv, NEW k \in Presenters, Tokens!SelectKey(k) PROVE KeysInv'
<1> DEFINE b == signer[k].began
<1>1. now' = now /\ tokens' = tokens /\ now \in 0..TokenTime /\ b \in 0..TokenTime /\ b <= now
      /\ keys \in [Tokens!KeyIds -> KeyRow] /\ signer \in [Presenters -> SignerRow] /\ tokens \subseteq TokenRow
  BY DEF Tokens!SelectKey, KeysInv, KeyTypes, SignerRow, SignerGood
<1>2. CASE /\ keys' = keys
           /\ \E i \in Tokens!ActiveKeys :
                 /\ Tokens!Usable(i, b)
                 /\ signer' = [signer EXCEPT ![k].step = "prepared", ![k].key = i]
  <2>1. PICK i \in Tokens!ActiveKeys :
           Tokens!Usable(i, b) /\ signer' = [signer EXCEPT ![k].step = "prepared", ![k].key = i]
    BY <1>2
  <2>2. i \in Tokens!KeyIds /\ i \in 0..SigningKeys /\ keys[i].status = "active"
    BY DEF Tokens!ActiveKeys, Tokens!KeyIds, KeyBounds
  <2>3. /\ signer' \in [Presenters -> SignerRow] /\ \A q \in Presenters \ {k} : signer'[q] = signer[q]
        /\ signer'[k].step = "prepared" /\ signer'[k].key = i /\ signer'[k].began = b
    BY <1>1, <2>1, <2>2 DEF SignerRow
  <2>4. KeyTypes'
    BY <1>1, <1>2, <2>3 DEF KeyTypes
  <2>5. SignerGood(k)'
    BY <1>1, <1>2, <2>1, <2>2, <2>3 DEF SignerGood, Tokens!Usable
  <2>6. /\ \A t \in tokens : TokenSigned(t)'
        /\ \A q \in Presenters : signer'[q] = signer[q] => SignerGood(q)'
    BY <1>1, <1>2, <2>4, KeysKept
  <2>7. \A q \in Presenters : SignerGood(q)'
    BY <2>3, <2>5, <2>6
  <2>8. KeysInOrder' /\ \A j \in Tokens!KeyIds : KeyLives(j)'
    BY <1>1, <1>2 DEF KeysInv, KeysInOrder, KeyLives, Tokens!ActiveKeys
  <2> QED BY <1>1, <2>4, <2>6, <2>7, <2>8 DEF KeysInv
<1>3. CASE /\ keys[SigningKeys].status = "none"
           /\ keys' = Tokens!Create(Tokens!Retire(keys, Tokens!ActiveKeys), b)
           /\ signer' = [signer EXCEPT ![k].step = "prepared", ![k].key = Tokens!NextKey(keys)]
  <2>1. PICK n \in 0..SigningKeys : \A i \in Tokens!KeyIds : keys[i].status # "none" <=> i <= n
    BY DEF KeysInv, KeysInOrder
  <2> DEFINE i == n + 1
             old == Tokens!Retire(keys, Tokens!ActiveKeys)
             new == [status |-> "active", from |-> b - 1, until |-> b + KeyLifetime]
  <2>2. i \in Tokens!KeyIds /\ i \in 0..SigningKeys /\ n \in Nat
    <3>1. SigningKeys \in Tokens!KeyIds /\ ~(SigningKeys <= n)
      BY <1>3, <2>1 DEF KeyBounds, Tokens!KeyIds
    <3> QED BY <2>1, <3>1 DEF KeyBounds, Tokens!KeyIds
  <2>3. /\ old \in [Tokens!KeyIds -> KeyRow]
        /\ \A j \in Tokens!KeyIds : /\ old[j].from = keys[j].from /\ old[j].until = keys[j].until
                                    /\ old[j].status # "active"
                                    /\ old[j].status = "none" <=> keys[j].status = "none"
                                    /\ old[j].status = "retired" => keys[j].status = "retired"
    <3>1. ASSUME NEW j \in Tokens!KeyIds
          PROVE  /\ old[j] \in KeyRow
                 /\ old[j].from = keys[j].from /\ old[j].until = keys[j].until
                 /\ old[j].status # "active" /\ (old[j].status = "none" <=> keys[j].status = "none")
                 /\ old[j].status = "retired" => keys[j].status = "retired"
      <4>1. keys[j] \in KeyRow
        BY <1>1
      <4>2. CASE j \in Tokens!ActiveKeys
        <5>1. old[j] = [keys[j] EXCEPT !.status = "retiring"] /\ keys[j].status = "active"
          BY <4>2 DEF Tokens!Retire, Tokens!ActiveKeys
        <5> QED BY <4>1, <5>1 DEF KeyRow
      <4>3. CASE j \notin Tokens!ActiveKeys
        <5>1. old[j] = keys[j] /\ keys[j].status # "active"
          BY <4>3 DEF Tokens!Retire, Tokens!ActiveKeys
        <5> QED BY <4>1, <5>1
      <4> QED BY <4>2, <4>3
    <3>2. old = [j \in Tokens!KeyIds |-> old[j]]
      BY DEF Tokens!Retire
    <3> HIDE DEF old
    <3> QED BY <3>1, <3>2
  <2>4. \A ks : (\A j \in Tokens!KeyIds : ks[j].status = "none" <=> keys[j].status = "none") => Tokens!NextKey(ks) = i
    <3>1. SUFFICES ASSUME NEW ks, \A j \in Tokens!KeyIds : ks[j].status = "none" <=> keys[j].status = "none"
                   PROVE  Tokens!NextKey(ks) = i
      OBVIOUS
    <3> DEFINE P(j) == ks[j].status = "none" /\ \A m \in 1..(j - 1) : ks[m].status # "none"
    <3>2. \A j \in Tokens!KeyIds : ks[j].status = "none" <=> j > n
      BY <2>1, <2>2, <3>1 DEF Tokens!KeyIds, KeyBounds
    <3>3. P(i)
      BY <2>2, <3>2 DEF Tokens!KeyIds, KeyBounds
    <3>4. ASSUME NEW j \in Tokens!KeyIds, P(j) PROVE j = i
      <4>1. j > n /\ j \in Nat
        BY <3>2, <3>4 DEF Tokens!KeyIds
      <4>2. ~(j > n + 1)
        <5>1. SUFFICES ASSUME j > n + 1 PROVE FALSE
          OBVIOUS
        <5>2. i \in 1..(j - 1)
          BY <2>2, <4>1, <5>1
        <5> QED BY <3>3, <3>4, <5>2
      <4> QED BY <2>2, <4>1, <4>2
    <3> HIDE DEF i
    <3> QED BY <2>2, <3>3, <3>4 DEF Tokens!NextKey
  <2>5. Tokens!NextKey(keys) = i /\ Tokens!NextKey(old) = i
    <3> HIDE DEF old, i
    <3> QED BY <2>3, <2>4
  <2>6. new \in KeyRow /\ new.status = "active" /\ new.from = b - 1 /\ new.until = b + KeyLifetime
    BY <1>1 DEF KeyRow, KeyBounds
  <2> HIDE DEF old, new, i, b
  <2>7. keys' = [old EXCEPT ![i] = new]
    BY <1>3, <2>5 DEF Tokens!Create, old, new
  <2>8. /\ keys' \in [Tokens!KeyIds -> KeyRow] /\ keys'[i] = new
        /\ \A j \in Tokens!KeyIds \ {i} : keys'[j] = old[j]
    BY <2>2, <2>3, <2>6, <2>7
  <2>9. /\ signer' \in [Presenters -> SignerRow] /\ \A q \in Presenters \ {k} : signer'[q] = signer[q]
        /\ signer'[k].step = "prepared" /\ signer'[k].key = i /\ signer'[k].began = b
    BY <1>1, <1>3, <2>2, <2>5 DEF SignerRow, b
  <2>10. KeyTypes'
    BY <1>1, <2>8, <2>9 DEF KeyTypes
  <2>11. keys[i].status = "none"
    BY <2>1, <2>2 DEF i
  <2>12. \A j \in Tokens!KeyIds : keys[j].status # "none" =>
            /\ keys'[j].status # "none" /\ keys'[j].from = keys[j].from /\ keys'[j].until = keys[j].until
    BY <2>3, <2>8, <2>11
  <2>13. SignerGood(k)'
    BY <1>1, <2>2, <2>6, <2>8, <2>9 DEF SignerGood, KeyBounds
  <2>14. /\ \A t \in tokens : TokenSigned(t)'
         /\ \A q \in Presenters : signer'[q] = signer[q] => SignerGood(q)'
    BY <1>1, <2>10, <2>12, KeysKept
  <2>15. \A q \in Presenters : SignerGood(q)'
    BY <2>9, <2>13, <2>14
  <2>16. ASSUME NEW j \in Tokens!KeyIds PROVE KeyLives(j)'
    <3>1. CASE j = i
      BY <1>1, <2>6, <2>8, <3>1 DEF KeyLives
    <3>2. CASE j # i
      <4>1. KeyLives(j) /\ keys'[j] = old[j]
        BY <2>8, <3>2 DEF KeysInv
      <4> QED BY <1>1, <2>3, <4>1 DEF KeyLives
    <3> QED BY <3>1, <3>2
  <2>17. KeysInOrder'
    <3>1. \A j \in Tokens!KeyIds : keys'[j].status # "none" <=> j <= n + 1
      <4>1. TAKE j \in Tokens!KeyIds
      <4>2. CASE j = i
        BY <2>2, <2>6, <2>8, <4>2 DEF i
      <4>3. CASE j # i
        <5>1. keys'[j].status # "none" <=> j <= n
          BY <2>1, <2>3, <2>8, <4>3
        <5>2. j <= n <=> j <= n + 1
          BY <2>2, <4>3 DEF i, Tokens!KeyIds
        <5> QED BY <5>1, <5>2
      <4> QED BY <4>2, <4>3
    <3>2. \A j \in Tokens!KeyIds : keys'[j].status = "active" => j = i
      BY <2>3, <2>8
    <3>3. n + 1 \in 0..SigningKeys
      BY <2>2 DEF i
    <3> QED BY <3>1, <3>2, <3>3 DEF KeysInOrder, Tokens!ActiveKeys
  <2> QED BY <1>1, <2>10, <2>14, <2>15, <2>16, <2>17 DEF KeysInv
<1> QED BY <1>2, <1>3 DEF Tokens!SelectKey

LEMMA IssueSafe ==
    ASSUME KeyBounds, KeysInv, NEW k \in Presenters, Tokens!IssueFor(k) PROVE KeysInv'
<1> DEFINE b == signer[k].began
           key == signer[k].key
           expires == now + TokenLifetime
           t == [key |-> key, expires |-> expires]
<1>1. /\ now' = now /\ keys' = keys /\ now \in 0..TokenTime /\ b \in 0..TokenTime /\ b <= now
      /\ keys \in [Tokens!KeyIds -> KeyRow] /\ signer \in [Presenters -> SignerRow] /\ tokens \subseteq TokenRow
      /\ key \in Tokens!KeyIds /\ keys[key].status # "none" /\ keys[key] \in KeyRow
      /\ keys[key].from <= b /\ b + RotationLead < keys[key].until
  BY DEF Tokens!IssueFor, KeysInv, KeyTypes, SignerRow, SignerGood
<1>2. KeysInOrder' /\ \A j \in Tokens!KeyIds : KeyLives(j)'
  BY <1>1 DEF KeysInv, KeysInOrder, KeyLives, Tokens!ActiveKeys
<1>3. CASE /\ Tokens!Signs(key, expires) /\ tokens' = tokens \cup {t}
           /\ signer' = [signer EXCEPT ![k] = Tokens!NoCall]
  <2>1. t \in TokenRow /\ t.key = key /\ t.expires = expires
    BY <1>1 DEF TokenRow, KeyBounds
  <2>2. /\ signer' \in [Presenters -> SignerRow] /\ \A q \in Presenters \ {k} : signer'[q] = signer[q]
        /\ signer'[k] = Tokens!NoCall
    BY <1>1, <1>3 DEF SignerRow, Tokens!NoCall, KeyBounds
  <2>3. KeyTypes'
    BY <1>1, <1>3, <2>1, <2>2 DEF KeyTypes
  <2>4. keys'[t.key].status # "none" /\ t.expires <= keys'[t.key].until
    BY <1>1, <1>3, <2>1 DEF Tokens!Signs
  <2>5. SignerGood(k)'
    BY <1>1, <2>2 DEF SignerGood, Tokens!NoCall
  <2>6. /\ \A x \in tokens : TokenSigned(x)'
        /\ \A q \in Presenters : signer'[q] = signer[q] => SignerGood(q)'
    BY <1>1, <2>3, KeysKept
  <2>7. \A x \in tokens' : TokenSigned(x)'
    <3> HIDE DEF t
    <3>1. TAKE x \in tokens'
    <3>2. CASE x = t
      BY <2>4, <3>2 DEF TokenSigned
    <3>3. CASE x \in tokens
      BY <2>6, <3>3
    <3> QED BY <1>3, <3>2, <3>3
  <2> QED BY <1>2, <2>2, <2>3, <2>5, <2>6, <2>7 DEF KeysInv
<1>4. CASE /\ ~Tokens!Signs(key, expires) /\ tokens' = tokens
           /\ signer' = [signer EXCEPT ![k].step = "unavailable"]
  <2>1. /\ signer' \in [Presenters -> SignerRow] /\ \A q \in Presenters \ {k} : signer'[q] = signer[q]
        /\ signer'[k].step = "unavailable" /\ signer'[k].began = b
    BY <1>1, <1>4 DEF SignerRow
  <2>2. KeyTypes'
    BY <1>1, <1>4, <2>1 DEF KeyTypes
  <2>3. expires > keys[key].until
    BY <1>1, <1>4 DEF Tokens!Signs, KeyBounds, KeyRow
  <2>4. now - b >= RotationLead - TokenLifetime
    BY <1>1, <2>3 DEF KeyBounds, KeyRow
  <2>5. SignerGood(k)'
    BY <1>1, <2>1, <2>4 DEF SignerGood
  <2>6. /\ \A x \in tokens : TokenSigned(x)'
        /\ \A q \in Presenters : signer'[q] = signer[q] => SignerGood(q)'
    BY <1>1, <2>2, KeysKept
  <2> QED BY <1>2, <1>4, <2>1, <2>2, <2>5, <2>6 DEF KeysInv
<1> QED BY <1>3, <1>4 DEF Tokens!IssueFor

LEMMA KeysStep ==
    ASSUME KeyBounds, KeysInv, [Tokens!KeysNext]_(Tokens!keyVars) PROVE KeysInv'
<1>1. CASE UNCHANGED <<keys, tokens, signer>> /\ now' \in 0..TokenTime /\ now' >= now
  <2>1. KeyTypes'
    BY <1>1 DEF KeysInv, KeyTypes
  <2>2. KeysInOrder'
    BY <1>1 DEF KeysInv, KeysInOrder, Tokens!ActiveKeys
  <2>3. \A i \in Tokens!KeyIds : KeyLives(i)'
    <3>1. \A i \in Tokens!KeyIds : keys[i].from \in Int /\ keys[i].until \in Int
      BY DEF KeysInv, KeyTypes, KeyRow, KeyBounds
    <3>2. now \in Int /\ now' \in Int
      BY <1>1 DEF KeysInv, KeyTypes, KeyBounds
    <3> QED BY <1>1, <3>1, <3>2 DEF KeysInv, KeyLives
  <2>4. /\ \A t \in tokens : TokenSigned(t)'
        /\ \A q \in Presenters : signer'[q] = signer[q] => SignerGood(q)'
    BY <1>1, <2>1, KeysKept
  <2> QED BY <1>1, <2>1, <2>2, <2>3, <2>4 DEF KeysInv
<1>2. CASE Tokens!RetireExpired
  <2>1. UNCHANGED <<now, tokens, signer>> /\ now \in Int
        /\ keys' = [i \in Tokens!KeyIds |-> IF keys[i].status = "retiring" /\ keys[i].until <= now
                                 THEN [keys[i] EXCEPT !.status = "retired"] ELSE keys[i]]
    BY <1>2 DEF Tokens!RetireExpired, KeysInv, KeyTypes, KeyBounds
  <2>2. ASSUME NEW i \in Tokens!KeyIds
        PROVE  /\ keys'[i] \in KeyRow /\ keys'[i].from = keys[i].from /\ keys'[i].until = keys[i].until
               /\ keys'[i].status = "none" <=> keys[i].status = "none"
               /\ keys'[i].status = "active" <=> keys[i].status = "active"
               /\ keys'[i].status = "retired" => keys[i].status = "retired" \/ keys[i].until <= now
    <3>1. keys[i] \in KeyRow
      BY DEF KeysInv, KeyTypes
    <3>2. CASE keys[i].status = "retiring" /\ keys[i].until <= now
      <4>1. keys'[i] = [keys[i] EXCEPT !.status = "retired"]
        BY <2>1, <3>2
      <4> QED BY <3>1, <3>2, <4>1 DEF KeyRow
    <3>3. CASE ~(keys[i].status = "retiring" /\ keys[i].until <= now)
      <4>1. keys'[i] = keys[i]
        BY <2>1, <3>3
      <4> QED BY <3>1, <4>1
    <3> QED BY <3>2, <3>3
  <2>3. KeyTypes'
    <3>1. keys' = [i \in Tokens!KeyIds |-> keys'[i]]
      BY <2>1
    <3> QED BY <2>1, <2>2, <3>1 DEF KeysInv, KeyTypes
  <2>4. KeysInOrder'
    BY <2>2 DEF KeysInv, KeysInOrder, Tokens!ActiveKeys
  <2>5. \A i \in Tokens!KeyIds : KeyLives(i)'
    BY <2>1, <2>2 DEF KeysInv, KeyLives
  <2>6. /\ \A t \in tokens : TokenSigned(t)'
        /\ \A q \in Presenters : signer'[q] = signer[q] => SignerGood(q)'
    BY <2>1, <2>2, <2>3, KeysKept
  <2> QED BY <2>1, <2>3, <2>4, <2>5, <2>6 DEF KeysInv
<1>3. ASSUME NEW k \in Presenters, UNCHANGED <<now, keys, tokens>>,
             NEW row \in {Tokens!NoCall, [step |-> "selecting", began |-> now, key |-> 0]},
             signer' = [signer EXCEPT ![k] = row]
      PROVE  KeysInv'
  <2>1. /\ row \in SignerRow /\ row.began <= now /\ row.step \notin {"prepared", "unavailable"}
        /\ now \in 0..TokenTime
    <3>1. now \in 0..TokenTime /\ TokenTime \in Nat /\ SigningKeys \in Nat
      BY DEF KeysInv, KeyTypes, KeyBounds
    <3> QED BY <1>3, <3>1 DEF SignerRow, Tokens!NoCall
  <2>2. /\ signer' \in [Presenters -> SignerRow] /\ signer'[k] = row
        /\ \A q \in Presenters \ {k} : signer'[q] = signer[q]
    BY <1>3, <2>1 DEF KeysInv, KeyTypes
  <2>3. KeyTypes' /\ now' >= now
    BY <1>3, <2>1, <2>2 DEF KeysInv, KeyTypes
  <2>4. SignerGood(k)'
    BY <1>3, <2>1, <2>2 DEF SignerGood
  <2>5. /\ \A t \in tokens : TokenSigned(t)'
        /\ \A q \in Presenters : signer'[q] = signer[q] => SignerGood(q)'
    BY <1>3, <2>3, KeysKept
  <2>6. KeysInOrder' /\ \A j \in Tokens!KeyIds : KeyLives(j)'
    BY <1>3 DEF KeysInv, KeysInOrder, KeyLives, Tokens!ActiveKeys
  <2> QED BY <1>3, <2>2, <2>3, <2>4, <2>5, <2>6 DEF KeysInv
<1>4. ASSUME NEW k \in Presenters, Tokens!Active(k) PROVE KeysInv'
  BY <1>3, <1>4 DEF Tokens!Active
<1>5. ASSUME NEW k \in Presenters, Tokens!EndCall(k) PROVE KeysInv'
  BY <1>3, <1>5 DEF Tokens!EndCall
<1>6. CASE Tokens!Tick /\ UNCHANGED <<keys, tokens, signer>>
  <2>1. now' \in 0..TokenTime /\ now' >= now
    BY <1>6 DEF Tokens!Tick, KeysInv, KeyTypes, KeyBounds
  <2> QED BY <1>1, <1>6, <2>1
<1>7. CASE UNCHANGED Tokens!keyVars
  <2>1. now' \in 0..TokenTime /\ now' >= now
    BY <1>7 DEF Tokens!keyVars, KeysInv, KeyTypes, KeyBounds
  <2> QED BY <1>1, <1>7, <2>1 DEF Tokens!keyVars
<1> QED BY <1>2, <1>4, <1>5, <1>6, <1>7, SelectSafe, IssueSafe DEF Tokens!KeysNext

LEMMA KeysHold ==
    ASSUME KeyBounds, KeysInv PROVE Tokens!KeysTypeOK /\ Tokens!TokensVerify /\ Tokens!PreparedKeyLasts
<1>1. Tokens!KeysTypeOK
  <2>1. \A S : Tokens!Cardinality(S) = Cardinality(S)
    BY Zenon DEF Tokens!Cardinality, Cardinality
  <2>2. Cardinality(Tokens!ActiveKeys) <= 1
    <3>1. CASE Tokens!ActiveKeys = {}
      <4>1. Cardinality(Tokens!ActiveKeys) = 0
        BY <3>1, FS_EmptySet
      <4> QED BY <4>1
    <3>2. CASE Tokens!ActiveKeys # {}
      <4>1. PICK i \in Tokens!ActiveKeys : Tokens!ActiveKeys = {i}
        BY <3>2 DEF KeysInv, KeysInOrder
      <4>2. Cardinality({i}) = 1
        BY FS_Singleton
      <4> QED BY <4>1, <4>2
    <3> QED BY <3>1, <3>2
  <2> QED BY <2>1, <2>2 DEF KeysInv, KeyTypes, KeyRow, TokenRow, Tokens!KeysTypeOK
<1>2. Tokens!TokensVerify
  <2>1. SUFFICES ASSUME NEW t \in tokens, now < t.expires PROVE t.key \in Tokens!PublicKeys
    BY DEF Tokens!TokensVerify
  <2> DEFINE i == t.key
  <2>2. i \in Tokens!KeyIds /\ keys[i] \in KeyRow /\ now \in Int /\ t.expires \in Int
        /\ keys[i].status # "none" /\ t.expires <= keys[i].until /\ KeyLives(i)
    BY DEF KeysInv, KeyTypes, TokenRow, TokenSigned, KeyBounds
  <2>3. now < keys[i].until /\ keys[i].from <= now /\ keys[i].status # "retired"
    BY <2>1, <2>2 DEF KeyRow, KeyLives, KeyBounds
  <2>4. keys[i].status \in {"active", "retiring"}
    BY <2>2, <2>3 DEF KeyRow
  <2> QED BY <2>2, <2>3, <2>4 DEF Tokens!PublicKeys
<1>3. Tokens!PreparedKeyLasts
  BY DEF KeysInv, SignerGood, Tokens!PreparedKeyLasts
<1> QED BY <1>1, <1>2, <1>3

\* Every access token can be verified until it expires, for any lifetimes the
\* manager admits and any number of replicas that rotate and retire keys by
\* clocks they read before they waited; and a caller whose key was prepared is
\* refused only if it waited longer than the lead exceeds a token's lifetime
\* (SigningKeyManager.Active, MaintainSigningKeys and IssueFor).
THEOREM TokensStayVerifiable ==
    ASSUME KeyBounds
    PROVE  Tokens!KeysInit /\ [][Tokens!KeysNext]_(Tokens!keyVars) =>
              [](Tokens!KeysTypeOK /\ Tokens!TokensVerify /\ Tokens!PreparedKeyLasts)
<1>1. Tokens!KeysInit => KeysInv
  BY KeysStart
<1>2. KeysInv /\ [Tokens!KeysNext]_(Tokens!keyVars) => KeysInv'
  BY KeysStep
<1>3. KeysInv => Tokens!KeysTypeOK /\ Tokens!TokensVerify /\ Tokens!PreparedKeyLasts
  BY KeysHold
<1> QED BY <1>1, <1>2, <1>3, PTL

\* Durations and clocks of proofs; Nothing is no instant.
ProofBounds ==
    /\ TokenTime \in Nat /\ Skew \in Nat /\ MaxAge \in Nat /\ ReplayRetention \in Nat
    /\ MaxTokens \in Nat \ {0} /\ Nothing \notin Int

RequestRow == [step : {"idle", "presented", "locked", "loaded", "authorized", "refused"},
               token : Nat, proof : Proofs \cup {Nothing}, began : Nat, override : {"plan", Nothing}]

ProofTypes ==
    /\ now \in 0..TokenTime
    /\ issuedAt \in [Proofs -> Int \cup {Nothing}] /\ replay \in [Proofs -> Int \cup {Nothing}]
    /\ grant \in [token : 1..MaxTokens, revoked : BOOLEAN] /\ override \in {"plan", Nothing}
    /\ request \in [Presenters -> RequestRow] /\ accepted \in [Proofs -> Nat]

\* A proof that was accepted has its entry for as long as it may be valid, by
\* the clock that is furthest behind.
EntryKept(p) == accepted[p] > 0 =>
    /\ issuedAt[p] # Nothing
    /\ replay[p] # Nothing => replay[p] >= issuedAt[p] - Skew + ReplayRetention
    /\ replay[p] = Nothing => now >= issuedAt[p] - Skew + ReplayRetention

\* A request under way looked at its proof within the proof's window, and what
\* it read under its locks stands.
RequestGood(k) ==
    /\ request[k].step \in {"presented", "locked", "loaded"} =>
          /\ request[k].proof \in Proofs /\ issuedAt[request[k].proof] # Nothing
          /\ request[k].began <= now
          /\ issuedAt[request[k].proof] <= request[k].began + Skew
          /\ request[k].began <= issuedAt[request[k].proof] + MaxAge + Skew
    /\ request[k].step \in {"locked", "loaded"} => ~grant.revoked /\ request[k].token = grant.token
    /\ request[k].step = "loaded" => request[k].override = override

ProofsInv ==
    /\ ProofTypes
    /\ \A p \in Proofs : EntryKept(p) /\ (replay[p] # Nothing => accepted[p] > 0)
    /\ \A k \in Presenters : RequestGood(k)

LEMMA ProofsStart ==
    ASSUME ProofBounds, Tokens!RequestsInit PROVE ProofsInv
<1>1. ProofTypes
  BY DEF ProofBounds, Tokens!RequestsInit, ProofTypes, RequestRow, Tokens!Idle
<1>2. \A p \in Proofs : accepted[p] = 0 /\ replay[p] = Nothing
  BY DEF Tokens!RequestsInit
<1>3. \A k \in Presenters : RequestGood(k)
  BY DEF Tokens!RequestsInit, Tokens!Idle, RequestGood
<1> QED BY <1>1, <1>2, <1>3 DEF ProofsInv, EntryKept

\* A step of one request leaves the others as they are.
LEMMA OneRequest ==
    ASSUME ProofBounds, ProofsInv, NEW k \in Presenters, NEW row \in RequestRow,
           UNCHANGED <<now, issuedAt, grant, override>>, request' = [request EXCEPT ![k] = row]
    PROVE  /\ request' \in [Presenters -> RequestRow] /\ request'[k] = row
           /\ \A q \in Presenters \ {k} : request'[q] = request[q] /\ RequestGood(q)'
BY DEF ProofsInv, ProofTypes, RequestGood

\* Steps of a request that touch neither proofs nor entries.
LEMMA RequestMoves ==
    ASSUME ProofBounds, ProofsInv, NEW k \in Presenters, NEW row \in RequestRow,
           UNCHANGED <<now, issuedAt, replay, grant, override, accepted>>,
           request' = [request EXCEPT ![k] = row], RequestGood(k)'
    PROVE  ProofsInv'
<1>1. /\ request' \in [Presenters -> RequestRow]
      /\ \A q \in Presenters \ {k} : RequestGood(q)'
  BY OneRequest
<1>2. ProofTypes'
  BY <1>1 DEF ProofsInv, ProofTypes
<1>3. \A p \in Proofs : EntryKept(p)' /\ (replay'[p] # Nothing => accepted'[p] > 0)
  BY DEF ProofsInv, EntryKept
<1> QED BY <1>1, <1>2, <1>3 DEF ProofsInv

LEMMA AcceptSafe ==
    ASSUME ProofBounds, ProofsInv, NEW k \in Presenters, Tokens!Accept(k) PROVE ProofsInv'
<1> DEFINE p == request[k].proof
<1>1. /\ UNCHANGED <<now, issuedAt, grant, override>> /\ request[k] \in RequestRow /\ now \in Int
      /\ p \in Proofs /\ issuedAt[p] \in Int /\ issuedAt[p] <= request[k].began + Skew
      /\ request[k].began <= now /\ request[k].began \in Int
  BY DEF Tokens!Accept, ProofsInv, ProofTypes, RequestGood, RequestRow, ProofBounds
<1>2. CASE /\ replay[p] = Nothing /\ replay' = [replay EXCEPT ![p] = now + ReplayRetention]
           /\ request' = [request EXCEPT ![k].step = "authorized"]
           /\ accepted' = [accepted EXCEPT ![p] = accepted[p] + 1]
  <2> DEFINE row == [request[k] EXCEPT !.step = "authorized"]
  <2>1. row \in RequestRow /\ row.step = "authorized" /\ request' = [request EXCEPT ![k] = row]
    BY <1>1, <1>2 DEF RequestRow
  <2> HIDE DEF row
  <2>2. /\ request' \in [Presenters -> RequestRow] /\ request'[k] = row
        /\ \A q \in Presenters \ {k} : RequestGood(q)'
    BY <1>1, <2>1, OneRequest
  <2>3. RequestGood(k)'
    BY <2>1, <2>2 DEF RequestGood
  <2>4. /\ replay' \in [Proofs -> Int \cup {Nothing}] /\ accepted' \in [Proofs -> Nat]
        /\ replay'[p] = now + ReplayRetention /\ accepted'[p] > 0 /\ replay'[p] # Nothing
        /\ \A x \in Proofs \ {p} : replay'[x] = replay[x] /\ accepted'[x] = accepted[x]
    <3>1. now + ReplayRetention \in Int /\ accepted[p] + 1 \in Nat /\ accepted[p] + 1 > 0
      BY <1>1 DEF ProofBounds, ProofsInv, ProofTypes
    <3> HIDE DEF p
    <3> QED BY <1>1, <1>2, <3>1 DEF ProofsInv, ProofTypes, ProofBounds
  <2>5. ProofTypes'
    BY <1>1, <2>2, <2>4 DEF ProofsInv, ProofTypes
  <2>6. now + ReplayRetention >= issuedAt[p] - Skew + ReplayRetention
    BY <1>1 DEF ProofBounds
  <2>7. ASSUME NEW x \in Proofs PROVE EntryKept(x)' /\ (replay'[x] # Nothing => accepted'[x] > 0)
    <3>1. CASE x = p
      BY <1>1, <2>4, <2>6, <3>1 DEF EntryKept, ProofBounds
    <3>2. CASE x # p
      BY <1>1, <2>4, <3>2 DEF ProofsInv, EntryKept
    <3> QED BY <3>1, <3>2
  <2>8. \A q \in Presenters : RequestGood(q)'
    BY <2>2, <2>3
  <2> QED BY <2>5, <2>7, <2>8 DEF ProofsInv
<1>3. CASE UNCHANGED <<replay, accepted>> /\ request' = [request EXCEPT ![k].step = "refused"]
  <2> DEFINE row == [request[k] EXCEPT !.step = "refused"]
  <2>1. row \in RequestRow /\ row.step = "refused" /\ request' = [request EXCEPT ![k] = row]
    BY <1>1, <1>3 DEF RequestRow
  <2> HIDE DEF row
  <2>2. request'[k] = row
    BY <1>1, <2>1, OneRequest
  <2>3. RequestGood(k)'
    BY <2>1, <2>2 DEF RequestGood
  <2> QED BY <1>1, <1>3, <2>1, <2>3, RequestMoves
<1> QED BY <1>2, <1>3 DEF Tokens!Accept

LEMMA RequestSafe ==
    ASSUME ProofBounds, ProofsInv, NEW k \in Presenters,
           \/ \E token \in 1..grant.token, p \in Proofs : Tokens!Present(k, token, p)
           \/ Tokens!LockAccess(k) \/ Tokens!LoadOverride(k) \/ Tokens!EndRequest(k)
    PROVE  ProofsInv'
<1>1. /\ request[k] \in RequestRow /\ now \in Nat /\ grant.token \in Nat /\ override \in {"plan", Nothing}
      /\ grant \in [token : 1..MaxTokens, revoked : BOOLEAN] /\ request \in [Presenters -> RequestRow]
      /\ UNCHANGED <<now, issuedAt, replay, grant, override, accepted>>
  <2>1. UNCHANGED <<now, issuedAt, replay, grant, override, accepted>>
    BY DEF Tokens!Present, Tokens!LockAccess, Tokens!LoadOverride, Tokens!EndRequest
  <2> QED BY <2>1 DEF ProofsInv, ProofTypes, ProofBounds
<1>2. ASSUME NEW token \in 1..grant.token, NEW p \in Proofs, Tokens!Present(k, token, p) PROVE ProofsInv'
  <2> DEFINE row == [Tokens!Idle EXCEPT !.step = "presented", !.token = token, !.proof = p, !.began = now]
  <2>1. /\ row \in RequestRow /\ row.step = "presented" /\ row.proof = p /\ row.began = now
        /\ request' = [request EXCEPT ![k] = row]
    <3>1. request' = [request EXCEPT ![k] = row]
      BY <1>2 DEF Tokens!Present
    <3>2. Tokens!Idle \in RequestRow /\ token \in Nat
      BY <1>1 DEF Tokens!Idle, RequestRow
    <3>3. row \in RequestRow /\ row.step = "presented" /\ row.proof = p /\ row.began = now
      BY <1>1, <3>2 DEF RequestRow
    <3> QED BY <3>1, <3>3
  <2> HIDE DEF row
  <2>2. request'[k] = row
    BY <1>1, <2>1
  <2>3. /\ issuedAt[p] # Nothing /\ issuedAt[p] <= now + Skew /\ now <= issuedAt[p] + MaxAge + Skew
    BY <1>2 DEF Tokens!Present, Tokens!InWindow
  <2>4. RequestGood(k)'
    BY <1>1, <2>1, <2>2, <2>3 DEF RequestGood
  <2> QED BY <1>1, <2>1, <2>4, RequestMoves
<1>3. CASE Tokens!LockAccess(k)
  <2> DEFINE row == [request[k] EXCEPT !.step = IF Tokens!Bound(k) THEN "locked" ELSE "refused"]
  <2>1. /\ row \in RequestRow /\ row.proof = request[k].proof /\ row.began = request[k].began
        /\ row.token = request[k].token /\ row.step = IF Tokens!Bound(k) THEN "locked" ELSE "refused"
        /\ request' = [request EXCEPT ![k] = row] /\ request[k].step = "presented"
    BY <1>1, <1>3 DEF RequestRow, Tokens!LockAccess
  <2> HIDE DEF row
  <2>2. request'[k] = row
    BY <1>1, <2>1
  <2>3. RequestGood(k)
    BY DEF ProofsInv
  <2>4. RequestGood(k)'
    BY <1>1, <2>1, <2>2, <2>3 DEF RequestGood, Tokens!Bound
  <2> QED BY <1>1, <2>1, <2>4, RequestMoves
<1>4. CASE Tokens!LoadOverride(k)
  <2> DEFINE row == [request[k] EXCEPT !.step = "loaded", !.override = override]
  <2>1. /\ row \in RequestRow /\ row.proof = request[k].proof /\ row.began = request[k].began
        /\ row.token = request[k].token /\ row.step = "loaded" /\ row.override = override
        /\ request' = [request EXCEPT ![k] = row] /\ request[k].step = "locked"
    BY <1>1, <1>4 DEF RequestRow, Tokens!LoadOverride
  <2> HIDE DEF row
  <2>2. request'[k] = row
    BY <1>1, <2>1
  <2>3. RequestGood(k)
    BY DEF ProofsInv
  <2>4. RequestGood(k)'
    BY <1>1, <2>1, <2>2, <2>3 DEF RequestGood
  <2> QED BY <1>1, <2>1, <2>4, RequestMoves
<1>5. CASE Tokens!EndRequest(k)
  <2>1. Tokens!Idle \in RequestRow /\ Tokens!Idle.step = "idle" /\ request' = [request EXCEPT ![k] = Tokens!Idle]
    BY <1>5 DEF RequestRow, Tokens!EndRequest, Tokens!Idle
  <2>2. request'[k] = Tokens!Idle
    BY <1>1, <2>1
  <2>3. RequestGood(k)'
    BY <2>1, <2>2 DEF RequestGood
  <2> QED BY <1>1, <2>1, <2>3, RequestMoves
<1> QED BY <1>2, <1>3, <1>4, <1>5

\* Writers wait until no request holds its locks.
LEMMA WriterSafe ==
    ASSUME ProofBounds, ProofsInv,
           \/ Tokens!RenewToken \/ Tokens!RevokeSession
           \/ \E plan \in {"plan", Nothing} : Tokens!ReplaceOverride(plan)
    PROVE  ProofsInv'
<1>1. /\ UNCHANGED <<now, issuedAt, replay, request, accepted>>
      /\ grant' \in [token : 1..MaxTokens, revoked : BOOLEAN] /\ override' \in {"plan", Nothing}
  <2>1. UNCHANGED <<now, issuedAt, replay, request, accepted>>
    BY DEF Tokens!RenewToken, Tokens!RevokeSession, Tokens!ReplaceOverride
  <2>2. grant \in [token : 1..MaxTokens, revoked : BOOLEAN] /\ override \in {"plan", Nothing}
    BY DEF ProofsInv, ProofTypes
  <2>3. CASE Tokens!RenewToken
    <3>1. /\ grant' = [grant EXCEPT !.token = grant.token + 1] /\ grant.token < MaxTokens
          /\ override' = override
      BY <2>3 DEF Tokens!RenewToken
    <3>2. grant.token + 1 \in 1..MaxTokens
      BY <2>2, <3>1 DEF ProofBounds
    <3> QED BY <2>1, <2>2, <3>1, <3>2
  <2>4. CASE Tokens!RevokeSession
    BY <2>1, <2>2, <2>4 DEF Tokens!RevokeSession
  <2>5. CASE \E plan \in {"plan", Nothing} : Tokens!ReplaceOverride(plan)
    BY <2>1, <2>2, <2>5 DEF Tokens!ReplaceOverride
  <2> QED BY <2>3, <2>4, <2>5
<1>2. \A k \in Presenters : request[k].step \notin {"locked", "loaded"}
  BY DEF Tokens!RenewToken, Tokens!RevokeSession, Tokens!ReplaceOverride, Tokens!Unlocked, Tokens!Locking
<1>3. \A k \in Presenters : RequestGood(k)'
  BY <1>1, <1>2 DEF ProofsInv, RequestGood
<1>4. ProofTypes'
  BY <1>1 DEF ProofsInv, ProofTypes
<1>5. \A p \in Proofs : EntryKept(p)' /\ (replay'[p] # Nothing => accepted'[p] > 0)
  BY <1>1 DEF ProofsInv, EntryKept
<1> QED BY <1>3, <1>4, <1>5 DEF ProofsInv

LEMMA ProofsStep ==
    ASSUME ProofBounds, ProofsInv, [Tokens!RequestsNext]_(Tokens!requestVars) PROVE ProofsInv'
<1>1. CASE Tokens!Tick /\ UNCHANGED <<issuedAt, replay, grant, override, request, accepted>>
  <2>1. now \in Int /\ now' \in 0..TokenTime /\ now' >= now /\ now' \in Int
    BY <1>1 DEF Tokens!Tick, ProofsInv, ProofTypes, ProofBounds
  <2>2. ProofTypes'
    BY <1>1, <2>1 DEF ProofsInv, ProofTypes
  <2>3. ASSUME NEW p \in Proofs PROVE EntryKept(p)' /\ (replay'[p] # Nothing => accepted'[p] > 0)
    <3>1. EntryKept(p) /\ (replay[p] # Nothing => accepted[p] > 0) /\ issuedAt[p] \in Int \cup {Nothing}
      BY DEF ProofsInv, ProofTypes
    <3> QED BY <1>1, <2>1, <3>1 DEF EntryKept, ProofBounds
  <2>4. ASSUME NEW k \in Presenters PROVE RequestGood(k)'
    <3>1. RequestGood(k) /\ request[k].began \in Int
      BY DEF ProofsInv, ProofTypes, RequestRow
    <3> QED BY <1>1, <2>1, <3>1 DEF RequestGood
  <2> QED BY <2>2, <2>3, <2>4 DEF ProofsInv
<1>2. CASE Tokens!DeleteExpired
  <2>1. /\ UNCHANGED <<now, issuedAt, grant, override, request, accepted>>
        /\ replay' = [p \in Proofs |-> IF Tokens!Expired(p) THEN Nothing ELSE replay[p]]
    BY <1>2 DEF Tokens!DeleteExpired
  <2>2. ProofTypes'
    BY <2>1 DEF ProofsInv, ProofTypes
  <2>3. ASSUME NEW p \in Proofs PROVE EntryKept(p)' /\ (replay'[p] # Nothing => accepted'[p] > 0)
    <3>1. /\ EntryKept(p) /\ (replay[p] # Nothing => accepted[p] > 0) /\ issuedAt[p] \in Int \cup {Nothing}
          /\ replay[p] \in Int \cup {Nothing} /\ now \in Int
      BY DEF ProofsInv, ProofTypes, ProofBounds
    <3>2. CASE Tokens!Expired(p)
      <4>1. replay'[p] = Nothing /\ replay[p] # Nothing /\ replay[p] <= now
        BY <2>1, <3>2 DEF Tokens!Expired
      <4> QED BY <2>1, <3>1, <4>1 DEF EntryKept, ProofBounds
    <3>3. CASE ~Tokens!Expired(p)
      <4>1. replay'[p] = replay[p]
        BY <2>1, <3>3
      <4> QED BY <2>1, <3>1, <4>1 DEF EntryKept
    <3> QED BY <3>2, <3>3
  <2>4. \A k \in Presenters : RequestGood(k)'
    BY <2>1 DEF ProofsInv, RequestGood
  <2> QED BY <2>2, <2>3, <2>4 DEF ProofsInv
<1>3. ASSUME NEW p \in Proofs, NEW at \in 0..(TokenTime + Skew), Tokens!MakeProof(p, at) PROVE ProofsInv'
  <2>1. /\ issuedAt[p] = Nothing /\ issuedAt' = [issuedAt EXCEPT ![p] = at] /\ at \in Int
        /\ UNCHANGED <<now, replay, grant, override, request, accepted>>
    BY <1>3 DEF Tokens!MakeProof, ProofBounds
  <2>2. /\ issuedAt' \in [Proofs -> Int \cup {Nothing}] /\ \A x \in Proofs \ {p} : issuedAt'[x] = issuedAt[x]
    BY <2>1 DEF ProofsInv, ProofTypes
  <2>3. ProofTypes'
    BY <2>1, <2>2 DEF ProofsInv, ProofTypes
  <2>4. \A x \in Proofs : EntryKept(x)' /\ (replay'[x] # Nothing => accepted'[x] > 0)
    BY <2>1, <2>2 DEF ProofsInv, EntryKept
  <2>5. \A k \in Presenters : RequestGood(k)'
    BY <2>1, <2>2 DEF ProofsInv, RequestGood
  <2> QED BY <2>3, <2>4, <2>5 DEF ProofsInv
<1>4. CASE UNCHANGED Tokens!requestVars
  BY <1>4 DEF Tokens!requestVars, ProofsInv, ProofTypes, EntryKept, RequestGood
<1> QED BY <1>1, <1>2, <1>3, <1>4, AcceptSafe, RequestSafe, WriterSafe DEF Tokens!RequestsNext

\* Only Accept authorizes.
LEMMA OnlyAccept ==
    ASSUME ProofsInv, Tokens!RequestsNext, NEW k \in Presenters,
           request[k].step = "loaded", request'[k].step = "authorized"
    PROVE  replay[request[k].proof] = Nothing
<1>1. ASSUME NEW q \in Presenters, q # k,
             \/ \E token \in 1..grant.token, p \in Proofs : Tokens!Present(q, token, p)
             \/ Tokens!LockAccess(q) \/ Tokens!LoadOverride(q) \/ Tokens!Accept(q) \/ Tokens!EndRequest(q)
      PROVE  request'[k] = request[k]
  <2>1. \E row : request' = [request EXCEPT ![q] = row]
    BY <1>1 DEF Tokens!Present, Tokens!LockAccess, Tokens!LoadOverride, Tokens!Accept, Tokens!EndRequest
  <2> QED BY <1>1, <2>1 DEF ProofsInv, ProofTypes
<1>2. request'[k] # request[k]
  OBVIOUS
<1>3. Tokens!Accept(k)
  BY <1>1, <1>2 DEF Tokens!RequestsNext, Tokens!DeleteExpired, Tokens!RenewToken, Tokens!RevokeSession,
        Tokens!ReplaceOverride, Tokens!MakeProof, Tokens!Present, Tokens!LockAccess, Tokens!LoadOverride,
        Tokens!EndRequest
<1>4. request \in [Presenters -> RequestRow]
  BY DEF ProofsInv, ProofTypes
<1>5. request' = [request EXCEPT ![k].step = "refused"] => request'[k].step = "refused"
  BY <1>4 DEF RequestRow
<1> QED BY <1>3, <1>5 DEF Tokens!Accept

LEMMA AcceptedAsMeant ==
    ASSUME ProofBounds, ProofsInv, [Tokens!RequestsNext]_(Tokens!requestVars)
    PROVE  [Tokens!AcceptedOnce /\ Tokens!AuthorizedAsItStands]_(Tokens!requestVars)
<1>1. SUFFICES ASSUME Tokens!RequestsNext PROVE Tokens!AcceptedOnce /\ Tokens!AuthorizedAsItStands
  OBVIOUS
<1>2. ASSUME NEW k \in Presenters, request[k].step = "loaded", request'[k].step = "authorized"
      PROVE  /\ \/ accepted[request[k].proof] = 0
                \/ now - request[k].began >= ReplayRetention - (MaxAge + 2 * Skew)
             /\ request[k].token = grant.token /\ ~grant.revoked /\ request[k].override = override
  <2> DEFINE p == request[k].proof
  <2>1. RequestGood(k) /\ replay[p] = Nothing
    BY <1>1, <1>2, OnlyAccept DEF ProofsInv
  <2>2. /\ p \in Proofs /\ issuedAt[p] # Nothing /\ request[k].began <= issuedAt[p] + MaxAge + Skew
        /\ request[k].token = grant.token /\ ~grant.revoked /\ request[k].override = override
    BY <1>2, <2>1 DEF RequestGood
  <2>3. /\ EntryKept(p) /\ issuedAt[p] \in Int /\ request[k].began \in Int /\ now \in Int
        /\ accepted[p] \in Nat
    BY <2>2 DEF ProofsInv, ProofTypes, RequestRow, ProofBounds
  <2>4. accepted[p] > 0 => now >= issuedAt[p] - Skew + ReplayRetention
    BY <2>1, <2>3 DEF EntryKept
  <2> HIDE DEF p
  <2>5. accepted[p] > 0 => now - request[k].began >= ReplayRetention - (MaxAge + 2 * Skew)
    BY <2>2, <2>3, <2>4 DEF ProofBounds
  <2> QED BY <2>2, <2>3, <2>5 DEF p
<1> QED BY <1>2 DEF Tokens!AcceptedOnce, Tokens!AuthorizedAsItStands

\* A proof of possession is accepted once, whatever requests present it again
\* while entries are swept, unless a request waits, after its proof was looked
\* at, for what the retention exceeds the proof's window; and every request is
\* authorized for the token, the session and the override as they stand when
\* it commits (PostgresReplayStore and Authorize, internal/session).
THEOREM ProofsAcceptedOnce ==
    ASSUME ProofBounds
    PROVE  Tokens!RequestsInit /\ [][Tokens!RequestsNext]_(Tokens!requestVars) =>
              /\ []Tokens!RequestsTypeOK
              /\ [][Tokens!AcceptedOnce /\ Tokens!AuthorizedAsItStands]_(Tokens!requestVars)
<1>0. ProofsInv => Tokens!RequestsTypeOK
  BY DEF ProofsInv, ProofTypes, EntryKept, Tokens!RequestsTypeOK
<1>1. Tokens!RequestsInit => ProofsInv
  BY ProofsStart
<1>2. ProofsInv /\ [Tokens!RequestsNext]_(Tokens!requestVars) => ProofsInv'
  BY ProofsStep
<1>3. ProofsInv /\ [Tokens!RequestsNext]_(Tokens!requestVars) =>
         [Tokens!AcceptedOnce /\ Tokens!AuthorizedAsItStands]_(Tokens!requestVars)
  BY AcceptedAsMeant
<1> QED BY <1>0, <1>1, <1>2, <1>3, PTL

-----------------------------------------------------------------------------
(* What an administrator does to applications, users and installations while *)
(* credentials are issued.                                                   *)

CONSTANTS Environments, Issuers
VARIABLES application, environment, user, ownInstallation, ownFamily, ownComponent, trusted, live,
          openChallenges, issuer, preview, confirming

Operated == INSTANCE ScopeOperations WITH
    Calls <- Issuers, installation <- ownInstallation, family <- ownFamily, component <- ownComponent,
    challenges <- openChallenges, call <- issuer

IssuerRow == [step : {"idle", "begun", "locked", "read"},
              component : Operated!Components \cup {<<0, "root">>}, signsIn : BOOLEAN]

Holding(k) == issuer[k].step \in {"locked", "read"}

\* A call under way has its scope active, and its family as it found it.
IssuerGood(k) ==
    /\ issuer[k].step # "idle" => /\ issuer[k].component \in Operated!Components
                                  /\ Operated!ActiveScope(Operated!FamilyOf(issuer[k].component))
    /\ Holding(k) =>
          /\ ownComponent[issuer[k].component] # "revoked"
          /\ ownFamily[Operated!FamilyOf(issuer[k].component)] # "revoked"
          /\ ~issuer[k].signsIn => /\ issuer[k].component \in trusted
                                   /\ ownFamily[Operated!FamilyOf(issuer[k].component)] = "active"

\* One call at a time has a family locked.
OneHolds == \A k, q \in Issuers : Holding(k) /\ Holding(q) /\ k # q =>
    Operated!FamilyOf(issuer[k].component) # Operated!FamilyOf(issuer[q].component)

OperatedInv ==
    /\ Operated!TypeOK /\ issuer \in [Issuers -> IssuerRow]
    /\ \A k \in Issuers : IssuerGood(k)
    /\ OneHolds
    /\ Operated!DisabledHoldsNothing /\ Operated!RevokedHoldsNothing /\ Operated!RefreshNeedsTrust
    /\ Operated!NothingAddedSince

LEMMA ComponentsOfFamilies ==
    /\ \A c \in Operated!Components : Operated!FamilyOf(c) \in Environments
    /\ \A c \in Operated!Components, f \in Environments :
          c \in Operated!MembersOf(f) <=> Operated!FamilyOf(c) = f
    /\ \A f \in Environments : Operated!MembersOf(f) \subseteq Operated!Components
    /\ \A f \in Environments, role \in Operated!Roles :
          <<f, role>> \in Operated!Components /\ Operated!FamilyOf(<<f, role>>) = f
BY DEF Operated!Components, Operated!FamilyOf, Operated!MembersOf

\* A family that no call holds, as the administrator's operations see it.
LEMMA FamilyFree ==
    ASSUME OperatedInv, NEW f \in Environments, ~Operated!FamilyHeld(f)
    PROVE  \A k \in Issuers : Holding(k) => Operated!FamilyOf(issuer[k].component) # f
<1>1. ASSUME NEW k \in Issuers, Holding(k), Operated!FamilyOf(issuer[k].component) = f PROVE FALSE
  <2> DEFINE c == issuer[k].component
  <2>1. c \in Operated!Components
    BY <1>1 DEF OperatedInv, IssuerGood, Holding
  <2>2. c \in Operated!MembersOf(f)
    BY <1>1, <2>1, ComponentsOfFamilies
  <2>3. Operated!Issuing(c, "locked") \/ Operated!Issuing(c, "read")
    BY <1>1 DEF Operated!Issuing, Holding
  <2> QED BY <2>2, <2>3 DEF Operated!FamilyHeld
<1> QED BY <1>1

LEMMA ScopeFree ==
    ASSUME OperatedInv, NEW e \in Environments, ~Operated!ScopeShared(e)
    PROVE  \A k \in Issuers : issuer[k].step # "idle" => Operated!FamilyOf(issuer[k].component) # e
BY DEF Operated!ScopeShared

LEMMA OperatedInit ==
    ASSUME Operated!Init PROVE OperatedInv
<1>1. Operated!TypeOK
  BY DEF Operated!Init, Operated!TypeOK
<1>2. issuer \in [Issuers -> IssuerRow] /\ \A k \in Issuers : issuer[k].step = "idle"
  BY DEF Operated!Init, Operated!NoCall, IssuerRow
<1>3. Operated!NothingAddedSince
  BY DEF Operated!Init, Operated!NoConfirm, Operated!NothingAddedSince, Operated!UserFree
<1>4. /\ Operated!DisabledHoldsNothing /\ Operated!RevokedHoldsNothing /\ Operated!RefreshNeedsTrust
  BY ComponentsOfFamilies DEF Operated!Init, Operated!DisabledHoldsNothing, Operated!RevokedHoldsNothing,
        Operated!RefreshNeedsTrust
<1> QED BY <1>1, <1>2, <1>3, <1>4 DEF OperatedInv, IssuerGood, OneHolds, Holding

\* An operation that only takes credentials away, and trust from families that
\* are free.
LEMMA TakesAway ==
    ASSUME OperatedInv, Operated!TypeOK', issuer' = issuer,
           \A c \in Operated!Components : live'[c] \subseteq live[c],
           \A e \in Environments : ~Operated!ActiveScope(e)' =>
              \/ ~Operated!ActiveScope(e)
              \/ /\ \A c \in Operated!Components : Operated!FamilyOf(c) = e => live'[c] \subseteq {"key"}
                 /\ e \notin openChallenges',
           \A k \in Issuers : issuer[k].step # "idle" =>
              Operated!ActiveScope(Operated!FamilyOf(issuer[k].component))',
           \A k \in Issuers : Holding(k) => LET c == issuer[k].component IN
              /\ ownComponent'[c] = ownComponent[c]
              /\ ownFamily'[Operated!FamilyOf(c)] = ownFamily[Operated!FamilyOf(c)]
              /\ ~issuer[k].signsIn /\ c \in trusted => c \in trusted',
           \A c \in Operated!Components :
              /\ ownComponent'[c] = "revoked" => ownComponent[c] = "revoked" \/ live'[c] = {}
              /\ ownFamily'[Operated!FamilyOf(c)] = "revoked" =>
                    \/ ownFamily[Operated!FamilyOf(c)] = "revoked" /\ ownComponent'[c] = ownComponent[c]
                    \/ live'[c] = {} /\ ownComponent'[c] # "active",
           \A c \in Operated!Components : "token" \in live'[c] /\ c \in trusted => c \in trusted',
           openChallenges' \subseteq openChallenges,
           confirming' \in {confirming, Operated!NoConfirm} \/ Operated!NothingAddedSince'
    PROVE  OperatedInv'
<1>1. \A k \in Issuers : IssuerGood(k)' /\ (Holding(k)' <=> Holding(k))
  BY DEF OperatedInv, IssuerGood, Holding
<1>2. OneHolds' /\ issuer' \in [Issuers -> IssuerRow]
  BY <1>1 DEF OperatedInv, OneHolds
<1>3. Operated!DisabledHoldsNothing'
  <2>1. ASSUME NEW c \in Operated!Components, ~Operated!ActiveScope(Operated!FamilyOf(c))'
        PROVE  live'[c] \subseteq {"key"} /\ Operated!FamilyOf(c) \notin openChallenges'
    <3> DEFINE e == Operated!FamilyOf(c)
    <3>1. e \in Environments
      BY ComponentsOfFamilies
    <3>2. CASE ~Operated!ActiveScope(e)
      BY <3>1, <3>2 DEF OperatedInv, Operated!DisabledHoldsNothing
    <3>3. CASE Operated!ActiveScope(e)
      BY <2>1, <3>1, <3>3
    <3> QED BY <3>2, <3>3
  <2> QED BY <2>1 DEF Operated!DisabledHoldsNothing
<1>4. Operated!RevokedHoldsNothing'
  <2>1. ASSUME NEW c \in Operated!Components
        PROVE  /\ ownComponent'[c] = "revoked" => live'[c] = {}
               /\ ownFamily'[Operated!FamilyOf(c)] = "revoked" => live'[c] = {} /\ ownComponent'[c] # "active"
    BY DEF OperatedInv, Operated!RevokedHoldsNothing
  <2> QED BY <2>1 DEF Operated!RevokedHoldsNothing
<1>5. Operated!RefreshNeedsTrust'
  BY DEF OperatedInv, Operated!RefreshNeedsTrust
<1>6. Operated!NothingAddedSince'
  <2>1. CASE confirming' = confirming
    BY <2>1 DEF OperatedInv, Operated!NothingAddedSince, Operated!UserFree
  <2>2. CASE confirming' = Operated!NoConfirm
    BY <2>2 DEF Operated!NothingAddedSince, Operated!UserFree, Operated!NoConfirm
  <2> QED BY <2>1, <2>2
<1> QED BY <1>1, <1>2, <1>3, <1>4, <1>5, <1>6 DEF OperatedInv

LEMMA ScopesSafe ==
    ASSUME OperatedInv,
           \/ Operated!DisableApplication \/ Operated!EnableApplication
           \/ \E e \in Environments : \/ Operated!CreateEnvironment(e) \/ Operated!DisableEnvironment(e)
                                      \/ Operated!EnableEnvironment(e)
    PROVE  OperatedInv'
<1>1. /\ UNCHANGED <<user, ownInstallation, ownFamily, ownComponent, trusted, issuer, preview, confirming>>
      /\ Operated!TypeOK
  BY DEF Operated!DisableApplication, Operated!EnableApplication, Operated!CreateEnvironment,
         Operated!DisableEnvironment, Operated!EnableEnvironment, Operated!trust, OperatedInv
<1>2. confirming' \in {confirming, Operated!NoConfirm}
  BY <1>1
<1>3. \A k \in Issuers : issuer[k].step # "idle" =>
         /\ issuer[k].component \in Operated!Components
         /\ Operated!FamilyOf(issuer[k].component) \in Environments
         /\ Operated!ActiveScope(Operated!FamilyOf(issuer[k].component))
  BY ComponentsOfFamilies DEF OperatedInv, IssuerGood
<1>4. CASE Operated!DisableApplication
  <2>1. /\ application' = "disabled" /\ environment' = environment /\ openChallenges' = {}
        /\ live' = Operated!WithoutScoped(Environments)
        /\ \A e \in Environments : ~Operated!ScopeShared(e)
    BY <1>4 DEF Operated!DisableApplication, Operated!ApplicationFree
  <2>2. \A c \in Operated!Components : live'[c] \subseteq live[c] /\ live'[c] \subseteq {"key"}
    BY <1>1, <2>1, ComponentsOfFamilies DEF Operated!WithoutScoped, Operated!Scoped, Operated!TypeOK
  <2>3. \A k \in Issuers : issuer[k].step = "idle"
    BY <1>3, <2>1, ScopeFree
  <2>4. Operated!TypeOK'
    BY <1>1, <2>1 DEF Operated!TypeOK, Operated!WithoutScoped
  <2> QED BY <1>1, <1>2, <2>1, <2>2, <2>3, <2>4, TakesAway DEF Holding
<1>5. CASE Operated!EnableApplication
  <2>1. /\ application = "disabled" /\ application' = "active" /\ UNCHANGED <<environment, live, openChallenges>>
    BY <1>5 DEF Operated!EnableApplication
  <2>2. Operated!TypeOK'
    BY <1>1, <2>1 DEF Operated!TypeOK
  <2>3. \A e \in Environments : ~Operated!ActiveScope(e)
    BY <2>1 DEF Operated!ActiveScope
  <2>4. \A k \in Issuers : issuer[k].step = "idle"
    BY <1>3, <2>3
  <2> QED BY <1>1, <1>2, <2>1, <2>2, <2>3, <2>4, TakesAway DEF Holding
<1>6. ASSUME NEW e \in Environments, Operated!CreateEnvironment(e) \/ Operated!EnableEnvironment(e)
      PROVE  OperatedInv'
  <2>1. /\ environment[e] # "active" /\ environment' = [environment EXCEPT ![e] = "active"]
        /\ UNCHANGED <<application, live, openChallenges>>
    BY <1>6 DEF Operated!CreateEnvironment, Operated!EnableEnvironment
  <2>2. Operated!TypeOK'
    BY <1>1, <2>1 DEF Operated!TypeOK
  <2>3. \A x \in Environments : Operated!ActiveScope(x) => Operated!ActiveScope(x)'
    BY <1>1, <2>1 DEF Operated!ActiveScope, Operated!TypeOK
  <2> QED BY <1>1, <1>2, <1>3, <2>1, <2>2, <2>3, TakesAway
<1>7. ASSUME NEW e \in Environments, Operated!DisableEnvironment(e) PROVE OperatedInv'
  <2>1. /\ environment' = [environment EXCEPT ![e] = "disabled"] /\ application' = application
        /\ live' = Operated!WithoutScoped({e}) /\ openChallenges' = openChallenges \ {e}
        /\ ~Operated!ScopeShared(e)
    BY <1>7 DEF Operated!DisableEnvironment
  <2>2. \A c \in Operated!Components : /\ live'[c] \subseteq live[c]
                                       /\ Operated!FamilyOf(c) = e => live'[c] \subseteq {"key"}
    BY <1>1, <2>1 DEF Operated!WithoutScoped, Operated!Scoped, Operated!TypeOK
  <2>3. \A k \in Issuers : issuer[k].step # "idle" => Operated!FamilyOf(issuer[k].component) # e
    BY <2>1, ScopeFree
  <2>4. Operated!TypeOK'
    BY <1>1, <2>1 DEF Operated!TypeOK, Operated!WithoutScoped
  <2>5. \A x \in Environments \ {e} : Operated!ActiveScope(x)' <=> Operated!ActiveScope(x)
    BY <1>1, <2>1 DEF Operated!ActiveScope, Operated!TypeOK
  <2> QED BY <1>1, <1>2, <1>3, <2>1, <2>2, <2>3, <2>4, <2>5, TakesAway
<1> QED BY <1>4, <1>5, <1>6, <1>7

LEMMA UsersSafe ==
    ASSUME OperatedInv,
           \/ \E blocked \in BOOLEAN : Operated!SetUserBlocked(blocked)
           \/ Operated!RequireReauthentication \/ Operated!RequireAppReverification
           \/ \E e \in Environments, operation \in Operated!Operations :
                 Operated!PreviewUserOperation(e, operation)
           \/ \E operation \in Operated!Operations : Operated!ConfirmUserOperation(operation)
           \/ Operated!AbortUserOperation
    PROVE  OperatedInv'
<1>1. /\ UNCHANGED <<application, environment, ownInstallation, ownFamily, ownComponent,
                     openChallenges, issuer>>
      /\ Operated!TypeOK
  BY DEF Operated!SetUserBlocked, Operated!RequireReauthentication, Operated!RequireAppReverification,
         Operated!PreviewUserOperation, Operated!ConfirmUserOperation, Operated!AbortUserOperation,
         Operated!trust, Operated!scope, OperatedInv
<1>2. \A e : Operated!ActiveScope(e)' <=> Operated!ActiveScope(e)
  BY <1>1 DEF Operated!ActiveScope
<1>3. \A k \in Issuers : issuer[k].step # "idle" =>
         /\ issuer[k].component \in Operated!Components
         /\ Operated!FamilyOf(issuer[k].component) \in Environments
         /\ Operated!ActiveScope(Operated!FamilyOf(issuer[k].component))
  BY ComponentsOfFamilies DEF OperatedInv, IssuerGood
<1>4. ASSUME user' \in {"active", "blocked"}, live' \in {live, Operated!SessionsRevoked}, trusted' = trusted,
             confirming' \in {confirming, Operated!NoConfirm} \/ Operated!NothingAddedSince'
      PROVE  OperatedInv'
  <2>1. \A c \in Operated!Components : live'[c] \subseteq live[c]
    BY <1>1, <1>4 DEF Operated!SessionsRevoked, Operated!TypeOK
  <2>2. Operated!TypeOK'
    BY <1>1, <1>4 DEF Operated!TypeOK, Operated!SessionsRevoked
  <2> QED BY <1>1, <1>2, <1>3, <1>4, <2>1, <2>2, TakesAway
<1>5. ASSUME NEW blocked \in BOOLEAN, Operated!SetUserBlocked(blocked) PROVE OperatedInv'
  <2>1. confirming' \in {confirming, Operated!NoConfirm}
    BY <1>5 DEF Operated!SetUserBlocked, Operated!Applies
  <2>2. user' \in {"active", "blocked"} /\ live' \in {live, Operated!SessionsRevoked} /\ trusted' = trusted
    BY <1>5 DEF Operated!SetUserBlocked, Operated!trust
  <2> QED BY <1>4, <2>1, <2>2
<1>6. CASE Operated!RequireReauthentication
  <2>1. confirming' \in {confirming, Operated!NoConfirm}
    BY <1>6 DEF Operated!RequireReauthentication, Operated!Applies
  <2>2. user' \in {"active", "blocked"} /\ live' \in {live, Operated!SessionsRevoked} /\ trusted' = trusted
    BY <1>1, <1>6 DEF Operated!RequireReauthentication, Operated!trust, Operated!TypeOK
  <2> QED BY <1>4, <2>1, <2>2
<1>7. CASE \E e \in Environments, operation \in Operated!Operations : Operated!PreviewUserOperation(e, operation)
  <2>1. PICK e \in Environments, operation \in Operated!Operations : Operated!PreviewUserOperation(e, operation)
    BY <1>7
  <2>3. confirming' \in {confirming, Operated!NoConfirm}
    BY <2>1 DEF Operated!PreviewUserOperation
  <2>4. user' \in {"active", "blocked"} /\ live' \in {live, Operated!SessionsRevoked} /\ trusted' = trusted
    BY <1>1, <2>1 DEF Operated!PreviewUserOperation, Operated!trust, Operated!TypeOK
  <2> QED BY <1>4, <2>3, <2>4
<1>8. CASE Operated!RequireAppReverification
  <2> DEFINE renewed == {c \in Operated!Components : ownFamily[Operated!FamilyOf(c)] = "active"}
  <2>1. confirming' \in {confirming, Operated!NoConfirm}
    BY <1>8 DEF Operated!RequireAppReverification, Operated!Applies
  <2>2. /\ Operated!Renewal(renewed) /\ user' = user
        /\ \A f \in Environments : ownFamily[f] = "active" => ~Operated!FamilyHeld(f)
    BY <1>8 DEF Operated!RequireAppReverification
  <2>3. /\ trusted' \subseteq trusted
        /\ \A c \in Operated!Components : /\ live'[c] \subseteq live[c]
                                          /\ c \in trusted /\ c \notin renewed => c \in trusted'
                                          /\ c \in renewed => "token" \notin live'[c]
    BY <1>1, <2>2 DEF Operated!Renewal, Operated!TypeOK
  <2>4. Operated!TypeOK'
    BY <1>1, <2>2, <2>3 DEF Operated!TypeOK, Operated!Renewal
  <2>5. \A k \in Issuers : Holding(k) => issuer[k].component \notin renewed
    BY <1>3, <2>2, FamilyFree DEF Holding
  <2> HIDE DEF renewed
  <2>6. \A k \in Issuers : Holding(k) /\ issuer[k].component \in trusted => issuer[k].component \in trusted'
    BY <1>3, <2>3, <2>5 DEF Holding
  <2>7. \A c \in Operated!Components : /\ live'[c] \subseteq live[c]
                                       /\ "token" \in live'[c] /\ c \in trusted => c \in trusted'
    BY <2>3
  <2> QED BY <1>1, <1>2, <1>3, <2>1, <2>4, <2>6, <2>7, TakesAway
<1>9. CASE \/ \E operation \in Operated!Operations : Operated!ConfirmUserOperation(operation)
           \/ Operated!AbortUserOperation
  <2>1. UNCHANGED <<user, live, trusted>>
    BY <1>9 DEF Operated!ConfirmUserOperation, Operated!AbortUserOperation, Operated!trust
  <2>2. confirming' = Operated!NoConfirm \/ confirming'.held = live
    BY <1>9 DEF Operated!ConfirmUserOperation, Operated!AbortUserOperation
  <2>3. confirming' \in {confirming, Operated!NoConfirm} \/ Operated!NothingAddedSince'
    BY <2>1, <2>2 DEF Operated!NothingAddedSince
  <2>4. user' \in {"active", "blocked"}
    BY <1>1, <2>1 DEF Operated!TypeOK
  <2> QED BY <1>4, <2>1, <2>3, <2>4
<1> QED BY <1>5, <1>6, <1>7, <1>8, <1>9

LEMMA FamiliesSafe ==
    ASSUME OperatedInv,
           \/ \E f \in Environments : \/ Operated!RevokeInstallationFamily(f)
                                      \/ Operated!RequireInstallationFamilyRenewal(f)
           \/ \E c \in Operated!Components : \/ Operated!RevokeClientComponent(c)
                                             \/ Operated!RequireClientComponentReattestation(c)
    PROVE  OperatedInv'
<1>1. /\ UNCHANGED <<application, environment, user, openChallenges, issuer, preview, confirming>>
      /\ Operated!TypeOK
  BY DEF Operated!RevokeInstallationFamily, Operated!RequireInstallationFamilyRenewal,
         Operated!RevokeClientComponent, Operated!RequireClientComponentReattestation,
         Operated!scope, OperatedInv
<1>2. confirming' \in {confirming, Operated!NoConfirm}
  BY <1>1
<1>3. \A k \in Issuers : issuer[k].step # "idle" =>
         /\ issuer[k].component \in Operated!Components
         /\ Operated!FamilyOf(issuer[k].component) \in Environments
         /\ Operated!ActiveScope(Operated!FamilyOf(issuer[k].component))
  BY ComponentsOfFamilies DEF OperatedInv, IssuerGood
<1>4. \A e : Operated!ActiveScope(e)' <=> Operated!ActiveScope(e)
  BY <1>1 DEF Operated!ActiveScope
<1>5. ASSUME NEW f \in Environments, ~Operated!FamilyHeld(f),
             NEW gone \in SUBSET Operated!Components, \A c \in gone : Operated!FamilyOf(c) = f,
             Operated!Renewal(gone), UNCHANGED <<ownInstallation, ownFamily, ownComponent>>
      PROVE  OperatedInv'
  <2>1. \A k \in Issuers : Holding(k) => issuer[k].component \notin gone
    BY <1>5, FamilyFree
  <2>2. /\ trusted' \subseteq trusted
        /\ \A c \in Operated!Components : /\ live'[c] \subseteq live[c]
                                          /\ c \in trusted /\ c \notin gone => c \in trusted'
                                          /\ c \in gone => "token" \notin live'[c]
    BY <1>1, <1>5 DEF Operated!Renewal, Operated!TypeOK
  <2>3. Operated!TypeOK'
    BY <1>1, <1>5, <2>2 DEF Operated!TypeOK, Operated!Renewal
  <2>4. \A k \in Issuers : Holding(k) /\ issuer[k].component \in trusted => issuer[k].component \in trusted'
    BY <1>3, <2>1, <2>2 DEF Holding
  <2>5. \A c \in Operated!Components : /\ live'[c] \subseteq live[c]
                                       /\ "token" \in live'[c] /\ c \in trusted => c \in trusted'
    BY <2>2
  <2>6. UNCHANGED <<ownFamily, ownComponent>>
    BY <1>5
  <2> QED BY <1>1, <1>2, <1>3, <1>4, <2>3, <2>4, <2>5, <2>6, TakesAway
<1>6. ASSUME NEW f \in Environments, ~Operated!FamilyHeld(f),
             NEW gone \in SUBSET Operated!Components, \A c \in gone : Operated!FamilyOf(c) = f,
             Operated!ComponentsRevoked(gone), trusted' = trusted,
             \/ UNCHANGED <<ownFamily, ownInstallation>>
             \/ Operated!FamilyRevoked(f) /\ gone = Operated!MembersOf(f)
      PROVE  OperatedInv'
  <2>1. \A k \in Issuers : Holding(k) => Operated!FamilyOf(issuer[k].component) # f
    BY <1>6, FamilyFree
  <2>2. \A c \in Operated!Components :
           /\ live'[c] \subseteq live[c]
           /\ c \in gone => live'[c] = {} /\ ownComponent'[c] # "active"
           /\ c \notin gone => ownComponent'[c] = ownComponent[c]
    BY <1>1, <1>6 DEF Operated!ComponentsRevoked, Operated!TypeOK
  <2>3. \A x \in Environments \ {f} : ownFamily'[x] = ownFamily[x]
    BY <1>1, <1>6 DEF Operated!FamilyRevoked, Operated!TypeOK
  <2>4. \A c \in Operated!Components :
           ownFamily'[Operated!FamilyOf(c)] = ownFamily[Operated!FamilyOf(c)] \/ c \in gone
    BY <1>6, <2>3, ComponentsOfFamilies
  <2>5. Operated!TypeOK'
    BY <1>1, <1>6 DEF Operated!TypeOK, Operated!ComponentsRevoked, Operated!FamilyRevoked
  <2>6. \A c \in Operated!Components :
            /\ ownComponent'[c] = "revoked" => ownComponent[c] = "revoked" \/ live'[c] = {}
            /\ ownFamily'[Operated!FamilyOf(c)] = "revoked" =>
                    \/ ownFamily[Operated!FamilyOf(c)] = "revoked" /\ ownComponent'[c] = ownComponent[c]
                    \/ live'[c] = {} /\ ownComponent'[c] # "active"
    BY <2>2, <2>4
  <2>7. \A k \in Issuers : Holding(k) =>
            /\ ownComponent'[issuer[k].component] = ownComponent[issuer[k].component]
            /\ ownFamily'[Operated!FamilyOf(issuer[k].component)] = ownFamily[Operated!FamilyOf(issuer[k].component)]
    BY <1>3, <1>6, <2>1, <2>2, <2>3 DEF Holding
  <2> QED BY <1>1, <1>2, <1>3, <1>4, <1>6, <2>2, <2>5, <2>6, <2>7, TakesAway
<1>7. \A c \in Operated!Components : /\ Operated!Affected(c) \in SUBSET Operated!Components
                                     /\ \A x \in Operated!Affected(c) : Operated!FamilyOf(x) = Operated!FamilyOf(c)
  BY ComponentsOfFamilies DEF Operated!Affected
<1>8. \A f \in Environments : /\ Operated!MembersOf(f) \in SUBSET Operated!Components
                              /\ \A x \in Operated!MembersOf(f) : Operated!FamilyOf(x) = f
  BY ComponentsOfFamilies
<1>9. ASSUME NEW f \in Environments, Operated!RevokeInstallationFamily(f) PROVE OperatedInv'
  <2>1. ~Operated!FamilyHeld(f) /\ Operated!ComponentsRevoked(Operated!MembersOf(f)) /\ trusted' = trusted
        /\ Operated!FamilyRevoked(f)
    BY <1>9 DEF Operated!RevokeInstallationFamily, Operated!FamilyLockable
  <2> QED BY <1>6, <1>8, <2>1
<1>10. ASSUME NEW f \in Environments, Operated!RequireInstallationFamilyRenewal(f) PROVE OperatedInv'
  <2>1. ~Operated!FamilyHeld(f) /\ Operated!Renewal(Operated!MembersOf(f))
        /\ UNCHANGED <<ownInstallation, ownFamily, ownComponent>>
    BY <1>10 DEF Operated!RequireInstallationFamilyRenewal, Operated!FamilyLockable
  <2> QED BY <1>5, <1>8, <2>1
<1>11. ASSUME NEW c \in Operated!Components, Operated!RevokeClientComponent(c) PROVE OperatedInv'
  <2> DEFINE f == Operated!FamilyOf(c)
  <2>1. /\ ~Operated!FamilyHeld(f) /\ Operated!ComponentsRevoked(Operated!Affected(c)) /\ trusted' = trusted
        /\ IF c[2] = "root" THEN Operated!FamilyRevoked(f) ELSE UNCHANGED <<ownFamily, ownInstallation>>
    BY <1>11 DEF Operated!RevokeClientComponent, Operated!FamilyLockable
  <2>2. c[2] = "root" => Operated!Affected(c) = Operated!MembersOf(f)
    BY DEF Operated!Affected
  <2>3. f \in Environments
    BY ComponentsOfFamilies
  <2> HIDE DEF f
  <2> QED BY <1>6, <1>7, <2>1, <2>2, <2>3 DEF f
<1>12. ASSUME NEW c \in Operated!Components, Operated!RequireClientComponentReattestation(c) PROVE OperatedInv'
  <2>1. ~Operated!FamilyHeld(Operated!FamilyOf(c)) /\ Operated!Renewal(Operated!Affected(c))
        /\ UNCHANGED <<ownInstallation, ownFamily, ownComponent>>
    BY <1>12 DEF Operated!RequireClientComponentReattestation, Operated!FamilyLockable
  <2> QED BY <1>5, <1>7, <2>1, ComponentsOfFamilies
<1> QED BY <1>9, <1>10, <1>11, <1>12


\* A step of a call that writes nothing yet.
LEMMA CallsOnly ==
    ASSUME OperatedInv, NEW k \in Issuers, NEW row \in IssuerRow,
           issuer' = [issuer EXCEPT ![k] = row],
           UNCHANGED <<application, environment, user, ownInstallation, ownFamily, ownComponent,
                       trusted, live, openChallenges, preview, confirming>>,
           IssuerGood(k)',
           \A q \in Issuers \ {k} : Holding(k)' /\ Holding(q) =>
              Operated!FamilyOf(row.component) # Operated!FamilyOf(issuer[q].component)
    PROVE  OperatedInv'
<1>1. /\ issuer' \in [Issuers -> IssuerRow] /\ issuer'[k] = row
      /\ \A q \in Issuers \ {k} : issuer'[q] = issuer[q]
  BY DEF OperatedInv
<1>2. \A e : Operated!ActiveScope(e)' <=> Operated!ActiveScope(e)
  BY DEF Operated!ActiveScope
<1>3. \A q \in Issuers \ {k} : IssuerGood(q)' /\ (Holding(q)' <=> Holding(q))
  BY <1>1, <1>2 DEF OperatedInv, IssuerGood, Holding
<1>4. OneHolds'
  <2>1. ASSUME NEW p \in Issuers, NEW q \in Issuers, Holding(p)', Holding(q)', p # q
        PROVE  Operated!FamilyOf(issuer'[p].component) # Operated!FamilyOf(issuer'[q].component)
    <3>1. CASE p = k
      BY <1>1, <1>3, <2>1, <3>1
    <3>2. CASE q = k
      BY <1>1, <1>3, <2>1, <3>2
    <3>3. CASE p # k /\ q # k
      BY <1>1, <1>3, <2>1, <3>3 DEF OperatedInv, OneHolds
    <3> QED BY <3>1, <3>2, <3>3
  <2> QED BY <2>1 DEF OneHolds
<1>5. Operated!NothingAddedSince'
  BY DEF OperatedInv, Operated!NothingAddedSince, Operated!UserFree
<1>6. /\ Operated!TypeOK' /\ Operated!DisabledHoldsNothing' /\ Operated!RevokedHoldsNothing'
      /\ Operated!RefreshNeedsTrust'
  BY <1>2 DEF OperatedInv, Operated!TypeOK, Operated!DisabledHoldsNothing, Operated!RevokedHoldsNothing,
              Operated!RefreshNeedsTrust
<1> QED BY <1>1, <1>3, <1>4, <1>5, <1>6 DEF OperatedInv

\* A call that begins, locks, reads or gives up.
LEMMA CallsSafe ==
    ASSUME OperatedInv, NEW k \in Issuers,
           \/ \E c \in Operated!Components : Operated!BeginIssue(k, c)
           \/ Operated!LockFamily(k) \/ Operated!ReadUser(k) \/ Operated!AbortIssue(k)
    PROVE  OperatedInv'
<1>1. UNCHANGED <<application, environment, user, ownInstallation, ownFamily, ownComponent,
                  trusted, live, openChallenges, preview, confirming>>
  BY DEF Operated!BeginIssue, Operated!LockFamily, Operated!ReadUser, Operated!AbortIssue,
         Operated!scope, Operated!trust
<1>2. \A e : Operated!ActiveScope(e)' <=> Operated!ActiveScope(e)
  BY <1>1 DEF Operated!ActiveScope
<1>3. issuer \in [Issuers -> IssuerRow] /\ IssuerGood(k)
  BY DEF OperatedInv
<1>4. Operated!NoCall \in IssuerRow
  BY DEF Operated!NoCall, IssuerRow
<1>5. ASSUME NEW c \in Operated!Components, Operated!BeginIssue(k, c) PROVE OperatedInv'
  <2> DEFINE row == [Operated!NoCall EXCEPT !.step = "begun", !.component = c]
  <2>1. issuer' = [issuer EXCEPT ![k] = row] /\ Operated!ActiveScope(Operated!FamilyOf(c))
    BY <1>5 DEF Operated!BeginIssue
  <2>2. row \in IssuerRow /\ row.step = "begun" /\ row.component = c
    BY DEF IssuerRow, Operated!NoCall
  <2>3. IssuerGood(k)' /\ ~Holding(k)'
    BY <1>2, <1>3, <2>1, <2>2 DEF IssuerGood, Holding
  <2> QED BY <1>1, <2>1, <2>2, <2>3, CallsOnly
<1>6. CASE Operated!LockFamily(k)
  <2> DEFINE c == issuer[k].component
             f == Operated!FamilyOf(c)
  <2>1. PICK signsIn \in BOOLEAN :
           /\ IF signsIn THEN Operated!SignsIn(c) ELSE Operated!Renewable(c)
           /\ issuer' = [issuer EXCEPT ![k].step = "locked", ![k].signsIn = signsIn]
    BY <1>6 DEF Operated!LockFamily
  <2>2. issuer[k].step = "begun" /\ ~Operated!FamilyHeld(f)
    BY <1>6 DEF Operated!LockFamily
  <2> DEFINE row == [issuer[k] EXCEPT !.step = "locked", !.signsIn = signsIn]
  <2>3. /\ row \in IssuerRow /\ row.component = c /\ row.signsIn = signsIn /\ row.step = "locked"
        /\ issuer' = [issuer EXCEPT ![k] = row] /\ issuer'[k] = row
    BY <1>3, <2>1 DEF IssuerRow
  <2>4. c \in Operated!Components /\ Operated!ActiveScope(f) /\ f \in Environments
    BY <1>3, <2>2, ComponentsOfFamilies DEF IssuerGood
  <2>5. \A q \in Issuers : Holding(q) => Operated!FamilyOf(issuer[q].component) # f
    BY <2>2, <2>4, FamilyFree
  <2>6. /\ ownComponent[c] # "revoked" /\ ownFamily[f] # "revoked"
        /\ ~signsIn => c \in trusted /\ ownFamily[f] = "active"
    BY <2>1 DEF Operated!SignsIn, Operated!Renewable
  <2> HIDE DEF row
  <2>7. IssuerGood(k)'
    BY <1>1, <1>2, <2>3, <2>4, <2>6 DEF IssuerGood
  <2> QED BY <1>1, <2>3, <2>5, <2>7, CallsOnly
<1>7. CASE Operated!ReadUser(k)
  <2> DEFINE row == [issuer[k] EXCEPT !.step = "read"]
  <2>1. issuer' = [issuer EXCEPT ![k].step = "read"] /\ issuer[k].step = "locked"
    BY <1>7 DEF Operated!ReadUser
  <2>2. /\ row \in IssuerRow /\ row.component = issuer[k].component /\ row.signsIn = issuer[k].signsIn
        /\ row.step = "read" /\ issuer' = [issuer EXCEPT ![k] = row] /\ issuer'[k] = row
    BY <1>3, <2>1 DEF IssuerRow
  <2> HIDE DEF row
  <2>3. Holding(k)
    BY <2>1 DEF Holding
  <2>4. IssuerGood(k)'
    BY <1>1, <1>2, <1>3, <2>1, <2>2, <2>3 DEF IssuerGood
  <2>5. \A q \in Issuers \ {k} : Holding(q) =>
           Operated!FamilyOf(row.component) # Operated!FamilyOf(issuer[q].component)
    BY <2>2, <2>3 DEF OperatedInv, OneHolds
  <2> QED BY <1>1, <2>2, <2>4, <2>5, CallsOnly
<1>8. CASE Operated!AbortIssue(k)
  <2>1. issuer' = [issuer EXCEPT ![k] = Operated!NoCall]
    BY <1>8 DEF Operated!AbortIssue, Operated!Leave
  <2>2. IssuerGood(k)' /\ ~Holding(k)'
    BY <1>3, <2>1 DEF IssuerGood, Holding, Operated!NoCall
  <2> QED BY <1>1, <1>4, <2>1, <2>2, CallsOnly
<1> QED BY <1>5, <1>6, <1>7, <1>8

\* A call that commits: its family is still as it found it.
LEMMA CommitSafe ==
    ASSUME OperatedInv, NEW k \in Issuers, Operated!CommitIssue(k)
    PROVE  OperatedInv'
<1> DEFINE c == issuer[k].component
           f == Operated!FamilyOf(c)
           issued == (live[c] \cap {"key", "delegation"}) \cup {"grant", "token", "session"}
                        \cup IF issuer[k].signsIn THEN {"key"} ELSE {"result"}
<1>1. /\ Operated!TypeOK /\ issuer \in [Issuers -> IssuerRow] /\ Holding(k)
      /\ c \in Operated!Components /\ f \in Environments /\ Operated!ActiveScope(f)
      /\ ownComponent[c] # "revoked" /\ ownFamily[f] # "revoked"
      /\ ~issuer[k].signsIn => c \in trusted /\ ownFamily[f] = "active"
  BY ComponentsOfFamilies DEF OperatedInv, IssuerGood, Holding, Operated!CommitIssue
<1>2. /\ live' = [live EXCEPT ![c] = issued]
      /\ issuer' = [issuer EXCEPT ![k] = Operated!NoCall]
      /\ UNCHANGED <<application, environment, user, preview, confirming>>
  BY DEF Operated!CommitIssue, Operated!Leave, Operated!scope
<1>3. /\ openChallenges' \subseteq openChallenges /\ trusted' \subseteq Operated!Components
      /\ trusted \subseteq trusted' /\ c \in trusted'
      /\ ownInstallation' \in [Environments -> {"absent", "active", "revoked"}]
      /\ ownFamily' \in [Environments -> {"absent", "active", "revoked"}]
      /\ ownComponent' \in [Operated!Components -> {"absent", "active", "revoked"}]
      /\ \A x \in Environments \ {f} : ownFamily'[x] = ownFamily[x]
      /\ \A d \in Operated!Components \ {c} : ownComponent'[d] = ownComponent[d]
      /\ ownFamily'[f] # "revoked" /\ ownComponent'[c] # "revoked"
  <2>1. CASE issuer[k].signsIn
    BY <1>1, <2>1 DEF Operated!CommitIssue, Operated!TypeOK
  <2>2. CASE ~issuer[k].signsIn
    BY <1>1, <2>2 DEF Operated!CommitIssue, Operated!trust, Operated!TypeOK
  <2> QED BY <2>1, <2>2
<1>4. /\ live'[c] = issued /\ \A d \in Operated!Components \ {c} : live'[d] = live[d]
      /\ live' \in [Operated!Components -> SUBSET Operated!Kinds]
  BY <1>1, <1>2 DEF Operated!TypeOK, Operated!Kinds
<1> HIDE DEF issued
<1>5. \A e : Operated!ActiveScope(e)' <=> Operated!ActiveScope(e)
  BY <1>2 DEF Operated!ActiveScope
<1>6. Operated!TypeOK'
  BY <1>1, <1>2, <1>3, <1>4 DEF Operated!TypeOK
<1>7. /\ issuer' \in [Issuers -> IssuerRow] /\ issuer'[k].step = "idle"
      /\ \A q \in Issuers \ {k} : issuer'[q] = issuer[q]
  BY <1>1, <1>2 DEF IssuerRow, Operated!NoCall
<1>8. \A q \in Issuers : Holding(q)' => Holding(q) /\ q # k /\ Operated!FamilyOf(issuer[q].component) # f
  BY <1>1, <1>7 DEF OperatedInv, OneHolds, Holding
<1>9. ASSUME NEW q \in Issuers PROVE IssuerGood(q)'
  <2>1. CASE q = k
    BY <1>7, <2>1 DEF IssuerGood, Holding
  <2>2. CASE q # k
    <3>1. IssuerGood(q) /\ issuer'[q] = issuer[q] /\ (Holding(q)' <=> Holding(q))
      BY <1>7, <2>2 DEF OperatedInv, Holding
    <3>2. CASE ~Holding(q)
      BY <1>5, <3>1, <3>2 DEF IssuerGood
    <3>3. CASE Holding(q)
      <4>1. issuer[q].component \in Operated!Components /\ issuer[q].component # c
        BY <1>8, <3>1, <3>3 DEF IssuerGood, Holding
      <4>2. Operated!FamilyOf(issuer[q].component) \in Environments \ {f}
        BY <1>8, <3>1, <3>3, <4>1, ComponentsOfFamilies
      <4>3. /\ ownComponent'[issuer[q].component] = ownComponent[issuer[q].component]
            /\ ownFamily'[Operated!FamilyOf(issuer[q].component)]
                  = ownFamily[Operated!FamilyOf(issuer[q].component)]
        BY <1>3, <4>1, <4>2
      <4> QED BY <1>3, <1>5, <3>1, <4>3 DEF IssuerGood
    <3> QED BY <3>2, <3>3
  <2> QED BY <2>1, <2>2
<1>10. OneHolds'
  BY <1>7, <1>8 DEF OperatedInv, OneHolds
<1>11. Operated!NothingAddedSince'
  BY <1>2 DEF Operated!CommitIssue, Operated!NothingAddedSince, Operated!UserFree
<1>12. Operated!DisabledHoldsNothing'
  BY <1>1, <1>3, <1>4, <1>5 DEF OperatedInv, Operated!DisabledHoldsNothing
<1>13. Operated!RevokedHoldsNothing'
  <2>1. ASSUME NEW d \in Operated!Components
        PROVE  /\ ownComponent'[d] = "revoked" => live'[d] = {}
               /\ ownFamily'[Operated!FamilyOf(d)] = "revoked" => live'[d] = {} /\ ownComponent'[d] # "active"
    <3>1. Operated!FamilyOf(d) \in Environments
      BY ComponentsOfFamilies
    <3>2. CASE d = c
      BY <1>3, <3>2
    <3>3. CASE d # c
      BY <1>3, <1>4, <3>1, <3>3 DEF OperatedInv, Operated!RevokedHoldsNothing
    <3> QED BY <3>2, <3>3
  <2> QED BY <2>1 DEF Operated!RevokedHoldsNothing
<1>14. Operated!RefreshNeedsTrust'
  BY <1>3, <1>4 DEF OperatedInv, Operated!RefreshNeedsTrust
<1> QED BY <1>6, <1>7, <1>9, <1>10, <1>11, <1>12, <1>13, <1>14 DEF OperatedInv

LEMMA ChallengeSafe ==
    ASSUME OperatedInv, NEW e \in Environments, Operated!CreateChallenge(e)
    PROVE  OperatedInv'
<1>1. /\ Operated!ActiveScope(e) /\ openChallenges' = openChallenges \cup {e} /\ Operated!TypeOK
      /\ UNCHANGED <<application, environment, user, ownInstallation, ownFamily, ownComponent,
                     trusted, live, issuer, preview, confirming>>
  BY DEF Operated!CreateChallenge, Operated!scope, Operated!trust, OperatedInv
<1>2. \A x : Operated!ActiveScope(x)' <=> Operated!ActiveScope(x)
  BY <1>1 DEF Operated!ActiveScope
<1>3. Operated!NothingAddedSince'
  BY <1>1 DEF OperatedInv, Operated!NothingAddedSince, Operated!UserFree
<1>4. /\ \A k \in Issuers : IssuerGood(k)' /\ (Holding(k)' <=> Holding(k))
      /\ issuer' \in [Issuers -> IssuerRow]
  BY <1>1, <1>2 DEF OperatedInv, IssuerGood, Holding
<1>5. OneHolds'
  BY <1>1, <1>4 DEF OperatedInv, OneHolds
<1>6. Operated!TypeOK' /\ Operated!RevokedHoldsNothing' /\ Operated!RefreshNeedsTrust'
  BY <1>1 DEF OperatedInv, Operated!TypeOK, Operated!RevokedHoldsNothing, Operated!RefreshNeedsTrust
<1>7. Operated!DisabledHoldsNothing'
  BY <1>1, <1>2 DEF OperatedInv, Operated!DisabledHoldsNothing
<1> QED BY <1>3, <1>4, <1>5, <1>6, <1>7 DEF OperatedInv

LEMMA ProvisionSafe ==
    ASSUME OperatedInv, NEW f \in Environments, Operated!ProvisionComponent(f)
    PROVE  OperatedInv'
<1> DEFINE child == <<f, "child">>
<1>1. /\ Operated!ActiveScope(f) /\ ~Operated!FamilyHeld(f) /\ ownFamily[f] = "active" /\ Operated!TypeOK
      /\ ownComponent' = [ownComponent EXCEPT ![child] = "active"]
      /\ trusted' = trusted \cup {child} /\ live' = [live EXCEPT ![child] = {"key", "delegation"}]
      /\ UNCHANGED <<application, environment, user, ownInstallation, ownFamily, openChallenges,
                     issuer, preview, confirming>>
  BY DEF Operated!ProvisionComponent, Operated!scope, OperatedInv
<1>2. child \in Operated!Components /\ Operated!FamilyOf(child) = f
  BY ComponentsOfFamilies DEF Operated!Roles
<1> HIDE DEF child
<1>3. /\ live'[child] = {"key", "delegation"} /\ ownComponent'[child] = "active"
      /\ \A d \in Operated!Components \ {child} : live'[d] = live[d] /\ ownComponent'[d] = ownComponent[d]
  BY <1>1, <1>2 DEF Operated!TypeOK
<1>4. Operated!TypeOK'
  BY <1>1, <1>2 DEF Operated!TypeOK, Operated!Kinds
<1>5. \A x : Operated!ActiveScope(x)' <=> Operated!ActiveScope(x)
  BY <1>1 DEF Operated!ActiveScope
<1>6. Operated!NothingAddedSince'
  BY <1>1 DEF Operated!ProvisionComponent, Operated!NothingAddedSince, Operated!UserFree
<1>7. \A k \in Issuers : Holding(k) => Operated!FamilyOf(issuer[k].component) # f
  BY <1>1, FamilyFree
<1>8. /\ \A k \in Issuers : IssuerGood(k)' /\ (Holding(k)' <=> Holding(k))
      /\ issuer' \in [Issuers -> IssuerRow]
  <2>1. ASSUME NEW k \in Issuers PROVE IssuerGood(k)' /\ (Holding(k)' <=> Holding(k))
    <3>1. IssuerGood(k) /\ issuer'[k] = issuer[k] /\ (Holding(k)' <=> Holding(k))
      BY <1>1 DEF OperatedInv, Holding
    <3>2. Holding(k) => /\ issuer[k].component \in Operated!Components
                        /\ ownComponent'[issuer[k].component] = ownComponent[issuer[k].component]
      BY <1>2, <1>3, <1>7, <3>1 DEF IssuerGood, Holding
    <3> QED BY <1>1, <1>5, <3>1, <3>2 DEF IssuerGood
  <2> QED BY <1>1, <2>1 DEF OperatedInv
<1>9. OneHolds'
  BY <1>1, <1>8 DEF OperatedInv, OneHolds
<1>10. Operated!DisabledHoldsNothing'
  BY <1>1, <1>2, <1>3, <1>5 DEF OperatedInv, Operated!DisabledHoldsNothing
<1>11. Operated!RevokedHoldsNothing'
  BY <1>1, <1>2, <1>3 DEF OperatedInv, Operated!RevokedHoldsNothing
<1>12. Operated!RefreshNeedsTrust'
  BY <1>1, <1>3 DEF OperatedInv, Operated!RefreshNeedsTrust
<1> QED BY <1>4, <1>6, <1>8, <1>9, <1>10, <1>11, <1>12 DEF OperatedInv

LEMMA OperatedStep ==
    ASSUME OperatedInv, [Operated!Next]_Operated!vars PROVE OperatedInv'
<1>1. CASE Operated!IssueStep
  BY <1>1, ChallengeSafe, ProvisionSafe, CallsSafe, CommitSafe DEF Operated!IssueStep
<1>2. CASE Operated!AdministratorStep
  <2>1. CASE \/ Operated!DisableApplication \/ Operated!EnableApplication
             \/ \E e \in Environments : \/ Operated!CreateEnvironment(e) \/ Operated!DisableEnvironment(e)
                                        \/ Operated!EnableEnvironment(e)
    BY <2>1, ScopesSafe
  <2>2. CASE \/ \E blocked \in BOOLEAN : Operated!SetUserBlocked(blocked)
             \/ Operated!RequireReauthentication \/ Operated!RequireAppReverification
             \/ \E e \in Environments, operation \in Operated!Operations :
                   Operated!PreviewUserOperation(e, operation)
             \/ \E operation \in Operated!Operations : Operated!ConfirmUserOperation(operation)
             \/ Operated!AbortUserOperation
    BY <2>2, UsersSafe
  <2>3. CASE \/ \E f \in Environments : \/ Operated!RevokeInstallationFamily(f)
                                        \/ Operated!RequireInstallationFamilyRenewal(f)
             \/ \E c \in Operated!Components : \/ Operated!RevokeClientComponent(c)
                                               \/ Operated!RequireClientComponentReattestation(c)
    BY <2>3, FamiliesSafe
  <2> QED BY <1>2, <2>1, <2>2, <2>3 DEF Operated!AdministratorStep
<1>3. CASE UNCHANGED Operated!vars
  <2>1. /\ UNCHANGED <<application, environment, user, ownInstallation, ownFamily, ownComponent, trusted, live,
                       openChallenges, issuer, preview, confirming>>
    BY <1>3 DEF Operated!vars
  <2>2. confirming' \in {confirming, Operated!NoConfirm}
    BY <2>1
  <2>3. \A e : Operated!ActiveScope(e)' <=> Operated!ActiveScope(e)
    BY <2>1 DEF Operated!ActiveScope
  <2>4. Operated!TypeOK'
    BY <2>1 DEF OperatedInv, Operated!TypeOK
  <2>5. \A k \in Issuers : issuer[k].step # "idle" =>
           Operated!ActiveScope(Operated!FamilyOf(issuer[k].component))
    BY DEF OperatedInv, IssuerGood
  <2> QED BY <2>1, <2>2, <2>3, <2>4, <2>5, TakesAway
<1> QED BY <1>1, <1>2, <1>3 DEF Operated!Next

\* Administration reaches what it is aimed at, whatever calls are issuing
\* credentials meanwhile: a disabled application or environment and a
\* revoked component or family hold no credential, a refresh credential is
\* held only by a component whose trust has not expired, and nothing is added
\* to what a confirmed operation on a user counted before it acts.
THEOREM OperationsHold ==
    Operated!Spec => [](/\ Operated!TypeOK /\ Operated!DisabledHoldsNothing
                        /\ Operated!RevokedHoldsNothing /\ Operated!RefreshNeedsTrust
                        /\ Operated!NothingAddedSince)
<1>1. OperatedInv => /\ Operated!TypeOK /\ Operated!DisabledHoldsNothing
                     /\ Operated!RevokedHoldsNothing /\ Operated!RefreshNeedsTrust
                     /\ Operated!NothingAddedSince
  BY DEF OperatedInv
<1> QED BY OperatedInit, OperatedStep, <1>1, PTL DEF Operated!Spec
=============================================================================
