------------------------ MODULE SessionRefreshProofs ------------------------
(***************************************************************************)
(* Proofs about SessionRefresh: RefreshIsSafe is an invariant and the      *)
(* family of a component implements the chain of RefreshContract, for any  *)
(* number of concurrent calls, any lifetimes and any bounds.               *)
(*                                                                         *)
(* No lock is used by the argument: what a transaction relies on is what   *)
(* it finds when it holds the token's row.                                 *)
(*                                                                         *)
(* The App Attest keys with which a device earns its sessions follow as a  *)
(* component of their own.                                                 *)
(***************************************************************************)
EXTENDS SessionRefresh, Integers, FiniteSetTheorems, TLAPS

(* The inductive invariant. *)

\* A call presents a token that was issued, at a time that has come; a call
\* that revokes the family of a component was given a token used before.
GoodCall(r) ==
    r.pc # "idle" =>
        /\ r.tok \in 1..tip /\ r.tok < MaxTokens /\ r.at <= clock
        /\ ComponentAware /\ r.pc \in {"marking", "granting", "ending"} => r.mark

CallsGood == \A c \in Callers : GoodCall(tx[c])

\* The tokens are a chain: the newest alone may be active, and a cached result
\* names the successor.
Chain ==
    \A n \in Tokens : /\ token[n].status = "active" => n = tip
                      /\ token[n].status = "rotated" => n < tip
                      /\ cache[n].until > 0 => cache[n].result = n + 1

\* A family without a row of its own is ended by its boundary only.
RowOfComponent == ~ComponentAware => session = "active" /\ keeper = "idle"

ReuseRecorded ==
    ComponentAware /\ (\E n \in Tokens : token[n].status = "reused") => session # "active"

\* While some token is active, every rotation's result is stored until its
\* grace is over.
Stored(n) == cache[n].until = token[n].used + Grace
ResultsStored ==
    ComponentAware /\ Open /\ (\E n \in Tokens : token[n].status = "active") =>
        \A n \in Tokens : token[n].status = "rotated" => Stored(n) \/ token[n].used + Grace <= clock

FamilyInv ==
    /\ CallsGood /\ Chain /\ RowOfComponent /\ ReuseRecorded /\ ResultsStored
    /\ RevokedBoundaryIsEmpty

RefreshInv == TypeOK /\ FamilyInv

\* Under the invariant the properties hold.
LEMMA InvIsSafe == RefreshInv => RefreshIsSafe
<1> SUFFICES ASSUME RefreshInv PROVE RefreshIsSafe
  OBVIOUS
<1>1. TypeOK /\ RevokedBoundaryIsEmpty
  BY DEF RefreshInv, FamilyInv
<1>2. ComponentAware => ReuseEndsEverything
  BY DEF RefreshInv, FamilyInv, ReuseRecorded, ReuseEndsEverything, Refreshable, Admitted, Open
<1>3. GraceKept
  <2> SUFFICES ASSUME ComponentAware, NEW m \in Tokens, Refreshable(m), NEW n \in Tokens,
                      token[n].status = "rotated", clock < token[n].used + Grace
               PROVE  cache[n].result = n + 1
    BY DEF GraceKept
  <2>1. token[n].used \in Nat /\ clock \in Nat /\ Grace \in Nat
    BY RefreshBounds DEF RefreshInv, TypeOK, TokenRow
  <2>2. cache[n].until = token[n].used + Grace
    BY <2>1 DEF RefreshInv, FamilyInv, ResultsStored, Stored, Refreshable
  <2> QED BY <2>1, <2>2 DEF RefreshInv, FamilyInv, Chain
<1> QED BY <1>1, <1>2, <1>3 DEF RefreshIsSafe

LEMMA InitInv == Init => RefreshInv
<1> SUFFICES ASSUME Init PROVE RefreshInv
  OBVIOUS
<1>1. 1 \in Tokens /\ 0 \in 0..MaxTime /\ 0 \in 0..(MaxTime + Grace)
  BY RefreshBounds DEF Tokens
<1>2. NoToken \in TokenRow /\ [NoToken EXCEPT !.status = "active"] \in TokenRow
  BY <1>1 DEF NoToken, TokenRow
<1>3. NoResult \in ResultRow
  BY <1>1 DEF NoResult, ResultRow
<1>4. Idle \in TxRow
  BY <1>1 DEF Idle, TxRow, Steps
<1>5. TypeOK
  BY <1>1, <1>2, <1>3, <1>4 DEF Init, TypeOK
<1>6. CallsGood
  BY DEF CallsGood, GoodCall, Init, Idle, Parties
<1>7. \A n \in Tokens : /\ token[n].status = "active" <=> n = 1
                        /\ token[n].status \in {"none", "active"}
                        /\ cache[n].until = 0
  BY DEF Init, NoToken, NoResult
<1> QED BY <1>5, <1>6, <1>7 DEF RefreshInv, FamilyInv, Chain, RowOfComponent, ReuseRecorded,
          ResultsStored, RevokedBoundaryIsEmpty, Init

-----------------------------------------------------------------------------
(* Rows of transactions. *)

LEMMA RowMoves ==
    ASSUME NEW r \in TxRow, NEW pc \in Steps
    PROVE  LET x == [r EXCEPT !.pc = pc]
           IN /\ x \in TxRow
              /\ x.pc = pc /\ x.tok = r.tok /\ x.at = r.at /\ x.mark = r.mark
BY DEF TxRow

LEMMA RowBounded ==
    ASSUME NEW r \in TxRow, NEW g \in BOOLEAN
    PROVE  LET x == [r EXCEPT !.pc = "bounded", !.grantRevoked = g]
           IN /\ x \in TxRow
              /\ x.pc = "bounded" /\ x.tok = r.tok /\ x.at = r.at
BY DEF TxRow, Steps

LEMMA RowSees ==
    ASSUME NEW r \in TxRow, NEW S \in SUBSET Tokens
    PROVE  [r EXCEPT !.pc = "marking", !.seen = S] \in TxRow
BY DEF TxRow, Steps

LEMMA RowGrants ==
    ASSUME NEW r \in TxRow, NEW S \in SUBSET Tokens
    PROVE  LET x == [r EXCEPT !.pc = "granting", !.grants = S]
           IN /\ x \in TxRow
              /\ x.pc = "granting" /\ x.tok = r.tok /\ x.at = r.at /\ x.mark = r.mark
BY DEF TxRow, Steps

LEMMA IdleRow == Idle \in TxRow /\ Idle.pc = "idle"
BY RefreshBounds DEF Idle, TxRow, Steps, Tokens

LEMMA Words ==
    LET words == {Issued(n) : n \in Tokens} \cup {Silence, Refused, Reused}
    IN Silence \in words /\ Refused \in words /\ Reused \in words /\ \A n \in Tokens : Issued(n) \in words
OBVIOUS

-----------------------------------------------------------------------------
(* Steps that change the rows of one transaction, and what a call is told. *)

Answered == answer' \in [Callers -> {Issued(n) : n \in Tokens} \cup {Silence, Refused, Reused}]

LEMMA TxRows ==
    ASSUME RefreshInv, NEW p \in Parties, NEW r \in TxRow, tx' = [tx EXCEPT ![p] = r],
           UNCHANGED <<ComponentAware, clock>>, tip' \in Tokens, tip' >= tip,
           p \in Callers => GoodCall(r)
    PROVE  tx' \in [Parties -> TxRow] /\ CallsGood'
<1>1. tx \in [Parties -> TxRow] /\ tip \in Nat /\ tip' \in Nat
  BY RefreshBounds DEF RefreshInv, TypeOK, Tokens
<1>2. tx' \in [Parties -> TxRow] /\ tx'[p] = r /\ \A q \in Parties \ {p} : tx'[q] = tx[q]
  BY <1>1
<1>3. SUFFICES ASSUME NEW c \in Callers, tx'[c].pc # "idle" PROVE GoodCall(tx[c])'
  BY <1>2 DEF CallsGood, GoodCall
<1>4. GoodCall(tx'[c])
  BY <1>2 DEF RefreshInv, FamilyInv, CallsGood, Parties
<1>5. tx'[c].tok \in 1..tip' 
  BY <1>1, <1>3, <1>4 DEF GoodCall
<1> QED BY <1>3, <1>4, <1>5 DEF GoodCall

LEMMA TxStep ==
    ASSUME RefreshInv, NEW p \in Parties, NEW r \in TxRow, tx' = [tx EXCEPT ![p] = r],
           UNCHANGED <<ComponentAware, clock, tip, token, grant, cache, session, boundary, keeper>>,
           Answered, p \in Callers => GoodCall(r)
    PROVE  RefreshInv'
<1>1. tip' \in Tokens /\ tip' >= tip
  BY RefreshBounds DEF RefreshInv, TypeOK, Tokens
<1>2. tx' \in [Parties -> TxRow] /\ CallsGood'
  BY <1>1, TxRows
<1>3. TypeOK'
  BY <1>2 DEF RefreshInv, TypeOK, Answered
<1>4. (Chain /\ RowOfComponent /\ ReuseRecorded /\ ResultsStored /\ RevokedBoundaryIsEmpty)'
  BY DEF RefreshInv, FamilyInv, Chain, RowOfComponent, ReuseRecorded, ResultsStored, Stored, Open,
         RevokedBoundaryIsEmpty
<1> QED BY <1>2, <1>3, <1>4 DEF RefreshInv, FamilyInv

\* A call ends: only its transaction and its answer are to be looked at.
LEMMA DoneStep ==
    ASSUME RefreshInv, NEW c \in Callers, NEW said, Done(c, said),
           said \in {Issued(n) : n \in Tokens} \cup {Silence, Refused, Reused}
    PROVE  tx' = [tx EXCEPT ![c] = Idle] /\ Answered
BY DEF Done, Answered, RefreshInv, TypeOK

LEMMA CallEnds ==
    ASSUME RefreshInv, NEW c \in Callers, NEW said, Done(c, said),
           said \in {Issued(n) : n \in Tokens} \cup {Silence, Refused, Reused},
           UNCHANGED <<ComponentAware, clock, tip, token, grant, cache, session, boundary, keeper>>
    PROVE  RefreshInv'
<1>1. tx' = [tx EXCEPT ![c] = Idle] /\ Answered
  BY DoneStep
<1>2. c \in Parties /\ GoodCall(Idle)
  BY IdleRow DEF Parties, GoodCall
<1> QED BY <1>1, <1>2, IdleRow, TxStep

LEMMA PresentInv ==
    ASSUME RefreshInv, NEW c \in Callers, NEW n \in Tokens, Present(c, n)
    PROVE  RefreshInv'
<1> DEFINE r == [Idle EXCEPT !.pc = "opened", !.tok = n, !.at = clock, !.prepared = Prepared(n),
                             !.was = <<boundary, session>>]
<1>1. clock \in 0..MaxTime /\ Prepared(n) \in BOOLEAN
      /\ <<boundary, session>> \in {"active", "revoked"} \X {"active", "revoked", "replaced", "expired"}
  BY DEF RefreshInv, TypeOK, Prepared
<1>2. r \in TxRow /\ r.pc = "opened" /\ r.tok = n /\ r.at = clock
  BY <1>1 DEF TxRow, Steps, Idle
<1>3. tx' = [tx EXCEPT ![c] = r] /\ answer' = [answer EXCEPT ![c] = Silence]
  BY DEF Present
<1> HIDE DEF r
<1>4. Answered
  BY <1>3 DEF RefreshInv, TypeOK, Answered
<1>5. GoodCall(r)
  BY <1>1, <1>2, RefreshBounds DEF GoodCall, Present, Tokens
<1> QED BY <1>2, <1>3, <1>4, <1>5, TxStep DEF Present, Parties

\* What is known of a call that has begun.
LEMMA Held ==
    ASSUME RefreshInv, NEW c \in Callers, tx[c].pc # "idle"
    PROVE  /\ c \in Parties /\ tx[c] \in TxRow /\ tx[c].tok \in Tokens /\ tx[c].tok \in 1..tip
           /\ tx[c].tok < MaxTokens /\ tx[c].at <= clock /\ tx[c].at \in 0..MaxTime
           /\ tx[c].tok + 1 \in Tokens
<1>1. c \in Parties /\ tx[c] \in TxRow /\ GoodCall(tx[c]) /\ tip \in Tokens
  BY DEF RefreshInv, FamilyInv, TypeOK, CallsGood, Parties
<1> QED BY <1>1, RefreshBounds DEF GoodCall, Tokens, TxRow

LEMMA LockBoundaryInv ==
    ASSUME RefreshInv, NEW c \in Callers, LockBoundary(c)
    PROVE  RefreshInv'
<1>1. CASE Done(c, Refused)
  BY <1>1, CallEnds, Words DEF LockBoundary
<1>2. CASE tx' = [tx EXCEPT ![c] = [tx[c] EXCEPT !.pc = "bounded",
                                       !.grantRevoked = grant[tx[c].tok] = "revoked"]]
           /\ UNCHANGED answer
  <2> DEFINE g == grant[tx[c].tok] = "revoked"
             r == [tx[c] EXCEPT !.pc = "bounded", !.grantRevoked = g]
  <2>1. tx[c].pc # "idle" /\ g \in BOOLEAN
    BY DEF LockBoundary
  <2>2. tx' = [tx EXCEPT ![c] = r] /\ Answered
    BY <1>2 DEF Answered, RefreshInv, TypeOK
  <2> HIDE DEF g
  <2>3. r \in TxRow /\ r.pc = "bounded" /\ r.tok = tx[c].tok /\ r.at = tx[c].at
    BY <2>1, Held, RowBounded
  <2> HIDE DEF r
  <2>4. GoodCall(r)
    BY <2>1, <2>3, Held DEF GoodCall
  <2> QED BY <2>1, <2>2, <2>3, <2>4, Held, TxStep DEF LockBoundary
<1> QED BY <1>1, <1>2 DEF LockBoundary

LEMMA LockTokenInv ==
    ASSUME RefreshInv, NEW c \in Callers, LockToken(c)
    PROVE  RefreshInv'
<1> DEFINE r == [tx[c] EXCEPT !.pc = "holding"]
<1>1. tx[c].pc # "idle" /\ "holding" \in Steps
  BY DEF LockToken, Steps
<1>2. tx' = [tx EXCEPT ![c] = r] /\ Answered
  BY DEF LockToken, Answered, RefreshInv, TypeOK
<1>3. r \in TxRow /\ r.pc = "holding" /\ r.tok = tx[c].tok /\ r.at = tx[c].at
  BY <1>1, Held, RowMoves
<1> HIDE DEF r
<1>4. GoodCall(r)
  BY <1>1, <1>3, Held DEF GoodCall
<1> QED BY <1>1, <1>2, <1>3, <1>4, Held, TxStep DEF LockToken

LEMMA RefuseInv ==
    ASSUME RefreshInv, NEW c \in Callers, Refuse(c)
    PROVE  RefreshInv'
BY CallEnds, Words DEF Refuse

\* A result that is found is the successor of the token presented.
LEMMA CachedResult ==
    ASSUME RefreshInv, NEW c \in Callers, AnswerCached(c)
    PROVE  cache[tx[c].tok].result = tx[c].tok + 1
<1>1. tx[c].pc # "idle" /\ Cached(c)
  BY DEF AnswerCached
<1>2. cache[tx[c].tok] \in ResultRow
  BY <1>1, Held DEF RefreshInv, TypeOK
<1>3. cache[tx[c].tok].until > 0
  BY <1>1, <1>2, Held, RefreshBounds DEF Cached, ResultRow
<1> QED BY <1>1, <1>3, Held DEF RefreshInv, FamilyInv, Chain

LEMMA AnswerCachedInv ==
    ASSUME RefreshInv, NEW c \in Callers, AnswerCached(c)
    PROVE  RefreshInv'
<1>1. tx[c].pc # "idle"
  BY DEF AnswerCached
<1>2. Issued(cache[tx[c].tok].result) \in {Issued(n) : n \in Tokens} \cup {Silence, Refused, Reused}
  BY <1>1, CachedResult, Held, Words
<1> QED BY <1>2, CallEnds DEF AnswerCached

LEMMA BeginRevokeInv ==
    ASSUME RefreshInv, NEW c \in Callers, BeginRevoke(c)
    PROVE  RefreshInv'
<1> DEFINE m == token[tx[c].tok].status # "active"
           S == 1..tip
           r == [tx[c] EXCEPT !.pc = "marking", !.seen = S, !.mark = m]
<1>1. tx[c].pc # "idle" /\ m \in BOOLEAN /\ (ComponentAware => m)
  BY DEF BeginRevoke
<1>2. S \in SUBSET Tokens
  BY RefreshBounds DEF RefreshInv, TypeOK, Tokens
<1>3. tx' = [tx EXCEPT ![c] = r] /\ Answered
  BY DEF BeginRevoke, Answered, RefreshInv, TypeOK
<1> HIDE DEF m, S
<1>4. r \in TxRow /\ r.pc = "marking" /\ r.tok = tx[c].tok /\ r.at = tx[c].at /\ r.mark = m
  <2>1. tx[c] \in TxRow /\ m \in BOOLEAN
    BY <1>1, Held
  <2> QED BY <2>1, <1>2 DEF TxRow, Steps
<1> HIDE DEF r
<1>5. GoodCall(r)
  BY <1>1, <1>4, Held DEF GoodCall
<1> QED BY <1>1, <1>3, <1>4, <1>5, Held, TxStep DEF BeginRevoke

LEMMA RevokeTokensInv ==
    ASSUME RefreshInv, NEW c \in Callers, RevokeTokens(c)
    PROVE  RefreshInv'
<1> DEFINE r == [tx[c] EXCEPT !.pc = "granting", !.grants = 1..tip]
<1>1. tx[c].pc # "idle" /\ (ComponentAware => tx[c].mark)
  BY DEF RevokeTokens, RefreshInv, FamilyInv, CallsGood, GoodCall
<1>2. 1..tip \in SUBSET Tokens
  BY RefreshBounds DEF RefreshInv, TypeOK, Tokens
<1>3. tx' = [tx EXCEPT ![c] = r] /\ Answered
  BY DEF RevokeTokens, Answered, RefreshInv, TypeOK
<1>4. r \in TxRow /\ r.pc = "granting" /\ r.tok = tx[c].tok /\ r.at = tx[c].at /\ r.mark = tx[c].mark
  BY <1>1, <1>2, Held, RowGrants
<1> HIDE DEF r
<1>5. GoodCall(r)
  BY <1>1, <1>4, Held DEF GoodCall
<1> QED BY <1>1, <1>3, <1>4, <1>5, Held, TxStep DEF RevokeTokens

LEMMA RevokeGrantsInv ==
    ASSUME RefreshInv, NEW c \in Callers, RevokeGrants(c)
    PROVE  RefreshInv'
<1> DEFINE r == [tx[c] EXCEPT !.pc = "ending"]
<1>1. tx[c].pc # "idle" /\ (ComponentAware => tx[c].mark) /\ "ending" \in Steps
  BY DEF RevokeGrants, RefreshInv, FamilyInv, CallsGood, GoodCall, Steps
<1>2. tx' = [tx EXCEPT ![c] = r] /\ Answered
  BY DEF RevokeGrants, Answered, RefreshInv, TypeOK
<1>3. r \in TxRow /\ r.pc = "ending" /\ r.tok = tx[c].tok /\ r.at = tx[c].at /\ r.mark = tx[c].mark
  BY <1>1, Held, RowMoves
<1> HIDE DEF r
<1>4. GoodCall(r)
  BY <1>1, <1>3, Held DEF GoodCall
<1> QED BY <1>1, <1>2, <1>3, <1>4, Held, TxStep DEF RevokeGrants

LEMMA AbortInv ==
    ASSUME RefreshInv, NEW p \in Parties, Abort(p)
    PROVE  RefreshInv'
<1>1. Answered
  BY DEF Abort, Answered, RefreshInv, TypeOK
<1>2. GoodCall(Idle)
  BY IdleRow DEF GoodCall
<1> QED BY <1>1, <1>2, IdleRow, TxStep DEF Abort

\* The administrator's statements before the last.
LEMMA AdminInv ==
    ASSUME RefreshInv, BeginReauthentication \/ ReauthenticateTokens \/ ReauthenticateSession
    PROVE  RefreshInv'
<1>1. Admin \in Parties /\ Admin \notin Callers /\ tx[Admin] \in TxRow
  BY RefreshBounds DEF Parties, RefreshInv, TypeOK
<1>2. 1..tip \in SUBSET Tokens
  BY RefreshBounds DEF RefreshInv, TypeOK, Tokens
<1>3. PICK r \in TxRow : tx' = [tx EXCEPT ![Admin] = r]
  <2>1. CASE BeginReauthentication
    BY <2>1, <1>1, <1>2, RowGrants DEF BeginReauthentication
  <2>2. CASE ReauthenticateTokens
    <3> DEFINE S == {n \in 1..tip : token[n].status = "active"}
    <3>1. S \in SUBSET Tokens /\ tx' = [tx EXCEPT ![Admin] = [tx[Admin] EXCEPT !.pc = "marking", !.seen = S]]
      BY <2>2, <1>2 DEF ReauthenticateTokens
    <3> HIDE DEF S
    <3> QED BY <3>1, <1>1, RowSees
  <2>3. CASE ReauthenticateSession
    <3>1. "ending" \in Steps /\ tx' = [tx EXCEPT ![Admin] = [tx[Admin] EXCEPT !.pc = "ending"]]
      BY <2>3 DEF ReauthenticateSession, Steps
    <3> QED BY <3>1, <1>1, RowMoves
  <2> QED BY <2>1, <2>2, <2>3
<1>4. Answered /\ UNCHANGED <<ComponentAware, clock, tip, token, grant, cache, session, boundary, keeper>>
  BY DEF BeginReauthentication, ReauthenticateTokens, ReauthenticateSession, Answered, RefreshInv, TypeOK
<1> QED BY <1>1, <1>3, <1>4, TxStep

-----------------------------------------------------------------------------
(* Steps that change tokens. *)

LEMMA ExpiredRow ==
    ASSUME NEW r \in TokenRow, NEW s \in {"reused", "expired", "revoked"}
    PROVE  LET x == [r EXCEPT !.status = s]
           IN x \in TokenRow /\ x.status = s /\ x.used = r.used /\ x.issued = r.issued
BY DEF TokenRow

\* A token or several become unusable, the rest stands.
LEMMA TokensEnd ==
    ASSUME RefreshInv, token' \in [Tokens -> TokenRow],
           \A n \in Tokens : token'[n] = token[n] \/ token'[n].status \in {"expired", "revoked"},
           UNCHANGED <<ComponentAware, tip, cache, session, boundary, clock, keeper>>,
           grant' \in [Tokens -> {"none", "live", "revoked"}],
           \A n \in Tokens : grant'[n] = "live" => grant[n] = "live",
           tx' \in [Parties -> TxRow], CallsGood', Answered
    PROVE  RefreshInv'
<1>1. TypeOK'
  BY DEF RefreshInv, TypeOK, Answered
<1>2. Chain' /\ RowOfComponent' /\ ReuseRecorded' /\ RevokedBoundaryIsEmpty'
  BY DEF RefreshInv, FamilyInv, Chain, RowOfComponent, ReuseRecorded, RevokedBoundaryIsEmpty
<1>3. ResultsStored'
  BY DEF RefreshInv, FamilyInv, ResultsStored, Open, Stored
<1> QED BY <1>1, <1>2, <1>3 DEF RefreshInv, FamilyInv

LEMMA ExpireTokenInv ==
    ASSUME RefreshInv, NEW c \in Callers, ExpireToken(c)
    PROVE  RefreshInv'
<1>1. tx[c].pc # "idle"
  BY DEF ExpireToken
<1> DEFINE k == tx[c].tok
           r == [token[k] EXCEPT !.status = "expired"]
<1>2. token \in [Tokens -> TokenRow] /\ k \in Tokens
  BY <1>1, Held DEF RefreshInv, TypeOK
<1>3. r \in TokenRow /\ r.status = "expired"
  BY <1>2, ExpiredRow
<1>4. token' = [token EXCEPT ![k] = r]
  BY DEF ExpireToken
<1> HIDE DEF r, k
<1>5. /\ token' \in [Tokens -> TokenRow]
      /\ \A n \in Tokens : token'[n] = token[n] \/ token'[n].status \in {"expired", "revoked"}
  BY <1>2, <1>3, <1>4
<1>6. tx' = [tx EXCEPT ![c] = Idle] /\ Answered
  BY DoneStep, Words DEF ExpireToken
<1>7. c \in Parties /\ GoodCall(Idle) /\ tip \in Tokens /\ tip >= tip
  BY IdleRow, RefreshBounds DEF Parties, GoodCall, RefreshInv, TypeOK, Tokens
<1>8. UNCHANGED <<ComponentAware, clock, tip, cache, session, boundary, keeper, grant>>
  BY DEF ExpireToken
<1>9. tx' \in [Parties -> TxRow] /\ CallsGood'
  BY <1>6, <1>7, <1>8, IdleRow, TxRows
<1>10. grant' \in [Tokens -> {"none", "live", "revoked"}] /\ \A n \in Tokens : grant'[n] = "live" => grant[n] = "live"
  BY <1>8 DEF RefreshInv, TypeOK
<1> QED BY <1>5, <1>6, <1>8, <1>9, <1>10, TokensEnd

LEMMA ExpireTokensInv ==
    ASSUME RefreshInv, ExpireTokens
    PROVE  RefreshInv'
<1>1. PICK k \in Tokens : token' = [token EXCEPT ![k].status = "expired"]
  BY DEF ExpireTokens
<1> DEFINE r == [token[k] EXCEPT !.status = "expired"]
<1>2. token \in [Tokens -> TokenRow]
  BY DEF RefreshInv, TypeOK
<1>3. r \in TokenRow /\ r.status = "expired"
  BY <1>2, ExpiredRow
<1>4. token' = [token EXCEPT ![k] = r]
  BY <1>1
<1> HIDE DEF r
<1>5. /\ token' \in [Tokens -> TokenRow]
      /\ \A n \in Tokens : token'[n] = token[n] \/ token'[n].status \in {"expired", "revoked"}
  BY <1>2, <1>3, <1>4
<1>6. UNCHANGED <<ComponentAware, clock, tip, cache, session, boundary, keeper, grant, tx, answer>>
  BY DEF ExpireTokens
<1>7. tx' \in [Parties -> TxRow] /\ CallsGood' /\ Answered
  BY <1>6 DEF RefreshInv, FamilyInv, TypeOK, Answered, CallsGood, GoodCall
<1>8. grant' \in [Tokens -> {"none", "live", "revoked"}] /\ \A n \in Tokens : grant'[n] = "live" => grant[n] = "live"
  BY <1>6 DEF RefreshInv, TypeOK
<1> QED BY <1>5, <1>6, <1>7, <1>8, TokensEnd

\* What revocations of rows do.
LEMMA RowsRevoked ==
    ASSUME RefreshInv, NEW S \in SUBSET Tokens
    PROVE  /\ TokensRevoked(S) \in [Tokens -> TokenRow]
           /\ \A n \in Tokens : \/ TokensRevoked(S)[n] = token[n]
                                \/ TokensRevoked(S)[n].status = "revoked"
           /\ \A n \in S : TokensRevoked(S)[n].status # "active"
           /\ GrantsRevoked(S) \in [Tokens -> {"none", "live", "revoked"}]
           /\ \A n \in Tokens : GrantsRevoked(S)[n] = "live" => grant[n] = "live" /\ n \notin S
<1>1. token \in [Tokens -> TokenRow] /\ grant \in [Tokens -> {"none", "live", "revoked"}]
  BY DEF RefreshInv, TypeOK
<1> DEFINE r(n) == [token[n] EXCEPT !.status = "revoked"]
<1>2. \A n \in Tokens : r(n) \in TokenRow /\ r(n).status = "revoked"
  BY <1>1, ExpiredRow
<1>3. TokensRevoked(S) = [n \in Tokens |-> IF n \in S /\ token[n].status = "active" THEN r(n) ELSE token[n]]
  BY DEF TokensRevoked
<1> HIDE DEF r
<1>4. /\ TokensRevoked(S) \in [Tokens -> TokenRow]
      /\ \A n \in Tokens : \/ TokensRevoked(S)[n] = token[n]
                           \/ TokensRevoked(S)[n].status = "revoked"
      /\ \A n \in S : TokensRevoked(S)[n].status # "active"
  BY <1>1, <1>2, <1>3
<1>5. /\ GrantsRevoked(S) \in [Tokens -> {"none", "live", "revoked"}]
      /\ \A n \in Tokens : GrantsRevoked(S)[n] = "live" => grant[n] = "live" /\ n \notin S
  BY <1>1 DEF GrantsRevoked
<1> QED BY <1>4, <1>5

\* Cached results are deleted and tokens revoked or recorded as reused: fine
\* when that ends the family or leaves no active token.
LEMMA ResultsDeleted ==
    ASSUME RefreshInv, token' \in [Tokens -> TokenRow],
           \A n \in Tokens : token'[n] = token[n] \/ token'[n].status \in {"reused", "revoked"},
           grant' \in [Tokens -> {"none", "live", "revoked"}],
           \A n \in Tokens : grant'[n] = "live" => grant[n] = "live",
           \/ cache' = cache
           \/ cache' = [n \in Tokens |-> NoResult],
           UNCHANGED <<ComponentAware, clock, tip, keeper>>,
           session' \in {"active", "revoked", "replaced", "expired"},
           session' # session => ComponentAware /\ session' # "active",
           boundary' \in {"active", "revoked"},
           boundary' = boundary \/ \A n \in Tokens : token'[n].status # "active" /\ grant'[n] # "live",
           ComponentAware => \/ boundary' # "active" \/ session' # "active"
                             \/ \A n \in Tokens : token'[n].status \notin {"active"},
           ComponentAware /\ (\E n \in Tokens : token'[n].status = "reused") => session' # "active",
           tx' \in [Parties -> TxRow], CallsGood', Answered
    PROVE  RefreshInv'
<1>1. cache' \in [Tokens -> ResultRow] /\ \A n \in Tokens : cache'[n].until > 0 => cache'[n] = cache[n]
  <2>1. NoResult \in ResultRow /\ NoResult.until = 0
    BY RefreshBounds DEF NoResult, ResultRow
  <2> QED BY <2>1 DEF RefreshInv, TypeOK
<1>2. TypeOK'
  BY <1>1 DEF RefreshInv, TypeOK, Answered
<1>3. Chain'
  BY <1>1 DEF RefreshInv, FamilyInv, Chain
<1>4. RowOfComponent' /\ ReuseRecorded' /\ RevokedBoundaryIsEmpty'
  BY DEF RefreshInv, FamilyInv, RowOfComponent, ReuseRecorded, RevokedBoundaryIsEmpty
<1>5. ResultsStored'
  BY DEF ResultsStored, Open
<1> QED BY <1>2, <1>3, <1>4, <1>5 DEF RefreshInv, FamilyInv

LEMMA CommitRevokeInv ==
    ASSUME RefreshInv, NEW c \in Callers, CommitRevoke(c)
    PROVE  RefreshInv'
<1>1. tx[c].pc # "idle" /\ (ComponentAware => tx[c].mark)
  BY DEF CommitRevoke, RefreshInv, FamilyInv, CallsGood, GoodCall
<1> DEFINE k == tx[c].tok
           T == TokensRevoked(tx[c].seen)
           r == [T[k] EXCEPT !.status = "reused"]
<1>2. tx[c].seen \in SUBSET Tokens /\ tx[c].grants \in SUBSET Tokens /\ k \in Tokens
  BY <1>1, Held DEF TxRow
<1>3. /\ T \in [Tokens -> TokenRow]
      /\ \A n \in Tokens : T[n] = token[n] \/ T[n].status = "revoked"
  BY <1>2, RowsRevoked
<1>4. token' = IF tx[c].mark THEN [T EXCEPT ![k] = r] ELSE T
  BY DEF CommitRevoke
<1> HIDE DEF T
<1>5. r \in TokenRow /\ r.status = "reused"
  BY <1>2, <1>3, ExpiredRow
<1> HIDE DEF r, k
<1>6. /\ token' \in [Tokens -> TokenRow]
      /\ \A n \in Tokens : token'[n] = token[n] \/ token'[n].status \in {"reused", "revoked"}
  BY <1>2, <1>3, <1>4, <1>5
<1>7. /\ grant' \in [Tokens -> {"none", "live", "revoked"}]
      /\ \A n \in Tokens : grant'[n] = "live" => grant[n] = "live"
  BY <1>2, RowsRevoked DEF CommitRevoke
<1>8. /\ UNCHANGED <<ComponentAware, clock, tip, boundary, keeper>>
      /\ cache' = [n \in Tokens |-> NoResult]
      /\ session' = SessionRevoked
  BY DEF CommitRevoke
<1>9. /\ session' \in {"active", "revoked", "replaced", "expired"}
      /\ session' # session => ComponentAware /\ session' # "active"
      /\ ComponentAware => session' # "active"
      /\ boundary' \in {"active", "revoked"}
  BY <1>8 DEF SessionRevoked, RefreshInv, TypeOK
<1>10. tx' = [tx EXCEPT ![c] = Idle] /\ Answered
  <2>1. PICK said \in {Reused, Refused} : Done(c, said)
    BY DEF CommitRevoke
  <2> QED BY <2>1, Words, DoneStep
<1>11. c \in Parties /\ GoodCall(Idle) /\ tip \in Tokens /\ tip >= tip
  BY IdleRow, RefreshBounds DEF Parties, GoodCall, RefreshInv, TypeOK, Tokens
<1>12. tx' \in [Parties -> TxRow] /\ CallsGood'
  BY <1>8, <1>10, <1>11, IdleRow, TxRows
<1> QED BY <1>6, <1>7, <1>8, <1>9, <1>10, <1>12, ResultsDeleted

LEMMA CommitReauthenticationInv ==
    ASSUME RefreshInv, CommitReauthentication
    PROVE  RefreshInv'
<1>1. Admin \in Parties /\ Admin \notin Callers /\ tx[Admin] \in TxRow /\ tip \in Tokens /\ tip >= tip
  BY RefreshBounds DEF Parties, RefreshInv, TypeOK, Tokens
<1>2. tx[Admin].seen \in SUBSET Tokens /\ tx[Admin].grants \in SUBSET Tokens
  BY <1>1 DEF TxRow
<1>3. /\ token' \in [Tokens -> TokenRow]
      /\ \A n \in Tokens : token'[n] = token[n] \/ token'[n].status \in {"reused", "revoked"}
      /\ \A n \in Tokens : token'[n].status = "reused" => token[n].status = "reused"
      /\ grant' \in [Tokens -> {"none", "live", "revoked"}]
      /\ \A n \in Tokens : grant'[n] = "live" => grant[n] = "live"
  BY <1>2, RowsRevoked DEF CommitReauthentication
<1>4. /\ UNCHANGED <<ComponentAware, clock, tip, boundary, keeper, answer>>
      /\ cache' = [n \in Tokens |-> NoResult]
      /\ session' = SessionRevoked
      /\ tx' = [tx EXCEPT ![Admin] = Idle]
  BY DEF CommitReauthentication
<1>5. /\ session' \in {"active", "revoked", "replaced", "expired"}
      /\ session' # session => ComponentAware /\ session' # "active"
      /\ ComponentAware => session' # "active"
      /\ boundary' \in {"active", "revoked"}
      /\ Answered
  BY <1>4 DEF SessionRevoked, RefreshInv, TypeOK, Answered
<1>6. tx' \in [Parties -> TxRow] /\ CallsGood'
  BY <1>1, <1>4, IdleRow, TxRows
<1> QED BY <1>3, <1>4, <1>5, <1>6, ResultsDeleted

\* The transactions that have the family to themselves.
LEMMA ExclusiveInv ==
    ASSUME RefreshInv, RevokeBoundary \/ RequireRenewal \/ ReplaceSession
    PROVE  RefreshInv'
<1>1. /\ UNCHANGED <<ComponentAware, clock, tip, tx, keeper, answer>>
      /\ token' = TokensRevoked(Tokens)
      /\ cache' = cache \/ cache' = [n \in Tokens |-> NoResult]
      /\ grant' = grant \/ grant' = GrantsRevoked(Tokens)
      /\ boundary' # boundary => boundary' = "revoked" /\ grant' = GrantsRevoked(Tokens)
      /\ session' \in {session, SessionRevoked, "replaced"}
      /\ session' = "replaced" /\ session # "replaced" => ComponentAware
  BY DEF RevokeBoundary, RequireRenewal, ReplaceSession, SessionRevoked
<1>2. Tokens \in SUBSET Tokens
  OBVIOUS
<1>3. /\ token' \in [Tokens -> TokenRow]
      /\ \A n \in Tokens : token'[n] = token[n] \/ token'[n].status \in {"reused", "revoked"}
      /\ \A n \in Tokens : token'[n].status = "reused" => token[n].status = "reused"
      /\ \A n \in Tokens : token'[n].status \notin {"active"}
  BY <1>1, <1>2, RowsRevoked
<1>4. /\ grant' \in [Tokens -> {"none", "live", "revoked"}]
      /\ \A n \in Tokens : grant'[n] = "live" => grant[n] = "live"
      /\ boundary' = boundary \/ \A n \in Tokens : grant'[n] # "live"
  BY <1>1, <1>2, RowsRevoked DEF RefreshInv, TypeOK
<1>5. /\ session' \in {"active", "revoked", "replaced", "expired"}
      /\ session' # session => ComponentAware /\ session' # "active"
      /\ boundary' \in {"active", "revoked"}
      /\ Answered
  BY <1>1 DEF SessionRevoked, RefreshInv, TypeOK, Answered
<1>6. tx' \in [Parties -> TxRow] /\ CallsGood'
  BY <1>1 DEF RefreshInv, FamilyInv, TypeOK, CallsGood, GoodCall
<1>7. ComponentAware /\ (\E n \in Tokens : token'[n].status = "reused") => session' # "active"
  BY <1>1, <1>3, <1>5 DEF RefreshInv, FamilyInv, ReuseRecorded
<1>8. boundary' = boundary \/ \A n \in Tokens : token'[n].status # "active" /\ grant'[n] # "live"
  BY <1>3, <1>4
<1> QED BY <1>1, <1>3, <1>4, <1>5, <1>6, <1>7, <1>8, ResultsDeleted

LEMMA SweepResultsInv ==
    ASSUME RefreshInv, SweepResults
    PROVE  RefreshInv'
<1>1. NoResult \in ResultRow /\ NoResult.until = 0 /\ cache \in [Tokens -> ResultRow] /\ clock \in Nat
  BY RefreshBounds DEF NoResult, ResultRow, RefreshInv, TypeOK
<1>2. /\ cache' \in [Tokens -> ResultRow]
      /\ \A n \in Tokens : \/ cache'[n] = cache[n]
                           \/ cache'[n].until = 0 /\ cache[n].until <= clock
  BY <1>1 DEF SweepResults, Swept
<1>3. UNCHANGED <<ComponentAware, clock, tip, token, grant, session, boundary, tx, keeper, answer>>
  BY DEF SweepResults
<1>4. TypeOK' /\ CallsGood' /\ RowOfComponent' /\ ReuseRecorded' /\ RevokedBoundaryIsEmpty'
  BY <1>2, <1>3 DEF RefreshInv, FamilyInv, TypeOK, CallsGood, GoodCall, RowOfComponent, ReuseRecorded,
                    RevokedBoundaryIsEmpty
<1>5. Chain'
  BY <1>2, <1>3 DEF RefreshInv, FamilyInv, Chain
<1>6. ResultsStored'
  BY <1>2, <1>3 DEF RefreshInv, FamilyInv, ResultsStored, Stored, Open
<1> QED BY <1>4, <1>5, <1>6 DEF RefreshInv, FamilyInv

LEMMA KeeperInv ==
    ASSUME RefreshInv, FindEndedFamily \/ ExpireFamily
    PROVE  RefreshInv'
<1>1. /\ UNCHANGED <<ComponentAware, clock, tip, token, grant, cache, boundary, tx, answer>>
      /\ session' \in {session, "expired"} /\ keeper' \in {"idle", "found"}
      /\ ~ComponentAware => session' = session /\ keeper' = "idle"
  BY DEF FindEndedFamily, ExpireFamily, RefreshInv, FamilyInv, RowOfComponent
<1>2. TypeOK' /\ CallsGood' /\ Chain' /\ RowOfComponent' /\ RevokedBoundaryIsEmpty'
  BY <1>1 DEF RefreshInv, FamilyInv, TypeOK, CallsGood, GoodCall, Chain, RowOfComponent,
              RevokedBoundaryIsEmpty
<1>3. ReuseRecorded' /\ ResultsStored'
  BY <1>1 DEF RefreshInv, FamilyInv, ReuseRecorded, ResultsStored, Stored, Open
<1> QED BY <1>2, <1>3 DEF RefreshInv, FamilyInv

LEMMA TickInv ==
    ASSUME RefreshInv, Tick
    PROVE  RefreshInv'
<1>1. /\ clock \in Nat /\ clock' = clock + 1 /\ clock' \in 0..MaxTime
      /\ \A n \in Tokens : token[n].used + Grace \in Nat
      /\ \A c \in Callers : tx[c].at \in Nat
  BY RefreshBounds DEF Tick, RefreshInv, TypeOK, TokenRow, TxRow, Parties
<1>2. UNCHANGED <<ComponentAware, tip, token, grant, cache, session, boundary, tx, keeper, answer>>
  BY DEF Tick
<1>3. TypeOK' /\ Chain' /\ RowOfComponent' /\ ReuseRecorded' /\ RevokedBoundaryIsEmpty'
  BY <1>1, <1>2 DEF RefreshInv, FamilyInv, TypeOK, Chain, RowOfComponent, ReuseRecorded,
                    RevokedBoundaryIsEmpty
<1>4. CallsGood'
  BY <1>1, <1>2 DEF RefreshInv, FamilyInv, CallsGood, GoodCall
<1>5. ResultsStored'
  BY <1>1, <1>2 DEF RefreshInv, FamilyInv, ResultsStored, Stored, Open
<1> QED BY <1>3, <1>4, <1>5 DEF RefreshInv, FamilyInv

-----------------------------------------------------------------------------
(* A rotation. *)

LEMMA RotatedRow ==
    ASSUME NEW r \in TokenRow, NEW at \in 0..MaxTime
    PROVE  LET x == [r EXCEPT !.status = "rotated", !.used = at]
           IN x \in TokenRow /\ x.status = "rotated" /\ x.used = at
BY DEF TokenRow

\* The newest token is rotated, and its successor is active.
LEMMA RotationRows ==
    ASSUME RefreshInv, NEW c \in Callers, NEW heard \in BOOLEAN, Rotate(c, heard)
    PROVE  /\ tx[c].tok = tip /\ tip + 1 \in Tokens /\ tip' = tip + 1 /\ tip \in Tokens
           /\ token' \in [Tokens -> TokenRow]
           /\ token'[tip].status = "rotated" /\ token'[tip].used = tx[c].at
           /\ token'[tip + 1].status = "active"
           /\ \A n \in Tokens \ {tip, tip + 1} : token'[n] = token[n]
<1>1. tx[c].pc # "idle" /\ token[tx[c].tok].status = "active"
  BY DEF Rotate, Rotates
<1>2. tx[c].tok = tip /\ tx[c].at \in 0..MaxTime
  BY <1>1, Held DEF RefreshInv, FamilyInv, Chain
<1>3. tip \in Tokens /\ tip + 1 \in Tokens /\ tip # tip + 1
  BY RefreshBounds DEF Rotate, RefreshInv, TypeOK, Tokens
<1>4. token \in [Tokens -> TokenRow]
  BY DEF RefreshInv, TypeOK
<1> DEFINE r == [token[tip] EXCEPT !.status = "rotated", !.used = tx[c].at]
           s == [status |-> "active", issued |-> tx[c].at, used |-> 0]
<1>5. r \in TokenRow /\ r.status = "rotated" /\ r.used = tx[c].at
  BY <1>2, <1>3, <1>4, RotatedRow
<1>6. s \in TokenRow /\ s.status = "active"
  BY <1>2, RefreshBounds DEF TokenRow
<1>7. token' = [token EXCEPT ![tip] = r, ![tip + 1] = s]
  BY <1>2 DEF Rotate, TokensAfterRotation
<1> HIDE DEF r, s
<1>8. /\ token' \in [Tokens -> TokenRow]
      /\ token'[tip] = r /\ token'[tip + 1] = s
      /\ \A n \in Tokens \ {tip, tip + 1} : token'[n] = token[n]
  BY <1>3, <1>4, <1>5, <1>6, <1>7
<1> QED BY <1>2, <1>3, <1>5, <1>6, <1>8 DEF Rotate

LEMMA RotationCache ==
    ASSUME RefreshInv, NEW c \in Callers, NEW heard \in BOOLEAN, Rotate(c, heard)
    PROVE  /\ cache' \in [Tokens -> ResultRow]
           /\ ComponentAware => cache'[tip].until = tx[c].at + Grace /\ cache'[tip].result = tip + 1
           /\ \A n \in Tokens : ComponentAware /\ n # tip =>
                 \/ cache'[n] = cache[n]
                 \/ cache'[n].until = 0 /\ cache[n].until <= tx[c].at
           /\ ~ComponentAware => cache' = cache
<1>1. NoResult \in ResultRow /\ NoResult.until = 0 /\ cache \in [Tokens -> ResultRow]
  BY RefreshBounds DEF NoResult, ResultRow, RefreshInv, TypeOK
<1>2. tx[c].tok = tip /\ tip + 1 \in Tokens /\ tip \in Tokens
  BY RotationRows
<1>3. tx[c].at \in 0..MaxTime
  BY Held DEF Rotate
<1>4. ResultOf(c) \in ResultRow /\ ResultOf(c) = [until |-> tx[c].at + Grace, result |-> tip + 1]
  BY <1>2, <1>3, RefreshBounds DEF ResultOf, ResultRow
<1>5. cache' = CacheAfterRotation(c)
  BY DEF Rotate
<1>6. CASE ComponentAware
  <2>1. cache' = [n \in Tokens |-> IF n = tip THEN ResultOf(c)
                                   ELSE IF cache[n].until <= tx[c].at THEN NoResult ELSE cache[n]]
    BY <1>2, <1>5, <1>6 DEF CacheAfterRotation
  <2> QED BY <2>1, <1>1, <1>2, <1>4, <1>6
<1>7. CASE ~ComponentAware
  BY <1>1, <1>5, <1>7 DEF CacheAfterRotation
<1> QED BY <1>6, <1>7

LEMMA RotateInv ==
    ASSUME RefreshInv, NEW c \in Callers, NEW heard \in BOOLEAN, Rotate(c, heard)
    PROVE  RefreshInv'
<1>1. /\ tx[c].tok = tip /\ tip + 1 \in Tokens /\ tip' = tip + 1 /\ tip \in Tokens
      /\ token' \in [Tokens -> TokenRow]
      /\ token'[tip].status = "rotated" /\ token'[tip].used = tx[c].at
      /\ token'[tip + 1].status = "active"
      /\ \A n \in Tokens \ {tip, tip + 1} : token'[n] = token[n]
  BY RotationRows
<1>2. /\ UNCHANGED <<ComponentAware, clock, session, boundary, keeper>>
      /\ boundary = "active" /\ token[tx[c].tok].status = "active"
      /\ ComponentAware => session = "active"
      /\ tx[c].pc # "idle"
  BY DEF Rotate, StateError, Rotates
<1>3. tip \in Nat /\ tip >= 1 /\ tip + 1 \in Nat
  BY <1>1 DEF Tokens
<1>4. tx[c].at \in Nat /\ tx[c].at <= clock /\ clock \in Nat
  BY <1>2, Held, RefreshBounds DEF RefreshInv, TypeOK
<1>5. tx' = [tx EXCEPT ![c] = Idle] /\ Answered
  <2>1. RotationAnswer(heard) \in {Issued(n) : n \in Tokens} \cup {Silence, Refused, Reused}
    BY <1>1, Words DEF RotationAnswer
  <2> QED BY <2>1, DoneStep DEF Rotate
<1>6. c \in Parties /\ GoodCall(Idle) /\ tip' \in Tokens /\ tip' >= tip
  BY <1>1, <1>3, IdleRow DEF Parties, GoodCall
<1>7. tx' \in [Parties -> TxRow] /\ CallsGood'
  BY <1>2, <1>5, <1>6, IdleRow, TxRows
<1>8. grant' \in [Tokens -> {"none", "live", "revoked"}]
  BY <1>1 DEF Rotate, GrantsAfterRotation, RefreshInv, TypeOK
<1>9. TypeOK'
  BY <1>1, <1>2, <1>6, <1>7, <1>8, <1>5, RotationCache DEF RefreshInv, TypeOK, Answered
<1>10. Chain'
  <2> SUFFICES ASSUME NEW n \in Tokens
               PROVE  /\ token'[n].status = "active" => n = tip + 1
                      /\ token'[n].status = "rotated" => n < tip + 1
                      /\ cache'[n].until > 0 => cache'[n].result = n + 1
    BY <1>1 DEF Chain
  <2>1. n \in Nat /\ (token[n].status = "active" => n = tip) /\ (token[n].status = "rotated" => n < tip)
        /\ (cache[n].until > 0 => cache[n].result = n + 1)
    BY DEF RefreshInv, FamilyInv, Chain, Tokens
  <2>2. cache'[n].until > 0 => cache'[n].result = n + 1
    <3>1. CASE n = tip /\ ComponentAware
      BY <3>1, RotationCache
    <3>2. CASE n # tip \/ ~ComponentAware
      BY <3>2, <2>1, RotationCache
    <3> QED BY <3>1, <3>2
  <2>3. /\ token'[n].status = "active" => n = tip + 1
        /\ token'[n].status = "rotated" => n < tip + 1
    BY <1>1, <1>3, <2>1
  <2> QED BY <2>2, <2>3
<1>11. RowOfComponent' /\ RevokedBoundaryIsEmpty'
  BY <1>2 DEF RefreshInv, FamilyInv, RowOfComponent, RevokedBoundaryIsEmpty
<1>12. ReuseRecorded'
  BY <1>1, <1>2 DEF RefreshInv, FamilyInv, ReuseRecorded
<1>13. ResultsStored'
  <2> SUFFICES ASSUME ComponentAware, NEW n \in Tokens, token'[n].status = "rotated"
               PROVE  cache'[n].until = token'[n].used + Grace \/ token'[n].used + Grace <= clock
    BY <1>2 DEF ResultsStored, Stored
  <2>1. CASE n = tip
    <3>1. cache'[n].until = tx[c].at + Grace
      BY <2>1, RotationCache
    <3> QED BY <2>1, <3>1, <1>1
  <2>2. CASE n # tip
    <3>1. token'[n] = token[n]
      BY <1>1, <2>2
    <3>2. Stored(n) \/ token[n].used + Grace <= clock
      BY <1>1, <1>2, <3>1 DEF RefreshInv, FamilyInv, ResultsStored, Open
    <3>3. cache'[n] = cache[n] \/ cache[n].until <= tx[c].at
      BY <2>2, RotationCache
    <3>4. token[n].used + Grace \in Nat
      BY RefreshBounds DEF RefreshInv, TypeOK, TokenRow
    <3> QED BY <3>1, <3>2, <3>3, <3>4, <1>4 DEF Stored
  <2> QED BY <2>1, <2>2
<1> QED BY <1>7, <1>9, <1>10, <1>11, <1>12, <1>13 DEF RefreshInv, FamilyInv

-----------------------------------------------------------------------------
(* The invariant. *)

LEMMA StepInv ==
    ASSUME RefreshInv, NEW c \in Callers, Step(c)
    PROVE  RefreshInv'
BY LockBoundaryInv, LockTokenInv, RefuseInv, AnswerCachedInv, ExpireTokenInv, RotateInv,
   BeginRevokeInv, RevokeTokensInv, RevokeGrantsInv, CommitRevokeInv DEF Step

LEMMA NextInv == RefreshInv /\ [Next]_vars => RefreshInv'
<1> SUFFICES ASSUME RefreshInv, [Next]_vars PROVE RefreshInv'
  OBVIOUS
<1>1. CASE \E c \in Callers : Step(c) \/ \E n \in Tokens : Present(c, n)
  BY <1>1, StepInv, PresentInv
<1>2. CASE \E p \in Parties : Abort(p)
  BY <1>2, AbortInv
<1>3. CASE BeginReauthentication \/ ReauthenticateTokens \/ ReauthenticateSession
  BY <1>3, AdminInv
<1>4. CASE CommitReauthentication
  BY <1>4, CommitReauthenticationInv
<1>5. CASE RevokeBoundary \/ RequireRenewal \/ ReplaceSession
  BY <1>5, ExclusiveInv
<1>6. CASE ExpireTokens
  BY <1>6, ExpireTokensInv
<1>7. CASE SweepResults
  BY <1>7, SweepResultsInv
<1>8. CASE FindEndedFamily \/ ExpireFamily
  BY <1>8, KeeperInv
<1>9. CASE Tick
  BY <1>9, TickInv
<1>10. CASE UNCHANGED vars
  <2>1. UNCHANGED <<ComponentAware, clock, tip, token, grant, cache, session, boundary, tx, keeper, answer>>
    BY <1>10 DEF vars
  <2>2. TypeOK' /\ CallsGood'
    BY <2>1 DEF RefreshInv, FamilyInv, TypeOK, CallsGood, GoodCall
  <2>3. Chain' /\ RowOfComponent' /\ ReuseRecorded' /\ RevokedBoundaryIsEmpty'
    BY <2>1 DEF RefreshInv, FamilyInv, Chain, RowOfComponent, ReuseRecorded, RevokedBoundaryIsEmpty
  <2>4. ResultsStored'
    BY <2>1 DEF RefreshInv, FamilyInv, ResultsStored, Stored, Open
  <2> QED BY <2>2, <2>3, <2>4 DEF RefreshInv, FamilyInv
<1> QED BY <1>1, <1>2, <1>3, <1>4, <1>5, <1>6, <1>7, <1>8, <1>9, <1>10 DEF Next, Others, AdminStep

\* Refresh is safe for any number of concurrent calls: a reuse leaves nothing
\* of a component's family usable, a rotation's result stays for its grace,
\* and a revoked boundary is empty (refresh.go).
THEOREM RefreshSafe == Spec => []RefreshIsSafe
<1>1. Spec => []RefreshInv
  BY InitInv, NextInv, PTL DEF Spec
<1> QED BY <1>1, InvIsSafe, PTL

-----------------------------------------------------------------------------
(* The family of a component implements the chain. *)

Alive == boundary = "active" /\ session = "active"
Simulates == [Contract!Next]_(Contract!vars)

LEMMA Stutters ==
    ASSUME tip' = tip, answer' = answer, Alive' <=> Alive
    PROVE  Simulates
BY DEF Simulates, Contract!vars, Alive

LEMMA Ends ==
    ASSUME tip' = tip, answer' = answer, ~Alive'
    PROVE  Simulates
BY DEF Simulates, Contract!Next, Contract!End, Alive

LEMMA Refuses ==
    ASSUME NEW c \in Callers, tip' = tip, Alive' <=> Alive, answer' = [answer EXCEPT ![c] = Refused]
    PROVE  Simulates
BY DEF Simulates, Contract!Next, Contract!Refuse, Alive, Refused, Contract!Refused

LEMMA Forgets ==
    ASSUME NEW c \in Callers, tip' = tip, Alive' <=> Alive, answer' = [answer EXCEPT ![c] = Silence]
    PROVE  Simulates
BY DEF Simulates, Contract!Next, Contract!Forget, Alive, Silence, Contract!Silence

LEMMA StepSimulates ==
    ASSUME RefreshInv, ComponentAware, NEW c \in Callers, Step(c)
    PROVE  Simulates
<1>1. CASE LockBoundary(c)
  BY <1>1, Stutters, Refuses DEF LockBoundary, Done, Alive
<1>2. CASE LockToken(c) \/ BeginRevoke(c) \/ RevokeTokens(c) \/ RevokeGrants(c)
  BY <1>2, Stutters DEF LockToken, BeginRevoke, RevokeTokens, RevokeGrants, Alive
<1>3. CASE Refuse(c) \/ ExpireToken(c)
  BY <1>3, Refuses DEF Refuse, ExpireToken, Done, Alive
<1>4. CASE AnswerCached(c)
  <2> DEFINE n == tx[c].tok
  <2>1. tx[c].pc # "idle" /\ token[n].status = "rotated" /\ Alive /\ (Alive' <=> Alive) /\ tip' = tip
    BY <1>4 DEF AnswerCached, StateError, Alive
  <2>2. n \in 1..tip /\ n \in 1..MaxTokens /\ n < MaxTokens /\ n # tip
    BY <2>1, Held, RefreshBounds DEF RefreshInv, FamilyInv, Chain, Tokens
  <2>3. answer' = [answer EXCEPT ![c] = Issued(n + 1)]
    BY <1>4, CachedResult DEF AnswerCached, Done
  <2> HIDE DEF n
  <2>4. Contract!Exchange(c, n)
    BY <2>1, <2>2, <2>3 DEF Contract!Exchange, Alive, Issued, Contract!Issued
  <2> QED BY <2>2, <2>4 DEF Simulates, Contract!Next
<1>5. CASE \E heard \in BOOLEAN : Rotate(c, heard)
  <2>1. PICK heard \in BOOLEAN : Rotate(c, heard)
    BY <1>5
  <2>2. tip' = tip + 1 /\ tip + 1 \in Tokens /\ tip \in Tokens
    BY <2>1, RotationRows
  <2>3. tip \in 1..tip /\ tip \in 1..MaxTokens /\ tip < MaxTokens
    BY <2>2, RefreshBounds DEF Tokens
  <2>4. Alive /\ (Alive' <=> Alive)
    BY <2>1 DEF Rotate, StateError, Alive
  <2>5. CASE heard
    <3>1. answer' = [answer EXCEPT ![c] = Issued(tip + 1)]
      BY <2>1, <2>5 DEF Rotate, Done, RotationAnswer
    <3>2. Contract!Exchange(c, tip)
      BY <2>2, <2>3, <2>4, <3>1 DEF Contract!Exchange, Alive, Issued, Contract!Issued
    <3> QED BY <2>3, <3>2 DEF Simulates, Contract!Next
  <2>6. CASE ~heard
    <3>1. answer' = [answer EXCEPT ![c] = Silence]
      BY <2>1, <2>6 DEF Rotate, Done, RotationAnswer
    <3>2. Contract!ExchangeUnheard(c, tip)
      BY <2>2, <2>3, <2>4, <3>1 DEF Contract!ExchangeUnheard, Alive, Silence, Contract!Silence
    <3> QED BY <2>3, <3>2 DEF Simulates, Contract!Next
  <2> QED BY <2>5, <2>6
<1>6. CASE CommitRevoke(c)
  <2>1. tx[c].mark
    BY <1>6 DEF CommitRevoke, RefreshInv, FamilyInv, CallsGood, GoodCall
  <2>2. answer' = [answer EXCEPT ![c] = Reused] /\ tip' = tip /\ ~Alive'
    BY <1>6, <2>1 DEF CommitRevoke, Done, SessionRevoked, Alive
  <2>3. Contract!EndByReuse(c)
    BY <2>2 DEF Contract!EndByReuse, Alive, Reused, Contract!Reused
  <2> QED BY <2>3 DEF Simulates, Contract!Next
<1> QED BY <1>1, <1>2, <1>3, <1>4, <1>5, <1>6 DEF Step

LEMMA NextSimulates ==
    ASSUME RefreshInv, ComponentAware, [Next]_vars
    PROVE  Simulates
<1>1. CASE \E c \in Callers : Step(c)
  BY <1>1, StepSimulates
<1>2. CASE \E c \in Callers, n \in Tokens : Present(c, n)
  BY <1>2, Forgets DEF Present, Alive
<1>3. CASE \E p \in Parties : Abort(p)
  BY <1>3, Refuses, Stutters DEF Abort, Alive
<1>4. CASE BeginReauthentication \/ ReauthenticateTokens \/ ReauthenticateSession
  BY <1>4, Stutters DEF BeginReauthentication, ReauthenticateTokens, ReauthenticateSession, Alive
<1>5. CASE CommitReauthentication \/ RevokeBoundary \/ ReplaceSession
  BY <1>5, Ends DEF CommitReauthentication, RevokeBoundary, ReplaceSession, SessionRevoked, Alive
<1>6. CASE RequireRenewal \/ ExpireTokens \/ SweepResults \/ FindEndedFamily \/ Tick \/ UNCHANGED vars
  BY <1>6, Stutters DEF RequireRenewal, ExpireTokens, SweepResults, FindEndedFamily, Tick, vars, Alive
<1>7. CASE ExpireFamily
  BY <1>7, Ends, Stutters DEF ExpireFamily, Alive
<1> QED BY <1>1, <1>2, <1>3, <1>4, <1>5, <1>6, <1>7 DEF Next, Others, AdminStep

\* The transactions of refresh, with their locks, cached results and
\* revocations statement by statement, implement RefreshContract: whoever is
\* answered for token n is told token n + 1, there is no second chain, and
\* nobody is answered once the family has ended (ADR 0024).
THEOREM RefreshImplements == Spec => Implements
<1>1. Init => (ComponentAware => Contract!Init)
  BY DEF Init, Contract!Init, Silence, Contract!Silence
<1>2. RefreshInv /\ [Next]_vars => [ComponentAware => [Contract!Next]_(Contract!vars)]_vars
  BY NextSimulates DEF Simulates
<1>3. Spec => []RefreshInv
  BY InitInv, NextInv, PTL DEF Spec
<1> QED BY <1>1, <1>2, <1>3, PTL DEF Spec, Implements

-----------------------------------------------------------------------------
(* The App Attest key of a device and the counter of its assertions.        *)

CONSTANTS Verifications, Bindings, HolderOf, None, MaxCounter
VARIABLES challenge, made, key, receipts, expired, scope, verification, attempt, top, sessions

Attested == INSTANCE AttestationKeys WITH
    Calls <- Verifications, call <- verification, tx <- attempt

\* What stands for no value is no challenge.
AttestedBounds == None \notin Bindings /\ MaxCounter \in Nat

KeyRow == [status : {"absent", "active", "revoked"}, holder : Attested!Holders \cup {None},
           counter : 0..MaxCounter, hash : Bindings \cup {None}, linked : BOOLEAN, old : BOOLEAN]

VerifySteps == {"idle", "begun", "written", "committing", "resolving", "verified"}
CommitStates == {"none", "open", "in_flight", "committed", "aborted"}
VerificationRow == [step : VerifySteps, evidence : Attested!Evidence \cup {None}, binding : Bindings \cup {None}]
AttemptRow == [state : CommitStates, next : KeyRow, inserts : BOOLEAN, evidence : Attested!Evidence \cup {None}]

Unended(k) == attempt[k].state \in {"open", "in_flight"}

\* The device attests once and never signs two assertions with one counter.
DeviceGood ==
    /\ IsFiniteSet(made)
    /\ \A e \in made : /\ e.counter < Cardinality(made) /\ (e.kind = "attestation" <=> e.counter = 0)
                       /\ challenge[e.binding] # "new"
    /\ \A e, d \in made : e.counter = d.counter => e = d
    /\ (top # 0 \/ key.status # "absent") => made # {}

\* The stored hash is that of the assertion with the stored counter; a row
\* that was not written yet has nothing.
RowGood ==
    /\ key.counter = 0 <=> key.hash = None
    /\ key.counter # 0 => \E e \in made : e.counter = key.counter /\ e.binding = key.hash
    /\ key.status = "absent" => key = Attested!NoKey

\* A verification has evidence over its challenge, and the transaction of its
\* own that its step says.
VerificationGood(k) ==
    LET step == verification[k].step IN
    /\ step # "idle" => /\ verification[k].evidence \in made
                        /\ verification[k].evidence.binding = verification[k].binding
    /\ step = "begun" => ~Unended(k)
    /\ step = "written" <=> attempt[k].state = "open"
    /\ step \in {"committing", "resolving"} => attempt[k].state \in {"in_flight", "committed", "aborted"}
    /\ step \in {"written", "committing", "resolving"} => attempt[k].evidence = verification[k].evidence

\* A transaction that has not ended: nobody changes the row that it is going
\* to replace, nor disables the scope it inserts into.
AttemptGood(k) ==
    /\ attempt[k].state # "none" => attempt[k].evidence \in made
    /\ Unended(k) =>
          /\ attempt[k].evidence.counter = attempt[k].next.counter
          /\ attempt[k].inserts =>
                /\ key.status = "absent" /\ scope = "active" /\ attempt[k].evidence.counter = 0
                /\ attempt[k].next.status = "active" /\ attempt[k].next.hash = None
                /\ ~attempt[k].next.linked /\ ~attempt[k].next.old
          /\ ~attempt[k].inserts =>
                /\ key.status = "active" /\ attempt[k].evidence.counter > key.counter
                /\ attempt[k].next = [key EXCEPT !.counter = attempt[k].evidence.counter,
                                                 !.hash = attempt[k].evidence.binding]
    /\ attempt[k].state = "committed" => attempt[k].evidence.counter <= top

\* The key's lock.
OneUnended == \A k, q \in Verifications : Unended(k) /\ Unended(q) => k = q

\* A receipt is of evidence that counted; an old one is of evidence that no
\* verification can be about.
ReceiptsGood ==
    /\ \A r \in receipts : r[2] \in made /\ r[2].counter <= top
    /\ \A r \in expired : /\ challenge[r[2].binding] \in {"consumed", "expired"}
                          /\ \A k \in Verifications : verification[k].step # "idle" =>
                                verification[k].evidence # r[2]
    /\ \A k \in Verifications :
          verification[k].step \in {"committing", "resolving"} /\ attempt[k].state = "committed" =>
             Attested!Token(k) \in receipts

\* The device's attestation may still register a key.
Registrable ==
    \/ \E e \in made : e.kind = "attestation" /\ challenge[e.binding] = "open"
    \/ \E k \in Verifications : /\ verification[k].step = "begun"
                                /\ verification[k].evidence.kind = "attestation"
    \/ \E k \in Verifications : Unended(k) /\ attempt[k].inserts

\* A key is deleted only when its attestation is of no use any more.
DeletedForGood ==
    /\ key.old => ~Registrable
    /\ key.status = "absent" =>
          \/ ~Registrable
          \/ /\ top = 0
             /\ \A k \in Verifications : attempt[k].state = "committed" => attempt[k].evidence.kind # "attestation"

AttestedTypes ==
    /\ Attested!TypeOK /\ key \in KeyRow
    /\ verification \in [Verifications -> VerificationRow]
    /\ attempt \in [Verifications -> AttemptRow]

AttestedInv ==
    /\ AttestedTypes /\ DeviceGood /\ RowGood
    /\ \A k \in Verifications : VerificationGood(k) /\ AttemptGood(k)
    /\ OneUnended /\ ReceiptsGood /\ DeletedForGood
    /\ Attested!CounterKept /\ Attested!VerifiedIsDurable /\ Attested!DisabledHoldsNoPending
    /\ Attested!SessionsKeepKey

LEMMA AttestedCardinality == \A S : Attested!Cardinality(S) = Cardinality(S)
BY Zenon DEF Attested!Cardinality, Cardinality

LEMMA AttestedRows ==
    ASSUME AttestedBounds
    PROVE  /\ Attested!NoKey \in KeyRow /\ Attested!NoCall \in VerificationRow /\ Attested!NoTx \in AttemptRow
           /\ Attested!NoCall.step = "idle" /\ Attested!NoTx.state = "none"
<1>1. Attested!NoKey \in KeyRow
  BY DEF AttestedBounds, Attested!NoKey, KeyRow
<1>2. Attested!NoCall \in VerificationRow /\ Attested!NoCall.step = "idle"
  BY DEF Attested!NoCall, VerificationRow, VerifySteps
<1>3. Attested!NoTx \in AttemptRow /\ Attested!NoTx.state = "none"
  BY <1>1 DEF Attested!NoTx, AttemptRow, CommitStates
<1> QED BY <1>1, <1>2, <1>3

LEMMA AttestedInit ==
    ASSUME AttestedBounds, Attested!Init PROVE AttestedInv
<1>1. /\ AttestedTypes /\ made = {} /\ top = 0 /\ key = Attested!NoKey /\ receipts = {} /\ expired = {}
      /\ sessions = {} /\ scope = "active"
      /\ \A k \in Verifications : verification[k].step = "idle" /\ attempt[k].state = "none"
  <2>1. /\ made = {} /\ top = 0 /\ key = Attested!NoKey /\ receipts = {} /\ expired = {}
        /\ sessions = {} /\ scope = "active" /\ challenge = [b \in Bindings |-> "new"]
        /\ verification = [k \in Verifications |-> Attested!NoCall]
        /\ attempt = [k \in Verifications |-> Attested!NoTx]
    BY DEF Attested!Init
  <2>2. /\ verification \in [Verifications -> VerificationRow] /\ attempt \in [Verifications -> AttemptRow]
        /\ \A k \in Verifications : verification[k].step = "idle" /\ attempt[k].state = "none"
    BY <2>1, AttestedRows
  <2>3. key \in KeyRow /\ key.counter = 0 /\ key.hash = None
    BY <2>1, AttestedRows DEF Attested!NoKey
  <2>4. Attested!TypeOK
    BY <2>1, <2>2, <2>3 DEF Attested!TypeOK, AttestedBounds, KeyRow
  <2> QED BY <2>1, <2>2, <2>3, <2>4 DEF AttestedTypes
<1>2. DeviceGood
  BY <1>1, FS_EmptySet DEF DeviceGood, Attested!NoKey
<1>3. RowGood /\ DeletedForGood
  BY <1>1 DEF RowGood, DeletedForGood, Registrable, Attested!NoKey, Unended
<1>4. /\ \A k \in Verifications : VerificationGood(k) /\ AttemptGood(k)
      /\ OneUnended /\ ReceiptsGood
  BY <1>1 DEF VerificationGood, AttemptGood, Unended, OneUnended, ReceiptsGood
<1>5. /\ Attested!CounterKept /\ Attested!VerifiedIsDurable /\ Attested!DisabledHoldsNoPending
      /\ Attested!SessionsKeepKey
  BY <1>1 DEF Attested!CounterKept, Attested!VerifiedIsDurable, Attested!DisabledHoldsNoPending,
              Attested!SessionsKeepKey, Attested!NoKey
<1> QED BY <1>1, <1>2, <1>3, <1>4, <1>5 DEF AttestedInv

\* A verification deletes no receipt but its own.
OwnReceipts(k) ==
    /\ receipts' \subseteq receipts /\ expired' \subseteq expired /\ expired' \subseteq receipts'
    /\ \A r \in receipts \ receipts' : r[1] = k

\* Evidence that counted, and was overtaken at most by newer evidence.
Durable(e) ==
    e.counter <= top /\ (key.counter = e.counter => key.counter = 0 \/ key.hash = e.binding)

\* A step of one verification and of its transaction, short of the commit.
LEMMA VerificationStep ==
    ASSUME AttestedBounds, AttestedInv, NEW k \in Verifications,
           NEW row \in VerificationRow, NEW arow \in AttemptRow,
           verification' = [verification EXCEPT ![k] = row], attempt' = [attempt EXCEPT ![k] = arow],
           UNCHANGED <<challenge, made, key, scope, top, sessions>>,
           OwnReceipts(k),
           row.step # "idle" => \/ verification[k].step # "idle" /\ row.evidence = verification[k].evidence
                                \/ challenge[row.evidence.binding] = "open",
           VerificationGood(k)', AttemptGood(k)',
           Unended(k)' => Unended(k) \/ ~Attested!LockHeld,
           row.step = "begun" /\ row.evidence.kind = "attestation" => Registrable,
           Unended(k)' /\ arow.inserts => Registrable,
           arow.state = "committed" => attempt[k].state = "committed" /\ arow.evidence = attempt[k].evidence,
           row.step \in {"committing", "resolving"} /\ arow.state = "committed" =>
              verification[k].step \in {"committing", "resolving"} /\ receipts' = receipts,
           row.step = "verified" =>
              Durable(row.evidence) /\ row.evidence.binding = row.binding
    PROVE  AttestedInv'
<1>1. /\ verification' \in [Verifications -> VerificationRow] /\ attempt' \in [Verifications -> AttemptRow]
      /\ verification'[k] = row /\ attempt'[k] = arow
      /\ \A q \in Verifications \ {k} : verification'[q] = verification[q] /\ attempt'[q] = attempt[q]
  BY DEF AttestedInv, AttestedTypes
<1>2. AttestedTypes'
  <2>1. \A q \in Verifications : verification'[q].step \in VerifySteps /\ attempt'[q].state \in CommitStates
    BY <1>1 DEF VerificationRow, AttemptRow
  <2>2. Attested!TypeOK'
    BY <2>1 DEF OwnReceipts, AttestedInv, AttestedTypes, Attested!TypeOK, VerifySteps, CommitStates,
                Attested!Holders, Attested!Evidence
  <2> QED BY <1>1, <2>2 DEF AttestedInv, AttestedTypes, KeyRow, Attested!Holders
<1>3. DeviceGood' /\ RowGood'
  BY DEF AttestedInv, DeviceGood, RowGood, Attested!NoKey
<1>4. \A q \in Verifications \ {k} : VerificationGood(q)' /\ AttemptGood(q)' /\ (Unended(q)' <=> Unended(q))
  <2>1. ASSUME NEW q \in Verifications \ {k}
        PROVE  VerificationGood(q)' /\ AttemptGood(q)' /\ (Unended(q)' <=> Unended(q))
    <3>1. verification'[q] = verification[q] /\ attempt'[q] = attempt[q]
      BY <1>1
    <3>2. VerificationGood(q) /\ AttemptGood(q)
      BY DEF AttestedInv
    <3>3. Unended(q)' <=> Unended(q)
      BY <3>1 DEF Unended
    <3>4. VerificationGood(q)'
      BY <3>1, <3>2, <3>3 DEF VerificationGood
    <3>5. AttemptGood(q)'
      BY <3>1, <3>2, <3>3 DEF AttemptGood
    <3> QED BY <3>3, <3>4, <3>5
  <2> QED BY <2>1
<1>5. OneUnended'
  BY <1>4 DEF AttestedInv, OneUnended, Attested!LockHeld, Unended
<1>6. Registrable' => Registrable
  BY <1>1, <1>4 DEF Registrable
<1>7. DeletedForGood'
  BY <1>1, <1>6 DEF AttestedInv, DeletedForGood
<1>8. ReceiptsGood'
  <2>1. \A r \in receipts' : r[2] \in made' /\ r[2].counter <= top'
    BY DEF OwnReceipts, AttestedInv, ReceiptsGood
  <2>2. \A r \in expired' : /\ challenge'[r[2].binding] \in {"consumed", "expired"}
                            /\ \A q \in Verifications : verification'[q].step # "idle" =>
                                  verification'[q].evidence # r[2]
    BY <1>1 DEF OwnReceipts, AttestedInv, ReceiptsGood
  <2>3. ASSUME NEW q \in Verifications, verification'[q].step \in {"committing", "resolving"},
               attempt'[q].state = "committed"
        PROVE  Attested!Token(q)' \in receipts'
    <3>1. CASE q = k
      <4>1. <<k, attempt[k].evidence>> \in receipts
        BY <1>1, <2>3, <3>1 DEF AttestedInv, ReceiptsGood, Attested!Token
      <4> QED BY <1>1, <2>3, <3>1, <4>1 DEF Attested!Token
    <3>2. CASE q # k
      <4>1. <<q, attempt[q].evidence>> \in receipts
        BY <1>1, <2>3, <3>2 DEF AttestedInv, ReceiptsGood, Attested!Token
      <4>2. <<q, attempt[q].evidence>> \in receipts'
        BY <3>2, <4>1 DEF OwnReceipts
      <4> QED BY <1>1, <3>2, <4>2 DEF Attested!Token
    <3> QED BY <3>1, <3>2
  <2> QED BY <2>1, <2>2, <2>3 DEF ReceiptsGood
<1>9. /\ Attested!CounterKept' /\ Attested!DisabledHoldsNoPending' /\ Attested!SessionsKeepKey'
  BY DEF AttestedInv, Attested!CounterKept, Attested!DisabledHoldsNoPending, Attested!SessionsKeepKey
<1>10. Attested!VerifiedIsDurable'
  BY <1>1 DEF AttestedInv, Attested!VerifiedIsDurable, Attested!Signed, Durable
<1> QED BY <1>2, <1>3, <1>4, <1>5, <1>7, <1>8, <1>9, <1>10 DEF AttestedInv

\* What a verification in progress has.
LEMMA InProgress ==
    ASSUME AttestedBounds, AttestedInv, NEW k \in Verifications
    PROVE  /\ VerificationGood(k) /\ AttemptGood(k)
           /\ verification[k] \in VerificationRow /\ attempt[k] \in AttemptRow /\ key \in KeyRow
           /\ key.counter \in 0..MaxCounter /\ top \in 0..MaxCounter /\ MaxCounter \in Nat
           /\ verification[k].step # "idle" =>
                 /\ verification[k].evidence \in made /\ verification[k].evidence \in Attested!Evidence
                 /\ verification[k].binding \in Bindings
                 /\ verification[k].evidence.binding = verification[k].binding
           /\ expired \subseteq receipts
<1>1. /\ VerificationGood(k) /\ AttemptGood(k) /\ made \subseteq Attested!Evidence
      /\ verification[k] \in VerificationRow /\ attempt[k] \in AttemptRow /\ key \in KeyRow
      /\ top \in 0..MaxCounter /\ MaxCounter \in Nat /\ expired \subseteq receipts
  BY DEF AttestedInv, AttestedTypes, Attested!TypeOK, AttestedBounds
<1>2. key.counter \in 0..MaxCounter
  BY <1>1 DEF KeyRow
<1>3. verification[k].step # "idle" =>
         /\ verification[k].evidence \in made /\ verification[k].evidence \in Attested!Evidence
         /\ verification[k].evidence.binding = verification[k].binding
  BY <1>1 DEF VerificationGood
<1>4. verification[k].step # "idle" => verification[k].binding \in Bindings
  BY <1>3 DEF Attested!Evidence
<1> QED BY <1>1, <1>2, <1>3, <1>4

\* A call that ends, its transaction being what it was or rolled back.
LEMMA VerificationEnds ==
    ASSUME AttestedBounds, AttestedInv, NEW k \in Verifications,
           verification' = [verification EXCEPT ![k] = Attested!NoCall],
           \/ attempt' = attempt /\ attempt[k].state # "open"
           \/ attempt' = [attempt EXCEPT ![k].state = "aborted"] /\ attempt[k].state # "none",
           UNCHANGED <<challenge, made, key, receipts, expired, scope, top, sessions>>
    PROVE  AttestedInv'
<1>1. /\ Attested!NoCall \in VerificationRow /\ Attested!NoCall.step = "idle"
      /\ VerificationGood(k) /\ AttemptGood(k) /\ attempt[k] \in AttemptRow /\ expired \subseteq receipts
      /\ attempt \in [Verifications -> AttemptRow] /\ verification \in [Verifications -> VerificationRow]
  BY AttestedRows, InProgress DEF AttestedInv, AttestedTypes
<1>2. PICK arow \in AttemptRow :
         /\ attempt' = [attempt EXCEPT ![k] = arow]
         /\ \/ arow = attempt[k] /\ attempt[k].state # "open"
            \/ arow = [attempt[k] EXCEPT !.state = "aborted"] /\ attempt[k].state # "none"
  <2>1. [attempt[k] EXCEPT !.state = "aborted"] \in AttemptRow
    BY <1>1 DEF AttemptRow, CommitStates
  <2>2. CASE attempt' = attempt /\ attempt[k].state # "open"
    BY <1>1, <2>2
  <2>3. CASE attempt' = [attempt EXCEPT ![k].state = "aborted"] /\ attempt[k].state # "none"
    BY <1>1, <2>1, <2>3
  <2> QED BY <2>2, <2>3
<1>3. /\ arow.evidence = attempt[k].evidence /\ arow.inserts = attempt[k].inserts
      /\ arow.next = attempt[k].next
      /\ \/ arow.state = attempt[k].state /\ attempt[k].state # "open"
         \/ arow.state = "aborted" /\ attempt[k].state # "none"
      /\ attempt'[k] = arow /\ verification'[k].step = "idle"
  BY <1>1, <1>2 DEF AttemptRow
<1>4. VerificationGood(k)'
  BY <1>3 DEF VerificationGood
<1>5. AttemptGood(k)' /\ (Unended(k)' => Unended(k))
  <2>1. CASE arow.state = "aborted" /\ attempt[k].state # "none"
    BY <1>1, <1>3, <2>1 DEF AttemptGood, Unended
  <2>2. CASE arow.state = attempt[k].state
    BY <1>1, <1>3, <2>2 DEF AttemptGood, Unended
  <2> QED BY <1>3, <2>1, <2>2
<1>6. Unended(k)' /\ arow.inserts => Registrable
  BY <1>3, <1>5 DEF Registrable
<1>7. OwnReceipts(k)
  BY <1>1 DEF OwnReceipts
<1> QED BY <1>1, <1>2, <1>3, <1>4, <1>5, <1>6, <1>7, VerificationStep

LEMMA VerifySafe ==
    ASSUME AttestedBounds, AttestedInv, NEW k \in Verifications, NEW e \in made, NEW b \in Bindings,
           Attested!Verify(k, e, b)
    PROVE  AttestedInv'
<1> DEFINE row == [step |-> "begun", evidence |-> e, binding |-> b]
<1>1. /\ verification[k].step = "idle" /\ attempt[k].state # "in_flight" /\ challenge[b] = "open"
      /\ e.binding = b
      /\ verification' = [verification EXCEPT ![k] = row] /\ attempt' = [attempt EXCEPT ![k] = Attested!NoTx]
      /\ UNCHANGED <<challenge, made, key, receipts, expired, scope, top, sessions>>
  BY DEF Attested!Verify, Attested!Signed
<1>2. /\ e \in Attested!Evidence /\ expired \subseteq receipts
      /\ attempt \in [Verifications -> AttemptRow] /\ verification \in [Verifications -> VerificationRow]
  BY InProgress DEF AttestedInv, AttestedTypes, Attested!TypeOK
<1>3. row \in VerificationRow /\ row.step = "begun" /\ row.evidence = e /\ row.binding = b
  BY <1>2 DEF VerificationRow, VerifySteps
<1> HIDE DEF row
<1>4. Attested!NoTx \in AttemptRow /\ Attested!NoTx.state = "none"
  BY AttestedRows
<1>5. verification'[k] = row /\ attempt'[k] = Attested!NoTx
  BY <1>1, <1>2
<1>6. VerificationGood(k)' /\ AttemptGood(k)' /\ ~Unended(k)'
  BY <1>1, <1>3, <1>4, <1>5 DEF VerificationGood, AttemptGood, Unended
<1>7. row.evidence.kind = "attestation" => Registrable
  BY <1>1, <1>3 DEF Registrable
<1>8. OwnReceipts(k)
  BY <1>1, <1>2 DEF OwnReceipts
<1> QED BY <1>1, <1>2, <1>3, <1>4, <1>6, <1>7, <1>8, VerificationStep

\* VerifySteps of a call alone.
LEMMA StepOnly ==
    ASSUME AttestedBounds, AttestedInv, NEW k \in Verifications, NEW step \in VerifySteps,
           verification[k].step # "idle", step \notin {"idle", "begun"},
           verification' = [verification EXCEPT ![k].step = step], attempt' = attempt,
           UNCHANGED <<challenge, made, key, scope, top, sessions>>,
           OwnReceipts(k),
           VerificationGood(k)',
           step \in {"committing", "resolving"} /\ attempt[k].state = "committed" =>
              verification[k].step \in {"committing", "resolving"} /\ receipts' = receipts,
           step = "verified" => Durable(verification[k].evidence)
    PROVE  AttestedInv'
<1>1. /\ attempt \in [Verifications -> AttemptRow] /\ verification \in [Verifications -> VerificationRow]
      /\ AttemptGood(k) /\ attempt[k] \in AttemptRow
      /\ verification[k].evidence.binding = verification[k].binding
  BY InProgress DEF AttestedInv, AttestedTypes
<1>2. PICK row \in VerificationRow :
         /\ row.step = step /\ row.evidence = verification[k].evidence /\ row.binding = verification[k].binding
         /\ verification' = [verification EXCEPT ![k] = row] /\ verification'[k] = row
  <2>1. [verification[k] EXCEPT !.step = step] \in VerificationRow
    BY <1>1 DEF VerificationRow
  <2> QED BY <1>1, <2>1 DEF VerificationRow
<1>3. PICK arow \in AttemptRow : arow = attempt[k] /\ attempt' = [attempt EXCEPT ![k] = arow]
  BY <1>1
<1>4. AttemptGood(k)' /\ (Unended(k)' <=> Unended(k))
  BY <1>1 DEF AttemptGood, Unended
<1>5. Unended(k)' /\ arow.inserts => Registrable
  BY <1>3, <1>4 DEF Registrable
<1>7. row.step = "verified" => Durable(row.evidence) /\ row.evidence.binding = row.binding
  BY <1>1, <1>2
<1>8. /\ row.step # "idle" /\ row.step # "begun"
      /\ verification[k].step # "idle" /\ row.evidence = verification[k].evidence
  BY <1>2
<1>9. row.step \in {"committing", "resolving"} /\ arow.state = "committed" =>
         verification[k].step \in {"committing", "resolving"} /\ receipts' = receipts
  BY <1>2, <1>3
<1>10. arow.state = "committed" => attempt[k].state = "committed" /\ arow.evidence = attempt[k].evidence
  BY <1>3
<1>11. verification' = [verification EXCEPT ![k] = row] /\ attempt' = [attempt EXCEPT ![k] = arow]
  BY <1>2, <1>3
<1>12. UNCHANGED <<challenge, made, key, scope, top, sessions>> /\ OwnReceipts(k)
  OBVIOUS
<1>13. row.step # "idle" => \/ verification[k].step # "idle" /\ row.evidence = verification[k].evidence
                            \/ challenge[row.evidence.binding] = "open"
  BY <1>8
<1>14. VerificationGood(k)' /\ AttemptGood(k)' /\ (Unended(k)' => Unended(k) \/ ~Attested!LockHeld)
  BY <1>4
<1>15. row.step = "begun" /\ row.evidence.kind = "attestation" => Registrable
  BY <1>8
<1> QED BY <1>5, <1>7, <1>9, <1>10, <1>11, <1>12, <1>13, <1>14, <1>15, VerificationStep

\* Evidence and the counter: what was committed is not above top, and the hash
\* of the row is that of the evidence with its counter.
LEMMA CountsOnce ==
    ASSUME AttestedBounds, AttestedInv, NEW e \in made, key.counter = e.counter
    PROVE  key.counter = 0 \/ key.hash = e.binding
BY DEF AttestedInv, RowGood, DeviceGood

LEMMA EndingsSafe ==
    ASSUME AttestedBounds, AttestedInv, NEW k \in Verifications,
           \/ Attested!Cancel(k) \/ Attested!ResolveFails(k) \/ Attested!ExchangeFails(k)
    PROVE  AttestedInv'
<1>1. /\ VerificationGood(k) /\ attempt[k] \in AttemptRow
      /\ attempt \in [Verifications -> AttemptRow]
  BY InProgress DEF AttestedInv, AttestedTypes
<1>2. CASE Attested!Cancel(k)
  <2>1. /\ verification[k].step \in {"begun", "written"}
        /\ verification' = [verification EXCEPT ![k] = Attested!NoCall]
        /\ attempt' = [attempt EXCEPT ![k].state = IF @ = "open" THEN "aborted" ELSE @]
        /\ UNCHANGED <<challenge, made, key, receipts, expired, scope, top, sessions>>
    BY <1>2 DEF Attested!Cancel
  <2>2. CASE attempt[k].state = "open"
    <3>1. attempt' = [attempt EXCEPT ![k].state = "aborted"]
      BY <2>1, <2>2
    <3> QED BY <2>1, <2>2, <3>1, VerificationEnds
  <2>3. CASE attempt[k].state # "open"
    <3>1. attempt' = attempt
      BY <1>1, <2>1, <2>3 DEF AttemptRow
    <3> QED BY <2>1, <2>3, <3>1, VerificationEnds
  <2> QED BY <2>2, <2>3
<1>3. CASE Attested!ResolveFails(k) \/ Attested!ExchangeFails(k)
  <2>1. /\ verification[k].step \in {"resolving", "verified"}
        /\ verification' = [verification EXCEPT ![k] = Attested!NoCall] /\ attempt' = attempt
        /\ UNCHANGED <<challenge, made, key, receipts, expired, scope, top, sessions>>
    BY <1>3 DEF Attested!ResolveFails, Attested!ExchangeFails
  <2>2. attempt[k].state # "open"
    BY <1>1, <2>1 DEF VerificationGood
  <2> QED BY <2>1, <2>2, VerificationEnds
<1> QED BY <1>2, <1>3

LEMMA AnswersSafe ==
    ASSUME AttestedBounds, AttestedInv, NEW k \in Verifications,
           \/ Attested!Acknowledged(k) \/ Attested!AnswerLost(k) \/ Attested!Resolve(k)
    PROVE  AttestedInv'
<1>1. /\ VerificationGood(k) /\ AttemptGood(k) /\ verification[k] \in VerificationRow
      /\ verification \in [Verifications -> VerificationRow] /\ expired \subseteq receipts
      /\ key.counter \in 0..MaxCounter /\ top \in 0..MaxCounter /\ MaxCounter \in Nat
      /\ verification[k].step \in {"committing", "resolving"} => verification[k].evidence \in made
  BY InProgress DEF AttestedInv, AttestedTypes
<1>2. UNCHANGED <<challenge, made, key, scope, attempt, top, sessions>>
  BY DEF Attested!Acknowledged, Attested!AnswerLost, Attested!Resolve
<1>3. ASSUME verification[k].step \in {"committing", "resolving"},
             verification' = [verification EXCEPT ![k].step = "verified"], Attested!ReceiptDeleted(k),
             attempt[k].evidence.counter <= top, attempt[k].state # "open"
      PROVE  AttestedInv'
  <2> DEFINE e == verification[k].evidence
  <2>1. e \in made /\ attempt[k].evidence = e
    BY <1>1, <1>3 DEF VerificationGood
  <2>2. Durable(e)
    BY <1>3, <2>1, CountsOnce DEF Durable
  <2>3. OwnReceipts(k)
    BY <1>1, <1>3 DEF Attested!ReceiptDeleted, Attested!Token, OwnReceipts
  <2>4. VerificationGood(k)'
    BY <1>1, <1>2, <1>3 DEF VerificationGood, VerificationRow, Unended
  <2> QED BY <1>2, <1>3, <2>2, <2>3, <2>4, StepOnly DEF VerifySteps
<1>4. CASE Attested!Acknowledged(k)
  <2>1. /\ verification[k].step = "committing" /\ attempt[k].state = "committed"
        /\ verification' = [verification EXCEPT ![k].step = "verified"] /\ Attested!ReceiptDeleted(k)
    BY <1>4 DEF Attested!Acknowledged
  <2>2. attempt[k].evidence.counter <= top
    BY <1>1, <2>1 DEF AttemptGood
  <2> QED BY <1>3, <2>1, <2>2
<1>5. CASE Attested!AnswerLost(k)
  <2>1. /\ verification[k].step = "committing" /\ UNCHANGED <<receipts, expired>>
        /\ verification' = [verification EXCEPT ![k].step = "resolving"]
    BY <1>5 DEF Attested!AnswerLost
  <2>2. VerificationGood(k)'
    BY <1>1, <1>2, <2>1 DEF VerificationGood, VerificationRow, Unended
  <2>3. OwnReceipts(k)
    BY <1>1, <2>1 DEF OwnReceipts
  <2> QED BY <1>2, <2>1, <2>2, <2>3, StepOnly DEF VerifySteps
<1>6. CASE Attested!Resolve(k)
  <2>1. verification[k].step = "resolving" /\ attempt[k].state # "open"
    BY <1>1, <1>6 DEF Attested!Resolve, VerificationGood
  <2>2. CASE Attested!Token(k) \in receipts \ expired
    <3>1. verification' = [verification EXCEPT ![k].step = "verified"] /\ Attested!ReceiptDeleted(k)
      BY <1>6, <2>2 DEF Attested!Resolve
    <3>2. attempt[k].evidence.counter <= top
      BY <2>2 DEF AttestedInv, ReceiptsGood, Attested!Token
    <3> QED BY <1>3, <2>1, <3>1, <3>2
  <2>3. CASE ~(Attested!Token(k) \in receipts \ expired)
    <3>1. verification' = [verification EXCEPT ![k] = Attested!NoCall] /\ UNCHANGED <<receipts, expired>>
      BY <1>6, <2>3 DEF Attested!Resolve
    <3> QED BY <1>2, <2>1, <3>1, VerificationEnds
  <2> QED BY <2>2, <2>3
<1> QED BY <1>4, <1>5, <1>6

\* The fate of a transaction: its commit is sent, or it is rolled back.
LEMMA SendSafe ==
    ASSUME AttestedBounds, AttestedInv, NEW k \in Verifications,
           Attested!SendCommit(k) \/ Attested!DatabaseAborts(k)
    PROVE  AttestedInv'
<1>1. /\ VerificationGood(k) /\ AttemptGood(k) /\ verification[k] \in VerificationRow
      /\ attempt[k] \in AttemptRow /\ expired \subseteq receipts
      /\ verification \in [Verifications -> VerificationRow] /\ attempt \in [Verifications -> AttemptRow]
      /\ verification[k].step # "idle" =>
            verification[k].evidence \in made /\ verification[k].evidence.binding = verification[k].binding
  BY InProgress DEF AttestedInv, AttestedTypes
<1>2. UNCHANGED <<challenge, made, key, receipts, expired, scope, top, sessions>>
  BY DEF Attested!SendCommit, Attested!DatabaseAborts
<1>3. PICK row \in VerificationRow, arow \in AttemptRow :
         /\ verification' = [verification EXCEPT ![k] = row] /\ attempt' = [attempt EXCEPT ![k] = arow]
         /\ row.evidence = verification[k].evidence /\ row.binding = verification[k].binding
         /\ arow.evidence = attempt[k].evidence /\ arow.next = attempt[k].next
         /\ arow.inserts = attempt[k].inserts /\ attempt[k].state \in {"open", "in_flight"}
         /\ \/ row.step = "committing" /\ arow.state = "in_flight" /\ attempt[k].state = "open"
               /\ verification[k].step = "written"
            \/ row = verification[k] /\ arow.state = "aborted" /\ attempt[k].state = "in_flight"
  <2>1. CASE Attested!SendCommit(k)
    <3>1. /\ verification[k].step = "written" /\ attempt[k].state = "open"
          /\ verification' = [verification EXCEPT ![k].step = "committing"]
          /\ attempt' = [attempt EXCEPT ![k].state = "in_flight"]
      BY <1>1, <2>1 DEF Attested!SendCommit, VerificationGood
    <3> DEFINE row == [verification[k] EXCEPT !.step = "committing"]
               arow == [attempt[k] EXCEPT !.state = "in_flight"]
    <3>2. /\ row \in VerificationRow /\ row.step = "committing"
          /\ row.evidence = verification[k].evidence /\ row.binding = verification[k].binding
          /\ verification' = [verification EXCEPT ![k] = row]
      BY <1>1, <3>1 DEF VerificationRow, VerifySteps
    <3>3. /\ arow \in AttemptRow /\ arow.state = "in_flight" /\ arow.evidence = attempt[k].evidence
          /\ arow.next = attempt[k].next /\ arow.inserts = attempt[k].inserts
          /\ attempt' = [attempt EXCEPT ![k] = arow]
      BY <1>1, <3>1 DEF AttemptRow, CommitStates
    <3> HIDE DEF row, arow
    <3> QED BY <3>1, <3>2, <3>3
  <2>2. CASE Attested!DatabaseAborts(k)
    <3>1. /\ attempt[k].state = "in_flight" /\ verification' = verification
          /\ attempt' = [attempt EXCEPT ![k].state = "aborted"]
      BY <2>2 DEF Attested!DatabaseAborts
    <3> DEFINE arow == [attempt[k] EXCEPT !.state = "aborted"]
    <3>2. /\ arow \in AttemptRow /\ arow.state = "aborted" /\ arow.evidence = attempt[k].evidence
          /\ arow.next = attempt[k].next /\ arow.inserts = attempt[k].inserts
          /\ attempt' = [attempt EXCEPT ![k] = arow]
      BY <1>1, <3>1 DEF AttemptRow, CommitStates
    <3>3. verification' = [verification EXCEPT ![k] = verification[k]]
      BY <1>1, <3>1
    <3> HIDE DEF arow
    <3> QED BY <1>1, <3>1, <3>2, <3>3
  <2> QED BY <2>1, <2>2
<1>4. verification'[k] = row /\ attempt'[k] = arow
  BY <1>1, <1>3
<1>5. Unended(k) /\ (Unended(k)' => Unended(k) \/ ~Attested!LockHeld)
  BY <1>3 DEF Unended
<1>6. VerificationGood(k)'
  BY <1>1, <1>2, <1>3, <1>4 DEF VerificationGood, Unended
<1>7. AttemptGood(k)'
  BY <1>1, <1>2, <1>3, <1>4, <1>5 DEF AttemptGood, Unended
<1>8. Unended(k)' /\ arow.inserts => Registrable
  BY <1>3, <1>5 DEF Registrable
<1>9. row.step = "begun" /\ row.evidence.kind = "attestation" => Registrable
  BY <1>3 DEF Registrable
<1>10. row.step = "verified" => Durable(row.evidence) /\ row.evidence.binding = row.binding
  <2>1. ASSUME row.step = "verified" PROVE verification[k].step = "verified"
    BY <1>3, <2>1
  <2>2. ASSUME verification[k].step = "verified" PROVE Durable(verification[k].evidence)
    <3>1. verification[k].evidence.counter <= top
      BY <2>2 DEF AttestedInv, Attested!VerifiedIsDurable
    <3> QED BY <1>1, <2>2, <3>1, CountsOnce DEF Durable
  <2> QED BY <1>1, <1>3, <2>1, <2>2
<1>11. row.step # "idle" => \/ verification[k].step # "idle" /\ row.evidence = verification[k].evidence
                            \/ challenge[row.evidence.binding] = "open"
  BY <1>3
<1>12. OwnReceipts(k) /\ arow.state # "committed"
  BY <1>1, <1>2, <1>3 DEF OwnReceipts
<1>13. verification' = [verification EXCEPT ![k] = row] /\ attempt' = [attempt EXCEPT ![k] = arow]
  BY <1>3
<1> QED BY <1>2, <1>5, <1>6, <1>7, <1>8, <1>9, <1>10, <1>11, <1>12, <1>13, VerificationStep

LEMMA TransactSafe ==
    ASSUME AttestedBounds, AttestedInv, NEW k \in Verifications, Attested!Transact(k)
    PROVE  AttestedInv'
<1> DEFINE e == verification[k].evidence
           b == verification[k].binding
<1>1. /\ VerificationGood(k) /\ AttemptGood(k) /\ verification[k] \in VerificationRow
      /\ attempt[k] \in AttemptRow /\ expired \subseteq receipts
      /\ verification \in [Verifications -> VerificationRow] /\ attempt \in [Verifications -> AttemptRow]
      /\ key \in KeyRow /\ key.counter \in 0..MaxCounter /\ top \in 0..MaxCounter /\ MaxCounter \in Nat
  BY InProgress DEF AttestedInv, AttestedTypes
<1>2. /\ verification[k].step = "begun" /\ ~Attested!LockHeld
      /\ UNCHANGED <<challenge, made, key, receipts, expired, scope, top, sessions>>
  BY DEF Attested!Transact
<1>3. e \in made /\ e \in Attested!Evidence /\ b \in Bindings /\ e.binding = b /\ ~Unended(k)
  BY <1>1, <1>2, InProgress DEF VerificationGood
<1>4. /\ e.counter \in 0..MaxCounter /\ e.kind \in {"attestation", "assertion"}
      /\ e.kind = "attestation" <=> e.counter = 0
  BY <1>3 DEF Attested!Evidence, AttestedInv, DeviceGood
<1>5. /\ Attested!Decision(e, b) = "insert" => e.kind = "attestation" /\ key.status = "absent"
      /\ Attested!Decision(e, b) = "replay" => key.status = "active" /\ e.counter = key.counter
      /\ Attested!Decision(e, b) = "update" => key.status = "active" /\ e.counter > key.counter
  BY <1>4 DEF Attested!Decision, Attested!SameRegistration, Attested!SameAssertion, Attested!Advances
<1>6. CASE verification' = [verification EXCEPT ![k] = Attested!NoCall] /\ attempt' = attempt
  BY <1>2, <1>3, <1>6, VerificationEnds DEF Unended
<1>7. CASE /\ Attested!Decision(e, b) = "replay"
           /\ verification' = [verification EXCEPT ![k].step = "verified"] /\ attempt' = attempt
  <2>1. Durable(e)
    BY <1>1, <1>3, <1>5, <1>7, CountsOnce DEF Durable, AttestedInv, Attested!CounterKept
  <2>2. VerificationGood(k)'
    BY <1>1, <1>2, <1>3, <1>7 DEF VerificationGood, VerificationRow, Unended
  <2>3. OwnReceipts(k)
    BY <1>1, <1>2 DEF OwnReceipts
  <2> QED BY <1>2, <1>7, <2>1, <2>2, <2>3, StepOnly DEF VerifySteps
<1>8. ASSUME verification' = [verification EXCEPT ![k].step = "written"],
             NEW new \in KeyRow, NEW inserts \in BOOLEAN,
             attempt' = [attempt EXCEPT ![k] = [state |-> "open", inserts |-> inserts, evidence |-> e,
                                                next |-> new]],
             new.counter = e.counter,
             inserts => /\ key.status = "absent" /\ scope = "active" /\ e.counter = 0 /\ new.status = "active"
                        /\ new.hash = None /\ ~new.linked /\ ~new.old,
             ~inserts => /\ key.status = "active" /\ e.counter > key.counter
                         /\ new = [key EXCEPT !.counter = e.counter, !.hash = e.binding]
      PROVE  AttestedInv'
  <2>1. PICK row \in VerificationRow :
           /\ verification' = [verification EXCEPT ![k] = row] /\ verification'[k] = row
           /\ row.step = "written" /\ row.evidence = e /\ row.binding = b
    <3>1. [verification[k] EXCEPT !.step = "written"] \in VerificationRow
      BY <1>1 DEF VerificationRow, VerifySteps
    <3> QED BY <1>1, <1>8, <3>1 DEF VerificationRow
  <2>2. PICK arow \in AttemptRow :
           /\ attempt' = [attempt EXCEPT ![k] = arow] /\ attempt'[k] = arow
           /\ arow.state = "open" /\ arow.inserts = inserts /\ arow.evidence = e /\ arow.next = new
    <3>1. [state |-> "open", inserts |-> inserts, evidence |-> e, next |-> new] \in AttemptRow
      BY <1>3, <1>8 DEF AttemptRow, CommitStates
    <3> QED BY <1>1, <1>8, <3>1
  <2>3. VerificationGood(k)'
    BY <1>2, <1>3, <2>1, <2>2 DEF VerificationGood, Unended
  <2>4. AttemptGood(k)' /\ Unended(k)'
    BY <1>2, <1>3, <1>8, <2>2 DEF AttemptGood, Unended
  <2>5. arow.inserts => Registrable
    BY <1>2, <1>4, <1>8, <2>2 DEF Registrable
  <2>6. OwnReceipts(k)
    BY <1>1, <1>2 DEF OwnReceipts
  <2>7. verification' = [verification EXCEPT ![k] = row] /\ attempt' = [attempt EXCEPT ![k] = arow]
    BY <2>1, <2>2
  <2>8. /\ row.step # "begun" /\ row.step # "verified" /\ row.step \notin {"committing", "resolving"}
        /\ arow.state # "committed" /\ verification[k].step # "idle" /\ row.evidence = verification[k].evidence
    BY <1>2, <2>1, <2>2
  <2> QED BY <1>2, <2>3, <2>4, <2>5, <2>6, <2>7, <2>8, VerificationStep
<1>9. CASE /\ Attested!Decision(e, b) = "insert" /\ scope = "active"
           /\ verification' = [verification EXCEPT ![k].step = "written"]
           /\ attempt' = [attempt EXCEPT ![k] = [state |-> "open", inserts |-> TRUE, evidence |-> e,
                 next |-> [Attested!NoKey EXCEPT !.status = "active", !.holder = HolderOf[b]]]]
  <2> DEFINE new == [Attested!NoKey EXCEPT !.status = "active", !.holder = HolderOf[b]]
  <2>1. /\ new \in KeyRow /\ new.counter = 0 /\ new.status = "active" /\ new.hash = None
        /\ new.linked = FALSE /\ new.old = FALSE
    <3>1. HolderOf[b] \in Attested!Holders
      BY <1>3 DEF Attested!Holders
    <3>2. /\ Attested!NoKey \in KeyRow /\ Attested!NoKey.counter = 0 /\ Attested!NoKey.hash = None
          /\ Attested!NoKey.linked = FALSE /\ Attested!NoKey.old = FALSE
      BY AttestedRows DEF Attested!NoKey
    <3> QED BY <3>1, <3>2 DEF KeyRow
  <2> HIDE DEF new
  <2>2. attempt' = [attempt EXCEPT ![k] = [state |-> "open", inserts |-> TRUE, evidence |-> e, next |-> new]]
    BY <1>9 DEF new
  <2> QED BY <1>4, <1>5, <1>8, <1>9, <2>1, <2>2
<1>10. CASE /\ Attested!Decision(e, b) = "update"
            /\ verification' = [verification EXCEPT ![k].step = "written"]
            /\ attempt' = [attempt EXCEPT ![k] = [state |-> "open", inserts |-> FALSE, evidence |-> e,
                  next |-> [key EXCEPT !.counter = e.counter, !.hash = b]]]
  <2> DEFINE new == [key EXCEPT !.counter = e.counter, !.hash = b]
  <2>1. new \in KeyRow /\ new.counter = e.counter
    BY <1>1, <1>3, <1>4 DEF KeyRow
  <2>2. new = [key EXCEPT !.counter = e.counter, !.hash = e.binding]
    BY <1>3
  <2> HIDE DEF new
  <2>3. attempt' = [attempt EXCEPT ![k] = [state |-> "open", inserts |-> FALSE, evidence |-> e, next |-> new]]
    BY <1>10 DEF new
  <2> QED BY <1>5, <1>8, <1>10, <2>1, <2>2, <2>3
<1> QED BY <1>6, <1>7, <1>9, <1>10 DEF Attested!Transact, Attested!ScopeAllowsInsert

\* A step beside the transactions: it changes the row only while none is open.
LEMMA RowStep ==
    ASSUME AttestedInv, attempt' = attempt, top' = top, made \subseteq made',
           \A q \in Verifications : \/ verification'[q] = verification[q]
                                    \/ verification'[q].step = "idle" /\ verification[q].step # "written",
           \/ \A q \in Verifications : ~Unended(q)
           \/ key' = key /\ scope' \in {scope, "active"},
           key'.status # "absent" =>
              key.status # "absent" /\ key'.counter = key.counter /\ key'.hash = key.hash,
           AttestedTypes', DeviceGood', RowGood', ReceiptsGood', DeletedForGood',
           Attested!CounterKept', Attested!DisabledHoldsNoPending', Attested!SessionsKeepKey'
    PROVE  AttestedInv'
<1>1. ASSUME NEW q \in Verifications
      PROVE  VerificationGood(q)' /\ AttemptGood(q)' /\ (Unended(q)' <=> Unended(q))
  <2>1. VerificationGood(q) /\ AttemptGood(q) /\ attempt'[q] = attempt[q]
    BY DEF AttestedInv
  <2>2. Unended(q)' <=> Unended(q)
    BY DEF Unended
  <2>3. VerificationGood(q)'
    BY <2>1, <2>2 DEF VerificationGood
  <2>4. AttemptGood(q)'
    <3>1. CASE Unended(q)
      BY <2>1, <2>2, <3>1 DEF AttemptGood
    <3>2. CASE ~Unended(q)
      BY <2>1, <2>2, <3>2 DEF AttemptGood
    <3> QED BY <3>1, <3>2
  <2> QED BY <2>2, <2>3, <2>4
<1>2. OneUnended'
  BY <1>1 DEF AttestedInv, OneUnended
<1>3. Attested!VerifiedIsDurable'
  BY DEF AttestedInv, Attested!VerifiedIsDurable, Attested!Signed
<1> QED BY <1>1, <1>2, <1>3 DEF AttestedInv

LEMMA ChallengesSafe ==
    ASSUME AttestedBounds, AttestedInv, NEW b \in Bindings, Attested!OpenChallenge(b)
    PROVE  AttestedInv'
<1>1. /\ challenge[b] = "new" /\ challenge' = [challenge EXCEPT ![b] = "open"]
      /\ UNCHANGED <<made, key, receipts, expired, scope, verification, attempt, top, sessions>>
      /\ challenge \in [Bindings -> {"new", "open", "consumed", "expired"}] /\ made \subseteq Attested!Evidence
      /\ \A e \in made : challenge[e.binding] # "new"
      /\ \A r \in receipts : r[2] \in made
      /\ expired \subseteq receipts
  BY DEF Attested!OpenChallenge, AttestedInv, AttestedTypes, Attested!TypeOK, DeviceGood, ReceiptsGood
<1>2. \A e \in made : e.binding \in Bindings /\ challenge'[e.binding] = challenge[e.binding]
  BY <1>1 DEF Attested!Evidence
<1>3. AttestedTypes'
  BY <1>1 DEF AttestedInv, AttestedTypes, Attested!TypeOK, KeyRow, Attested!Holders
<1>4. DeviceGood' /\ RowGood'
  BY <1>1, <1>2 DEF AttestedInv, DeviceGood, RowGood
<1>5. ReceiptsGood'
  BY <1>1, <1>2 DEF AttestedInv, ReceiptsGood, Attested!Token
<1>6. Registrable' <=> Registrable
  BY <1>1, <1>2 DEF Registrable, Unended
<1>7. DeletedForGood'
  BY <1>1, <1>6 DEF AttestedInv, DeletedForGood
<1>8. Attested!CounterKept' /\ Attested!DisabledHoldsNoPending' /\ Attested!SessionsKeepKey'
  BY <1>1 DEF AttestedInv, Attested!CounterKept, Attested!DisabledHoldsNoPending, Attested!SessionsKeepKey
<1> QED BY <1>1, <1>3, <1>4, <1>5, <1>7, <1>8, RowStep

LEMMA DeviceSafe ==
    ASSUME AttestedBounds, AttestedInv, NEW b \in Bindings,
           Attested!AttestKey(b) \/ Attested!SignAssertion(b)
    PROVE  AttestedInv'
<1>1. /\ challenge[b] = "open" /\ IsFiniteSet(made) /\ made \subseteq Attested!Evidence
      /\ UNCHANGED <<challenge, key, receipts, expired, scope, verification, attempt, top, sessions>>
      /\ MaxCounter \in Nat
  BY DEF Attested!AttestKey, Attested!SignAssertion, AttestedInv, AttestedTypes, Attested!TypeOK, DeviceGood,
         AttestedBounds
<1>2. PICK e \in Attested!Evidence :
         /\ made' = made \cup {e} /\ e.counter = Cardinality(made) /\ e.binding = b
         /\ e.kind = "attestation" <=> made = {}
  <2>1. CASE Attested!AttestKey(b)
    <3>1. made = {} /\ made' = {[kind |-> "attestation", counter |-> 0, binding |-> b]}
      BY <2>1 DEF Attested!AttestKey
    <3> DEFINE e == [kind |-> "attestation", counter |-> 0, binding |-> b]
    <3>2. e \in Attested!Evidence /\ e.counter = 0 /\ e.binding = b /\ e.kind = "attestation"
      BY <1>1 DEF Attested!Evidence
    <3>3. Cardinality(made) = 0 /\ made' = made \cup {e}
      BY <3>1, FS_EmptySet
    <3> HIDE DEF e
    <3> QED BY <3>1, <3>2, <3>3
  <2>2. CASE Attested!SignAssertion(b)
    <3> DEFINE e == [kind |-> "assertion", counter |-> Cardinality(made), binding |-> b]
    <3>1. made # {} /\ Cardinality(made) <= MaxCounter /\ made' = made \cup {e}
      BY <2>2, AttestedCardinality DEF Attested!SignAssertion
    <3>2. Cardinality(made) \in 0..MaxCounter
      BY <1>1, <3>1, FS_CardinalityType
    <3>3. e \in Attested!Evidence /\ e.counter = Cardinality(made) /\ e.binding = b /\ e.kind = "assertion"
      BY <3>2 DEF Attested!Evidence
    <3> HIDE DEF e
    <3> QED BY <3>1, <3>3
  <2> QED BY <2>1, <2>2
<1>3. /\ e \notin made /\ Cardinality(made) \in Nat /\ IsFiniteSet(made')
      /\ Cardinality(made') = Cardinality(made) + 1 /\ (made = {} <=> Cardinality(made) = 0)
  <2>1. e \notin made
    BY <1>1, <1>2, FS_CardinalityType DEF AttestedInv, DeviceGood
  <2> QED BY <1>1, <1>2, <2>1, FS_AddElement, FS_CardinalityType, FS_EmptySet
<1>4. DeviceGood'
  <2>1. \A d \in made : /\ d.counter < Cardinality(made) /\ (d.kind = "attestation" <=> d.counter = 0)
                        /\ challenge[d.binding] # "new" /\ d.counter \in Nat
    BY <1>1 DEF AttestedInv, DeviceGood, Attested!Evidence
  <2>2. \A d \in made' : /\ d.counter < Cardinality(made') /\ (d.kind = "attestation" <=> d.counter = 0)
                         /\ challenge'[d.binding] # "new"
    BY <1>1, <1>2, <1>3, <2>1
  <2>3. \A d, f \in made' : d.counter = f.counter => d = f
    BY <1>2, <1>3, <2>1 DEF AttestedInv, DeviceGood
  <2> QED BY <1>2, <1>3, <2>2, <2>3 DEF DeviceGood
<1>5. AttestedTypes'
  BY <1>1, <1>2 DEF AttestedInv, AttestedTypes, Attested!TypeOK, KeyRow, Attested!Holders, Attested!Evidence
<1>6. RowGood' /\ ReceiptsGood'
  BY <1>1, <1>2 DEF AttestedInv, RowGood, ReceiptsGood, Attested!Token
<1>7. DeletedForGood'
  <2>1. CASE made = {}
    <3>1. /\ top = 0 /\ key.status = "absent" /\ key = Attested!NoKey
          /\ \A k \in Verifications : attempt[k].state = "none"
      BY <2>1 DEF AttestedInv, DeviceGood, RowGood, AttemptGood
    <3> QED BY <1>1, <3>1 DEF DeletedForGood, Attested!NoKey
  <2>2. CASE made # {}
    <3>1. Registrable' => Registrable
      BY <1>1, <1>2, <2>2 DEF Registrable, Unended
    <3> QED BY <1>1, <3>1 DEF AttestedInv, DeletedForGood
  <2> QED BY <2>1, <2>2
<1>8. Attested!CounterKept' /\ Attested!DisabledHoldsNoPending' /\ Attested!SessionsKeepKey'
  BY <1>1 DEF AttestedInv, Attested!CounterKept, Attested!DisabledHoldsNoPending, Attested!SessionsKeepKey
<1> QED BY <1>1, <1>2, <1>4, <1>5, <1>6, <1>7, <1>8, RowStep

LEMMA CommitRecorded ==
    ASSUME AttestedBounds, AttestedInv, NEW k \in Verifications, Attested!DatabaseCommits(k)
    PROVE  AttestedInv'
<1> DEFINE e == attempt[k].evidence
           new == attempt[k].next
<1>1. /\ attempt[k].state = "in_flight" /\ attempt' = [attempt EXCEPT ![k].state = "committed"]
      /\ key' = new /\ top' = (IF new.counter > top THEN new.counter ELSE top)
      /\ receipts' = receipts \cup {<<k, e>>}
      /\ UNCHANGED <<challenge, made, scope, expired, verification, sessions>>
  BY DEF Attested!DatabaseCommits, Attested!Token
<1>2. /\ VerificationGood(k) /\ AttemptGood(k) /\ Unended(k) /\ attempt[k] \in AttemptRow /\ key \in KeyRow
      /\ attempt \in [Verifications -> AttemptRow] /\ verification \in [Verifications -> VerificationRow]
      /\ key.counter \in 0..MaxCounter /\ top \in 0..MaxCounter /\ MaxCounter \in Nat
      /\ made \subseteq Attested!Evidence /\ expired \subseteq receipts
  BY <1>1, InProgress DEF AttestedInv, AttestedTypes, Unended, Attested!TypeOK
<1>3. /\ e \in made /\ e \in Attested!Evidence /\ e.counter \in 0..MaxCounter /\ e.binding \in Bindings
      /\ new.counter = e.counter /\ new \in KeyRow
  BY <1>1, <1>2 DEF AttemptGood, Attested!Evidence, AttemptRow
<1>4. /\ attempt' \in [Verifications -> AttemptRow]
      /\ attempt'[k].state = "committed" /\ attempt'[k].evidence = e
      /\ \A q \in Verifications \ {k} : attempt'[q] = attempt[q]
  BY <1>1, <1>2 DEF AttemptRow, CommitStates
<1>5. /\ key'.status = "active" /\ key'.counter = e.counter /\ top' = e.counter /\ top <= top'
      /\ e.counter = 0 <=> key'.hash = None
      /\ e.counter # 0 => key'.hash = e.binding
      /\ key'.old => key.old
      /\ scope = "disabled" => key'.linked
      /\ sessions # {} => key'.linked /\ key'.holder = key.holder
  <2>1. CASE attempt[k].inserts
    <3>1. /\ key.status = "absent" /\ scope = "active" /\ e.counter = 0 /\ new.status = "active"
          /\ new.hash = None /\ ~new.linked /\ ~new.old
      BY <1>2, <2>1 DEF AttemptGood
    <3>2. Registrable
      BY <1>2, <2>1 DEF Registrable
    <3>3. top = 0 /\ sessions = {}
      BY <3>1, <3>2 DEF AttestedInv, DeletedForGood, Attested!SessionsKeepKey
    <3> QED BY <1>1, <1>3, <3>1, <3>3
  <2>2. CASE ~attempt[k].inserts
    <3>1. /\ key.status = "active" /\ e.counter > key.counter
          /\ new = [key EXCEPT !.counter = e.counter, !.hash = e.binding]
      BY <1>2, <2>2 DEF AttemptGood
    <3>2. /\ new.status = "active" /\ new.hash = e.binding /\ new.old = key.old /\ new.linked = key.linked
          /\ new.holder = key.holder
      BY <1>2, <3>1 DEF KeyRow
    <3>3. key.counter = top /\ (scope = "disabled" => key.linked) /\ (sessions # {} => key.linked)
      BY <3>1 DEF AttestedInv, Attested!CounterKept, Attested!DisabledHoldsNoPending, Attested!SessionsKeepKey
    <3>4. e.binding # None
      BY <1>3 DEF AttestedBounds
    <3> HIDE DEF e, new
    <3>5. key'.old = key.old /\ key'.linked = key.linked /\ key'.holder = key.holder
      BY <1>1, <3>2
    <3>6. key'.status = "active" /\ key'.counter = e.counter /\ top' = e.counter /\ top <= top'
      BY <1>1, <1>2, <1>3, <3>1, <3>2, <3>3
    <3>7. e.counter # 0 /\ key'.hash = e.binding
      BY <1>1, <1>2, <1>3, <3>1, <3>2
    <3> QED BY <3>3, <3>4, <3>5, <3>6, <3>7
  <2> QED BY <2>1, <2>2
<1>6. key' \in KeyRow /\ top' \in 0..MaxCounter
  BY <1>1, <1>3, <1>5
<1> HIDE DEF e, new
<1>7. AttestedTypes'
  <2>1. \A q \in Verifications : verification'[q].step \in VerifySteps /\ attempt'[q].state \in CommitStates
    BY <1>1, <1>2, <1>4 DEF VerificationRow, AttemptRow
  <2>2. receipts' \subseteq Verifications \X Attested!Evidence
    BY <1>1, <1>3 DEF AttestedInv, AttestedTypes, Attested!TypeOK
  <2>3. (key'.counter = 0) = (key'.hash = None)
    BY <1>5
  <2>4. Attested!TypeOK'
    BY <1>1, <1>2, <1>6, <2>1, <2>2, <2>3
       DEF AttestedInv, AttestedTypes, Attested!TypeOK, KeyRow, VerifySteps, CommitStates, Attested!Holders,
           Attested!Evidence
  <2> QED BY <1>1, <1>2, <1>4, <1>6, <2>4 DEF AttestedTypes, KeyRow, Attested!Holders, VerificationRow, AttemptRow
<1>8. DeviceGood' /\ RowGood'
  <2>1. DeviceGood'
    BY <1>1, <1>3 DEF AttestedInv, DeviceGood
  <2>2. RowGood'
    BY <1>1, <1>3, <1>5 DEF RowGood
  <2> QED BY <2>1, <2>2
<1>9. ASSUME NEW q \in Verifications PROVE VerificationGood(q)' /\ AttemptGood(q)' /\ ~Unended(q)'
  <2>1. CASE q = k
    <3>1. ~Unended(k)'
      BY <1>4 DEF Unended
    <3>2. VerificationGood(k)'
      BY <1>1, <1>2, <1>4, <3>1 DEF VerificationGood, e
    <3>3. AttemptGood(k)'
      BY <1>1, <1>3, <1>4, <1>5, <3>1 DEF AttemptGood
    <3> QED BY <2>1, <3>1, <3>2, <3>3
  <2>2. CASE q # k
    <3>1. /\ VerificationGood(q) /\ AttemptGood(q) /\ ~Unended(q) /\ attempt'[q] = attempt[q]
          /\ verification'[q] = verification[q]
      BY <1>1, <1>2, <1>4, <2>2 DEF AttestedInv, OneUnended
    <3>2. ~Unended(q)'
      BY <3>1 DEF Unended
    <3>3. VerificationGood(q)'
      BY <1>1, <3>1, <3>2 DEF VerificationGood
    <3>4. attempt[q].state = "committed" => attempt[q].evidence.counter <= top'
      <4>1. ASSUME attempt[q].state = "committed" PROVE attempt[q].evidence.counter <= top'
        <5>1. attempt[q].evidence.counter <= top /\ attempt[q].evidence \in made
          BY <3>1, <4>1 DEF AttemptGood
        <5>2. attempt[q].evidence.counter \in 0..MaxCounter
          BY <1>2, <5>1 DEF Attested!Evidence
        <5> QED BY <1>2, <1>5, <1>6, <5>1, <5>2
      <4> QED BY <4>1
    <3>5. AttemptGood(q)'
      <4>1. made' = made /\ (attempt[q].state # "none" => attempt[q].evidence \in made)
        BY <1>1, <3>1 DEF AttemptGood
      <4>2. /\ attempt'[q].state # "none" => attempt'[q].evidence \in made'
            /\ attempt'[q].state = "committed" => attempt'[q].evidence.counter <= top'
        BY <3>1, <3>4, <4>1
      <4> QED BY <3>2, <4>2 DEF AttemptGood
    <3> QED BY <3>2, <3>3, <3>5
  <2> QED BY <2>1, <2>2
<1>10. OneUnended'
  BY <1>9 DEF OneUnended
<1>11. ReceiptsGood'
  <2>1. ASSUME NEW r \in receipts' PROVE r[2] \in made' /\ r[2].counter <= top'
    <3>1. CASE r = <<k, e>>
      BY <1>1, <1>3, <1>5, <3>1
    <3>2. CASE r \in receipts
      <4>1. r[2] \in made /\ r[2].counter <= top
        BY <3>2 DEF AttestedInv, ReceiptsGood
      <4>2. r[2].counter \in 0..MaxCounter
        BY <1>2, <4>1 DEF Attested!Evidence
      <4> QED BY <1>1, <1>2, <1>5, <1>6, <4>1, <4>2
    <3> QED BY <1>1, <3>1, <3>2
  <2>2. \A q \in Verifications :
           verification'[q].step \in {"committing", "resolving"} /\ attempt'[q].state = "committed" =>
              Attested!Token(q)' \in receipts'
    <3>1. ASSUME NEW q \in Verifications, q # k, verification'[q].step \in {"committing", "resolving"},
                 attempt'[q].state = "committed"
          PROVE  Attested!Token(q)' \in receipts'
      BY <1>1, <1>4, <3>1 DEF AttestedInv, ReceiptsGood, Attested!Token
    <3>2. Attested!Token(k)' \in receipts'
      BY <1>1, <1>4 DEF Attested!Token
    <3> QED BY <3>1, <3>2
  <2> QED BY <1>1, <2>1, <2>2 DEF AttestedInv, ReceiptsGood
<1>12. DeletedForGood'
  <2>1. Registrable' => Registrable
    BY <1>1, <1>9 DEF Registrable
  <2> QED BY <1>5, <2>1 DEF AttestedInv, DeletedForGood
<1>13. Attested!CounterKept' /\ Attested!DisabledHoldsNoPending' /\ Attested!SessionsKeepKey'
  BY <1>1, <1>5 DEF AttestedInv, Attested!CounterKept, Attested!DisabledHoldsNoPending, Attested!SessionsKeepKey
<1>14. Attested!VerifiedIsDurable'
  <2>1. ASSUME NEW q \in Verifications, verification[q].step = "verified"
        PROVE  /\ verification[q].evidence.binding = verification[q].binding
               /\ verification[q].evidence.counter <= top'
               /\ key'.counter = verification[q].evidence.counter =>
                     key'.counter = 0 \/ key'.hash = verification[q].evidence.binding
    <3> DEFINE d == verification[q].evidence
    <3>1. d \in made /\ d.counter <= top /\ d.binding = verification[q].binding
      BY <2>1 DEF AttestedInv, VerificationGood, Attested!VerifiedIsDurable
    <3>2. d.counter \in 0..MaxCounter
      BY <1>2, <3>1 DEF Attested!Evidence
    <3>3. d.counter <= top'
      BY <1>2, <1>5, <1>6, <3>1, <3>2
    <3>4. d.counter = e.counter => d = e
      BY <1>3, <3>1 DEF AttestedInv, DeviceGood
    <3> QED BY <1>5, <3>1, <3>3, <3>4
  <2> QED BY <1>1, <2>1 DEF Attested!VerifiedIsDurable, Attested!Signed
<1> QED BY <1>7, <1>8, <1>9, <1>10, <1>11, <1>12, <1>13, <1>14 DEF AttestedInv

\* The session is opened with the key, or the call ends.
LEMMA ExchangeSafe ==
    ASSUME AttestedBounds, AttestedInv, NEW k \in Verifications, Attested!ExchangeSession(k)
    PROVE  AttestedInv'
<1> DEFINE b == verification[k].binding
<1>1. /\ verification[k].step = "verified" /\ ~Attested!RowLocked
      /\ verification' = [verification EXCEPT ![k] = Attested!NoCall]
      /\ UNCHANGED <<made, receipts, expired, scope, attempt, top>>
  BY DEF Attested!ExchangeSession
<1>2. /\ verification \in [Verifications -> VerificationRow] /\ key \in KeyRow /\ b \in Bindings
      /\ VerificationGood(k) /\ made \subseteq Attested!Evidence
      /\ challenge \in [Bindings -> {"new", "open", "consumed", "expired"}]
      /\ Attested!NoCall \in VerificationRow /\ Attested!NoCall.step = "idle"
  BY <1>1, InProgress, AttestedRows DEF AttestedInv, AttestedTypes, Attested!TypeOK
<1>3. CASE UNCHANGED <<challenge, key, sessions>>
  <2>1. attempt[k].state # "open"
    BY <1>1, <1>2 DEF VerificationGood
  <2> QED BY <1>1, <1>3, <2>1, VerificationEnds
<1>4. CASE /\ challenge[b] = "open" /\ scope = "active" /\ Attested!Linkable(b)
           /\ challenge' = [challenge EXCEPT ![b] = "consumed"]
           /\ key' = [key EXCEPT !.linked = TRUE] /\ sessions' = sessions \cup {b}
  <2>1. /\ key'.status = "active" /\ key.status = "active" /\ key'.counter = key.counter /\ key'.hash = key.hash
        /\ key'.old = key.old /\ key'.holder = key.holder /\ key'.linked = TRUE /\ key' \in KeyRow
        /\ key.holder = HolderOf[b]
    BY <1>2, <1>4 DEF KeyRow, Attested!Linkable
  <2>2. \A q \in Verifications : ~Unended(q)
    BY <1>1, <2>1 DEF AttestedInv, AttemptGood, Unended, Attested!RowLocked
  <2>3. \A q \in Verifications : \/ verification'[q] = verification[q]
                                 \/ verification'[q].step = "idle" /\ verification[q].step # "written"
    BY <1>1, <1>2
  <2>4. /\ challenge' \in [Bindings -> {"new", "open", "consumed", "expired"}]
        /\ \A c \in Bindings : challenge'[c] = challenge[c] \/ challenge'[c] = "consumed"
        /\ \A e \in made : e.binding \in Bindings
    BY <1>2, <1>4 DEF Attested!Evidence
  <2>5. verification' \in [Verifications -> VerificationRow]
    BY <1>1, <1>2
  <2>6. AttestedTypes'
    <3>1. \A q \in Verifications : verification'[q].step \in VerifySteps
      BY <2>5 DEF VerificationRow
    <3>2. (key'.counter = 0) = (key'.hash = None)
      BY <2>1 DEF AttestedInv, RowGood
    <3>3. Attested!TypeOK'
      BY <1>1, <1>2, <1>4, <2>1, <2>4, <3>1, <3>2
         DEF AttestedInv, AttestedTypes, Attested!TypeOK, KeyRow, VerifySteps, Attested!Holders, Attested!Evidence
    <3> QED BY <1>1, <2>1, <2>5, <3>3
         DEF AttestedInv, AttestedTypes, KeyRow, Attested!Holders, VerificationRow, AttemptRow, Attested!Evidence
  <2>7. DeviceGood'
    BY <1>1, <2>1, <2>4 DEF AttestedInv, DeviceGood
  <2>8. RowGood'
    BY <1>1, <2>1 DEF AttestedInv, RowGood
  <2>9. ReceiptsGood'
    <3>1. \A r \in expired : r[2] \in made
      BY DEF AttestedInv, ReceiptsGood, AttestedTypes, Attested!TypeOK
    <3>2. \A q \in Verifications : verification'[q].step # "idle" =>
             verification'[q] = verification[q]
      BY <2>3
    <3> QED BY <1>1, <2>4, <3>1, <3>2 DEF AttestedInv, ReceiptsGood, Attested!Token
  <2>10. DeletedForGood'
    <3>1. Registrable' => Registrable
      BY <1>1, <2>3, <2>4 DEF Registrable, Unended
    <3> QED BY <2>1, <3>1 DEF AttestedInv, DeletedForGood
  <2>11. Attested!CounterKept' /\ Attested!DisabledHoldsNoPending'
    BY <1>1, <2>1 DEF AttestedInv, Attested!CounterKept, Attested!DisabledHoldsNoPending
  <2>12. Attested!SessionsKeepKey'
    BY <1>4, <2>1 DEF AttestedInv, Attested!SessionsKeepKey
  <2> QED BY <1>1, <2>1, <2>2, <2>3, <2>6, <2>7, <2>8, <2>9, <2>10, <2>11, <2>12, RowStep
<1> QED BY <1>3, <1>4 DEF Attested!ExchangeSession

\* Administration and maintenance: the challenges that are closed, and what
\* becomes of the row, while no transaction of the key is open.
LEMMA ScopeSafe ==
    ASSUME AttestedBounds, AttestedInv, Attested!DisableScope \/ Attested!EnableScope
    PROVE  AttestedInv'
<1>1. /\ UNCHANGED <<made, receipts, expired, verification, attempt, top, sessions>>
      /\ key \in KeyRow /\ made \subseteq Attested!Evidence
      /\ challenge \in [Bindings -> {"new", "open", "consumed", "expired"}]
      /\ \A e \in made : e.binding \in Bindings
  BY DEF Attested!DisableScope, Attested!EnableScope, AttestedInv, AttestedTypes, Attested!TypeOK,
         Attested!Evidence
<1>2. /\ challenge' \in [Bindings -> {"new", "open", "consumed", "expired"}]
      /\ \A c \in Bindings : challenge'[c] = challenge[c] \/ challenge'[c] = "consumed"
      /\ scope' \in {"active", "disabled"}
      /\ \/ key' = key /\ (scope' = "disabled" => ~(key.status = "active" /\ ~key.linked))
         \/ /\ key' = [key EXCEPT !.status = "revoked"] /\ key.status = "active" /\ ~key.linked
      /\ \/ \A q \in Verifications : ~Unended(q)
         \/ key' = key /\ scope' = "active"
  <2>1. CASE Attested!DisableScope
    BY <1>1, <2>1 DEF Attested!DisableScope, Attested!ScopeShared, Attested!RowLocked, Unended
  <2>2. CASE Attested!EnableScope
    BY <1>1, <2>2 DEF Attested!EnableScope
  <2> QED BY <2>1, <2>2
<1>3. /\ key' \in KeyRow /\ key'.counter = key.counter /\ key'.hash = key.hash /\ key'.linked = key.linked
      /\ key'.old = key.old /\ key'.holder = key.holder
      /\ \/ key'.status = key.status
         \/ key'.status = "revoked" /\ key.status = "active" /\ ~key.linked
      /\ scope' = "disabled" => ~(key'.status = "active" /\ ~key'.linked)
      /\ key'.status = "absent" => key' = key
  BY <1>1, <1>2 DEF KeyRow
<1>4. AttestedTypes'
  <2>1. (key'.counter = 0) = (key'.hash = None)
    BY <1>3 DEF AttestedInv, RowGood
  <2>2. Attested!TypeOK'
    BY <1>1, <1>2, <1>3, <2>1
       DEF AttestedInv, AttestedTypes, Attested!TypeOK, KeyRow, Attested!Holders, Attested!Evidence
  <2> QED BY <1>1, <1>3, <2>2
       DEF AttestedInv, AttestedTypes, KeyRow, Attested!Holders, VerificationRow, AttemptRow, Attested!Evidence
<1>5. DeviceGood'
  BY <1>1, <1>2, <1>3 DEF AttestedInv, DeviceGood
<1>6. RowGood'
  BY <1>1, <1>3 DEF AttestedInv, RowGood, Attested!NoKey
<1>7. ReceiptsGood'
  <2>1. \A r \in expired : r[2] \in made
    BY DEF AttestedInv, ReceiptsGood, AttestedTypes, Attested!TypeOK
  <2> QED BY <1>1, <1>2, <2>1 DEF AttestedInv, ReceiptsGood, Attested!Token
<1>8. DeletedForGood'
  <2>1. Registrable' => Registrable
    BY <1>1, <1>2 DEF Registrable, Unended
  <2> QED BY <1>1, <1>3, <2>1 DEF AttestedInv, DeletedForGood
<1>9. Attested!CounterKept' /\ Attested!DisabledHoldsNoPending' /\ Attested!SessionsKeepKey'
  BY <1>1, <1>3 DEF AttestedInv, Attested!CounterKept, Attested!DisabledHoldsNoPending, Attested!SessionsKeepKey
<1> QED BY <1>1, <1>2, <1>3, <1>4, <1>5, <1>6, <1>7, <1>8, <1>9, RowStep

LEMMA DaySafe ==
    ASSUME AttestedBounds, AttestedInv, Attested!DayPasses
    PROVE  AttestedInv'
<1>1. /\ UNCHANGED <<made, receipts, scope, verification, attempt, top, sessions>> /\ expired' = receipts
      /\ key' = [key EXCEPT !.old = key.status # "absent"] /\ key \in KeyRow
      /\ \A k \in Verifications : verification[k].step = "idle" /\ ~Unended(k)
      /\ challenge' = [b \in Bindings |-> IF challenge[b] = "open" THEN "expired" ELSE challenge[b]]
      /\ challenge \in [Bindings -> {"new", "open", "consumed", "expired"}]
      /\ \A e \in made : e.binding \in Bindings /\ challenge[e.binding] # "new"
  BY DEF Attested!DayPasses, AttestedInv, AttestedTypes, Attested!TypeOK, Attested!Evidence, DeviceGood, Unended
<1>2. /\ challenge' \in [Bindings -> {"new", "open", "consumed", "expired"}]
      /\ \A e \in made : challenge'[e.binding] \in {"consumed", "expired"}
  BY <1>1
<1>3. /\ key' \in KeyRow /\ key'.counter = key.counter /\ key'.hash = key.hash /\ key'.linked = key.linked
      /\ key'.holder = key.holder /\ key'.status = key.status
      /\ key.status = "absent" => key' = Attested!NoKey
  <2>1. /\ key' \in KeyRow /\ key'.counter = key.counter /\ key'.hash = key.hash /\ key'.linked = key.linked
        /\ key'.holder = key.holder /\ key'.status = key.status
    BY <1>1 DEF KeyRow
  <2>2. ASSUME key.status = "absent" PROVE key' = Attested!NoKey
    <3>1. key = Attested!NoKey
      BY <2>2 DEF AttestedInv, RowGood
    <3>2. key' = [Attested!NoKey EXCEPT !.old = FALSE]
      BY <1>1, <2>2, <3>1
    <3> QED BY <3>2 DEF Attested!NoKey
  <2> QED BY <2>1, <2>2
<1>4. AttestedTypes'
  <2>1. (key'.counter = 0) = (key'.hash = None)
    BY <1>3 DEF AttestedInv, RowGood
  <2>2. Attested!TypeOK'
    BY <1>1, <1>2, <1>3, <2>1
       DEF AttestedInv, AttestedTypes, Attested!TypeOK, KeyRow, Attested!Holders, Attested!Evidence
  <2> QED BY <1>1, <1>3, <2>2
       DEF AttestedInv, AttestedTypes, KeyRow, Attested!Holders, VerificationRow, AttemptRow, Attested!Evidence
<1>5. DeviceGood'
  BY <1>1, <1>2, <1>3 DEF AttestedInv, DeviceGood
<1>6. RowGood'
  BY <1>1, <1>3 DEF AttestedInv, RowGood, Attested!NoKey
<1>7. ReceiptsGood'
  BY <1>1, <1>2 DEF AttestedInv, ReceiptsGood, Attested!Token
<1>8. DeletedForGood'
  <2>1. ~Registrable'
    BY <1>1, <1>2 DEF Registrable, Unended
  <2> QED BY <2>1 DEF DeletedForGood
<1>9. Attested!CounterKept' /\ Attested!DisabledHoldsNoPending' /\ Attested!SessionsKeepKey'
  BY <1>1, <1>3 DEF AttestedInv, Attested!CounterKept, Attested!DisabledHoldsNoPending, Attested!SessionsKeepKey
<1> QED BY <1>1, <1>3, <1>4, <1>5, <1>6, <1>7, <1>8, <1>9, RowStep

LEMMA DeleteSafe ==
    ASSUME AttestedBounds, AttestedInv, Attested!DeleteExpired
    PROVE  AttestedInv'
<1>1. /\ UNCHANGED <<challenge, made, scope, verification, attempt, top, sessions>>
      /\ receipts' = receipts \ expired /\ expired' = {}
      /\ \/ key' = key
         \/ /\ key' = Attested!NoKey /\ key.status = "active" /\ ~key.linked /\ key.old
            /\ ~Attested!RowLocked
  BY DEF Attested!DeleteExpired, Attested!Abandoned
<1>4. ReceiptsGood'
  <2>1. \A q \in Verifications :
           verification[q].step \in {"committing", "resolving"} /\ attempt[q].state = "committed" =>
              <<q, attempt[q].evidence>> \in receipts \ expired
    <3>1. ASSUME NEW q \in Verifications, verification[q].step \in {"committing", "resolving"},
                 attempt[q].state = "committed"
          PROVE  <<q, attempt[q].evidence>> \in receipts \ expired
      <4>1. <<q, attempt[q].evidence>> \in receipts /\ attempt[q].evidence = verification[q].evidence
        BY <3>1 DEF AttestedInv, ReceiptsGood, Attested!Token, VerificationGood
      <4>2. \A r \in expired : verification[q].evidence # r[2]
        BY <3>1 DEF AttestedInv, ReceiptsGood
      <4> QED BY <4>1, <4>2
    <3> QED BY <3>1
  <2> QED BY <1>1, <2>1 DEF AttestedInv, ReceiptsGood, Attested!Token
<1>2. CASE key' = key
  <2>1. AttestedTypes'
    BY <1>1, <1>2 DEF AttestedInv, AttestedTypes, Attested!TypeOK, KeyRow, Attested!Holders, Attested!Evidence,
                      VerificationRow, AttemptRow
  <2>2. DeviceGood' /\ RowGood'
    BY <1>1, <1>2 DEF AttestedInv, DeviceGood, RowGood
  <2>4. DeletedForGood'
    <3>1. Registrable' <=> Registrable
      BY <1>1 DEF Registrable, Unended
    <3> QED BY <1>1, <1>2, <3>1 DEF AttestedInv, DeletedForGood
  <2>5. Attested!CounterKept' /\ Attested!DisabledHoldsNoPending' /\ Attested!SessionsKeepKey'
    BY <1>1, <1>2 DEF AttestedInv, Attested!CounterKept, Attested!DisabledHoldsNoPending,
                      Attested!SessionsKeepKey
  <2> QED BY <1>1, <1>2, <1>4, <2>1, <2>2, <2>4, <2>5, RowStep
<1>3. CASE /\ key' = Attested!NoKey /\ key.status = "active" /\ ~key.linked /\ key.old /\ ~Attested!RowLocked
  <2>1. /\ key' \in KeyRow /\ key'.status = "absent" /\ key'.counter = 0 /\ key'.hash = None /\ key'.old = FALSE
        /\ key'.linked = FALSE
    <3>1. /\ Attested!NoKey.status = "absent" /\ Attested!NoKey.counter = 0 /\ Attested!NoKey.hash = None
          /\ Attested!NoKey.old = FALSE /\ Attested!NoKey.linked = FALSE
      BY DEF Attested!NoKey
    <3> QED BY <1>3, <3>1, AttestedRows
  <2>2. \A q \in Verifications : ~Unended(q)
    BY <1>3 DEF AttestedInv, AttemptGood, Unended, Attested!RowLocked
  <2>3. sessions = {} /\ ~Registrable /\ made # {}
    BY <1>3 DEF AttestedInv, Attested!SessionsKeepKey, DeletedForGood, DeviceGood
  <2>4. AttestedTypes'
    <3>1. Attested!TypeOK'
      BY <1>1, <2>1 DEF AttestedInv, AttestedTypes, Attested!TypeOK, KeyRow, Attested!Holders, Attested!Evidence
    <3> QED BY <1>1, <2>1, <3>1 DEF AttestedInv, AttestedTypes, KeyRow, Attested!Holders, Attested!Evidence,
                      VerificationRow, AttemptRow
  <2>5. DeviceGood'
    BY <1>1, <2>3 DEF AttestedInv, DeviceGood
  <2>6. RowGood'
    BY <1>3, <2>1 DEF RowGood, Attested!NoKey
  <2>8. DeletedForGood'
    <3>1. ~Registrable'
      BY <1>1, <2>3 DEF Registrable, Unended
    <3> QED BY <2>1, <3>1 DEF DeletedForGood
  <2>9. Attested!CounterKept' /\ Attested!DisabledHoldsNoPending' /\ Attested!SessionsKeepKey'
    BY <1>1, <2>1, <2>3 DEF Attested!CounterKept, Attested!DisabledHoldsNoPending, Attested!SessionsKeepKey
  <2> QED BY <1>1, <1>4, <2>1, <2>2, <2>4, <2>5, <2>6, <2>8, <2>9, RowStep
<1> QED BY <1>1, <1>2, <1>3

LEMMA AttestedStep ==
    ASSUME AttestedBounds, AttestedInv, [Attested!Next]_Attested!vars PROVE AttestedInv'
<1>1. ASSUME NEW b \in Bindings,
             Attested!OpenChallenge(b) \/ Attested!AttestKey(b) \/ Attested!SignAssertion(b)
      PROVE  AttestedInv'
  BY <1>1, ChallengesSafe, DeviceSafe
<1>2. ASSUME NEW k \in Verifications, NEW e \in made, NEW b \in Bindings, Attested!Verify(k, e, b)
      PROVE  AttestedInv'
  BY <1>2, VerifySafe
<1>3. ASSUME NEW k \in Verifications,
             \/ Attested!Transact(k) \/ Attested!Cancel(k) \/ Attested!SendCommit(k)
             \/ Attested!Acknowledged(k) \/ Attested!AnswerLost(k) \/ Attested!DatabaseCommits(k)
             \/ Attested!DatabaseAborts(k) \/ Attested!Resolve(k) \/ Attested!ResolveFails(k)
             \/ Attested!ExchangeSession(k) \/ Attested!ExchangeFails(k)
      PROVE  AttestedInv'
  BY <1>3, TransactSafe, EndingsSafe, SendSafe, AnswersSafe, CommitRecorded, ExchangeSafe
<1>4. CASE Attested!DisableScope \/ Attested!EnableScope \/ Attested!DayPasses \/ Attested!DeleteExpired
  BY <1>4, ScopeSafe, DaySafe, DeleteSafe
<1>5. CASE UNCHANGED Attested!vars
  <2>1. UNCHANGED <<challenge, made, key, receipts, expired, scope, verification, attempt, top, sessions>>
    BY <1>5 DEF Attested!vars
  <2>2. AttestedTypes'
    BY <2>1 DEF AttestedInv, AttestedTypes, Attested!TypeOK, KeyRow, Attested!Holders, Attested!Evidence,
                VerificationRow, AttemptRow
  <2>3. DeviceGood' /\ RowGood'
    BY <2>1 DEF AttestedInv, DeviceGood, RowGood
  <2>4. ReceiptsGood'
    BY <2>1 DEF AttestedInv, ReceiptsGood, Attested!Token
  <2>5. DeletedForGood'
    <3>1. Registrable' <=> Registrable
      BY <2>1 DEF Registrable, Unended
    <3> QED BY <2>1, <3>1 DEF AttestedInv, DeletedForGood
  <2>6. Attested!CounterKept' /\ Attested!DisabledHoldsNoPending' /\ Attested!SessionsKeepKey'
    BY <2>1 DEF AttestedInv, Attested!CounterKept, Attested!DisabledHoldsNoPending, Attested!SessionsKeepKey
  <2> QED BY <2>1, <2>2, <2>3, <2>4, <2>5, <2>6, RowStep
<1> QED BY <1>1, <1>2, <1>3, <1>4, <1>5 DEF Attested!Next

\* Evidence for an open challenge can be sent again: the row it finds is the
\* one it made, and the key was not deleted meanwhile.
LEMMA RetriesAccepted ==
    ASSUME AttestedBounds, AttestedInv PROVE Attested!RetryAccepted
<1>1. ASSUME NEW e \in made, challenge[e.binding] = "open", key.status = "active",
             key.holder = HolderOf[e.binding], e.counter = key.counter
      PROVE  Attested!Decision(e, e.binding) = "replay"
  <2>1. /\ e.kind \in {"attestation", "assertion"} /\ (e.kind = "attestation" <=> e.counter = 0)
        /\ e.counter \in Nat
    BY DEF AttestedInv, AttestedTypes, Attested!TypeOK, Attested!Evidence, DeviceGood
  <2>2. CASE e.kind = "attestation"
    BY <1>1, <2>1, <2>2 DEF Attested!Decision, Attested!SameRegistration
  <2>3. CASE e.kind = "assertion"
    <3>1. key.hash = e.binding /\ e.counter # 0
      BY <1>1, <2>1, <2>3, CountsOnce
    <3> QED BY <1>1, <2>1, <2>3, <3>1
         DEF Attested!Decision, Attested!SameRegistration, Attested!SameAssertion, Attested!Advances
  <2> QED BY <2>1, <2>2, <2>3
<1>2. ASSUME NEW e \in made, challenge[e.binding] = "open", e.kind = "attestation",
             NEW k \in Verifications, attempt[k].state = "committed", attempt[k].evidence = e
      PROVE  key.status # "absent"
  <2>1. Registrable
    BY <1>2 DEF Registrable
  <2> QED BY <1>2, <2>1 DEF AttestedInv, DeletedForGood
<1> QED BY <1>1, <1>2 DEF Attested!RetryAccepted

\* The stored App Attest key follows the device: its counter never falls
\* behind what was committed, whatever answers were lost; what was called
\* verified is in the store; no key waits while its scope is disabled;
\* evidence for an open challenge can be sent again; a key that opened a
\* session stays, and with one holder.
THEOREM KeyFollowsDevice ==
    ASSUME AttestedBounds
    PROVE  Attested!Spec => [](/\ Attested!TypeOK /\ Attested!CounterKept /\ Attested!VerifiedIsDurable
                               /\ Attested!DisabledHoldsNoPending /\ Attested!RetryAccepted
                               /\ Attested!SessionsKeepKey)
<1>1. AttestedInv => /\ Attested!TypeOK /\ Attested!CounterKept /\ Attested!VerifiedIsDurable
                     /\ Attested!DisabledHoldsNoPending /\ Attested!RetryAccepted
                     /\ Attested!SessionsKeepKey
  BY RetriesAccepted DEF AttestedInv, AttestedTypes
<1>2. Attested!Init => AttestedInv
  BY AttestedInit
<1>3. AttestedInv /\ [Attested!Next]_Attested!vars => AttestedInv'
  BY AttestedStep
<1> QED BY <1>1, <1>2, <1>3, PTL DEF Attested!Spec

\* A verification that found no receipt of its commit has been rolled back.
GivenUpIsAborted == \A k \in Verifications :
    Attested!Resolve(k) /\ verification[k].step = "resolving" /\ verification'[k].step = "idle" =>
        attempt[k].state = "aborted"

\* A commit receipt that is missing is conclusive: whoever looks it up under
\* the lock of the key and does not find it has not committed, and an old
\* receipt that no longer counts is never the one that is looked up.
THEOREM MissingReceiptConcludes ==
    ASSUME AttestedBounds
    PROVE  Attested!Spec => [][Attested!ResolutionsAreConclusive /\ GivenUpIsAborted]_Attested!vars
<1>1. ASSUME AttestedInv PROVE Attested!ResolutionsAreConclusive /\ GivenUpIsAborted
  <2>1. ASSUME NEW k \in Verifications, Attested!Resolve(k), verification[k].step = "resolving",
               verification'[k].step = "idle"
        PROVE  attempt[k].state = "aborted"
    <3>1. ~Attested!LockHeld /\ verification \in [Verifications -> VerificationRow]
      BY <1>1, <2>1 DEF Attested!Resolve, Attested!ReceiptSettled, AttestedInv, AttestedTypes
    <3>2. attempt[k].state \in {"committed", "aborted"}
      BY <1>1, <2>1, <3>1 DEF AttestedInv, VerificationGood, Attested!LockHeld
    <3>3. ~(Attested!Token(k) \in receipts \ expired)
      <4>1. ASSUME Attested!Token(k) \in receipts \ expired PROVE FALSE
        <5>1. verification' = [verification EXCEPT ![k].step = "verified"]
          BY <2>1, <4>1 DEF Attested!Resolve
        <5> QED BY <2>1, <3>1, <5>1 DEF VerificationRow
      <4> QED BY <4>1
    <3>4. attempt[k].state = "committed" => Attested!Token(k) \in receipts
      BY <1>1, <2>1 DEF AttestedInv, ReceiptsGood
    <3>5. Attested!Token(k) \notin expired
      <4>1. verification[k].step # "idle" /\ attempt[k].evidence = verification[k].evidence
        BY <1>1, <2>1 DEF AttestedInv, VerificationGood
      <4>2. \A r \in expired : verification[k].evidence # r[2]
        BY <1>1, <4>1 DEF AttestedInv, ReceiptsGood
      <4>3. Attested!Token(k)[2] = attempt[k].evidence
        BY DEF Attested!Token
      <4> QED BY <4>1, <4>2, <4>3
    <3> QED BY <3>2, <3>3, <3>4, <3>5
  <2> QED BY <2>1 DEF Attested!ResolutionsAreConclusive, Attested!ResolutionIsConclusive, GivenUpIsAborted
<1>2. Attested!Init => AttestedInv
  BY AttestedInit
<1>3. AttestedInv /\ [Attested!Next]_Attested!vars => AttestedInv'
  BY AttestedStep
<1> QED BY <1>1, <1>2, <1>3, PTL DEF Attested!Spec
=============================================================================
