-------------------------- MODULE QuotaLedgerProofs --------------------------
(***************************************************************************)
(* Theorems about the quota ledger for every number of requests, limits,   *)
(* revisions, windows and attempts.                                        *)
(*                                                                         *)
(* The bucket columns change in three ways: a reservation and a retry add  *)
(* reserved units after comparing the occupancy with the maximum, and      *)
(* every way of closing goes through MoveUnits.  MoveKeeps is the fact     *)
(* about MoveUnits, and the lemmas before it bound what is moved.          *)
(*                                                                         *)
(* That the ledger is exact is an argument about sums, which are           *)
(* cardinalities of stacks: the units of each request, side by side.  A    *)
(* step changes the stack of one request only, and Restack says what that  *)
(* does to the whole.                                                      *)
(***************************************************************************)
EXTENDS QuotaStore, FiniteSetTheorems, TLAPS

\* Maxima and allocations read from the configuration are natural numbers.
LEMMA ConfigurationTypes ==
    ASSUME TypeOK, NEW r \in Requests, NEW b \in Buckets
    PROVE  /\ MaximumFor(r, b) \in Nat \ {0}
           /\ \A n \in 1 .. MaxAttempts : UnitsOf(n, b) \in Nat
           /\ MetricOf(b) \in Metrics
  <1>1. b[1] \in Limits
    BY DEF Buckets
  <1>2. logical[r].revision \in Revisions
    BY DEF TypeOK, LogicalRow
  <1>3. MaximumFor(r, b) \in Nat \ {0}
    BY <1>1, <1>2, LimitTypes DEF MaximumFor
  <1>4. \A n \in 1 .. MaxAttempts : UnitsOf(n, b) \in Nat
    BY <1>1, LimitTypes DEF UnitsOf
  <1>5. MetricOf(b) \in Metrics
    BY <1>1, LimitTypes DEF MetricOf
  <1> QED
    BY <1>3, <1>4, <1>5

\* A plan of known limits at a known instant names rows of the table.
LEMMA PlanTypes ==
    ASSUME NEW limits \in SUBSET Limits, NEW t \in Times
    PROVE  PlannedBuckets(limits, t) \subseteq Buckets
  BY LimitTypes DEF PlannedBuckets, Buckets

\* The last attempt of a request that has one is an attempt row within the
\* attempt bound.
LEMMA LastAttemptTypes ==
    ASSUME TypeOK, NEW r \in Requests, attempts[r] # <<>>
    PROVE  /\ Len(attempts[r]) \in 1 .. MaxAttempts
           /\ LastAttempt(r) \in AttemptRow
  <1>1. attempts[r] \in Seq(AttemptRow) /\ Len(attempts[r]) \in Nat /\ Len(attempts[r]) # 0
    BY DEF TypeOK
  <1>2. Len(attempts[r]) \in 1 .. Len(attempts[r])
    BY <1>1
  <1> QED
    BY <1>1, <1>2, AttemptBound DEF TypeOK, LastAttempt

\* An outcome closes the attempt and carries a natural number of units.
LEMMA OutcomeTypes ==
    ASSUME NEW outcome \in Outcomes
    PROVE  outcome.status \in ClosedStatus /\ outcome.units \in Nat
  <1>1. CASE outcome \in ReportedOutcome
    <2>1. outcome.status \in ClosedStatus /\ outcome.units \in Reports
      BY <1>1 DEF ReportedOutcome
    <2> QED
      BY <2>1, LimitTypes
  <1>2. CASE outcome \in UnknownOutcome
    BY <1>2 DEF UnknownOutcome
  <1>3. CASE outcome \in RejectedOutcome
    BY <1>3 DEF RejectedOutcome, ClosedStatus, AttemptStatus
  <1> QED
    BY <1>1, <1>2, <1>3 DEF Outcomes

\* Settling an attempt never charges more than the attempt was allocated.
LEMMA AttemptMoves ==
    ASSUME TypeOK, NEW r \in Requests, NEW outcome \in Outcomes,
           attempts[r] # <<>>, ReportAccepted(r, outcome)
    PROVE  /\ AttemptOut(r) \in [Buckets -> Nat]
           /\ AttemptCharge(r, outcome) \in [Buckets -> Nat]
           /\ \A b \in Buckets : AttemptCharge(r, outcome)[b] <= AttemptOut(r)[b]
  <1> DEFINE n == Len(attempts[r])
  <1>1. n \in 1 .. MaxAttempts
    BY LastAttemptTypes
  <1>2. outcome.units \in Nat
    BY OutcomeTypes
  <1>3. \A b \in Buckets : UnitsOf(n, b) \in Nat /\ ChargedUnits(n, b, outcome) \in Nat
    BY <1>1, <1>2, ConfigurationTypes DEF ChargedUnits
  <1>4. \A b \in Buckets : b \in LastAttempt(r).buckets =>
            ChargedUnits(n, b, outcome) <= UnitsOf(n, b)
    BY DEF ReportAccepted
  <1> HIDE DEF n
  <1> QED
    BY <1>3, <1>4 DEF AttemptOut, AttemptCharge, n

\* Finalising a request charges no more than it takes out.
LEMMA FinalMoves ==
    ASSUME TypeOK, NEW r \in Requests
    PROVE  /\ FinalOut(r) \in [Buckets -> Nat]
           /\ FinalCharge(r) \in [Buckets -> Nat]
           /\ \A b \in Buckets : FinalCharge(r)[b] <= FinalOut(r)[b]
  BY DEF TypeOK, EntryRow, FinalOut, FinalCharge

\* Sums of moves keep the order.
LEMMA PlusMoves ==
    ASSUME NEW f \in [Buckets -> Nat], NEW g \in [Buckets -> Nat],
           NEW p \in [Buckets -> Nat], NEW q \in [Buckets -> Nat],
           \A b \in Buckets : f[b] <= p[b] /\ g[b] <= q[b]
    PROVE  /\ Plus(f, g) \in [Buckets -> Nat]
           /\ Plus(p, q) \in [Buckets -> Nat]
           /\ \A b \in Buckets : Plus(f, g)[b] <= Plus(p, q)[b]
  BY DEF Plus

\* Moving units out of reserved, and at most as many into used, keeps the
\* rows well formed and the occupancy within the maximum.
LEMMA MoveKeeps ==
    ASSUME TypeOK, NoOverspend, NEW r \in Requests,
           NEW out \in [Buckets -> Nat], NEW charged \in [Buckets -> Nat],
           \A b \in Buckets : charged[b] <= out[b],
           MoveUnits(r, out, charged)
    PROVE  /\ bucket' \in [Buckets -> BucketRow]
           /\ entry' \in [Requests -> [Buckets -> EntryRow]]
           /\ NoOverspend'
  <1>1. \A b \in Buckets : /\ bucket[b] \in BucketRow
                           /\ out[b] <= bucket[b].reserved
                           /\ bucket[b].used + bucket[b].reserved <= bucket[b].hard_maximum
    BY DEF TypeOK, NoOverspend, Occupancy, MoveUnits, CanMove
  <1>2. bucket' = [b \in Buckets |->
            [hard_maximum |-> bucket[b].hard_maximum,
             used |-> bucket[b].used + charged[b],
             reserved |-> bucket[b].reserved - out[b]]]
    BY DEF MoveUnits
  <1>3. \A b \in Buckets :
            /\ bucket'[b].used = bucket[b].used + charged[b]
            /\ bucket'[b].reserved = bucket[b].reserved - out[b]
            /\ bucket'[b].hard_maximum = bucket[b].hard_maximum
            /\ bucket'[b] \in BucketRow
    BY <1>1, <1>2 DEF BucketRow
  <1>4. bucket' \in [Buckets -> BucketRow]
    BY <1>2, <1>3
  <1>5. NoOverspend'
    BY <1>1, <1>3 DEF NoOverspend, Occupancy, BucketRow
  <1>6. \A b \in Buckets :
            [origin |-> entry[r][b].origin, reserved |-> entry[r][b].reserved,
             settled |-> entry[r][b].settled + charged[b],
             released |-> entry[r][b].released + (out[b] - charged[b])] \in EntryRow
    BY DEF TypeOK, EntryRow
  <1>7. entry' \in [Requests -> [Buckets -> EntryRow]]
    BY <1>6 DEF TypeOK, MoveUnits
  <1> QED
    BY <1>4, <1>5, <1>7

-----------------------------------------------------------------------------
\* NoOverspend is inductive once the rows are known to be well formed.
BudgetInv == TypeOK /\ NoOverspend

\* Closing the last attempt with a legal outcome keeps the attempts typed.
LEMMA CloseAttemptTypes ==
    ASSUME TypeOK, NEW r \in Requests, NEW outcome \in Outcomes,
           attempts[r] # <<>>, ReportAccepted(r, outcome), CloseAttempt(r, outcome)
    PROVE  /\ attempts' \in [Requests -> Seq(AttemptRow)]
           /\ \A q \in Requests : Len(attempts'[q]) <= MaxAttempts
  <1> DEFINE row == [status |-> outcome.status, firstByte |-> LastAttempt(r).firstByte,
                     buckets |-> LastAttempt(r).buckets, charged |-> AttemptCharge(r, outcome)]
             closed == [attempts[r] EXCEPT ![Len(attempts[r])] = row]
  <1>1. row \in AttemptRow
    BY LastAttemptTypes, OutcomeTypes, AttemptMoves DEF AttemptRow, ClosedStatus
  <1>2. attempts[r] \in Seq(AttemptRow)
    BY DEF TypeOK
  <1> HIDE DEF row
  <1>3. closed \in Seq(AttemptRow) /\ Len(closed) = Len(attempts[r])
    BY <1>1, <1>2
  <1>4. attempts' = [attempts EXCEPT ![r] = closed]
    BY DEF CloseAttempt, row
  <1> QED
    BY <1>3, <1>4 DEF TypeOK

\* A new attempt row is well formed.
LEMMA NewAttemptTypes ==
    ASSUME NEW rows \in SUBSET Buckets
    PROVE  NewAttempt(rows) \in AttemptRow
  BY DEF NewAttempt, AttemptRow, AttemptStatus, Nothing

\* Claiming the logical request for a reservation keeps it typed.
LEMMA ClaimTypes ==
    ASSUME TypeOK, NEW r \in Requests, NEW status \in LogicalStatus, NEW failure \in FailureCode
    PROVE  Claim(r, status, failure) \in [Requests -> LogicalRow]
  BY DEF TypeOK, LogicalRow, Claim, ClaimedAt

\* Reserve keeps every bucket within its maximum: the units are added only
\* when the occupancy leaves room for them under the pinned revision.
LEMMA ReserveKeeps ==
    ASSUME BudgetInv, NEW r \in Requests, ReserveAccepted(r)
    PROVE  BudgetInv'
  <1> USE DEF BudgetInv
  <1>1. InitialBuckets \subseteq Buckets
    BY PlanTypes, LimitTypes, AttemptBound DEF InitialBuckets, TypeOK
  <1>2. 1 \in 1 .. MaxAttempts
    BY AttemptBound
  <1>3. \A b \in Buckets : /\ MaximumFor(r, b) \in Nat
                           /\ UnitsOf(1, b) \in Nat
                           /\ bucket[b] \in BucketRow
                           /\ Occupancy(b) <= bucket[b].hard_maximum
    BY <1>2, ConfigurationTypes DEF TypeOK, NoOverspend
  <1>4. \A b \in InitialBuckets : bucket[b].used + bucket[b].reserved + UnitsOf(1, b) <= MaximumFor(r, b)
    BY <1>1, <1>3 DEF ReserveAccepted, Exceeded, Occupancy, BucketRow
  <1>5. bucket' = [b \in Buckets |->
            IF b \in InitialBuckets
            THEN [hard_maximum |-> MaximumFor(r, b), used |-> bucket[b].used,
                  reserved |-> bucket[b].reserved + UnitsOf(1, b)]
            ELSE bucket[b]]
    BY DEF ReserveAccepted
  <1>6. bucket' \in [Buckets -> BucketRow]
    BY <1>3, <1>5 DEF BucketRow
  <1>7. NoOverspend'
    BY <1>3, <1>4, <1>5 DEF NoOverspend, Occupancy, BucketRow
  <1>8. logical' \in [Requests -> LogicalRow]
    BY ClaimTypes DEF ReserveAccepted, LogicalStatus, FailureCode
  <1>9. reservation' \in [Requests -> ReservationRow]
    BY ClockBounds DEF ReserveAccepted, TypeOK, ReservationRow, ReservationStatus, Times
  <1>10. entry' \in [Requests -> [Buckets -> EntryRow]]
    <2>1. \A b \in Buckets :
            /\ [origin |-> 1, reserved |-> UnitsOf(1, b), settled |-> 0, released |-> 0] \in EntryRow
            /\ NoEntry \in EntryRow
      BY <1>2, <1>3, AttemptBound DEF EntryRow, NoEntry
    <2> QED
      BY <2>1 DEF ReserveAccepted, TypeOK
  <1>11. leases' \in [Requests -> SUBSET Buckets]
    BY <1>1 DEF ReserveAccepted, TypeOK
  <1> QED
    BY <1>6, <1>7, <1>8, <1>9, <1>10, <1>11 DEF ReserveAccepted, TypeOK

\* A denial adds no units, and lowers a maximum only down to the occupancy.
LEMMA DenyKeeps ==
    ASSUME BudgetInv, NEW r \in Requests, ReserveDenied(r)
    PROVE  BudgetInv'
  <1> USE DEF BudgetInv
  <1>1. \A b \in Buckets : /\ MaximumFor(r, b) \in Nat
                           /\ bucket[b] \in BucketRow
                           /\ Occupancy(b) <= bucket[b].hard_maximum
    BY ConfigurationTypes DEF TypeOK, NoOverspend
  <1>2. bucket' = [b \in Buckets |->
            IF b \in InitialBuckets /\ Occupancy(b) <= MaximumFor(r, b)
            THEN [bucket[b] EXCEPT !.hard_maximum = MaximumFor(r, b)]
            ELSE bucket[b]]
    BY DEF ReserveDenied
  <1>3. bucket' \in [Buckets -> BucketRow]
    BY <1>1, <1>2 DEF BucketRow
  <1>4. NoOverspend'
    BY <1>1, <1>2 DEF NoOverspend, Occupancy, BucketRow
  <1>5. logical' \in [Requests -> LogicalRow]
    BY ClaimTypes DEF ReserveDenied, DenialCode, LogicalStatus, FailureCode
  <1> QED
    BY <1>3, <1>4, <1>5 DEF ReserveDenied, TypeOK

\* A retry adds units only where the occupancy leaves room for them.
LEMMA RetryKeeps ==
    ASSUME BudgetInv, NEW r \in Requests, BeginRetryAttempt(r)
    PROVE  BudgetInv'
  <1> USE DEF BudgetInv
  <1> DEFINE n == Len(attempts[r]) + 1
             adds == RetryReserves(r, n)
  <1>1. n \in 2 .. MaxAttempts /\ n \in 1 .. MaxAttempts
    BY AttemptBound DEF BeginRetryAttempt, TypeOK
  <1>2. RetryBuckets(r, n) \subseteq Buckets
    <2>1. logical[r].requestedAt \in Times
      BY DEF TypeOK, LogicalRow
    <2>2. PlanLimits[n] \in SUBSET Limits
      BY <1>1, LimitTypes
    <2> HIDE DEF n
    <2>3. {l \in PlanLimits[n] : Metric[l] # "logical_requests" /\ l \notin InitialOnly}
              \in SUBSET Limits
      BY <2>2
    <2> QED
      BY <2>1, <2>3, PlanTypes DEF RetryBuckets
  <1>3. adds \subseteq Buckets
    BY <1>2 DEF RetryReserves
  <1>4. \A b \in Buckets : /\ MaximumFor(r, b) \in Nat
                           /\ UnitsOf(n, b) \in Nat
                           /\ bucket[b] \in BucketRow
                           /\ Occupancy(b) <= bucket[b].hard_maximum
    BY <1>1, ConfigurationTypes DEF TypeOK, NoOverspend
  <1>5. \A b \in adds : bucket[b].used + bucket[b].reserved + UnitsOf(n, b) <= MaximumFor(r, b)
    BY DEF BeginRetryAttempt, Occupancy
  <1>6. bucket' = [b \in Buckets |->
            IF b \in adds
            THEN [hard_maximum |-> MaximumFor(r, b), used |-> bucket[b].used,
                  reserved |-> bucket[b].reserved + UnitsOf(n, b)]
            ELSE bucket[b]]
    BY DEF BeginRetryAttempt
  <1>7. entry' = [entry EXCEPT ![r] = [b \in Buckets |->
            IF b \in adds
            THEN [origin |-> IF entry[r][b].origin = 0 THEN n ELSE entry[r][b].origin,
                  reserved |-> entry[r][b].reserved + UnitsOf(n, b),
                  settled |-> entry[r][b].settled, released |-> entry[r][b].released]
            ELSE entry[r][b]]]
    BY DEF BeginRetryAttempt
  <1>8. attempts' = [attempts EXCEPT ![r] =
            Append(attempts[r], NewAttempt({b \in RetryBuckets(r, n) : Allocated(b)}))]
    BY DEF BeginRetryAttempt
  <1>9. leases' = [leases EXCEPT ![r] =
            leases[r] \cup {b \in adds : MetricOf(b) = "concurrency"}]
    BY DEF BeginRetryAttempt
  <1>10. attempts' \in [Requests -> Seq(AttemptRow)] /\ \A q \in Requests : Len(attempts'[q]) <= MaxAttempts
    <2>1. NewAttempt({b \in RetryBuckets(r, n) : Allocated(b)}) \in AttemptRow
      BY <1>2, NewAttemptTypes
    <2> QED
      BY <1>1, <1>8, <2>1 DEF TypeOK
  <1> HIDE DEF n, adds
  <1>11. bucket' \in [Buckets -> BucketRow]
    BY <1>4, <1>6 DEF BucketRow
  <1>12. NoOverspend'
    BY <1>4, <1>5, <1>6 DEF NoOverspend, Occupancy, BucketRow
  <1>13. entry' \in [Requests -> [Buckets -> EntryRow]]
    <2>1. \A b \in Buckets :
            /\ entry[r][b] \in EntryRow
            /\ [origin |-> IF entry[r][b].origin = 0 THEN n ELSE entry[r][b].origin,
                reserved |-> entry[r][b].reserved + UnitsOf(n, b),
                settled |-> entry[r][b].settled, released |-> entry[r][b].released] \in EntryRow
      BY <1>1, <1>4 DEF TypeOK, EntryRow
    <2> QED
      BY <1>7, <2>1 DEF TypeOK
  <1>14. leases' \in [Requests -> SUBSET Buckets]
    BY <1>3, <1>9 DEF TypeOK
  <1> QED
    BY <1>10, <1>11, <1>12, <1>13, <1>14 DEF BeginRetryAttempt, TypeOK

\* Final statuses of a request are statuses.
LEMMA CloseRequestTypes ==
    ASSUME TypeOK, NEW r \in Requests, NEW status \in AttemptStatus, CloseRequest(r, status)
    PROVE  /\ logical' \in [Requests -> LogicalRow]
           /\ reservation' \in [Requests -> ReservationRow]
           /\ leases' \in [Requests -> SUBSET Buckets]
  <1>1. FinalStatus(status) \in LogicalStatus
    BY DEF FinalStatus, LogicalStatus, FailureCode
  <1> QED
    BY <1>1 DEF TypeOK, CloseRequest, LogicalRow, ReservationRow, ReservationStatus

\* Settling for a retry moves at most the attempt's allocation.
LEMMA SettleForRetryKeeps ==
    ASSUME BudgetInv, NEW r \in Requests, NEW outcome \in Outcomes, SettleForRetry(r, outcome)
    PROVE  BudgetInv'
  <1>1. attempts[r] # <<>> /\ ReportAccepted(r, outcome) /\ CloseAttempt(r, outcome)
    BY DEF SettleForRetry, Settleable
  <1>2. /\ bucket' \in [Buckets -> BucketRow]
        /\ entry' \in [Requests -> [Buckets -> EntryRow]]
        /\ NoOverspend'
    BY <1>1, AttemptMoves, MoveKeeps DEF BudgetInv, SettleForRetry
  <1>3. /\ attempts' \in [Requests -> Seq(AttemptRow)]
        /\ \A q \in Requests : Len(attempts'[q]) <= MaxAttempts
    BY <1>1, CloseAttemptTypes DEF BudgetInv
  <1> QED
    BY <1>2, <1>3 DEF BudgetInv, SettleForRetry, TypeOK

\* Settling the final attempt moves its allocation, the request count and
\* the concurrency slots.
LEMMA SettleFinalKeeps ==
    ASSUME BudgetInv, NEW r \in Requests, NEW outcome \in Outcomes, SettleFinalAttempt(r, outcome)
    PROVE  BudgetInv'
  <1> USE DEF BudgetInv
  <1>1. /\ attempts[r] # <<>>
        /\ ReportAccepted(r, outcome)
        /\ CloseAttempt(r, outcome)
        /\ CloseRequest(r, outcome.status)
        /\ now' = now
    BY DEF SettleFinalAttempt, Settleable
  <1> DEFINE out == Plus(AttemptOut(r), FinalOut(r))
             charged == Plus(AttemptCharge(r, outcome), FinalCharge(r))
  <1>2. /\ out \in [Buckets -> Nat]
        /\ charged \in [Buckets -> Nat]
        /\ \A b \in Buckets : charged[b] <= out[b]
    <2> HIDE DEF BudgetInv
    <2>1. TypeOK
      BY DEF BudgetInv
    <2> QED
      BY <1>1, <2>1, AttemptMoves, FinalMoves, PlusMoves
  <1>3. MoveUnits(r, out, charged)
    BY DEF SettleFinalAttempt
  <1> HIDE DEF out, charged
  <1>4. /\ bucket' \in [Buckets -> BucketRow]
        /\ entry' \in [Requests -> [Buckets -> EntryRow]]
        /\ NoOverspend'
    BY <1>2, <1>3, MoveKeeps
  <1>5. /\ attempts' \in [Requests -> Seq(AttemptRow)]
        /\ \A q \in Requests : Len(attempts'[q]) <= MaxAttempts
    BY <1>1, CloseAttemptTypes
  <1>6. outcome.status \in AttemptStatus
    BY OutcomeTypes DEF ClosedStatus
  <1>7. /\ logical' \in [Requests -> LogicalRow]
        /\ reservation' \in [Requests -> ReservationRow]
        /\ leases' \in [Requests -> SUBSET Buckets]
    BY <1>1, <1>6, CloseRequestTypes
  <1> QED
    BY <1>1, <1>4, <1>5, <1>7 DEF TypeOK

\* Finalising a request whose last attempt is closed moves what is left.
LEMMA FinalizeKeeps ==
    ASSUME BudgetInv, NEW r \in Requests, FinalizeSettledAttempt(r)
    PROVE  BudgetInv'
  <1>1. /\ bucket' \in [Buckets -> BucketRow]
        /\ entry' \in [Requests -> [Buckets -> EntryRow]]
        /\ NoOverspend'
    BY FinalMoves, MoveKeeps DEF BudgetInv, FinalizeSettledAttempt
  <1>2. LastAttempt(r).status \in AttemptStatus
    BY DEF FinalizeSettledAttempt, Retryable, AttemptStatus
  <1>3. /\ logical' \in [Requests -> LogicalRow]
        /\ reservation' \in [Requests -> ReservationRow]
        /\ leases' \in [Requests -> SUBSET Buckets]
    BY <1>2, CloseRequestTypes DEF BudgetInv, FinalizeSettledAttempt
  <1> QED
    BY <1>1, <1>3 DEF BudgetInv, FinalizeSettledAttempt, TypeOK

\* A release moves every reserved unit out and charges none.
LEMMA ReleaseKeeps ==
    ASSUME BudgetInv, NEW r \in Requests, NEW status \in ReservationStatus, ReleaseLocked(r, status)
    PROVE  BudgetInv'
  <1> DEFINE out == [b \in Buckets |-> entry[r][b].reserved]
  <1>1. /\ out \in [Buckets -> Nat]
        /\ Nothing \in [Buckets -> Nat]
        /\ \A b \in Buckets : Nothing[b] <= out[b]
    BY DEF BudgetInv, TypeOK, EntryRow, Nothing
  <1>2. MoveUnits(r, out, Nothing)
    BY DEF ReleaseLocked
  <1> HIDE DEF out
  <1>3. /\ bucket' \in [Buckets -> BucketRow]
        /\ entry' \in [Requests -> [Buckets -> EntryRow]]
        /\ NoOverspend'
    BY <1>1, <1>2, MoveKeeps DEF BudgetInv
  <1>4. /\ logical' \in [Requests -> LogicalRow]
        /\ reservation' \in [Requests -> ReservationRow]
        /\ leases' \in [Requests -> SUBSET Buckets]
    BY DEF BudgetInv, TypeOK, ReleaseLocked, LogicalRow, LogicalStatus, FailureCode, ReservationRow
  <1> QED
    BY <1>3, <1>4 DEF BudgetInv, ReleaseLocked, TypeOK

\* Steps that touch neither units nor maxima.
LEMMA LifecycleKeeps ==
    ASSUME BudgetInv, NEW r \in Requests,
           \/ BeginAuthenticatedRequest(r)
           \/ \E outcome \in {"denied", "failed", "cancelled"} : RecordDecisionFailure(r, outcome)
           \/ RecoverStaleAuthenticatedRequest(r)
           \/ ReserveBoundExceeded(r)
           \/ BeginAttempt(r)
           \/ MarkFirstByte(r)
    PROVE  BudgetInv'
  <1> USE DEF BudgetInv
  <1>1. CASE BeginAuthenticatedRequest(r)
    <2>1. logical' \in [Requests -> LogicalRow]
      BY <1>1 DEF BeginAuthenticatedRequest, TypeOK, LogicalRow, LogicalStatus, FailureCode
    <2> QED
      BY <1>1, <2>1 DEF BeginAuthenticatedRequest, TypeOK, NoOverspend, Occupancy
  <1>2. CASE \E outcome \in {"denied", "failed", "cancelled"} : RecordDecisionFailure(r, outcome)
    <2>1. PICK outcome \in {"denied", "failed", "cancelled"} : RecordDecisionFailure(r, outcome)
      BY <1>2
    <2>2. logical' \in [Requests -> LogicalRow]
      BY <2>1 DEF RecordDecisionFailure, TypeOK, LogicalRow, LogicalStatus
    <2> QED
      BY <2>1, <2>2 DEF RecordDecisionFailure, TypeOK, NoOverspend, Occupancy
  <1>3. CASE RecoverStaleAuthenticatedRequest(r)
    BY <1>3 DEF RecoverStaleAuthenticatedRequest, TypeOK, LogicalRow, LogicalStatus, FailureCode, NoOverspend, Occupancy
  <1>4. CASE ReserveBoundExceeded(r)
    <2>1. logical' \in [Requests -> LogicalRow]
      BY <1>4, ClaimTypes DEF ReserveBoundExceeded, LogicalStatus, FailureCode
    <2> QED
      BY <1>4, <2>1 DEF ReserveBoundExceeded, TypeOK, NoOverspend, Occupancy
  <1>5. CASE BeginAttempt(r)
    <2> DEFINE rows == {b \in Entries(r) : entry[r][b].origin = 1 /\ Allocated(b)}
    <2>1. NewAttempt(rows) \in AttemptRow
      BY NewAttemptTypes DEF Entries
    <2>2. attempts' = [attempts EXCEPT ![r] = <<NewAttempt(rows)>>]
      BY <1>5 DEF BeginAttempt
    <2> HIDE DEF rows
    <2>3. /\ attempts' \in [Requests -> Seq(AttemptRow)]
          /\ \A q \in Requests : Len(attempts'[q]) <= MaxAttempts
      BY <2>1, <2>2, AttemptBound DEF TypeOK
    <2>4. logical' \in [Requests -> LogicalRow]
      BY <1>5 DEF BeginAttempt, TypeOK, LogicalRow, LogicalStatus, FailureCode
    <2> QED
      BY <1>5, <2>3, <2>4 DEF BeginAttempt, TypeOK, NoOverspend, Occupancy
  <1>6. CASE MarkFirstByte(r)
    <2> DEFINE marked == [attempts[r] EXCEPT ![Len(attempts[r])].firstByte = TRUE]
             row == [LastAttempt(r) EXCEPT !.firstByte = TRUE]
    <2>1. LastAttempt(r) \in AttemptRow /\ Len(attempts[r]) \in 1 .. MaxAttempts
      BY <1>6, LastAttemptTypes DEF MarkFirstByte
    <2>2. row \in AttemptRow
      BY <2>1 DEF AttemptRow
    <2>3. marked = [attempts[r] EXCEPT ![Len(attempts[r])] = row]
      BY DEF LastAttempt
    <2>4. attempts' = [attempts EXCEPT ![r] = marked]
      BY <1>6 DEF MarkFirstByte
    <2>5. marked \in Seq(AttemptRow) /\ Len(marked) = Len(attempts[r])
      <3>1. attempts[r] \in Seq(AttemptRow)
        BY DEF TypeOK
      <3> HIDE DEF row, marked
      <3> QED
        BY <2>1, <2>2, <2>3, <3>1
    <2> HIDE DEF marked
    <2>6. /\ attempts' \in [Requests -> Seq(AttemptRow)]
          /\ \A q \in Requests : Len(attempts'[q]) <= MaxAttempts
      BY <2>4, <2>5 DEF TypeOK
    <2>7. logical' \in [Requests -> LogicalRow]
      BY <1>6 DEF MarkFirstByte, TypeOK, LogicalRow, LogicalStatus, FailureCode
    <2> QED
      BY <1>6, <2>6, <2>7 DEF MarkFirstByte, TypeOK, NoOverspend, Occupancy
  <1> QED
    BY <1>1, <1>2, <1>3, <1>4, <1>5, <1>6

-----------------------------------------------------------------------------
\* The invariant holds in the empty database.
LEMMA BudgetInit == Init => BudgetInv
  <1> SUFFICES ASSUME Init PROVE BudgetInv
    OBVIOUS
  <1>1. TypeOK
    BY ClockBounds, AttemptBound
    DEF Init, TypeOK, Times, LogicalRow, LogicalStatus, FailureCode, ReservationRow, ReservationStatus,
        EntryRow, NoEntry, BucketRow, NoBucket
  <1>2. NoOverspend
    BY DEF Init, NoOverspend, Occupancy, NoBucket
  <1> QED
    BY <1>1, <1>2 DEF BudgetInv

\* Every step of every caller, of the recovery worker and of the clock
\* preserves it.
LEMMA BudgetStep == BudgetInv /\ [Next]_vars => BudgetInv'
  <1> SUFFICES ASSUME BudgetInv, [Next]_vars PROVE BudgetInv'
    OBVIOUS
  <1>1. ASSUME NEW r \in Requests, Call(r) PROVE BudgetInv'
    BY <1>1, LifecycleKeeps, ReserveKeeps, DenyKeeps, RetryKeeps, SettleForRetryKeeps,
       SettleFinalKeeps, FinalizeKeeps, ReleaseKeeps
    DEF Call, ReleaseBeforeDispatch, ReservationStatus
  <1>2. ASSUME NEW r \in Requests, Recover(r) PROVE BudgetInv'
    <2>1. RecoveredOutcome \in Outcomes
      BY DEF RecoveredOutcome, Outcomes, UnknownOutcome, ClosedStatus, AttemptStatus
    <2>2. "expired" \in ReservationStatus
      BY DEF ReservationStatus
    <2> QED
      BY <1>2, <2>1, <2>2, LifecycleKeeps, SettleFinalKeeps, FinalizeKeeps, ReleaseKeeps
      DEF Recover, ReleaseExpiredUndispatched, ReconcilePendingUsage,
          ReleaseExpiredConcurrencyLeases, RecoverDispatched
  <1>3. CASE Tick
    BY <1>3, ClockBounds DEF Tick, BudgetInv, TypeOK, NoOverspend, Occupancy, Times
  <1>4. CASE UNCHANGED vars
    BY <1>4 DEF vars, BudgetInv, TypeOK, NoOverspend, Occupancy
  <1> QED
    BY <1>1, <1>2, <1>3, <1>4 DEF Next

\* The tables stay well formed.
THEOREM TypeCorrect == Spec => []TypeOK
  <1>1. Spec => []BudgetInv
    BY BudgetInit, BudgetStep, PTL DEF Spec
  <1> QED
    BY <1>1, PTL DEF BudgetInv

\* No interleaving of reservations, retries, settlements, releases and
\* recoveries, for any number of requests, limits, windows and revisions,
\* takes a bucket's used plus reserved units over its maximum.
THEOREM BudgetRespected == Spec => []NoOverspend
  <1>1. Spec => []BudgetInv
    BY BudgetInit, BudgetStep, PTL DEF Spec
  <1> QED
    BY <1>1, PTL DEF BudgetInv

-----------------------------------------------------------------------------
(* The ledger is exact. *)

\* Units of the requests, F[q] those of request q.
Stack(F) == UNION {{q} \X F[q] : q \in Requests}

\* Pairing with one request keeps the number of units.
LEMMA Tagged ==
    ASSUME NEW r, NEW S, IsFiniteSet(S)
    PROVE  IsFiniteSet({r} \X S) /\ Cardinality({r} \X S) = Cardinality(S)
  <1>1. IsFiniteSet({r}) /\ Cardinality({r}) = 1
    BY FS_Singleton
  <1>2. Cardinality(S) \in Nat
    BY FS_CardinalityType
  <1>3. IsFiniteSet({r} \X S) /\ Cardinality({r} \X S) = Cardinality({r}) * Cardinality(S)
    BY <1>1, FS_Product
  <1> QED
    BY <1>1, <1>2, <1>3

\* The units of the requests in a set, when there are finitely many of each.
LEMMA PartFinite ==
    ASSUME NEW R \in SUBSET Requests, NEW F, \A q \in R : IsFiniteSet(F[q])
    PROVE  IsFiniteSet(UNION {{q} \X F[q] : q \in R})
  <1> DEFINE T == {{q} \X F[q] : q \in R}
             f == [q \in R |-> {q} \X F[q]]
  <1>1. IsFiniteSet(R)
    BY RequestsFinite, FS_Subset
  <1>2. f \in Surjection(R, T)
    BY DEF Surjection
  <1>3. IsFiniteSet(T)
    BY <1>1, <1>2, FS_Surjection
  <1>4. \A X \in T : IsFiniteSet(X)
    BY Tagged
  <1> QED
    BY <1>3, <1>4, FS_UNION

\* When the stack of one request changes, the whole changes by as much.
LEMMA Restack ==
    ASSUME NEW r \in Requests, NEW F, NEW G,
           \A q \in Requests : IsFiniteSet(F[q]) /\ IsFiniteSet(G[q]),
           \A q \in Requests : q # r => G[q] = F[q]
    PROVE  /\ Cardinality(Stack(F)) \in Nat
           /\ Cardinality(Stack(G)) \in Nat
           /\ Cardinality(Stack(G)) + Cardinality(F[r]) = Cardinality(Stack(F)) + Cardinality(G[r])
  <1> DEFINE others == UNION {{q} \X F[q] : q \in Requests \ {r}}
  <1>1. IsFiniteSet(others) /\ Cardinality(others) \in Nat
    <2>1. Requests \ {r} \in SUBSET Requests /\ \A q \in Requests \ {r} : IsFiniteSet(F[q])
      OBVIOUS
    <2>2. IsFiniteSet(others)
      BY <2>1, PartFinite
    <2> HIDE DEF others
    <2> QED
      BY <2>2, FS_CardinalityType
  <1>2. Stack(F) = others \cup ({r} \X F[r])
    BY DEF Stack
  <1>3. Stack(G) = others \cup ({r} \X G[r])
    BY DEF Stack
  <1>4. others \cap ({r} \X F[r]) = {} /\ others \cap ({r} \X G[r]) = {}
    OBVIOUS
  <1> HIDE DEF others
  <1>5. /\ IsFiniteSet({r} \X F[r]) /\ Cardinality({r} \X F[r]) = Cardinality(F[r])
        /\ IsFiniteSet({r} \X G[r]) /\ Cardinality({r} \X G[r]) = Cardinality(G[r])
        /\ Cardinality(F[r]) \in Nat /\ Cardinality(G[r]) \in Nat
    BY Tagged, FS_CardinalityType
  <1>6. Cardinality(Stack(F)) = Cardinality(others) + Cardinality(F[r]) - Cardinality({})
    BY <1>1, <1>2, <1>4, <1>5, FS_Union
  <1>7. Cardinality(Stack(G)) = Cardinality(others) + Cardinality(G[r]) - Cardinality({})
    BY <1>1, <1>3, <1>4, <1>5, FS_Union
  <1> QED
    BY <1>1, <1>5, <1>6, <1>7, FS_EmptySet

\* Stacks of the same heights hold the same number of units.
LEMMA SameHeights ==
    ASSUME NEW F, NEW H, \A q \in Requests : IsFiniteSet(F[q]) /\ H[q] = Cardinality(F[q])
    PROVE  Cardinality(UNION {{q} \X (1 .. H[q]) : q \in Requests}) = Cardinality(Stack(F))
  <1> DEFINE G == UNION {{q} \X (1 .. H[q]) : q \in Requests}
             count == [q \in Requests |-> CHOOSE h : h \in Bijection(1 .. H[q], F[q])]
             pair == [p \in G |-> <<p[1], count[p[1]][p[2]]>>]
  <1>1. \A q \in Requests : H[q] \in Nat
    BY FS_CardinalityType
  <1>2. \A q \in Requests : count[q] \in Bijection(1 .. H[q], F[q])
    <2> TAKE q \in Requests
    <2>1. \E h : h \in Bijection(1 .. H[q], F[q])
      <3>1. PICK n \in Nat : ExistsBijection(1 .. n, F[q])
        BY FS_NatBijection
      <3>2. n = H[q]
        BY <3>1, FS_CountingElements
      <3> QED
        BY <3>1, <3>2 DEF ExistsBijection
    <2> QED
      BY <2>1
  <1> HIDE DEF count
  <1>3. IsFiniteSet(G)
    <2> DEFINE tower == [q \in Requests |-> 1 .. H[q]]
    <2>1. \A q \in Requests : tower[q] = 1 .. H[q]
      OBVIOUS
    <2>2. \A q \in Requests : IsFiniteSet(tower[q])
      BY <1>1, <2>1, FS_Interval
    <2> HIDE DEF tower
    <2>3. IsFiniteSet(UNION {{q} \X tower[q] : q \in Requests})
      <3>1. Requests \in SUBSET Requests
        OBVIOUS
      <3> QED
        BY <2>2, <3>1, PartFinite
    <2>4. UNION {{q} \X tower[q] : q \in Requests} = G
      BY <2>1
    <2> QED
      BY <2>3, <2>4
  <1>4. pair \in Bijection(G, Stack(F))
    <2>1. ASSUME NEW p \in G
          PROVE  /\ p = <<p[1], p[2]>> /\ p[1] \in Requests /\ p[2] \in 1 .. H[p[1]]
                 /\ pair[p] = <<p[1], count[p[1]][p[2]]>>
                 /\ count[p[1]][p[2]] \in F[p[1]]
      <3>1. PICK q \in Requests : p \in {q} \X (1 .. H[q])
        OBVIOUS
      <3>2. p = <<p[1], p[2]>> /\ p[1] = q /\ p[2] \in 1 .. H[q]
        BY <3>1
      <3>3. count[q] \in [1 .. H[q] -> F[q]]
        BY <1>2 DEF Bijection, Injection
      <3>4. count[q][p[2]] \in F[q]
        BY <3>2, <3>3
      <3>5. pair[p] = <<p[1], count[p[1]][p[2]]>>
        OBVIOUS
      <3> QED
        BY <3>2, <3>4, <3>5
    <2>2. pair \in [G -> Stack(F)]
      <3>1. ASSUME NEW p \in G PROVE <<p[1], count[p[1]][p[2]]>> \in Stack(F)
        <4>1. <<p[1], count[p[1]][p[2]]>> \in {p[1]} \X F[p[1]] /\ p[1] \in Requests
          BY <2>1
        <4> HIDE DEF G
        <4> QED
          BY <4>1 DEF Stack
      <3> HIDE DEF G
      <3> QED
        BY <3>1
    <2>3. \A p, o \in G : pair[p] = pair[o] => p = o
      <3> TAKE p, o \in G
      <3> HAVE pair[p] = pair[o]
      <3>1. p[1] = o[1] /\ count[p[1]][p[2]] = count[p[1]][o[2]]
        BY <2>1
      <3>2. p[2] = o[2]
        BY <2>1, <3>1, <1>2 DEF Bijection, Injection, IsInjective
      <3>3. p = <<p[1], p[2]>> /\ o = <<o[1], o[2]>>
        BY <2>1
      <3> QED
        BY <3>1, <3>2, <3>3
    <2>4. \A y \in Stack(F) : \E p \in G : pair[p] = y
      <3> TAKE y \in Stack(F)
      <3>1. PICK q \in Requests : y \in {q} \X F[q]
        BY DEF Stack
      <3>2. PICK n \in 1 .. H[q] : count[q][n] = y[2]
        BY <3>1, <1>2 DEF Bijection, Surjection
      <3>3. <<q, n>> \in G
        BY <3>2
      <3> WITNESS <<q, n>> \in G
      <3> QED
        BY <3>1, <3>2, <3>3
    <2> HIDE DEF pair, G
    <2> QED
      BY <2>2, <2>3, <2>4 DEF Bijection, Injection, Surjection, IsInjective
  <1> HIDE DEF pair, G
  <1>5. ExistsBijection(G, Stack(F))
    BY <1>4 DEF ExistsBijection
  <1>6. Cardinality(Stack(F)) = Cardinality(G)
    BY <1>3, <1>5, FS_Bijection
  <1> QED
    BY <1>6 DEF G

-----------------------------------------------------------------------------
(* The inductive invariant: what the rows of one request say of each other. *)

\* What an entry of table en still holds of bucket b.
Left(en, b) == en[b].reserved - en[b].settled - en[b].released

\* The closed attempts among at that were allocated b.
ClosedFor(at, b) == {n \in DOMAIN at : b \in at[n].buckets /\ at[n].status # "started"}

\* A request without a reservation holds nothing.
FreshRow(lg, rs, en, at, ls) ==
    lg.status \in {"absent", "authenticated"} =>
        /\ rs.status = "none" /\ at = <<>> /\ ls = {}
        /\ \A b \in Buckets : en[b] = NoEntry

\* Before the first attempt every entry is as Reserve inserted it.
WholeRow(rs, en, at) ==
    rs.status = "pending" /\ at = <<>> =>
        \A b \in Buckets : en[b].origin > 0 =>
            en[b] = [origin |-> 1, reserved |-> UnitsOf(1, b), settled |-> 0, released |-> 0]

\* Leases belong to open reservations.
LeaseRow(rs, ls) == ls # {} => rs.status = "pending"

\* A missing entry holds nothing; an entry never gives back more than it
\* reserved, and keeps the allocation of an open attempt; and what it has
\* charged is what its metric counts.
UnitRow(rs, en, at, ls, b) ==
    /\ en[b].origin = 0 => en[b] = NoEntry
    /\ Left(en, b) >= 0
    /\ at # <<>> /\ at[Len(at)].status = "started" /\ b \in at[Len(at)].buckets =>
          Left(en, b) >= UnitsOf(Len(at), b)
    /\ MetricOf(b) = "logical_requests" =>
          en[b].settled = IF en[b].origin > 0 /\ rs.status = "settled" THEN 1 ELSE 0
    /\ MetricOf(b) = "upstream_attempts" => en[b].settled = Cardinality(ClosedFor(at, b))
    /\ MetricOf(b) = "concurrency" =>
          en[b].settled = 0 /\ Left(en, b) = IF b \in ls THEN 1 ELSE 0

RowSound(lg, rs, en, at, ls) ==
    /\ FreshRow(lg, rs, en, at, ls)
    /\ WholeRow(rs, en, at)
    /\ LeaseRow(rs, ls)
    /\ \A b \in Buckets : UnitRow(rs, en, at, ls, b)

RowsSound ==
    \A r \in Requests : RowSound(logical[r], reservation[r], entry[r], attempts[r], leases[r])

LedgerInv == BudgetInv /\ RowsSound /\ LedgerBalances

\* The step leaves the rows of every other request alone.
OnlyRow(r) ==
    \A q \in Requests : q # r => /\ logical'[q] = logical[q]
                                 /\ reservation'[q] = reservation[q]
                                 /\ entry'[q] = entry[q]
                                 /\ attempts'[q] = attempts[q]
                                 /\ leases'[q] = leases[q]

\* The columns of a bucket change by what the entry of r changes by.
BalancedStep(r) ==
    \A b \in Buckets :
        /\ bucket'[b].reserved + Left(entry[r], b) = bucket[b].reserved + Left(entry'[r], b)
        /\ bucket'[b].used + entry[r][b].settled = bucket[b].used + entry'[r][b].settled

RowSoundStep(r) == RowSound(logical'[r], reservation'[r], entry'[r], attempts'[r], leases'[r])

\* The cardinalities of the ledger are those of stacks.
LEMMA Columns ==
    ASSUME NEW b
    PROVE  /\ HeldUnits(b) = Stack([q \in Requests |-> 1 .. Left(entry[q], b)])
           /\ ChargedBy(b) = Stack([q \in Requests |-> 1 .. entry[q][b].settled])
  BY DEF HeldUnits, ChargedBy, Stack, Left, Outstanding

\* The same in the next state.
LEMMA ColumnsNext ==
    ASSUME NEW b
    PROVE  /\ HeldUnits(b)' = Stack([q \in Requests |-> 1 .. Left(entry'[q], b)])
           /\ ChargedBy(b)' = Stack([q \in Requests |-> 1 .. entry'[q][b].settled])
  BY DEF HeldUnits, ChargedBy, Stack, Left, Outstanding

\* Stacks of intervals: the whole grows by as much as one of them does.
LEMMA RestackCounts ==
    ASSUME NEW r \in Requests, NEW f, NEW g,
           \A q \in Requests : f[q] \in Nat /\ g[q] \in Nat,
           \A q \in Requests : q # r => g[q] = f[q]
    PROVE  LET F == [q \in Requests |-> 1 .. f[q]]
               G == [q \in Requests |-> 1 .. g[q]]
           IN  /\ Cardinality(Stack(F)) \in Nat
               /\ Cardinality(Stack(G)) \in Nat
               /\ Cardinality(Stack(G)) + f[r] = Cardinality(Stack(F)) + g[r]
  <1> DEFINE F == [q \in Requests |-> 1 .. f[q]]
             G == [q \in Requests |-> 1 .. g[q]]
  <1>1. \A q \in Requests : F[q] = 1 .. f[q] /\ G[q] = 1 .. g[q]
    OBVIOUS
  <1>2. \A q \in Requests : q # r => G[q] = F[q]
    BY <1>1
  <1> HIDE DEF F, G
  <1>3. \A n \in Nat : IsFiniteSet(1 .. n) /\ Cardinality(1 .. n) = n
    BY FS_Interval
  <1>4. \A q \in Requests : IsFiniteSet(F[q]) /\ IsFiniteSet(G[q])
    BY <1>1, <1>3
  <1>5. Cardinality(F[r]) = f[r] /\ Cardinality(G[r]) = g[r]
    BY <1>1, <1>3
  <1>6. /\ Cardinality(Stack(F)) \in Nat
        /\ Cardinality(Stack(G)) \in Nat
        /\ Cardinality(Stack(G)) + Cardinality(F[r]) = Cardinality(Stack(F)) + Cardinality(G[r])
    BY <1>2, <1>4, Restack
  <1> QED
    BY <1>5, <1>6 DEF F, G

\* A step that is sound for the rows of r and leaves the others alone keeps
\* the rows sound and the columns balanced.
LEMMA OneRowStep ==
    ASSUME LedgerInv, BudgetInv', NEW r \in Requests, OnlyRow(r), RowSoundStep(r), BalancedStep(r)
    PROVE  LedgerInv'
  <1>1. RowsSound'
    <2>1. \A q \in Requests : RowSound(logical'[q], reservation'[q], entry'[q], attempts'[q], leases'[q])
      BY DEF LedgerInv, RowsSound, OnlyRow, RowSoundStep
    <2> QED
      BY <2>1 DEF RowsSound
  <1>2. ASSUME NEW b \in Buckets
        PROVE  /\ bucket'[b].reserved = Cardinality(HeldUnits(b)')
               /\ bucket'[b].used = Cardinality(ChargedBy(b)')
    <2>1. \A q \in Requests : /\ entry[q][b] \in EntryRow
                              /\ entry'[q][b] \in EntryRow
                              /\ Left(entry[q], b) >= 0
                              /\ Left(entry'[q], b) >= 0
      BY <1>1 DEF LedgerInv, BudgetInv, TypeOK, RowsSound, RowSound, UnitRow
    <2>2. bucket[b] \in BucketRow /\ bucket'[b] \in BucketRow
      BY DEF LedgerInv, BudgetInv, TypeOK
    <2>3. /\ bucket[b].reserved = Cardinality(HeldUnits(b))
          /\ bucket[b].used = Cardinality(ChargedBy(b))
      BY DEF LedgerInv, LedgerBalances
    <2> DEFINE f == [q \in Requests |-> Left(entry[q], b)]
               g == [q \in Requests |-> Left(entry'[q], b)]
               u == [q \in Requests |-> entry[q][b].settled]
               w == [q \in Requests |-> entry'[q][b].settled]
    <2>4. \A q \in Requests : f[q] \in Nat /\ g[q] \in Nat /\ u[q] \in Nat /\ w[q] \in Nat
      BY <2>1 DEF EntryRow, Left
    <2>5. \A q \in Requests : q # r => g[q] = f[q] /\ w[q] = u[q]
      BY DEF OnlyRow
    <2>6. /\ f[r] = Left(entry[r], b) /\ g[r] = Left(entry'[r], b)
          /\ u[r] = entry[r][b].settled /\ w[r] = entry'[r][b].settled
      OBVIOUS
    <2>7. /\ HeldUnits(b) = Stack([q \in Requests |-> 1 .. f[q]])
          /\ HeldUnits(b)' = Stack([q \in Requests |-> 1 .. g[q]])
          /\ ChargedBy(b) = Stack([q \in Requests |-> 1 .. u[q]])
          /\ ChargedBy(b)' = Stack([q \in Requests |-> 1 .. w[q]])
      BY Columns, ColumnsNext
    <2> HIDE DEF f, g, u, w
    <2>8. /\ Cardinality(HeldUnits(b)) \in Nat /\ Cardinality(HeldUnits(b)') \in Nat
          /\ Cardinality(HeldUnits(b)') + f[r] = Cardinality(HeldUnits(b)) + g[r]
      BY <2>4, <2>5, <2>7, RestackCounts
    <2>9. /\ Cardinality(ChargedBy(b)) \in Nat /\ Cardinality(ChargedBy(b)') \in Nat
          /\ Cardinality(ChargedBy(b)') + u[r] = Cardinality(ChargedBy(b)) + w[r]
      BY <2>4, <2>5, <2>7, RestackCounts
    <2>10. /\ bucket'[b].reserved + f[r] = bucket[b].reserved + g[r]
           /\ bucket'[b].used + u[r] = bucket[b].used + w[r]
      BY <2>6 DEF BalancedStep
    <2>11. f[r] \in Nat /\ g[r] \in Nat /\ u[r] \in Nat /\ w[r] \in Nat
      BY <2>4
    <2> QED
      BY <2>2, <2>3, <2>8, <2>9, <2>10, <2>11 DEF BucketRow
  <1> QED
    BY <1>1, <1>2 DEF LedgerInv, LedgerBalances


-----------------------------------------------------------------------------
(* The invariant implies the property. *)

\* Stacks of height one or zero count the requests that have one.
LEMMA Ones ==
    ASSUME NEW h, NEW S \in SUBSET Requests,
           \A q \in Requests : h[q] = IF q \in S THEN 1 ELSE 0
    PROVE  Cardinality(Stack([q \in Requests |-> 1 .. h[q]])) = Cardinality(S)
  <1>1. IsFiniteSet(S)
    BY RequestsFinite, FS_Subset
  <1>2. Stack([q \in Requests |-> 1 .. h[q]]) = S \X {1}
    <2>1. 1 .. 1 = {1} /\ 1 .. 0 = {}
      OBVIOUS
    <2>2. \A q \in Requests : 1 .. h[q] = IF q \in S THEN {1} ELSE {}
      BY <2>1
    <2> QED
      BY <2>2 DEF Stack
  <1>3. IsFiniteSet({1}) /\ Cardinality({1}) = 1
    BY FS_Singleton
  <1>4. Cardinality(S \X {1}) = Cardinality(S) * Cardinality({1})
    BY <1>1, <1>3, FS_Product
  <1>5. Cardinality(S) \in Nat
    BY <1>1, FS_CardinalityType
  <1>6. Cardinality(S \X {1}) = Cardinality(S)
    BY <1>3, <1>4, <1>5
  <1> QED
    BY <1>2, <1>6

\* A sequence has finitely many closed attempts.
LEMMA ClosedFinite ==
    ASSUME NEW at \in Seq(AttemptRow), NEW b
    PROVE  IsFiniteSet(ClosedFor(at, b))
  <1>1. DOMAIN at = 1 .. Len(at) /\ Len(at) \in Nat
    OBVIOUS
  <1>2. IsFiniteSet(1 .. Len(at))
    BY <1>1, FS_Interval
  <1>3. ClosedFor(at, b) \in SUBSET (1 .. Len(at))
    BY <1>1 DEF ClosedFor
  <1> QED
    BY <1>2, <1>3, FS_Subset

\* Counts and leases follow from the balanced columns.
LEMMA ExactLedger == LedgerInv => LedgerExact
  <1> SUFFICES ASSUME LedgerInv PROVE LedgerExact
    OBVIOUS
  <1>1. \A r \in Requests, b \in Buckets :
            UnitRow(reservation[r], entry[r], attempts[r], leases[r], b)
    BY DEF LedgerInv, RowsSound, RowSound
  <1>2. \A b \in Buckets : /\ bucket[b].reserved = Cardinality(HeldUnits(b))
                           /\ bucket[b].used = Cardinality(ChargedBy(b))
    BY DEF LedgerInv, LedgerBalances
  <1>3. ASSUME NEW b \in Buckets, MetricOf(b) = "logical_requests"
        PROVE  bucket[b].used = Cardinality({r \in Requests :
                   b \in Entries(r) /\ reservation[r].status = "settled"})
    <2> DEFINE h == [q \in Requests |-> entry[q][b].settled]
               S == {r \in Requests : b \in Entries(r) /\ reservation[r].status = "settled"}
    <2>1. \A q \in Requests : h[q] = IF q \in S THEN 1 ELSE 0
      BY <1>1, <1>3 DEF UnitRow, Entries
    <2>2. ChargedBy(b) = Stack([q \in Requests |-> 1 .. h[q]])
      BY Columns
    <2> HIDE DEF h
    <2>3. Cardinality(ChargedBy(b)) = Cardinality(S)
      BY <2>1, <2>2, Ones
    <2> QED
      BY <1>2, <2>3
  <1>4. ASSUME NEW b \in Buckets, MetricOf(b) = "upstream_attempts"
        PROVE  bucket[b].used = Cardinality(UNION {
                   {r} \X {n \in DOMAIN attempts[r] : /\ b \in attempts[r][n].buckets
                                                     /\ attempts[r][n].status # "started"} :
                   r \in Requests})
    <2> DEFINE F == [q \in Requests |-> ClosedFor(attempts[q], b)]
               H == [q \in Requests |-> entry[q][b].settled]
    <2>1. \A q \in Requests : IsFiniteSet(F[q]) /\ H[q] = Cardinality(F[q])
      BY <1>1, <1>4, ClosedFinite DEF LedgerInv, BudgetInv, TypeOK, UnitRow
    <2>2. ChargedBy(b) = UNION {{q} \X (1 .. H[q]) : q \in Requests}
      BY DEF ChargedBy
    <2>3. Stack(F) = UNION {
                   {r} \X {n \in DOMAIN attempts[r] : /\ b \in attempts[r][n].buckets
                                                     /\ attempts[r][n].status # "started"} :
                   r \in Requests}
      BY DEF Stack, ClosedFor
    <2> HIDE DEF F, H
    <2>4. Cardinality(ChargedBy(b)) = Cardinality(Stack(F))
      BY <2>1, <2>2, SameHeights
    <2> QED
      BY <1>2, <2>3, <2>4
  <1>5. ASSUME NEW b \in Buckets, MetricOf(b) = "concurrency"
        PROVE  /\ bucket[b].used = 0
               /\ bucket[b].reserved = Cardinality({r \in Requests : b \in leases[r]})
               /\ \A r \in Requests : b \in leases[r] => Pending(r)
    <2> DEFINE h == [q \in Requests |-> Left(entry[q], b)]
               u == [q \in Requests |-> entry[q][b].settled]
               S == {r \in Requests : b \in leases[r]}
    <2>1. \A q \in Requests : h[q] = (IF q \in S THEN 1 ELSE 0) /\ u[q] = IF q \in {} THEN 1 ELSE 0
      BY <1>1, <1>5 DEF UnitRow
    <2>2. /\ HeldUnits(b) = Stack([q \in Requests |-> 1 .. h[q]])
          /\ ChargedBy(b) = Stack([q \in Requests |-> 1 .. u[q]])
      BY Columns
    <2>3. \A r \in Requests : b \in leases[r] => Pending(r)
      BY DEF LedgerInv, RowsSound, RowSound, LeaseRow, Pending
    <2> HIDE DEF h, u
    <2>4. Cardinality(HeldUnits(b)) = Cardinality(S)
      BY <2>1, <2>2, Ones
    <2>5. Cardinality(ChargedBy(b)) = Cardinality({})
      <3>1. {} \in SUBSET Requests
        OBVIOUS
      <3> QED
        BY <2>1, <2>2, <3>1, Ones
    <2> QED
      BY <1>2, <2>3, <2>4, <2>5, FS_EmptySet
  <1> QED
    BY <1>3, <1>4, <1>5 DEF LedgerInv, LedgerExact, CountsAreExact, LeasesBackConcurrency

-----------------------------------------------------------------------------
(* The effects the actions are made of. *)

\* A move of units changes the entries of one request, and the columns by as
\* much.
LEMMA MoveEffect ==
    ASSUME TypeOK, NEW r \in Requests,
           NEW out \in [Buckets -> Nat], NEW charged \in [Buckets -> Nat],
           MoveUnits(r, out, charged)
    PROVE  /\ \A q \in Requests : q # r => entry'[q] = entry[q]
           /\ \A b \in Buckets :
                 /\ entry'[r][b].origin = entry[r][b].origin
                 /\ entry'[r][b].settled = entry[r][b].settled + charged[b]
                 /\ Left(entry'[r], b) = Left(entry[r], b) - out[b]
                 /\ entry[r][b] = NoEntry /\ out[b] = 0 /\ charged[b] = 0 => entry'[r][b] = NoEntry
           /\ BalancedStep(r)
  <1>1. \A q \in Requests : q # r => entry'[q] = entry[q]
    BY DEF MoveUnits, TypeOK
  <1>2. \A b \in Buckets : entry'[r][b] =
            [origin |-> entry[r][b].origin, reserved |-> entry[r][b].reserved,
             settled |-> entry[r][b].settled + charged[b],
             released |-> entry[r][b].released + (out[b] - charged[b])]
    BY DEF MoveUnits, TypeOK
  <1>3. \A b \in Buckets : entry[r][b] \in EntryRow /\ bucket[b] \in BucketRow
    BY DEF TypeOK
  <1>4. \A b \in Buckets : /\ bucket'[b].used = bucket[b].used + charged[b]
                           /\ bucket'[b].reserved = bucket[b].reserved - out[b]
    BY DEF MoveUnits
  <1>5. \A b \in Buckets :
            /\ entry'[r][b].origin = entry[r][b].origin
            /\ entry'[r][b].settled = entry[r][b].settled + charged[b]
            /\ Left(entry'[r], b) = Left(entry[r], b) - out[b]
    <2> TAKE b \in Buckets
    <2>1. out[b] \in Nat /\ charged[b] \in Nat
      OBVIOUS
    <2>2. /\ entry[r][b].reserved \in Nat
          /\ entry[r][b].settled \in Nat
          /\ entry[r][b].released \in Nat
      BY <1>3 DEF EntryRow
    <2>3. /\ entry'[r][b].origin = entry[r][b].origin
          /\ entry'[r][b].reserved = entry[r][b].reserved
          /\ entry'[r][b].settled = entry[r][b].settled + charged[b]
          /\ entry'[r][b].released = entry[r][b].released + (out[b] - charged[b])
      <3> DEFINE settled == entry[r][b].settled + charged[b]
                 released == entry[r][b].released + (out[b] - charged[b])
      <3>1. entry'[r][b] = [origin |-> entry[r][b].origin, reserved |-> entry[r][b].reserved,
                            settled |-> settled, released |-> released]
        BY <1>2
      <3> HIDE DEF settled, released
      <3>2. /\ entry'[r][b].origin = entry[r][b].origin
            /\ entry'[r][b].reserved = entry[r][b].reserved
            /\ entry'[r][b].settled = settled
            /\ entry'[r][b].released = released
        BY <3>1
      <3> QED
        BY <3>2 DEF settled, released
    <2> QED
      BY <2>1, <2>2, <2>3 DEF Left
  <1>6. \A b \in Buckets :
            entry[r][b] = NoEntry /\ out[b] = 0 /\ charged[b] = 0 => entry'[r][b] = NoEntry
    BY <1>2 DEF NoEntry
  <1>7. BalancedStep(r)
    BY <1>3, <1>4, <1>5 DEF BalancedStep, EntryRow, BucketRow, Left
  <1> QED
    BY <1>1, <1>5, <1>6, <1>7

\* Closing the open attempt adds it to the closed ones of its buckets.
LEMMA CloseEffect ==
    ASSUME TypeOK, NEW r \in Requests, NEW outcome \in Outcomes, attempts[r] # <<>>,
           LastAttempt(r).status = "started", CloseAttempt(r, outcome)
    PROVE  /\ \A q \in Requests : q # r => attempts'[q] = attempts[q]
           /\ attempts'[r] # <<>> /\ Len(attempts'[r]) = Len(attempts[r])
           /\ attempts'[r][Len(attempts[r])].status # "started"
           /\ \A b \in Buckets :
                 Cardinality(ClosedFor(attempts'[r], b)) =
                     Cardinality(ClosedFor(attempts[r], b)) +
                         IF b \in LastAttempt(r).buckets THEN 1 ELSE 0
           /\ \A n \in 1 .. Len(attempts[r]) :
                 attempts[r][n].status # "started" => attempts'[r][n] = attempts[r][n]
  <1> DEFINE n == Len(attempts[r])
             row == [status |-> outcome.status, firstByte |-> LastAttempt(r).firstByte,
                     buckets |-> LastAttempt(r).buckets, charged |-> AttemptCharge(r, outcome)]
  <1>1. attempts[r] \in Seq(AttemptRow) /\ n \in 1 .. MaxAttempts
    BY LastAttemptTypes DEF TypeOK
  <1>2. attempts' = [attempts EXCEPT ![r] = [attempts[r] EXCEPT ![n] = row]]
    BY DEF CloseAttempt
  <1>3. outcome.status # "started"
    BY OutcomeTypes DEF ClosedStatus
  <1>4. row.status # "started" /\ row.buckets = LastAttempt(r).buckets
    BY <1>3
  <1>5. attempts[r][n] = LastAttempt(r)
    BY DEF LastAttempt
  <1> HIDE DEF n, row
  <1>6. attempts'[r] = [attempts[r] EXCEPT ![n] = row] /\ \A q \in Requests : q # r => attempts'[q] = attempts[q]
    BY <1>2 DEF TypeOK
  <1>7. DOMAIN attempts[r] = 1 .. Len(attempts[r]) /\ n \in 1 .. Len(attempts[r])
    BY <1>1 DEF n
  <1>8. /\ DOMAIN attempts'[r] = 1 .. Len(attempts[r]) /\ Len(attempts'[r]) = Len(attempts[r])
        /\ attempts'[r] # <<>>
        /\ attempts'[r][n] = row
        /\ \A k \in 1 .. Len(attempts[r]) : k # n => attempts'[r][k] = attempts[r][k]
    BY <1>1, <1>6, <1>7
  <1>9. ASSUME NEW b \in Buckets
        PROVE  Cardinality(ClosedFor(attempts'[r], b)) =
                   Cardinality(ClosedFor(attempts[r], b)) +
                       IF b \in LastAttempt(r).buckets THEN 1 ELSE 0
    <2>1. IsFiniteSet(ClosedFor(attempts[r], b)) /\ n \notin ClosedFor(attempts[r], b)
      BY <1>1, <1>5, ClosedFinite DEF ClosedFor
    <2>2. ClosedFor(attempts'[r], b) =
              IF b \in LastAttempt(r).buckets THEN ClosedFor(attempts[r], b) \cup {n}
                                              ELSE ClosedFor(attempts[r], b)
      BY <1>4, <1>5, <1>7, <1>8 DEF ClosedFor
    <2>3. Cardinality(ClosedFor(attempts[r], b)) \in Nat
      BY <2>1, FS_CardinalityType
    <2>4. Cardinality(ClosedFor(attempts[r], b) \cup {n}) = Cardinality(ClosedFor(attempts[r], b)) + 1
      BY <2>1, FS_AddElement
    <2> QED
      BY <2>2, <2>3, <2>4
  <1>10. \A k \in 1 .. Len(attempts[r]) :
            attempts[r][k].status # "started" => attempts'[r][k] = attempts[r][k]
    BY <1>5, <1>8
  <1> QED
    BY <1>4, <1>6, <1>8, <1>9, <1>10 DEF n

\* Outside the per-dispatch metrics a limit counts single units.
LEMMA SingleUnits ==
    ASSUME NEW b \in Buckets, NEW n \in 1 .. MaxAttempts, MetricOf(b) # "usage"
    PROVE  UnitsOf(n, b) = 1
  BY LimitTypes DEF Buckets, MetricOf, UnitsOf

\* What the checks of a transaction on a dispatched request establish.
LEMMA DispatchedFacts ==
    ASSUME TypeOK, NEW r \in Requests, attempts[r] # <<>>, Pending(r), PendingMatches(r),
           NEW b \in Buckets
    PROVE  /\ b \in LastAttempt(r).buckets => Allocated(b) /\ entry[r][b].origin > 0
           /\ entry[r][b].origin > 0 /\ ~Allocated(b) =>
                 entry[r][b].reserved = 1 /\ entry[r][b].settled = 0 /\ entry[r][b].released = 0
  <1>1. Len(attempts[r]) \in 1 .. MaxAttempts /\ Len(attempts[r]) \in DOMAIN attempts[r]
    BY LastAttemptTypes DEF TypeOK
  <1>2. LastAttempt(r).buckets = Applicable(entry[r], Len(attempts[r]))
    BY <1>1 DEF PendingMatches, AttemptSequenceMatches, LastAttempt
  <1>3. b \in LastAttempt(r).buckets => Allocated(b) /\ entry[r][b].origin > 0
    BY <1>1, <1>2 DEF Applicable
  <1>4. ASSUME entry[r][b].origin > 0, ~Allocated(b)
        PROVE  entry[r][b].reserved = 1 /\ entry[r][b].settled = 0 /\ entry[r][b].released = 0
    <2>1. entry[r][b] \in EntryRow /\ entry[r][b].origin \in 1 .. MaxAttempts
      BY <1>4, AttemptBound DEF TypeOK, EntryRow
    <2>2. UnitsOf(entry[r][b].origin, b) = 1
      BY <1>4, <2>1, SingleUnits DEF Allocated
    <2>3. EntryStateMatches(r, b) /\ logical[r].status # "reserved"
      BY <1>4 DEF PendingMatches, Entries
    <2>4. entry[r][b].reserved = 1 /\ entry[r][b].settled + entry[r][b].released = 0
      BY <1>4, <2>1, <2>2, <2>3 DEF EntryStateMatches, EntryRow, Pending
    <2> QED
      BY <2>1, <2>4 DEF EntryRow
  <1> QED
    BY <1>3, <1>4

-----------------------------------------------------------------------------
(* One lemma per action: the rows of the request stay sound, those of the   *)
(* others stay as they are, and the columns follow.                         *)

SoundStep(r) == OnlyRow(r) /\ RowSoundStep(r) /\ BalancedStep(r)

\* What the invariant says of one request and one bucket.
LEMMA RowFacts ==
    ASSUME LedgerInv, NEW r \in Requests
    PROVE  /\ TypeOK
           /\ FreshRow(logical[r], reservation[r], entry[r], attempts[r], leases[r])
           /\ WholeRow(reservation[r], entry[r], attempts[r])
           /\ LeaseRow(reservation[r], leases[r])
           /\ \A b \in Buckets : /\ entry[r][b] \in EntryRow
                                 /\ UnitRow(reservation[r], entry[r], attempts[r], leases[r], b)
  BY DEF LedgerInv, BudgetInv, TypeOK, RowsSound, RowSound

\* An open request is neither absent nor only authenticated.
LEMMA PendingNotFresh ==
    ASSUME LedgerInv, NEW r \in Requests, Pending(r)
    PROVE  logical[r].status \notin {"absent", "authenticated"}
  BY RowFacts DEF FreshRow, Pending

\* Charges of an attempt: one call per attempt.
LEMMA AttemptCounts ==
    ASSUME NEW r \in Requests, NEW outcome \in Outcomes, NEW b \in Buckets
    PROVE  /\ b \notin LastAttempt(r).buckets =>
                 AttemptOut(r)[b] = 0 /\ AttemptCharge(r, outcome)[b] = 0
           /\ b \in LastAttempt(r).buckets =>
                 AttemptOut(r)[b] = UnitsOf(Len(attempts[r]), b)
           /\ b \in LastAttempt(r).buckets /\ MetricOf(b) = "upstream_attempts" =>
                 AttemptCharge(r, outcome)[b] = 1
  BY DEF AttemptOut, AttemptCharge, ChargedUnits

\* Settling for a retry closes the attempt and moves its allocation.
LEMMA SettleForRetrySound ==
    ASSUME LedgerInv, NEW r \in Requests, NEW outcome \in Outcomes, SettleForRetry(r, outcome)
    PROVE  SoundStep(r)
  <1> DEFINE out == AttemptOut(r)
             charged == AttemptCharge(r, outcome)
  <1>1. /\ attempts[r] # <<>> /\ LastAttempt(r).status = "started" /\ Pending(r) /\ PendingMatches(r)
        /\ ReportAccepted(r, outcome) /\ CloseAttempt(r, outcome) /\ MoveUnits(r, out, charged)
        /\ UNCHANGED <<logical, reservation, leases>>
    BY DEF SettleForRetry, Settleable
  <1>2. TypeOK
    BY RowFacts
  <1>3. out \in [Buckets -> Nat] /\ charged \in [Buckets -> Nat]
    BY <1>1, <1>2, AttemptMoves
  <1>4. \A b \in Buckets :
            /\ b \notin LastAttempt(r).buckets => out[b] = 0 /\ charged[b] = 0
            /\ b \in LastAttempt(r).buckets => out[b] = UnitsOf(Len(attempts[r]), b)
            /\ b \in LastAttempt(r).buckets /\ MetricOf(b) = "upstream_attempts" => charged[b] = 1
    BY AttemptCounts
  <1> HIDE DEF out, charged
  <1>5. /\ \A q \in Requests : q # r => entry'[q] = entry[q]
        /\ \A b \in Buckets :
              /\ entry'[r][b].origin = entry[r][b].origin
              /\ entry'[r][b].settled = entry[r][b].settled + charged[b]
              /\ Left(entry'[r], b) = Left(entry[r], b) - out[b]
              /\ entry[r][b] = NoEntry /\ out[b] = 0 /\ charged[b] = 0 => entry'[r][b] = NoEntry
        /\ BalancedStep(r)
    BY <1>1, <1>2, <1>3, MoveEffect
  <1>6. /\ \A q \in Requests : q # r => attempts'[q] = attempts[q]
        /\ attempts'[r] # <<>> /\ Len(attempts'[r]) = Len(attempts[r])
        /\ attempts'[r][Len(attempts[r])].status # "started"
        /\ \A b \in Buckets :
              Cardinality(ClosedFor(attempts'[r], b)) =
                  Cardinality(ClosedFor(attempts[r], b)) +
                      IF b \in LastAttempt(r).buckets THEN 1 ELSE 0
    BY <1>1, <1>2, CloseEffect
  <1>7. OnlyRow(r)
    BY <1>1, <1>5, <1>6 DEF OnlyRow
  <1>8. ASSUME NEW b \in Buckets
        PROVE  UnitRow(reservation'[r], entry'[r], attempts'[r], leases'[r], b)
    <2>1. UnitRow(reservation[r], entry[r], attempts[r], leases[r], b) /\ entry[r][b] \in EntryRow
      BY RowFacts
    <2>2. b \in LastAttempt(r).buckets => Allocated(b) /\ entry[r][b].origin > 0
      BY <1>1, <1>2, DispatchedFacts
    <2>3. out[b] \in Nat /\ charged[b] \in Nat
      BY <1>3
    <2>4. entry'[r][b].origin = 0 => entry'[r][b] = NoEntry
      BY <1>4, <1>5, <2>1, <2>2 DEF UnitRow, EntryRow
    <2>5. Left(entry'[r], b) >= 0
      <3>1. Left(entry[r], b) \in Int
        BY <2>1 DEF EntryRow, Left
      <3>2. b \in LastAttempt(r).buckets => Left(entry[r], b) >= out[b]
        BY <1>1, <1>4, <2>1 DEF UnitRow, LastAttempt
      <3> QED
        BY <1>4, <1>5, <2>1, <2>3, <3>1, <3>2 DEF UnitRow
    <2>6. MetricOf(b) = "logical_requests" =>
              entry'[r][b].settled = IF entry'[r][b].origin > 0 /\ reservation'[r].status = "settled" THEN 1 ELSE 0
      BY <1>1, <1>4, <1>5, <2>1, <2>2, <2>3 DEF UnitRow, Allocated, EntryRow
    <2>7. MetricOf(b) = "upstream_attempts" =>
              entry'[r][b].settled = Cardinality(ClosedFor(attempts'[r], b))
      BY <1>4, <1>5, <1>6, <2>1, <2>3 DEF UnitRow, EntryRow
    <2>8. MetricOf(b) = "concurrency" =>
              entry'[r][b].settled = 0 /\ Left(entry'[r], b) = IF b \in leases'[r] THEN 1 ELSE 0
      <3>1. Left(entry[r], b) \in Int
        BY <2>1 DEF EntryRow, Left
      <3> QED
        BY <1>1, <1>4, <1>5, <2>1, <2>2, <2>3, <3>1 DEF UnitRow, Allocated, EntryRow
    <2> QED
      BY <1>6, <2>4, <2>5, <2>6, <2>7, <2>8 DEF UnitRow
  <1>9. RowSoundStep(r)
    <2>1. FreshRow(logical'[r], reservation'[r], entry'[r], attempts'[r], leases'[r])
      BY <1>1, PendingNotFresh DEF FreshRow
    <2>2. WholeRow(reservation'[r], entry'[r], attempts'[r])
      BY <1>6 DEF WholeRow
    <2>3. LeaseRow(reservation'[r], leases'[r])
      BY <1>1, RowFacts DEF LeaseRow
    <2> QED
      BY <1>8, <2>1, <2>2, <2>3 DEF RowSoundStep, RowSound
  <1> QED
    BY <1>5, <1>7, <1>9 DEF SoundStep

\* Finalising takes out the single units of the request count and of the
\* slots, and charges the former.
LEMMA FinalCounts ==
    ASSUME TypeOK, NEW r \in Requests, attempts[r] # <<>>, Pending(r), PendingMatches(r), NEW b \in Buckets
    PROVE  /\ Allocated(b) \/ entry[r][b].origin = 0 =>
                 FinalOut(r)[b] = 0 /\ FinalCharge(r)[b] = 0
           /\ ~Allocated(b) /\ entry[r][b].origin > 0 =>
                 /\ FinalOut(r)[b] = 1
                 /\ FinalCharge(r)[b] = IF MetricOf(b) = "logical_requests" THEN 1 ELSE 0
                 /\ entry[r][b].settled = 0 /\ Left(entry[r], b) = 1
  <1>1. entry[r][b] \in EntryRow
    BY DEF TypeOK
  <1>2. entry[r][b].origin > 0 /\ ~Allocated(b) =>
            entry[r][b].reserved = 1 /\ entry[r][b].settled = 0 /\ entry[r][b].released = 0
    BY DispatchedFacts
  <1>3. /\ FinalOut(r)[b] = IF entry[r][b].origin > 0 /\ ~Allocated(b) THEN entry[r][b].reserved ELSE 0
        /\ FinalCharge(r)[b] = IF MetricOf(b) = "logical_requests" THEN FinalOut(r)[b] ELSE 0
    BY DEF FinalOut, FinalCharge
  <1> QED
    BY <1>1, <1>2, <1>3 DEF Left, EntryRow

\* A request is closed by moving out the rest of its units: the open attempt,
\* if there is one, and the single units.
LEMMA ClosingSound ==
    ASSUME LedgerInv, NEW r \in Requests, NEW out, NEW charged, NEW status,
           attempts[r] # <<>>, Pending(r), PendingMatches(r),
           out \in [Buckets -> Nat], charged \in [Buckets -> Nat],
           MoveUnits(r, out, charged), CloseRequest(r, status),
           \A q \in Requests : q # r => attempts'[q] = attempts[q],
           attempts'[r] # <<>>, attempts'[r][Len(attempts'[r])].status # "started",
           \A b \in Buckets : entry[r][b].origin = 0 => out[b] = 0 /\ charged[b] = 0,
           \A b \in Buckets : Allocated(b) => out[b] <= Left(entry[r], b),
           \A b \in Buckets : entry[r][b].origin > 0 /\ ~Allocated(b) =>
               /\ out[b] = 1 /\ entry[r][b].settled = 0 /\ Left(entry[r], b) = 1
               /\ charged[b] = IF MetricOf(b) = "logical_requests" THEN 1 ELSE 0,
           \A b \in Buckets : MetricOf(b) = "upstream_attempts" =>
               Cardinality(ClosedFor(attempts'[r], b)) = Cardinality(ClosedFor(attempts[r], b)) + charged[b]
    PROVE  SoundStep(r)
  <1>1. TypeOK
    BY RowFacts
  <1>2. /\ \A q \in Requests : q # r => entry'[q] = entry[q]
        /\ \A b \in Buckets :
              /\ entry'[r][b].origin = entry[r][b].origin
              /\ entry'[r][b].settled = entry[r][b].settled + charged[b]
              /\ Left(entry'[r], b) = Left(entry[r], b) - out[b]
              /\ entry[r][b] = NoEntry /\ out[b] = 0 /\ charged[b] = 0 => entry'[r][b] = NoEntry
        /\ BalancedStep(r)
    BY <1>1, MoveEffect
  <1>3. /\ leases'[r] = {} /\ reservation'[r].status = "settled"
        /\ logical'[r].status \in {"succeeded", "cancelled", "failed"}
        /\ \A q \in Requests : q # r => /\ logical'[q] = logical[q]
                                        /\ reservation'[q] = reservation[q]
                                        /\ leases'[q] = leases[q]
    BY <1>1 DEF CloseRequest, TypeOK, LogicalRow, ReservationRow, FinalStatus
  <1>4. OnlyRow(r)
    BY <1>2, <1>3 DEF OnlyRow
  <1>5. ASSUME NEW b \in Buckets
        PROVE  UnitRow(reservation'[r], entry'[r], attempts'[r], leases'[r], b)
    <2>1. UnitRow(reservation[r], entry[r], attempts[r], leases[r], b) /\ entry[r][b] \in EntryRow
      BY RowFacts
    <2>2. /\ Left(entry[r], b) \in Int /\ out[b] \in Nat /\ charged[b] \in Nat
          /\ entry[r][b].settled \in Nat /\ entry[r][b].origin \in Nat
      BY <2>1, AttemptBound DEF EntryRow, Left
    <2>3. entry[r][b].origin = 0 => /\ Left(entry[r], b) = 0 /\ entry[r][b] = NoEntry
                                    /\ out[b] = 0 /\ charged[b] = 0
      BY <2>1 DEF UnitRow, NoEntry, Left
    <2>4. entry'[r][b].origin = 0 => entry'[r][b] = NoEntry
      BY <1>2, <2>3
    <2>5. Left(entry'[r], b) >= 0
      BY <1>2, <2>2, <2>3
    <2>6. MetricOf(b) = "logical_requests" =>
              entry'[r][b].settled = IF entry'[r][b].origin > 0 /\ reservation'[r].status = "settled" THEN 1 ELSE 0
      <3>1. entry[r][b].origin = 0 => entry[r][b].settled = 0
        BY <2>3 DEF NoEntry
      <3> QED
        BY <1>2, <1>3, <2>2, <2>3, <3>1 DEF Allocated
    <2>7. MetricOf(b) = "upstream_attempts" =>
              entry'[r][b].settled = Cardinality(ClosedFor(attempts'[r], b))
      BY <1>2, <2>1, <2>2 DEF UnitRow
    <2>8. MetricOf(b) = "concurrency" =>
              entry'[r][b].settled = 0 /\ Left(entry'[r], b) = IF b \in leases'[r] THEN 1 ELSE 0
      <3>1. entry[r][b].origin = 0 => entry[r][b].settled = 0
        BY <2>3 DEF NoEntry
      <3> QED
        BY <1>2, <1>3, <2>2, <2>3, <3>1 DEF Allocated
    <2> QED
      BY <2>4, <2>5, <2>6, <2>7, <2>8 DEF UnitRow
  <1>6. RowSoundStep(r)
    <2>1. FreshRow(logical'[r], reservation'[r], entry'[r], attempts'[r], leases'[r])
      BY <1>3 DEF FreshRow
    <2>2. WholeRow(reservation'[r], entry'[r], attempts'[r])
      BY <1>3 DEF WholeRow
    <2>3. LeaseRow(reservation'[r], leases'[r])
      BY <1>3 DEF LeaseRow
    <2> QED
      BY <1>5, <2>1, <2>2, <2>3 DEF RowSoundStep, RowSound
  <1> QED
    BY <1>2, <1>4, <1>6 DEF SoundStep

\* The final settlement also moves the request count and the slots.
LEMMA SettleFinalSound ==
    ASSUME LedgerInv, NEW r \in Requests, NEW outcome \in Outcomes, SettleFinalAttempt(r, outcome)
    PROVE  SoundStep(r)
  <1> DEFINE out == Plus(AttemptOut(r), FinalOut(r))
             charged == Plus(AttemptCharge(r, outcome), FinalCharge(r))
  <1>1. /\ attempts[r] # <<>> /\ LastAttempt(r).status = "started" /\ Pending(r) /\ PendingMatches(r)
        /\ ReportAccepted(r, outcome) /\ CloseAttempt(r, outcome)
        /\ MoveUnits(r, out, charged) /\ CloseRequest(r, outcome.status)
    BY DEF SettleFinalAttempt, Settleable
  <1>2. TypeOK
    BY RowFacts
  <1>3. out \in [Buckets -> Nat] /\ charged \in [Buckets -> Nat]
    BY <1>1, <1>2, AttemptMoves, FinalMoves, PlusMoves
  <1>4. /\ \A q \in Requests : q # r => attempts'[q] = attempts[q]
        /\ attempts'[r] # <<>> /\ Len(attempts'[r]) = Len(attempts[r])
        /\ attempts'[r][Len(attempts'[r])].status # "started"
        /\ \A b \in Buckets :
              Cardinality(ClosedFor(attempts'[r], b)) =
                  Cardinality(ClosedFor(attempts[r], b)) +
                      IF b \in LastAttempt(r).buckets THEN 1 ELSE 0
    BY <1>1, <1>2, CloseEffect
  <1>5. ASSUME NEW b \in Buckets
        PROVE  /\ entry[r][b].origin = 0 => out[b] = 0 /\ charged[b] = 0
               /\ Allocated(b) => out[b] <= Left(entry[r], b)
               /\ entry[r][b].origin > 0 /\ ~Allocated(b) =>
                     /\ out[b] = 1 /\ entry[r][b].settled = 0 /\ Left(entry[r], b) = 1
                     /\ charged[b] = IF MetricOf(b) = "logical_requests" THEN 1 ELSE 0
               /\ MetricOf(b) = "upstream_attempts" =>
                     charged[b] = IF b \in LastAttempt(r).buckets THEN 1 ELSE 0
    <2>1. /\ out[b] = AttemptOut(r)[b] + FinalOut(r)[b]
          /\ charged[b] = AttemptCharge(r, outcome)[b] + FinalCharge(r)[b]
      BY DEF Plus
    <2>2. /\ b \notin LastAttempt(r).buckets =>
                AttemptOut(r)[b] = 0 /\ AttemptCharge(r, outcome)[b] = 0
          /\ b \in LastAttempt(r).buckets => AttemptOut(r)[b] = UnitsOf(Len(attempts[r]), b)
          /\ b \in LastAttempt(r).buckets /\ MetricOf(b) = "upstream_attempts" =>
                AttemptCharge(r, outcome)[b] = 1
      BY AttemptCounts
    <2>3. b \in LastAttempt(r).buckets => Allocated(b) /\ entry[r][b].origin > 0
      BY <1>1, <1>2, DispatchedFacts
    <2>4. /\ Allocated(b) \/ entry[r][b].origin = 0 => FinalOut(r)[b] = 0 /\ FinalCharge(r)[b] = 0
          /\ ~Allocated(b) /\ entry[r][b].origin > 0 =>
                /\ FinalOut(r)[b] = 1
                /\ FinalCharge(r)[b] = IF MetricOf(b) = "logical_requests" THEN 1 ELSE 0
                /\ entry[r][b].settled = 0 /\ Left(entry[r], b) = 1
      BY <1>1, <1>2, FinalCounts
    <2>5. /\ AttemptOut(r)[b] \in Nat /\ AttemptCharge(r, outcome)[b] \in Nat
          /\ FinalOut(r)[b] \in Nat /\ FinalCharge(r)[b] \in Nat
      BY <1>1, <1>2, AttemptMoves, FinalMoves
    <2>6. /\ UnitRow(reservation[r], entry[r], attempts[r], leases[r], b) /\ entry[r][b] \in EntryRow
          /\ Left(entry[r], b) \in Int
      BY RowFacts DEF EntryRow, Left
    <2>7. /\ Left(entry[r], b) >= 0
          /\ b \in LastAttempt(r).buckets => Left(entry[r], b) >= UnitsOf(Len(attempts[r]), b)
      BY <1>1, <2>6 DEF UnitRow, LastAttempt
    <2> HIDE DEF out, charged
    <2>8. entry[r][b].origin \in Nat
      BY <2>6, AttemptBound DEF EntryRow
    <2>9. entry[r][b].origin = 0 => out[b] = 0 /\ charged[b] = 0
      BY <2>1, <2>2, <2>3, <2>4, <2>5
    <2>10. Allocated(b) => out[b] <= Left(entry[r], b)
      BY <2>1, <2>2, <2>4, <2>5, <2>6, <2>7
    <2>11. entry[r][b].origin > 0 /\ ~Allocated(b) =>
               /\ out[b] = 1 /\ entry[r][b].settled = 0 /\ Left(entry[r], b) = 1
               /\ charged[b] = IF MetricOf(b) = "logical_requests" THEN 1 ELSE 0
      BY <2>1, <2>2, <2>3, <2>4, <2>5
    <2>12. MetricOf(b) = "upstream_attempts" =>
               charged[b] = IF b \in LastAttempt(r).buckets THEN 1 ELSE 0
      BY <2>1, <2>2, <2>4, <2>5 DEF Allocated
    <2> QED
      BY <2>9, <2>10, <2>11, <2>12
  <1> HIDE DEF out, charged
  <1>6. \A b \in Buckets : MetricOf(b) = "upstream_attempts" =>
            Cardinality(ClosedFor(attempts'[r], b)) = Cardinality(ClosedFor(attempts[r], b)) + charged[b]
    BY <1>4, <1>5
  <1> QED
    BY <1>1, <1>3, <1>4, <1>5, <1>6, ClosingSound

\* A request whose last attempt is closed is finalised.
LEMMA FinalizeSound ==
    ASSUME LedgerInv, NEW r \in Requests, FinalizeSettledAttempt(r)
    PROVE  SoundStep(r)
  <1>1. /\ attempts[r] # <<>> /\ LastAttempt(r).status \in Retryable /\ Pending(r) /\ PendingMatches(r)
        /\ MoveUnits(r, FinalOut(r), FinalCharge(r)) /\ CloseRequest(r, LastAttempt(r).status)
        /\ attempts' = attempts
    BY DEF FinalizeSettledAttempt
  <1>2. TypeOK
    BY RowFacts
  <1>3. FinalOut(r) \in [Buckets -> Nat] /\ FinalCharge(r) \in [Buckets -> Nat]
    BY <1>2, FinalMoves
  <1>4. attempts'[r][Len(attempts'[r])].status # "started"
    BY <1>1 DEF LastAttempt, Retryable
  <1>5. \A b \in Buckets :
          /\ Allocated(b) \/ entry[r][b].origin = 0 => FinalOut(r)[b] = 0 /\ FinalCharge(r)[b] = 0
          /\ ~Allocated(b) /\ entry[r][b].origin > 0 =>
                /\ FinalOut(r)[b] = 1
                /\ FinalCharge(r)[b] = IF MetricOf(b) = "logical_requests" THEN 1 ELSE 0
                /\ entry[r][b].settled = 0 /\ Left(entry[r], b) = 1
    BY <1>1, <1>2, FinalCounts
  <1>6. \A b \in Buckets : Allocated(b) => FinalOut(r)[b] <= Left(entry[r], b)
    BY <1>5, RowFacts DEF UnitRow
  <1>7. \A b \in Buckets : MetricOf(b) = "upstream_attempts" =>
            Cardinality(ClosedFor(attempts'[r], b)) =
                Cardinality(ClosedFor(attempts[r], b)) + FinalCharge(r)[b]
    <2> SUFFICES ASSUME NEW b \in Buckets, MetricOf(b) = "upstream_attempts"
                 PROVE  Cardinality(ClosedFor(attempts[r], b)) =
                            Cardinality(ClosedFor(attempts[r], b)) + FinalCharge(r)[b]
      BY <1>1
    <2>1. Cardinality(ClosedFor(attempts[r], b)) \in Nat
      BY <1>2, ClosedFinite, FS_CardinalityType DEF TypeOK
    <2> QED
      BY <1>5, <2>1 DEF Allocated
  <1> QED
    BY <1>1, <1>3, <1>4, <1>5, <1>6, <1>7, ClosingSound

\* A release gives every unit of an undispatched request back.
LEMMA ReleaseSound ==
    ASSUME LedgerInv, NEW r \in Requests, NEW status \in {"released", "expired"}, ReleaseLocked(r, status)
    PROVE  SoundStep(r)
  <1> DEFINE out == [b \in Buckets |-> entry[r][b].reserved]
  <1>1. /\ attempts[r] = <<>> /\ Pending(r) /\ MoveUnits(r, out, Nothing)
        /\ leases' = [leases EXCEPT ![r] = {}]
        /\ logical' = [logical EXCEPT ![r].status = "failed"]
        /\ reservation' = [reservation EXCEPT ![r].status = status]
        /\ attempts' = attempts
    BY DEF ReleaseLocked
  <1>2. TypeOK
    BY RowFacts
  <1>3. out \in [Buckets -> Nat] /\ Nothing \in [Buckets -> Nat]
    BY <1>2 DEF TypeOK, EntryRow, Nothing
  <1>4. \A b \in Buckets : out[b] = entry[r][b].reserved /\ Nothing[b] = 0
    BY DEF Nothing
  <1> HIDE DEF out
  <1>5. /\ \A q \in Requests : q # r => entry'[q] = entry[q]
        /\ \A b \in Buckets :
              /\ entry'[r][b].origin = entry[r][b].origin
              /\ entry'[r][b].settled = entry[r][b].settled + Nothing[b]
              /\ Left(entry'[r], b) = Left(entry[r], b) - out[b]
              /\ entry[r][b] = NoEntry /\ out[b] = 0 /\ Nothing[b] = 0 => entry'[r][b] = NoEntry
        /\ BalancedStep(r)
    BY <1>1, <1>2, <1>3, MoveEffect
  <1>6. /\ leases'[r] = {} /\ reservation'[r].status = status /\ logical'[r].status = "failed"
        /\ \A q \in Requests : q # r => /\ logical'[q] = logical[q]
                                        /\ reservation'[q] = reservation[q]
                                        /\ leases'[q] = leases[q]
    BY <1>1, <1>2 DEF TypeOK, LogicalRow, ReservationRow
  <1>7. ASSUME NEW b \in Buckets
        PROVE  UnitRow(reservation'[r], entry'[r], attempts'[r], leases'[r], b)
    <2>1. UnitRow(reservation[r], entry[r], attempts[r], leases[r], b) /\ entry[r][b] \in EntryRow
      BY RowFacts
    <2>2. /\ entry[r][b].origin > 0 => entry[r][b].settled = 0 /\ entry[r][b].released = 0
          /\ entry[r][b].origin = 0 => entry[r][b] = NoEntry
      <3>1. WholeRow(reservation[r], entry[r], attempts[r])
        BY RowFacts
      <3>2. entry[r][b].origin > 0 => entry[r][b] =
                [origin |-> 1, reserved |-> UnitsOf(1, b), settled |-> 0, released |-> 0]
        BY <1>1, <3>1 DEF WholeRow, Pending
      <3>3. entry[r][b].origin = 0 => entry[r][b] = NoEntry
        BY <2>1 DEF UnitRow
      <3> QED
        BY <3>2, <3>3
    <2>3. /\ entry[r][b].settled = 0 /\ entry[r][b].released = 0 /\ entry[r][b].reserved \in Nat
          /\ entry[r][b].origin = 0 => entry[r][b].reserved = 0
      BY <2>1, <2>2, AttemptBound DEF EntryRow, NoEntry
    <2>4. /\ Left(entry[r], b) = entry[r][b].reserved
          /\ Left(entry'[r], b) = 0
          /\ entry'[r][b].settled = 0
      BY <1>4, <1>5, <2>3 DEF Left
    <2>5. entry'[r][b].origin = 0 => entry'[r][b] = NoEntry
      BY <1>4, <1>5, <2>2, <2>3
    <2>6. Cardinality(ClosedFor(attempts'[r], b)) = 0
      <3>1. ClosedFor(<<>>, b) = {}
        BY DEF ClosedFor
      <3> QED
        BY <1>1, <3>1, FS_EmptySet
    <2> QED
      BY <1>1, <1>6, <2>4, <2>5, <2>6 DEF UnitRow
  <1>8. RowSoundStep(r)
    <2>1. FreshRow(logical'[r], reservation'[r], entry'[r], attempts'[r], leases'[r])
      BY <1>6 DEF FreshRow
    <2>2. WholeRow(reservation'[r], entry'[r], attempts'[r])
      BY <1>6 DEF WholeRow
    <2>3. LeaseRow(reservation'[r], leases'[r])
      BY <1>6 DEF LeaseRow
    <2> QED
      BY <1>7, <2>1, <2>2, <2>3 DEF RowSoundStep, RowSound
  <1> QED
    BY <1>1, <1>5, <1>6, <1>8 DEF SoundStep, OnlyRow

\* Reserve inserts the rows of a request that held nothing.
LEMMA ReserveSound ==
    ASSUME LedgerInv, NEW r \in Requests, ReserveAccepted(r)
    PROVE  SoundStep(r)
  <1> DEFINE rows == InitialBuckets
  <1>1. /\ logical[r].status \in {"absent", "authenticated"}
        /\ logical' = Claim(r, "reserved", "none")
        /\ bucket' = [b \in Buckets |->
                IF b \in rows
                THEN [hard_maximum |-> MaximumFor(r, b), used |-> bucket[b].used,
                      reserved |-> bucket[b].reserved + UnitsOf(1, b)]
                ELSE bucket[b]]
        /\ reservation' = [reservation EXCEPT ![r] = [status |-> "pending", expiresAt |-> now + TTL]]
        /\ entry' = [entry EXCEPT ![r] = [b \in Buckets |->
                IF b \in rows
                THEN [origin |-> 1, reserved |-> UnitsOf(1, b), settled |-> 0, released |-> 0]
                ELSE NoEntry]]
        /\ leases' = [leases EXCEPT ![r] = {b \in rows : MetricOf(b) = "concurrency"}]
        /\ attempts' = attempts
    BY DEF ReserveAccepted
  <1> HIDE DEF rows
  <1>2. TypeOK /\ 1 \in 1 .. MaxAttempts
    BY RowFacts, AttemptBound
  <1>3. /\ reservation[r].status = "none" /\ attempts[r] = <<>> /\ leases[r] = {}
        /\ \A b \in Buckets : entry[r][b] = NoEntry
    BY <1>1, RowFacts DEF FreshRow
  <1>4. /\ \A b \in Buckets : entry'[r][b] =
               IF b \in rows
               THEN [origin |-> 1, reserved |-> UnitsOf(1, b), settled |-> 0, released |-> 0]
               ELSE NoEntry
        /\ \A q \in Requests : q # r => entry'[q] = entry[q]
    BY <1>1, <1>2 DEF TypeOK
  <1>5. /\ logical'[r].status = "reserved" /\ reservation'[r].status = "pending"
        /\ leases'[r] = {b \in rows : MetricOf(b) = "concurrency"}
        /\ \A q \in Requests : q # r => /\ logical'[q] = logical[q]
                                        /\ reservation'[q] = reservation[q]
                                        /\ leases'[q] = leases[q]
    BY <1>1, <1>2 DEF TypeOK, Claim
  <1>6. \A b \in Buckets : UnitsOf(1, b) \in Nat /\ bucket[b] \in BucketRow
    BY <1>2, ConfigurationTypes DEF TypeOK
  <1>7. \A b \in Buckets :
            /\ entry'[r][b].origin = (IF b \in rows THEN 1 ELSE 0)
            /\ entry'[r][b].settled = 0
            /\ Left(entry'[r], b) = IF b \in rows THEN UnitsOf(1, b) ELSE 0
    <2> TAKE b \in Buckets
    <2>1. CASE b \in rows
      <3>1. entry'[r][b] = [origin |-> 1, reserved |-> UnitsOf(1, b), settled |-> 0, released |-> 0]
        BY <1>4, <2>1
      <3>2. /\ entry'[r][b].origin = 1 /\ entry'[r][b].reserved = UnitsOf(1, b)
            /\ entry'[r][b].settled = 0 /\ entry'[r][b].released = 0
        BY <3>1
      <3> QED
        BY <2>1, <3>2, <1>6 DEF Left
    <2>2. CASE b \notin rows
      <3>1. entry'[r][b] = NoEntry
        BY <1>4, <2>2
      <3>2. /\ entry'[r][b].origin = 0 /\ entry'[r][b].reserved = 0
            /\ entry'[r][b].settled = 0 /\ entry'[r][b].released = 0
        BY <3>1 DEF NoEntry
      <3> QED
        BY <2>2, <3>2 DEF Left
    <2> QED
      BY <2>1, <2>2
  <1>8. BalancedStep(r)
    <2> SUFFICES ASSUME NEW b \in Buckets
                 PROVE  /\ bucket'[b].reserved + Left(entry[r], b) = bucket[b].reserved + Left(entry'[r], b)
                        /\ bucket'[b].used + entry[r][b].settled = bucket[b].used + entry'[r][b].settled
      BY DEF BalancedStep
    <2>1. Left(entry[r], b) = 0 /\ entry[r][b].settled = 0
      BY <1>3 DEF Left, NoEntry
    <2>2. /\ bucket'[b].reserved = bucket[b].reserved + (IF b \in rows THEN UnitsOf(1, b) ELSE 0)
          /\ bucket'[b].used = bucket[b].used
      BY <1>1, <1>6 DEF BucketRow
    <2> QED
      BY <1>6, <1>7, <2>1, <2>2 DEF BucketRow
  <1>9. ASSUME NEW b \in Buckets
        PROVE  UnitRow(reservation'[r], entry'[r], attempts'[r], leases'[r], b)
    <2>1. entry'[r][b].origin = 0 => entry'[r][b] = NoEntry
      <3>1. entry'[r][b].origin = 0 => b \notin rows
        BY <1>7
      <3> QED
        BY <1>4, <3>1
    <2>2. Cardinality(ClosedFor(attempts'[r], b)) = 0
      <3>1. ClosedFor(<<>>, b) = {}
        BY DEF ClosedFor
      <3> QED
        BY <1>1, <1>3, <3>1, FS_EmptySet
    <2>3. MetricOf(b) = "concurrency" => UnitsOf(1, b) = 1
      BY <1>2, SingleUnits
    <2>4. MetricOf(b) = "concurrency" => Left(entry'[r], b) = IF b \in leases'[r] THEN 1 ELSE 0
      BY <1>5, <1>7, <2>3
    <2> QED
      BY <1>1, <1>3, <1>5, <1>6, <1>7, <2>1, <2>2, <2>4 DEF UnitRow
  <1>10. RowSoundStep(r)
    <2>1. FreshRow(logical'[r], reservation'[r], entry'[r], attempts'[r], leases'[r])
      BY <1>5 DEF FreshRow
    <2>2. WholeRow(reservation'[r], entry'[r], attempts'[r])
      BY <1>4, <1>7 DEF WholeRow
    <2>3. LeaseRow(reservation'[r], leases'[r])
      BY <1>5 DEF LeaseRow
    <2> QED
      BY <1>9, <2>1, <2>2, <2>3 DEF RowSoundStep, RowSound
  <1> QED
    BY <1>1, <1>4, <1>5, <1>8, <1>10 DEF SoundStep, OnlyRow

\* A retry adds its allocation to the rows and opens an attempt.
LEMMA RetrySound ==
    ASSUME LedgerInv, NEW r \in Requests, BeginRetryAttempt(r)
    PROVE  SoundStep(r)
  <1> DEFINE n == Len(attempts[r]) + 1
             adds == RetryReserves(r, n)
             row == NewAttempt({b \in RetryBuckets(r, n) : Allocated(b)})
  <1>1. /\ n \in 2 .. MaxAttempts /\ LastAttempt(r).status \in Retryable /\ Pending(r) /\ PendingMatches(r)
        /\ bucket' = [b \in Buckets |->
                IF b \in adds
                THEN [hard_maximum |-> MaximumFor(r, b), used |-> bucket[b].used,
                      reserved |-> bucket[b].reserved + UnitsOf(n, b)]
                ELSE bucket[b]]
        /\ entry' = [entry EXCEPT ![r] = [b \in Buckets |->
                IF b \in adds
                THEN [origin |-> IF entry[r][b].origin = 0 THEN n ELSE entry[r][b].origin,
                      reserved |-> entry[r][b].reserved + UnitsOf(n, b),
                      settled |-> entry[r][b].settled, released |-> entry[r][b].released]
                ELSE entry[r][b]]]
        /\ leases' = [leases EXCEPT ![r] = @ \cup {b \in adds : MetricOf(b) = "concurrency"}]
        /\ attempts' = [attempts EXCEPT ![r] = Append(@, row)]
        /\ logical' = logical /\ reservation' = reservation
    BY DEF BeginRetryAttempt
  <1>2. /\ row.status = "started"
        /\ \A b \in Buckets : b \in row.buckets => b \in adds
        /\ \A b \in adds : Allocated(b) \/ (entry[r][b].origin = 0 /\ MetricOf(b) # "logical_requests")
        /\ \A b \in adds : MetricOf(b) # "logical_requests"
    <2>1. \A b \in RetryBuckets(r, n) : MetricOf(b) # "logical_requests"
      BY DEF RetryBuckets, PlannedBuckets, MetricOf
    <2> QED
      BY <2>1 DEF NewAttempt, RetryReserves
  <1>3. TypeOK
    BY RowFacts
  <1>4. /\ attempts[r] \in Seq(AttemptRow) /\ Len(attempts[r]) \in Nat
        /\ n = Len(attempts[r]) + 1
    BY <1>3 DEF TypeOK
  <1> HIDE DEF n, adds, row
  <1>5. n \in 1 .. MaxAttempts
    BY <1>1, AttemptBound
  <1>6. /\ attempts'[r] = Append(attempts[r], row)
        /\ \A q \in Requests : q # r => attempts'[q] = attempts[q]
    BY <1>1, <1>3 DEF TypeOK
  <1>7. /\ Len(attempts'[r]) = n /\ DOMAIN attempts'[r] = 1 .. n
        /\ attempts'[r] # <<>> /\ attempts'[r][n] = row
        /\ \A k \in 1 .. Len(attempts[r]) : attempts'[r][k] = attempts[r][k]
    BY <1>4, <1>6
  <1>8. \A b \in Buckets : ClosedFor(attempts'[r], b) = ClosedFor(attempts[r], b)
    <2>1. DOMAIN attempts[r] = 1 .. Len(attempts[r])
      BY <1>4
    <2>2. \A k \in 1 .. n : k = n \/ k \in 1 .. Len(attempts[r])
      BY <1>4
    <2>3. \A k \in 1 .. Len(attempts[r]) : k \in 1 .. n
      BY <1>4
    <2> QED
      BY <1>2, <1>7, <2>1, <2>2, <2>3 DEF ClosedFor
  <1>9. \A b \in Buckets : UnitsOf(n, b) \in Nat /\ bucket[b] \in BucketRow /\ entry[r][b] \in EntryRow
    BY <1>3, <1>5, ConfigurationTypes DEF TypeOK
  <1>10. \A q \in Requests : q # r => entry'[q] = entry[q] /\ leases'[q] = leases[q]
    BY <1>1, <1>3 DEF TypeOK
  <1>11. leases'[r] = leases[r] \cup {b \in adds : MetricOf(b) = "concurrency"}
    BY <1>1, <1>3 DEF TypeOK
  <1>12. ASSUME NEW b \in Buckets
         PROVE  /\ b \notin adds => entry'[r][b] = entry[r][b]
                /\ b \in adds => /\ entry'[r][b].origin = (IF entry[r][b].origin = 0 THEN n ELSE entry[r][b].origin)
                                 /\ entry'[r][b].settled = entry[r][b].settled
                /\ Left(entry'[r], b) = Left(entry[r], b) + IF b \in adds THEN UnitsOf(n, b) ELSE 0
                /\ Left(entry[r], b) \in Int
    <2>1. entry'[r][b] =
              IF b \in adds
              THEN [origin |-> IF entry[r][b].origin = 0 THEN n ELSE entry[r][b].origin,
                    reserved |-> entry[r][b].reserved + UnitsOf(n, b),
                    settled |-> entry[r][b].settled, released |-> entry[r][b].released]
              ELSE entry[r][b]
      BY <1>1, <1>3 DEF TypeOK
    <2>2. /\ entry[r][b].reserved \in Nat /\ entry[r][b].settled \in Nat /\ entry[r][b].released \in Nat
          /\ UnitsOf(n, b) \in Nat
      BY <1>9 DEF EntryRow
    <2>3. CASE b \notin adds
      BY <2>1, <2>2, <2>3 DEF Left
    <2>4. CASE b \in adds
      <3> DEFINE origin == IF entry[r][b].origin = 0 THEN n ELSE entry[r][b].origin
                 reserved == entry[r][b].reserved + UnitsOf(n, b)
      <3>1. entry'[r][b] = [origin |-> origin, reserved |-> reserved,
                            settled |-> entry[r][b].settled, released |-> entry[r][b].released]
        BY <2>1, <2>4
      <3> HIDE DEF origin, reserved
      <3>2. /\ entry'[r][b].origin = origin /\ entry'[r][b].reserved = reserved
            /\ entry'[r][b].settled = entry[r][b].settled /\ entry'[r][b].released = entry[r][b].released
        BY <3>1
      <3> QED
        BY <2>2, <2>4, <3>2 DEF Left, origin, reserved
    <2> QED
      BY <2>3, <2>4
  <1>13. BalancedStep(r)
    <2> SUFFICES ASSUME NEW b \in Buckets
                 PROVE  /\ bucket'[b].reserved + Left(entry[r], b) = bucket[b].reserved + Left(entry'[r], b)
                        /\ bucket'[b].used + entry[r][b].settled = bucket[b].used + entry'[r][b].settled
      BY DEF BalancedStep
    <2>1. /\ bucket'[b].reserved = bucket[b].reserved + (IF b \in adds THEN UnitsOf(n, b) ELSE 0)
          /\ bucket'[b].used = bucket[b].used
      BY <1>1, <1>9 DEF BucketRow
    <2>2. entry'[r][b].settled = entry[r][b].settled
      BY <1>12
    <2>3. Left(entry'[r], b) = Left(entry[r], b) + (IF b \in adds THEN UnitsOf(n, b) ELSE 0) /\ Left(entry[r], b) \in Int
      BY <1>12
    <2> QED
      BY <1>9, <2>1, <2>2, <2>3 DEF BucketRow
  <1>14. ASSUME NEW b \in Buckets
         PROVE  UnitRow(reservation'[r], entry'[r], attempts'[r], leases'[r], b)
    <2>1. UnitRow(reservation[r], entry[r], attempts[r], leases[r], b)
      BY RowFacts
    <2>2. /\ entry[r][b].origin \in Nat /\ UnitsOf(n, b) \in Nat /\ n > 0
      BY <1>5, <1>9, AttemptBound DEF EntryRow
    <2>3. entry'[r][b].origin = 0 => entry'[r][b] = NoEntry
      BY <1>12, <2>1, <2>2 DEF UnitRow
    <2>4. /\ Left(entry'[r], b) >= 0
          /\ b \in row.buckets => Left(entry'[r], b) >= UnitsOf(n, b)
      BY <1>2, <1>12, <2>1, <2>2 DEF UnitRow
    <2>5. MetricOf(b) = "logical_requests" =>
              entry'[r][b].settled = IF entry'[r][b].origin > 0 /\ reservation'[r].status = "settled" THEN 1 ELSE 0
      BY <1>1, <1>2, <1>12, <2>1 DEF UnitRow
    <2>6. MetricOf(b) = "upstream_attempts" =>
              entry'[r][b].settled = Cardinality(ClosedFor(attempts'[r], b))
      BY <1>8, <1>12, <2>1 DEF UnitRow
    <2>7. MetricOf(b) = "concurrency" =>
              entry'[r][b].settled = 0 /\ Left(entry'[r], b) = IF b \in leases'[r] THEN 1 ELSE 0
      <3> SUFFICES ASSUME MetricOf(b) = "concurrency"
                   PROVE  entry'[r][b].settled = 0 /\ Left(entry'[r], b) = IF b \in leases'[r] THEN 1 ELSE 0
        OBVIOUS
      <3>1. UnitsOf(n, b) = 1
        BY <1>5, SingleUnits
      <3>2. entry[r][b].settled = 0 /\ Left(entry[r], b) = IF b \in leases[r] THEN 1 ELSE 0
        BY <2>1 DEF UnitRow
      <3>3. CASE b \in adds
        <4>1. entry[r][b].origin = 0
          BY <1>2, <3>3 DEF Allocated
        <4>2. entry[r][b] = NoEntry
          BY <2>1, <4>1 DEF UnitRow
        <4>3. Left(entry[r], b) = 0
          BY <4>2 DEF Left, NoEntry
        <4> QED
          BY <1>11, <1>12, <3>1, <3>2, <3>3, <4>3
      <3>4. CASE b \notin adds
        BY <1>11, <1>12, <3>2, <3>4
      <3> QED
        BY <3>3, <3>4
    <2> QED
      BY <1>7, <2>3, <2>4, <2>5, <2>6, <2>7 DEF UnitRow
  <1>15. RowSoundStep(r)
    <2>1. FreshRow(logical'[r], reservation'[r], entry'[r], attempts'[r], leases'[r])
      BY <1>1, PendingNotFresh DEF FreshRow
    <2>2. WholeRow(reservation'[r], entry'[r], attempts'[r])
      BY <1>7 DEF WholeRow
    <2>3. LeaseRow(reservation'[r], leases'[r])
      BY <1>1 DEF LeaseRow, Pending
    <2> QED
      BY <1>14, <2>1, <2>2, <2>3 DEF RowSoundStep, RowSound
  <1> QED
    BY <1>1, <1>6, <1>10, <1>13, <1>15 DEF SoundStep, OnlyRow

\* The first attempt is allocated what Reserve inserted.
LEMMA BeginAttemptSound ==
    ASSUME LedgerInv, NEW r \in Requests, BeginAttempt(r)
    PROVE  SoundStep(r)
  <1> DEFINE row == NewAttempt({b \in Entries(r) : entry[r][b].origin = 1 /\ Allocated(b)})
  <1>1. /\ attempts[r] = <<>> /\ Pending(r)
        /\ logical' = [logical EXCEPT ![r].status = "dispatched"]
        /\ attempts' = [attempts EXCEPT ![r] = <<row>>]
        /\ UNCHANGED <<reservation, entry, bucket, leases>>
    BY DEF BeginAttempt
  <1>2. /\ row.status = "started"
        /\ \A b \in row.buckets : b \in Buckets /\ entry[r][b].origin = 1
    BY DEF NewAttempt, Entries
  <1> HIDE DEF row
  <1>3. TypeOK
    BY RowFacts
  <1>4. /\ attempts'[r] = <<row>> /\ logical'[r].status = "dispatched"
        /\ \A q \in Requests : q # r => attempts'[q] = attempts[q] /\ logical'[q] = logical[q]
    BY <1>1, <1>3 DEF TypeOK, LogicalRow
  <1>5. BalancedStep(r)
    BY <1>1 DEF BalancedStep
  <1>6. ASSUME NEW b \in Buckets
        PROVE  UnitRow(reservation'[r], entry'[r], attempts'[r], leases'[r], b)
    <2>1. UnitRow(reservation[r], entry[r], attempts[r], leases[r], b)
      BY RowFacts
    <2>2. Len(attempts'[r]) = 1 /\ attempts'[r][1] = row /\ DOMAIN attempts'[r] = {1}
      BY <1>4
    <2>3. ClosedFor(attempts'[r], b) = {} /\ ClosedFor(attempts[r], b) = {}
      BY <1>1, <1>2, <2>2 DEF ClosedFor
    <2>4. b \in row.buckets => Left(entry[r], b) = UnitsOf(1, b)
      <3> SUFFICES ASSUME b \in row.buckets PROVE Left(entry[r], b) = UnitsOf(1, b)
        OBVIOUS
      <3>1. WholeRow(reservation[r], entry[r], attempts[r])
        BY RowFacts
      <3>2. entry[r][b] = [origin |-> 1, reserved |-> UnitsOf(1, b), settled |-> 0, released |-> 0]
        BY <1>1, <1>2, <3>1 DEF WholeRow, Pending
      <3>3. entry[r][b].reserved = UnitsOf(1, b) /\ entry[r][b].settled = 0 /\ entry[r][b].released = 0
        BY <3>2
      <3>4. UnitsOf(1, b) \in Nat
        BY <1>3, ConfigurationTypes, AttemptBound
      <3> QED
        BY <3>3, <3>4 DEF Left
    <2>5. b \in row.buckets => Left(entry[r], b) >= UnitsOf(1, b)
      <3>1. UnitsOf(1, b) \in Nat
        BY <1>3, ConfigurationTypes, AttemptBound
      <3> QED
        BY <2>4, <3>1
    <2> QED
      BY <1>1, <2>1, <2>2, <2>3, <2>5 DEF UnitRow
  <1>7. RowSoundStep(r)
    <2>1. FreshRow(logical'[r], reservation'[r], entry'[r], attempts'[r], leases'[r])
      BY <1>4 DEF FreshRow
    <2>2. WholeRow(reservation'[r], entry'[r], attempts'[r])
      BY <1>4 DEF WholeRow
    <2>3. LeaseRow(reservation'[r], leases'[r])
      BY <1>1 DEF LeaseRow, Pending
    <2> QED
      BY <1>6, <2>1, <2>2, <2>3 DEF RowSoundStep, RowSound
  <1> QED
    BY <1>1, <1>4, <1>5, <1>7 DEF SoundStep, OnlyRow

\* Noting the first byte leaves statuses and buckets of attempts alone.
LEMMA MarkEffect ==
    ASSUME TypeOK, NEW r \in Requests, MarkFirstByte(r)
    PROVE  /\ \A q \in Requests : q # r => attempts'[q] = attempts[q]
           /\ attempts'[r] # <<>> /\ Len(attempts'[r]) = Len(attempts[r])
           /\ DOMAIN attempts'[r] = 1 .. Len(attempts[r]) /\ DOMAIN attempts[r] = 1 .. Len(attempts[r])
           /\ \A n \in 1 .. Len(attempts[r]) :
                 /\ attempts'[r][n].status = attempts[r][n].status
                 /\ attempts'[r][n].buckets = attempts[r][n].buckets
                 /\ attempts[r][n].status # "started" => attempts'[r][n] = attempts[r][n]
  <1> DEFINE n == Len(attempts[r])
             row == [attempts[r][n] EXCEPT !.firstByte = TRUE]
  <1>1. attempts[r] # <<>> /\ attempts[r][n].status = "started"
    BY DEF MarkFirstByte, LastAttempt
  <1>2. attempts[r] \in Seq(AttemptRow) /\ n \in 1 .. Len(attempts[r]) /\ attempts[r][n] \in AttemptRow
    BY <1>1, LastAttemptTypes DEF TypeOK, LastAttempt
  <1>3. attempts' = [attempts EXCEPT ![r] = [attempts[r] EXCEPT ![n] = row]]
    BY DEF MarkFirstByte
  <1>4. row.status = attempts[r][n].status /\ row.buckets = attempts[r][n].buckets
    BY <1>2 DEF AttemptRow
  <1> HIDE DEF n, row
  <1>5. attempts'[r] = [attempts[r] EXCEPT ![n] = row] /\ \A q \in Requests : q # r => attempts'[q] = attempts[q]
    BY <1>3 DEF TypeOK
  <1>6. /\ DOMAIN attempts'[r] = 1 .. Len(attempts[r]) /\ DOMAIN attempts[r] = 1 .. Len(attempts[r])
        /\ Len(attempts'[r]) = Len(attempts[r])
        /\ attempts'[r] # <<>>
        /\ attempts'[r][n] = row
        /\ \A k \in 1 .. Len(attempts[r]) : k # n => attempts'[r][k] = attempts[r][k]
    BY <1>2, <1>5
  <1> QED
    BY <1>1, <1>4, <1>5, <1>6

\* The first byte touches no unit.
LEMMA MarkFirstByteSound ==
    ASSUME LedgerInv, NEW r \in Requests, MarkFirstByte(r)
    PROVE  SoundStep(r)
  <1>1. /\ attempts[r] # <<>> /\ Pending(r)
        /\ logical' = [logical EXCEPT ![r].status = "streaming"]
        /\ UNCHANGED <<reservation, entry, bucket, leases>>
    BY DEF MarkFirstByte
  <1>2. TypeOK
    BY RowFacts
  <1>3. /\ \A q \in Requests : q # r => attempts'[q] = attempts[q]
        /\ attempts'[r] # <<>> /\ Len(attempts'[r]) = Len(attempts[r])
        /\ DOMAIN attempts'[r] = 1 .. Len(attempts[r]) /\ DOMAIN attempts[r] = 1 .. Len(attempts[r])
        /\ \A n \in 1 .. Len(attempts[r]) :
              /\ attempts'[r][n].status = attempts[r][n].status
              /\ attempts'[r][n].buckets = attempts[r][n].buckets
    BY <1>2, MarkEffect
  <1>4. logical'[r].status = "streaming" /\ \A q \in Requests : q # r => logical'[q] = logical[q]
    BY <1>1, <1>2 DEF TypeOK, LogicalRow
  <1>5. BalancedStep(r)
    BY <1>1 DEF BalancedStep
  <1>6. ASSUME NEW b \in Buckets
        PROVE  UnitRow(reservation'[r], entry'[r], attempts'[r], leases'[r], b)
    <2>1. UnitRow(reservation[r], entry[r], attempts[r], leases[r], b)
      BY RowFacts
    <2>2. ClosedFor(attempts'[r], b) = ClosedFor(attempts[r], b)
      BY <1>3 DEF ClosedFor
    <2>3. Len(attempts[r]) \in 1 .. Len(attempts[r])
      BY <1>1, <1>2, LastAttemptTypes DEF TypeOK
    <2> QED
      BY <1>1, <1>3, <2>1, <2>2, <2>3 DEF UnitRow
  <1>7. RowSoundStep(r)
    <2>1. FreshRow(logical'[r], reservation'[r], entry'[r], attempts'[r], leases'[r])
      BY <1>4 DEF FreshRow
    <2>2. WholeRow(reservation'[r], entry'[r], attempts'[r])
      BY <1>3 DEF WholeRow
    <2>3. LeaseRow(reservation'[r], leases'[r])
      BY <1>1 DEF LeaseRow, Pending
    <2> QED
      BY <1>6, <2>1, <2>2, <2>3 DEF RowSoundStep, RowSound
  <1> QED
    BY <1>1, <1>3, <1>4, <1>5, <1>7 DEF SoundStep, OnlyRow

\* Steps that only decide the request, before any reservation.
LEMMA DecisionSound ==
    ASSUME LedgerInv, NEW r \in Requests,
           \/ BeginAuthenticatedRequest(r)
           \/ \E outcome \in {"denied", "failed", "cancelled"} : RecordDecisionFailure(r, outcome)
           \/ RecoverStaleAuthenticatedRequest(r)
           \/ ReserveBoundExceeded(r)
           \/ ReserveDenied(r)
    PROVE  SoundStep(r)
  <1>1. /\ logical[r].status \in {"absent", "authenticated"}
        /\ UNCHANGED <<reservation, entry, attempts, leases>>
        /\ \A q \in Requests : q # r => logical'[q] = logical[q]
    BY RowFacts DEF TypeOK, BeginAuthenticatedRequest, RecordDecisionFailure,
       RecoverStaleAuthenticatedRequest, ReserveBoundExceeded, ReserveDenied, Claim
  <1>2. \A b \in Buckets : bucket'[b].reserved = bucket[b].reserved /\ bucket'[b].used = bucket[b].used
    <2>1. CASE ReserveDenied(r)
      <3>1. \A b \in Buckets : bucket[b] \in BucketRow
        BY RowFacts DEF TypeOK
      <3> QED
        BY <2>1, <3>1 DEF ReserveDenied, BucketRow
    <2>2. CASE ~ReserveDenied(r)
      BY <2>2 DEF BeginAuthenticatedRequest, RecordDecisionFailure,
         RecoverStaleAuthenticatedRequest, ReserveBoundExceeded
    <2> QED
      BY <2>1, <2>2
  <1>3. BalancedStep(r)
    BY <1>1, <1>2 DEF BalancedStep
  <1>4. RowSoundStep(r)
    BY <1>1, RowFacts DEF RowSoundStep, RowSound, FreshRow
  <1> QED
    BY <1>1, <1>3, <1>4 DEF SoundStep, OnlyRow

-----------------------------------------------------------------------------
\* The invariant holds in the empty database.
LEMMA LedgerInit == Init => LedgerInv
  <1> SUFFICES ASSUME Init PROVE LedgerInv
    OBVIOUS
  <1>1. BudgetInv
    BY BudgetInit
  <1>2. ASSUME NEW r \in Requests
        PROVE  RowSound(logical[r], reservation[r], entry[r], attempts[r], leases[r])
    <2>1. /\ reservation[r].status = "none" /\ attempts[r] = <<>> /\ leases[r] = {}
          /\ \A b \in Buckets : entry[r][b] = NoEntry
      BY DEF Init
    <2>2. \A b \in Buckets : UnitRow(reservation[r], entry[r], attempts[r], leases[r], b)
      <3> TAKE b \in Buckets
      <3>1. Left(entry[r], b) = 0 /\ entry[r][b].settled = 0 /\ entry[r][b].origin = 0
        BY <2>1 DEF Left, NoEntry
      <3>2. ClosedFor(attempts[r], b) = {}
        BY <2>1 DEF ClosedFor
      <3>3. Cardinality(ClosedFor(attempts[r], b)) = 0
        BY <3>2, FS_EmptySet
      <3> QED
        BY <2>1, <3>1, <3>3 DEF UnitRow
    <2> QED
      BY <2>1, <2>2 DEF RowSound, FreshRow, WholeRow, LeaseRow
  <1>3. ASSUME NEW b \in Buckets
        PROVE  bucket[b].reserved = Cardinality(HeldUnits(b)) /\ bucket[b].used = Cardinality(ChargedBy(b))
    <2>1. \A r \in Requests : Outstanding(r, b) = 0 /\ entry[r][b].settled = 0
      BY DEF Init, Outstanding, NoEntry
    <2>2. 1 .. 0 = {}
      OBVIOUS
    <2>3. HeldUnits(b) = {} /\ ChargedBy(b) = {}
      BY <2>1, <2>2 DEF HeldUnits, ChargedBy
    <2>4. bucket[b].reserved = 0 /\ bucket[b].used = 0
      BY DEF Init, NoBucket
    <2> QED
      BY <2>3, <2>4, FS_EmptySet
  <1> QED
    BY <1>1, <1>2, <1>3 DEF LedgerInv, RowsSound, LedgerBalances

\* Every step of a request is a sound step.
LEMMA RequestSound ==
    ASSUME LedgerInv, NEW r \in Requests, Call(r) \/ Recover(r)
    PROVE  SoundStep(r)
  <1>1. CASE Call(r)
    BY <1>1, DecisionSound, ReserveSound, BeginAttemptSound, MarkFirstByteSound, RetrySound,
       SettleForRetrySound, SettleFinalSound, FinalizeSound, ReleaseSound
    DEF Call, ReleaseBeforeDispatch
  <1>2. CASE Recover(r)
    <2>1. RecoveredOutcome \in Outcomes
      BY DEF RecoveredOutcome, Outcomes, UnknownOutcome, ClosedStatus, AttemptStatus
    <2> QED
      BY <1>2, <2>1, DecisionSound, SettleFinalSound, FinalizeSound, ReleaseSound
      DEF Recover, ReleaseExpiredUndispatched, ReconcilePendingUsage,
          ReleaseExpiredConcurrencyLeases, RecoverDispatched
  <1> QED
    BY <1>1, <1>2

\* Every step of every caller, of the recovery worker and of the clock
\* preserves it.
LEMMA LedgerStep == LedgerInv /\ [Next]_vars => LedgerInv'
  <1> SUFFICES ASSUME LedgerInv, [Next]_vars PROVE LedgerInv'
    OBVIOUS
  <1>1. BudgetInv'
    BY BudgetStep DEF LedgerInv
  <1>2. ASSUME NEW r \in Requests, Call(r) \/ Recover(r) PROVE LedgerInv'
    BY <1>1, <1>2, RequestSound, OneRowStep DEF SoundStep
  <1>3. CASE UNCHANGED <<logical, reservation, entry, attempts, bucket, leases>>
    <2>1. RowsSound'
      BY <1>3 DEF LedgerInv, RowsSound
    <2>2. LedgerBalances'
      <3>1. \A b : HeldUnits(b)' = HeldUnits(b) /\ ChargedBy(b)' = ChargedBy(b)
        BY <1>3, Columns, ColumnsNext
      <3> QED
        BY <1>3, <3>1 DEF LedgerInv, LedgerBalances
    <2> QED
      BY <1>1, <2>1, <2>2 DEF LedgerInv
  <1> QED
    BY <1>2, <1>3 DEF Next, Tick, vars

\* The ledger is exact in every reachable state: the reserved and used
\* columns are the sums of the reservation entries, a settled request counts
\* once, every closed attempt counts once and concurrency is filled by the
\* leases of open reservations, for every number of requests, limits,
\* windows, revisions and attempts, whichever of the owner, a replay and the
\* recovery worker closes a reservation.
THEOREM LedgerIsExact == Spec => []LedgerExact
  <1>1. Spec => []LedgerInv
    BY LedgerInit, LedgerStep, PTL DEF Spec
  <1> QED
    BY <1>1, ExactLedger, PTL

-----------------------------------------------------------------------------
(* What is closed or charged stays so. *)

\* Guards: only open and undecided requests are worked on.
LEMMA OnlyOpen ==
    ASSUME LedgerInv, NEW r \in Requests, Call(r) \/ Recover(r)
    PROVE  reservation[r].status \notin {"settled", "released", "expired"}
  <1>1. Pending(r) \/ logical[r].status \in {"absent", "authenticated"}
    BY DEF Call, Recover, BeginAuthenticatedRequest, RecordDecisionFailure, ReserveAccepted,
       ReserveDenied, ReserveBoundExceeded, BeginAttempt, MarkFirstByte, BeginRetryAttempt,
       SettleForRetry, SettleFinalAttempt, Settleable, FinalizeSettledAttempt,
       ReleaseBeforeDispatch, ReleaseLocked, ReleaseExpiredUndispatched, ReconcilePendingUsage,
       ReleaseExpiredConcurrencyLeases, RecoverDispatched, RecoverStaleAuthenticatedRequest
  <1>2. CASE Pending(r)
    BY <1>2 DEF Pending
  <1>3. CASE logical[r].status \in {"absent", "authenticated"}
    BY <1>3, RowFacts DEF FreshRow
  <1> QED
    BY <1>1, <1>2, <1>3

\* A step keeps the closed attempts of its request and takes no charge back.
KeepsCharges(r) ==
    /\ Len(attempts'[r]) >= Len(attempts[r])
    /\ \A n \in 1 .. Len(attempts[r]) :
          attempts[r][n].status # "started" => attempts'[r][n] = attempts[r][n]
    /\ \A b \in Buckets : bucket'[b].used >= bucket[b].used

\* Moving units charges, it never gives a charge back.
LEMMA MoveCharges ==
    ASSUME TypeOK, NEW r \in Requests, NEW out \in [Buckets -> Nat],
           NEW charged \in [Buckets -> Nat], MoveUnits(r, out, charged)
    PROVE  \A b \in Buckets : bucket'[b].used >= bucket[b].used
  <1> TAKE b \in Buckets
  <1>1. bucket'[b].used = bucket[b].used + charged[b]
    BY DEF MoveUnits
  <1>2. charged[b] \in Nat /\ bucket[b].used \in Nat
    BY DEF TypeOK, BucketRow
  <1> QED
    BY <1>1, <1>2

\* Steps that leave the attempts alone, and those that close one.
LEMMA SettlementCharges ==
    ASSUME LedgerInv, NEW r \in Requests,
           \/ \E outcome \in Outcomes : SettleForRetry(r, outcome) \/ SettleFinalAttempt(r, outcome)
           \/ FinalizeSettledAttempt(r)
           \/ \E status \in {"released", "expired"} : ReleaseLocked(r, status)
    PROVE  KeepsCharges(r)
  <1>1. TypeOK /\ Len(attempts[r]) \in Nat
    BY RowFacts DEF TypeOK
  <1>2. ASSUME NEW outcome \in Outcomes, SettleForRetry(r, outcome) PROVE KeepsCharges(r)
    <2>1. /\ attempts[r] # <<>> /\ LastAttempt(r).status = "started"
          /\ ReportAccepted(r, outcome) /\ CloseAttempt(r, outcome)
          /\ MoveUnits(r, AttemptOut(r), AttemptCharge(r, outcome))
      BY <1>2 DEF SettleForRetry, Settleable
    <2>2. \A b \in Buckets : bucket'[b].used >= bucket[b].used
      BY <1>1, <2>1, AttemptMoves, MoveCharges
    <2> QED
      BY <1>1, <2>1, <2>2, CloseEffect DEF KeepsCharges
  <1>3. ASSUME NEW outcome \in Outcomes, SettleFinalAttempt(r, outcome) PROVE KeepsCharges(r)
    <2> DEFINE out == Plus(AttemptOut(r), FinalOut(r))
               charged == Plus(AttemptCharge(r, outcome), FinalCharge(r))
    <2>1. /\ attempts[r] # <<>> /\ LastAttempt(r).status = "started"
          /\ ReportAccepted(r, outcome) /\ CloseAttempt(r, outcome)
          /\ MoveUnits(r, out, charged)
      BY <1>3 DEF SettleFinalAttempt, Settleable
    <2>2. out \in [Buckets -> Nat] /\ charged \in [Buckets -> Nat]
      BY <1>1, <2>1, AttemptMoves, FinalMoves, PlusMoves
    <2> HIDE DEF out, charged
    <2>3. \A b \in Buckets : bucket'[b].used >= bucket[b].used
      BY <1>1, <2>1, <2>2, MoveCharges
    <2> QED
      BY <1>1, <2>1, <2>3, CloseEffect DEF KeepsCharges
  <1>4. CASE FinalizeSettledAttempt(r)
    <2>1. MoveUnits(r, FinalOut(r), FinalCharge(r)) /\ attempts' = attempts
      BY <1>4 DEF FinalizeSettledAttempt
    <2>2. \A b \in Buckets : bucket'[b].used >= bucket[b].used
      BY <1>1, <2>1, FinalMoves, MoveCharges
    <2> QED
      BY <1>1, <2>1, <2>2 DEF KeepsCharges
  <1>5. ASSUME NEW status, ReleaseLocked(r, status) PROVE KeepsCharges(r)
    <2> DEFINE out == [b \in Buckets |-> entry[r][b].reserved]
    <2>1. MoveUnits(r, out, Nothing) /\ attempts' = attempts
      BY <1>5 DEF ReleaseLocked
    <2>2. out \in [Buckets -> Nat] /\ Nothing \in [Buckets -> Nat]
      BY <1>1 DEF TypeOK, EntryRow, Nothing
    <2> HIDE DEF out
    <2>3. \A b \in Buckets : bucket'[b].used >= bucket[b].used
      BY <1>1, <2>1, <2>2, MoveCharges
    <2> QED
      BY <1>1, <2>1, <2>3 DEF KeepsCharges
  <1> QED
    BY <1>2, <1>3, <1>4, <1>5

\* The steps before a settlement charge nothing.
LEMMA OtherCharges ==
    ASSUME LedgerInv, NEW r \in Requests,
           \/ BeginAuthenticatedRequest(r)
           \/ \E outcome \in {"denied", "failed", "cancelled"} : RecordDecisionFailure(r, outcome)
           \/ RecoverStaleAuthenticatedRequest(r)
           \/ ReserveAccepted(r) \/ ReserveDenied(r) \/ ReserveBoundExceeded(r)
           \/ BeginAttempt(r) \/ MarkFirstByte(r) \/ BeginRetryAttempt(r)
    PROVE  KeepsCharges(r)
  <1>1. /\ TypeOK /\ attempts[r] \in Seq(AttemptRow) /\ Len(attempts[r]) \in Nat
        /\ \A b \in Buckets : bucket[b] \in BucketRow
    BY RowFacts DEF TypeOK
  <1>2. \A b \in Buckets : bucket'[b].used >= bucket[b].used
    <2>1. \A b \in Buckets : bucket'[b].used = bucket[b].used
      BY <1>1 DEF BeginAuthenticatedRequest, RecordDecisionFailure,
         RecoverStaleAuthenticatedRequest, ReserveAccepted, ReserveDenied, ReserveBoundExceeded,
         BeginAttempt, MarkFirstByte, BeginRetryAttempt, BucketRow
    <2> QED
      BY <1>1, <2>1 DEF BucketRow
  <1>3. CASE attempts' = attempts
    BY <1>1, <1>2, <1>3 DEF KeepsCharges
  <1>4. CASE BeginAttempt(r)
    <2>1. attempts[r] = <<>> /\ Len(attempts'[r]) = 1
      BY <1>1, <1>4 DEF BeginAttempt, TypeOK
    <2> QED
      BY <1>2, <2>1 DEF KeepsCharges
  <1>5. CASE MarkFirstByte(r)
    BY <1>1, <1>2, <1>5, MarkEffect DEF KeepsCharges
  <1>6. CASE BeginRetryAttempt(r)
    <2>1. PICK row : attempts' = [attempts EXCEPT ![r] = Append(@, row)]
      BY <1>6 DEF BeginRetryAttempt
    <2>2. attempts'[r] = Append(attempts[r], row)
      BY <1>1, <2>1 DEF TypeOK
    <2> QED
      BY <1>1, <1>2, <2>2 DEF KeepsCharges
  <1> QED
    BY <1>3, <1>4, <1>5, <1>6 DEF BeginAuthenticatedRequest, RecordDecisionFailure,
       RecoverStaleAuthenticatedRequest, ReserveAccepted, ReserveDenied, ReserveBoundExceeded

\* No step takes back what was charged or reopens what was closed.
LEMMA FinalStep == LedgerInv /\ [Next]_vars => StaysClosed /\ ChargesAreFinal
  <1> SUFFICES ASSUME LedgerInv, [Next]_vars PROVE StaysClosed /\ ChargesAreFinal
    OBVIOUS
  <1>1. /\ \A b \in Buckets : bucket[b] \in BucketRow
        /\ \A q \in Requests : Len(attempts[q]) \in Nat
        /\ \A q \in Requests : reservation[q].status # "pending" => leases[q] = {}
    BY RowFacts DEF TypeOK, LeaseRow, LedgerInv, BudgetInv
  <1>2. ASSUME NEW r \in Requests, Call(r) \/ Recover(r) PROVE StaysClosed /\ ChargesAreFinal
    <2>1. OnlyRow(r)
      BY <1>2, RequestSound DEF SoundStep
    <2>2. KeepsCharges(r)
      <3>1. RecoveredOutcome \in Outcomes
        BY DEF RecoveredOutcome, Outcomes, UnknownOutcome, ClosedStatus, AttemptStatus
      <3> QED
        BY <1>2, <3>1, SettlementCharges, OtherCharges
        DEF Call, Recover, ReleaseBeforeDispatch, ReleaseExpiredUndispatched,
            ReconcilePendingUsage, ReleaseExpiredConcurrencyLeases, RecoverDispatched
    <2>3. reservation[r].status \notin {"settled", "released", "expired"}
      BY <1>2, OnlyOpen
    <2>4. StaysClosed
      BY <1>1, <2>1, <2>3 DEF StaysClosed, OnlyRow
    <2>5. ASSUME NEW q \in Requests, NEW n \in 1 .. MaxAttempts, n <= Len(attempts[q])
          PROVE  /\ n <= Len(attempts'[q])
                 /\ attempts[q][n].status # "started" => attempts'[q][n] = attempts[q][n]
      <3>1. CASE q = r
        <4>1. n \in 1 .. Len(attempts[q])
          BY <1>1, <2>5
        <4>2. Len(attempts'[q]) \in Nat
          BY BudgetStep DEF LedgerInv, BudgetInv, TypeOK
        <4> QED
          BY <1>1, <2>2, <2>5, <3>1, <4>1, <4>2 DEF KeepsCharges
      <3>2. CASE q # r
        BY <2>1, <2>5, <3>2 DEF OnlyRow
      <3> QED
        BY <3>1, <3>2
    <2> QED
      BY <2>2, <2>4, <2>5 DEF ChargesAreFinal, KeepsCharges
  <1>3. CASE UNCHANGED <<logical, reservation, entry, attempts, bucket, leases>>
    <2>1. StaysClosed
      BY <1>1, <1>3 DEF StaysClosed
    <2>2. ChargesAreFinal
      BY <1>1, <1>3 DEF ChargesAreFinal, BucketRow
    <2> QED
      BY <2>1, <2>2
  <1> QED
    BY <1>2, <1>3 DEF Next, Tick, vars

\* A closed reservation is immutable and a charge is final, whatever late,
\* replayed or recovery call comes after.
THEOREM ClosedStaysFinal == Spec => ClosedIsFinal
  <1>1. Spec => []LedgerInv
    BY LedgerInit, LedgerStep, PTL DEF Spec
  <1>2. LedgerInv /\ [Next]_vars => [StaysClosed /\ ChargesAreFinal]_vars
    BY FinalStep
  <1> QED
    BY <1>1, <1>2, PTL DEF Spec, ClosedIsFinal
=============================================================================
