---------------------------- MODULE TokenBucket ----------------------------
(***************************************************************************)
(* A token-bucket limit of internal/quota: one quota_buckets row with its  *)
(* fixed-point balance, and the reservations that debit and refund it.     *)
(*                                                                         *)
(* The row is only ever changed under its row lock, by integer arithmetic  *)
(* at the instant the transaction read after locking.  A rate is kept as   *)
(* the balance quanta it earns in one refill tick, which is what           *)
(* tokenCreditPerTick makes of its numerator and denominator.              *)
(***************************************************************************)
EXTENDS Integers

CONSTANTS
    Requests,     \* requests that may hold tokens at the same time
    Revisions,    \* configuration revisions requests may be pinned to
    Capacity,     \* Capacity[v]: the bucket's capacity in revision v, in tokens
    Credit,       \* Credit[v]: tokenCreditPerTick in revision v
    MaxCapacity,  \* the largest of the capacities
    MaxCredit,    \* the largest of the credits
    Scale,        \* tokenBalanceScale: balance quanta of one token
    TickLength,   \* tokenRefillTick, in units of the clock
    Skew,         \* how far a clock reading may lie behind an earlier one
    MaxTime       \* bound on the clock

Times == 0 .. MaxTime

ASSUME PolicyTypes ==
    /\ Scale \in Nat \ {0}
    /\ MaxCapacity \in Nat /\ MaxCredit \in 0 .. Scale
    /\ Capacity \in [Revisions -> 1 .. MaxCapacity]
    /\ Credit \in [Revisions -> 1 .. MaxCredit]
ASSUME ClockTypes == TickLength \in Nat \ {0} /\ Skew \in Nat /\ MaxTime \in Nat

VARIABLES
    now,     \* the latest reading of the database clock
    bucket,  \* the row: capacity, balance, credit, refilledAt
    held,    \* held[r]: tokens reserved for r and not settled
    spent    \* tokens taken and not given back (observation)

vars == <<now, bucket, held, spent>>

-----------------------------------------------------------------------------
(* The arithmetic of token_bucket.go. *)

Lower(a, b) == IF a <= b THEN a ELSE b

tokenCapacityBalance(capacity) == capacity * Scale

\* Slip: a started tick is not waited for.
FloorDivision(numerator, denominator) == numerator \div denominator
CeilingDivision(numerator, denominator) == 1 + (numerator - 1) \div denominator

\* Slip: the part of a tick that has passed is dropped.
RefillDroppingRemainder(balance, maximum, credit, cursor, at) ==
    IF at < cursor THEN [balance |-> balance, refilledAt |-> cursor]
    ELSE [balance |-> Lower(maximum, balance + ((at - cursor) \div TickLength) * credit),
          refilledAt |-> at]

\* refillTokenBalance, with elapsedTokenTicks and addTokenTicks.
Refill(balance, maximum, credit, cursor, at) ==
    LET ticks == (at - cursor) \div TickLength
        full == at >= cursor /\ (balance = maximum
                                  \/ ticks >= CeilingDivision(maximum - balance, credit))
    IN CASE full -> [balance |-> maximum, refilledAt |-> at]
         [] ~full /\ at < cursor -> [balance |-> balance, refilledAt |-> cursor]
         [] OTHER -> [balance |-> balance + ticks * credit,
                      refilledAt |-> cursor + ticks * TickLength]

\* Slip: the interval before the transition earns the selected rate.
ReconcileAtSelectedRate(stored, v, at) ==
    LET maximum == tokenCapacityBalance(Lower(stored.capacity, Capacity[v]))
        changed == stored.capacity # Capacity[v] \/ stored.credit # Credit[v]
        refilled == Refill(Lower(stored.balance, maximum), maximum,
                           Credit[v], stored.refilledAt, at)
    IN [capacity |-> Capacity[v], balance |-> refilled.balance, credit |-> Credit[v],
        refilledAt |-> IF changed /\ at >= stored.refilledAt THEN at ELSE refilled.refilledAt]

\* reconcileTokenBucket: the stored row as of `at` under the policy of v.
Reconcile(stored, v, at) ==
    LET maximum == tokenCapacityBalance(Lower(stored.capacity, Capacity[v]))
        changed == stored.capacity # Capacity[v] \/ stored.credit # Credit[v]
        refilled == Refill(Lower(stored.balance, maximum), maximum,
                           Lower(stored.credit, Credit[v]), stored.refilledAt, at)
    IN [capacity |-> Capacity[v], balance |-> refilled.balance, credit |-> Credit[v],
        refilledAt |-> IF changed /\ at >= stored.refilledAt THEN at ELSE refilled.refilledAt]

Debit(state, units) ==
    [capacity |-> state.capacity, balance |-> state.balance - units * Scale,
     credit |-> state.credit, refilledAt |-> state.refilledAt]

\* refundTokenBalance.
Refund(state, units, at) ==
    LET maximum == tokenCapacityBalance(state.capacity)
        full == units * Scale >= maximum - state.balance
    IN [capacity |-> state.capacity,
        balance |-> IF full THEN maximum ELSE state.balance + units * Scale,
        credit |-> state.credit,
        refilledAt |-> IF full /\ at >= state.refilledAt THEN at ELSE state.refilledAt]

\* tokenRetryAt.
RetryAt(state, units, at) ==
    LET missing == units * Scale - state.balance
        ready == state.refilledAt + CeilingDivision(missing, state.credit) * TickLength
    IN IF missing <= 0 \/ ready < at THEN at ELSE ready

-----------------------------------------------------------------------------
BucketRow == [capacity : 1 .. MaxCapacity, balance : Nat, credit : 1 .. MaxCredit, refilledAt : Nat]

TypeOK ==
    /\ now \in Times
    /\ bucket \in BucketRow
    /\ bucket.balance <= tokenCapacityBalance(bucket.capacity)
    /\ held \in [Requests -> Nat]
    /\ spent \in Int

\* materializePlannedBuckets: a bucket starts full.
Init ==
    /\ now = 0
    /\ bucket \in {[capacity |-> Capacity[v], balance |-> tokenCapacityBalance(Capacity[v]),
                    credit |-> Credit[v], refilledAt |-> 0] : v \in Revisions}
    /\ held = [r \in Requests |-> 0]
    /\ spent = 0

\* What the clock may read: the database may have moved to a host whose
\* clock is behind.
Readings == {at \in Times : at \in (now - Skew) .. now}

\* Reserve, and BeginRetryAttempt once the previous attempt is settled.
Reserve(r, v, units, at) ==
    /\ held[r] = 0
    /\ units \in 1 .. Capacity[v]
    /\ Reconcile(bucket, v, at).balance >= units * Scale
    /\ bucket' = Debit(Reconcile(bucket, v, at), units)
    /\ held' = [held EXCEPT ![r] = units]
    /\ spent' = spent + units
    /\ UNCHANGED now

\* Reserve, denied by this or another limit: the reconciled row is stored.
ReserveDenied(v, at) ==
    /\ bucket' = Reconcile(bucket, v, at)
    /\ UNCHANGED <<now, held, spent>>

\* Slip: the whole reservation is refunded, whatever was charged.
SettleRefundingAll(r, charged, at) ==
    /\ held[r] > 0
    /\ charged \in 0 .. held[r]
    /\ bucket' = Refund(bucket, held[r], at)
    /\ held' = [held EXCEPT ![r] = 0]
    /\ spent' = spent - (held[r] - charged)
    /\ UNCHANGED now

\* A settlement that charges part of what r holds, or a release of all of it.
Settle(r, charged, at) ==
    /\ held[r] > 0
    /\ charged \in 0 .. held[r]
    /\ bucket' = IF charged < held[r] THEN Refund(bucket, held[r] - charged, at) ELSE bucket
    /\ held' = [held EXCEPT ![r] = 0]
    /\ spent' = spent - (held[r] - charged)
    /\ UNCHANGED now

Tick ==
    /\ now < MaxTime
    /\ now' = now + 1
    /\ UNCHANGED <<bucket, held, spent>>

Next ==
    \/ \E at \in Readings :
          \/ \E r \in Requests, v \in Revisions, units \in 1 .. MaxCapacity : Reserve(r, v, units, at)
          \/ \E v \in Revisions : ReserveDenied(v, at)
          \/ \E r \in Requests, charged \in 0 .. MaxCapacity : Settle(r, charged, at)
    \/ Tick

Spec == Init /\ [][Next]_vars

-----------------------------------------------------------------------------
(* Safety. *)

\* However reservations, refunds, denials, transitions between revisions and
\* clock readings interleave, what was taken and kept since the bucket was
\* full is within one capacity plus what the fastest revision's rate earned.
RateRespected ==
    TickLength * Scale * spent <= TickLength * Scale * MaxCapacity + MaxCredit * now

\* The bucket keeps its rate: the row stays within the capacity of its policy
\* and the long-run rate is respected.
RateKept == TypeOK /\ RateRespected

\* The promised retry instant is exact: left alone, the bucket can serve the
\* request then and not a moment earlier.
RetryAtIsExact ==
    \A v \in Revisions, at \in Readings :
        LET state == Reconcile(bucket, v, at)
            canTake(units, t) == Reconcile(state, v, t).balance >= units * Scale
        IN \A units \in 1 .. Capacity[v] :
              /\ canTake(units, RetryAt(state, units, at))
              /\ \A t \in at .. (RetryAt(state, units, at) - 1) : ~canTake(units, t)

\* Refreshing the row in between, as every denied request does, neither loses
\* nor gains credit.
RefillComposes ==
    \A v \in Revisions :
        LET state == Reconcile(bucket, v, now)
        IN \A t \in now .. MaxTime, u \in now .. MaxTime :
              t <= u => Reconcile(Reconcile(state, v, t), v, u) = Reconcile(state, v, u)

\* Left alone or refreshed, a bucket serves a request exactly from the instant
\* that a denial promised (tokenRetryAt, refillTokenBalance).
RefreshIsExact == RetryAtIsExact /\ RefillComposes

\* The balance an ideal bucket has at `at` when the policy of v replaced the
\* stored one at instant t, in quanta per unit of time.
IdealBalance(stored, v, t, at) ==
    LET fine(capacity) == TickLength * tokenCapacityBalance(capacity)
        before == Lower(fine(stored.capacity),
                        TickLength * stored.balance + stored.credit * (t - stored.refilledAt))
    IN Lower(fine(Capacity[v]), Lower(fine(Capacity[v]), before) + Credit[v] * (at - t))

\* A transition may under-credit but never over-credits, whenever the new
\* policy became active since the row was last written.
TransitionNeverOverCredits ==
    \A v \in Revisions, at \in bucket.refilledAt .. MaxTime :
        \A t \in bucket.refilledAt .. at :
            TickLength * Reconcile(bucket, v, at).balance <= IdealBalance(bucket, v, t, at)

=============================================================================
