------------------------- MODULE TokenBucketProofs -------------------------
(***************************************************************************)
(* Proofs about token-bucket limits, for every capacity, rate, clock skew, *)
(* number of requests and number of revisions.  The arithmetic is settled  *)
(* first, on one refill; the invariants are then one line per action.      *)
(***************************************************************************)
EXTENDS TokenBucket, TLAPS

-----------------------------------------------------------------------------
(* Arithmetic. *)

\* Multiplying by a natural number preserves order.
LEMMA TimesMonotone ==
    ASSUME NEW k \in Nat, NEW a \in Int, NEW b \in Int, a <= b
    PROVE  k * a <= k * b
<1>1. PICK d \in Nat : b = a + d
  <2>1. b - a \in Nat /\ b = a + (b - a)
    OBVIOUS
  <2> QED BY <2>1
<1>2. k * d \in Nat
  OBVIOUS
<1>3. k * b = k * a + k * d
  BY <1>1
<1> QED BY <1>2, <1>3

\* What elapsedTokenTicks relies on: whole ticks, and less than one left over.
LEMMA Division ==
    ASSUME NEW a \in Nat, NEW b \in Nat \ {0}
    PROVE  /\ a \div b \in Nat
           /\ b * (a \div b) <= a
           /\ a < b * (a \div b) + b
OBVIOUS

\* refillTokenBalance's comment: below the ticks to full, the added credit is
\* strictly below what is missing, so the product cannot overflow; from the
\* ticks to full on, it covers what is missing.
LEMMA CeilingExact ==
    ASSUME NEW missing \in Nat \ {0}, NEW credit \in Nat \ {0}, NEW ticks \in Nat
    PROVE  /\ ticks < CeilingDivision(missing, credit) => credit * ticks < missing
           /\ ticks >= CeilingDivision(missing, credit) => credit * ticks >= missing
<1> DEFINE q == (missing - 1) \div credit
<1>1. q \in Nat /\ credit * q <= missing - 1 /\ missing - 1 < credit * q + credit
  BY Division
<1>2. CeilingDivision(missing, credit) = 1 + q
  BY DEF CeilingDivision
<1> HIDE DEF q
<1>3. ASSUME ticks < 1 + q PROVE credit * ticks < missing
  <2>1. credit * ticks <= credit * q
    BY <1>1, <1>3, TimesMonotone
  <2> QED BY <2>1, <1>1
<1>4. ASSUME ticks >= 1 + q PROVE credit * ticks >= missing
  <2>1. credit * (1 + q) <= credit * ticks
    BY <1>1, <1>4, TimesMonotone
  <2>2. credit * (1 + q) = credit + credit * q
    BY <1>1
  <2> QED BY <2>1, <2>2, <1>1
<1> QED BY <1>2, <1>3, <1>4

\* What a refill r may be: within the maximum, its cursor neither moved back
\* nor past the instant of the refill, and no more added than the rate earns
\* between the two cursors.
Earned(balance, maximum, credit, cursor, at, r) ==
    /\ r.balance \in Nat /\ r.balance <= maximum
    /\ r.refilledAt \in Nat
    /\ cursor <= r.refilledAt
    /\ at >= cursor => r.refilledAt <= at
    /\ at < cursor => r.refilledAt = cursor
    /\ TickLength * r.balance <= TickLength * balance + credit * (r.refilledAt - cursor)

\* refillTokenBalance gives what was earned and no more.
LEMMA RefillEarned ==
    ASSUME NEW maximum \in Nat, NEW balance \in Nat, balance <= maximum,
           NEW credit \in Nat \ {0}, NEW cursor \in Nat, NEW at \in Nat
    PROVE  Earned(balance, maximum, credit, cursor, at, Refill(balance, maximum, credit, cursor, at))
<1> DEFINE r == Refill(balance, maximum, credit, cursor, at)
           ticks == (at - cursor) \div TickLength
           full == at >= cursor /\ (balance = maximum
                       \/ ticks >= CeilingDivision(maximum - balance, credit))
<1>0. TickLength \in Nat \ {0}
  BY ClockTypes
<1>1. CASE at < cursor
  <2>1. ~full
    BY <1>1
  <2>2. r = [balance |-> balance, refilledAt |-> cursor]
    BY <1>1, <2>1 DEF Refill
  <2>3. r.balance = balance /\ r.refilledAt = cursor
    BY <2>2
  <2>4. TickLength * balance <= TickLength * balance + credit * (cursor - cursor)
    BY <1>0
  <2> QED BY <2>3, <2>4, <1>1 DEF Earned
<1>2. CASE at >= cursor
  <2>1. ticks \in Nat /\ TickLength * ticks <= at - cursor
    BY <1>0, <1>2, Division
  <2> HIDE DEF ticks
  <2>2. CASE full
    <3>1. r = [balance |-> maximum, refilledAt |-> at]
      BY <2>2 DEF Refill, ticks
    <3>2. r.balance = maximum /\ r.refilledAt = at
      BY <3>1
    <3>3. maximum <= balance + credit * ticks
      <4>1. CASE balance = maximum
        BY <4>1, <2>1
      <4>2. CASE balance # maximum
        <5>1. maximum - balance \in Nat \ {0}
          BY <4>2
        <5>2. credit * ticks >= maximum - balance
          BY <5>1, <2>1, <2>2, <4>2, CeilingExact
        <5> QED BY <5>2, <2>1
      <4> QED BY <4>1, <4>2
    <3>4. TickLength * maximum <= TickLength * (balance + credit * ticks)
      BY <3>3, <1>0, <2>1, TimesMonotone
    <3>5. TickLength * (balance + credit * ticks) = TickLength * balance + credit * (TickLength * ticks)
      BY <1>0, <2>1
    <3>6. credit * (TickLength * ticks) <= credit * (at - cursor)
      BY <1>0, <1>2, <2>1, TimesMonotone
    <3> QED BY <3>2, <3>4, <3>5, <3>6, <1>2, <1>0, <2>1 DEF Earned
  <2>3. CASE ~full
    <3>1. r = [balance |-> balance + ticks * credit, refilledAt |-> cursor + ticks * TickLength]
      BY <2>3, <1>2 DEF Refill, ticks
    <3>2. r.balance = balance + credit * ticks /\ r.refilledAt = cursor + TickLength * ticks
      BY <3>1, <1>0, <2>1
    <3>3. credit * ticks < maximum - balance
      <4>1. maximum - balance \in Nat \ {0} /\ ticks < CeilingDivision(maximum - balance, credit)
        <5>1. balance # maximum /\ ~(ticks >= CeilingDivision(maximum - balance, credit))
          BY <2>3, <1>2
        <5>2. maximum - balance \in Nat \ {0}
          BY <5>1
        <5>3. CeilingDivision(maximum - balance, credit) \in Int
          BY <5>2, Division DEF CeilingDivision
        <5> QED BY <5>1, <5>2, <5>3, <2>1
      <4> QED BY <4>1, <2>1, CeilingExact
    <3>4. credit * ticks \in Nat /\ TickLength * ticks \in Nat
      BY <1>0, <2>1
    <3>5. TickLength * (balance + credit * ticks) = TickLength * balance + credit * ((cursor + TickLength * ticks) - cursor)
      BY <1>0, <2>1
    <3>6. TickLength * r.balance <= TickLength * balance + credit * (r.refilledAt - cursor)
      <4>1. TickLength * (balance + credit * ticks) \in Int
        BY <1>0, <3>4
      <4> HIDE DEF r
      <4> QED BY <4>1, <3>2, <3>5
    <3>7. /\ r.balance \in Nat /\ r.balance <= maximum
          /\ r.refilledAt \in Nat
          /\ cursor <= r.refilledAt
          /\ r.refilledAt <= at
      <4> HIDE DEF r
      <4> QED BY <3>2, <3>3, <3>4, <1>2, <2>1
    <3> QED BY <3>6, <3>7, <1>2 DEF Earned
  <2> QED BY <2>2, <2>3
<1> QED BY <1>1, <1>2

-----------------------------------------------------------------------------
(* The operations on the row. *)

\* What is known of a row: its fields, and that it is within its capacity.
RowOK(row) ==
    /\ row \in BucketRow
    /\ row.balance <= tokenCapacityBalance(row.capacity)

\* One reconciliation keeps the row well formed, credits no more than the
\* fastest revision earns between the two cursors, and leaves the cursor
\* behind the clock.
LEMMA ReconcileEarned ==
    ASSUME NEW row, RowOK(row), NEW v \in Revisions, NEW at \in Nat
    PROVE  LET next == Reconcile(row, v, at)
               low == Lower(row.credit, Credit[v])
           IN /\ RowOK(next)
              /\ next.capacity = Capacity[v]
              /\ next.balance <= tokenCapacityBalance(Lower(row.capacity, Capacity[v]))
              /\ row.refilledAt <= next.refilledAt
              /\ next.refilledAt <= at \/ next.refilledAt = row.refilledAt
              /\ TickLength * next.balance
                   <= TickLength * row.balance + low * (next.refilledAt - row.refilledAt)
<1> DEFINE next == Reconcile(row, v, at)
           low == Lower(row.credit, Credit[v])
           capacity == Lower(row.capacity, Capacity[v])
           maximum == tokenCapacityBalance(capacity)
           start == Lower(row.balance, maximum)
           refilled == Refill(start, maximum, low, row.refilledAt, at)
           changed == row.capacity # Capacity[v] \/ row.credit # Credit[v]
<1>1. /\ Scale \in Nat \ {0} /\ TickLength \in Nat \ {0}
      /\ Capacity[v] \in 1 .. MaxCapacity /\ Credit[v] \in 1 .. MaxCredit
      /\ MaxCapacity \in Nat /\ MaxCredit \in Nat
  BY PolicyTypes, ClockTypes
<1>2. /\ row.capacity \in 1 .. MaxCapacity /\ row.balance \in Nat
      /\ row.credit \in 1 .. MaxCredit /\ row.refilledAt \in Nat
  BY DEF RowOK, BucketRow
<1>3. capacity \in 1 .. MaxCapacity /\ capacity <= Capacity[v] /\ low \in Nat \ {0}
  BY <1>1, <1>2 DEF Lower
<1>4. maximum \in Nat /\ maximum <= tokenCapacityBalance(Capacity[v])
  <2>1. Scale * capacity <= Scale * Capacity[v]
    BY <1>1, <1>3, TimesMonotone
  <2>2. Scale * capacity = maximum /\ Scale * Capacity[v] = tokenCapacityBalance(Capacity[v])
    BY <1>1, <1>3 DEF tokenCapacityBalance
  <2>3. maximum \in Nat
    BY <1>1, <1>3 DEF tokenCapacityBalance
  <2> QED BY <2>1, <2>2, <2>3
<1> HIDE DEF capacity, low, maximum
<1>5. start \in Nat /\ start <= maximum /\ start <= row.balance
  BY <1>2, <1>4 DEF Lower
<1> HIDE DEF start
<1>6. /\ refilled.balance \in Nat /\ refilled.balance <= maximum
      /\ refilled.refilledAt \in Nat
      /\ row.refilledAt <= refilled.refilledAt
      /\ at >= row.refilledAt => refilled.refilledAt <= at
      /\ at < row.refilledAt => refilled.refilledAt = row.refilledAt
      /\ TickLength * refilled.balance <= TickLength * start + low * (refilled.refilledAt - row.refilledAt)
  <2>1. Earned(start, maximum, low, row.refilledAt, at, refilled)
    BY <1>2, <1>3, <1>4, <1>5, RefillEarned
  <2> QED BY <2>1 DEF Earned
<1>7. next = [capacity |-> Capacity[v], balance |-> refilled.balance, credit |-> Credit[v],
              refilledAt |-> IF changed /\ at >= row.refilledAt THEN at ELSE refilled.refilledAt]
  BY DEF Reconcile, capacity, maximum, start, low
<1> HIDE DEF refilled, changed, next
<1>8. /\ next.capacity = Capacity[v] /\ next.balance = refilled.balance /\ next.credit = Credit[v]
      /\ next.refilledAt \in Nat /\ refilled.refilledAt <= next.refilledAt
      /\ row.refilledAt <= next.refilledAt
      /\ next.refilledAt <= at \/ next.refilledAt = row.refilledAt
  BY <1>2, <1>6, <1>7
<1>9. RowOK(next)
  <2>1. next \in BucketRow
    BY <1>1, <1>6, <1>7, <1>8 DEF BucketRow
  <2>2. tokenCapacityBalance(Capacity[v]) \in Nat
    BY <1>1 DEF tokenCapacityBalance
  <2> QED BY <2>1, <2>2, <1>4, <1>6, <1>8 DEF RowOK
<1>10. TickLength * next.balance <= TickLength * row.balance + low * (next.refilledAt - row.refilledAt)
  <2>1. TickLength * start <= TickLength * row.balance
    BY <1>1, <1>2, <1>5, TimesMonotone
  <2>2. low * (refilled.refilledAt - row.refilledAt) <= low * (next.refilledAt - row.refilledAt)
    BY <1>2, <1>3, <1>6, <1>8, TimesMonotone
  <2>3. /\ TickLength * start \in Int /\ TickLength * row.balance \in Int
        /\ TickLength * refilled.balance \in Int
        /\ low * (refilled.refilledAt - row.refilledAt) \in Int
        /\ low * (next.refilledAt - row.refilledAt) \in Int
    BY <1>1, <1>2, <1>3, <1>5, <1>6, <1>8
  <2> QED BY <2>1, <2>2, <2>3, <1>6, <1>8
<1> QED BY <1>6, <1>8, <1>9, <1>10 DEF next, low, maximum, capacity

-----------------------------------------------------------------------------
(* The inductive invariant. *)

\* The cursor is never ahead of the clock: no credit is given in advance.
CursorBehindClock == bucket.refilledAt <= now

\* What is in the row and what was taken from it was all in the full bucket
\* or earned up to the cursor.
Conserved ==
    TickLength * bucket.balance + TickLength * (Scale * spent)
        <= TickLength * (Scale * MaxCapacity) + MaxCredit * bucket.refilledAt

BucketInv == TypeOK /\ CursorBehindClock /\ Conserved

\* The constants, as the proofs below use them.
LEMMA Numbers ==
    /\ Scale \in Nat \ {0} /\ TickLength \in Nat \ {0} /\ MaxTime \in Nat
    /\ MaxCapacity \in Nat /\ MaxCredit \in Nat
    /\ \A v \in Revisions : Capacity[v] \in 1 .. MaxCapacity /\ Credit[v] \in 1 .. MaxCredit
BY PolicyTypes, ClockTypes

\* A full bucket satisfies the invariant.
LEMMA InitBucket == Init => BucketInv
<1> SUFFICES ASSUME Init PROVE BucketInv
  OBVIOUS
<1>1. PICK v \in Revisions :
         bucket = [capacity |-> Capacity[v], balance |-> tokenCapacityBalance(Capacity[v]),
                   credit |-> Credit[v], refilledAt |-> 0]
  BY DEF Init
<1>2. Capacity[v] \in 1 .. MaxCapacity /\ Credit[v] \in 1 .. MaxCredit
  BY Numbers
<1>3. /\ bucket.capacity = Capacity[v] /\ bucket.balance = Scale * Capacity[v]
      /\ bucket.credit = Credit[v] /\ bucket.refilledAt = 0
  BY <1>1, <1>2, Numbers DEF tokenCapacityBalance
<1>4. Scale * Capacity[v] \in Nat /\ Scale * MaxCapacity \in Nat
  BY <1>2, Numbers
<1>5. TypeOK
  <2>1. bucket \in BucketRow
    BY <1>1, <1>2, <1>3, <1>4 DEF BucketRow
  <2>2. bucket.balance <= tokenCapacityBalance(bucket.capacity)
    BY <1>1, <1>3, <1>4
  <2> QED BY <2>1, <2>2, Numbers DEF Init, TypeOK, Times
<1>6. TickLength * (Scale * Capacity[v]) <= TickLength * (Scale * MaxCapacity)
  <2>1. Scale * Capacity[v] <= Scale * MaxCapacity
    BY <1>2, Numbers, TimesMonotone
  <2> QED BY <2>1, <1>4, Numbers, TimesMonotone
<1>7. Conserved
  <2>1. spent = 0
    BY DEF Init
  <2>2. TickLength * (Scale * spent) = 0 /\ MaxCredit * bucket.refilledAt = 0
    BY <2>1, <1>3, Numbers
  <2>3. TickLength * (Scale * Capacity[v]) \in Int /\ TickLength * (Scale * MaxCapacity) \in Int
    BY <1>4, Numbers
  <2> QED BY <2>2, <2>3, <1>3, <1>6 DEF Conserved
<1> QED BY <1>3, <1>5, <1>7 DEF BucketInv, CursorBehindClock, Init

\* A reconciliation of the row keeps the account balanced: what it credits is
\* what the fastest revision earns while the cursor moves.
LEMMA ReconcileConserves ==
    ASSUME BucketInv, NEW v \in Revisions, NEW at \in Readings
    PROVE  LET next == Reconcile(bucket, v, at)
           IN /\ RowOK(next)
              /\ next.capacity = Capacity[v]
              /\ next.refilledAt <= now
              /\ TickLength * next.balance + TickLength * (Scale * spent)
                   <= TickLength * (Scale * MaxCapacity) + MaxCredit * next.refilledAt
<1> DEFINE next == Reconcile(bucket, v, at)
           low == Lower(bucket.credit, Credit[v])
<1>1. /\ RowOK(bucket) /\ at \in Nat /\ at <= now /\ now \in Nat
      /\ bucket.refilledAt \in Nat /\ bucket.refilledAt <= now
      /\ bucket.balance \in Nat /\ bucket.credit \in 1 .. MaxCredit
      /\ spent \in Int
  BY Numbers, ClockTypes
     DEF BucketInv, TypeOK, CursorBehindClock, RowOK, BucketRow, Readings, Times
<1>2. /\ RowOK(next)
      /\ next.capacity = Capacity[v]
      /\ bucket.refilledAt <= next.refilledAt
      /\ next.refilledAt <= at \/ next.refilledAt = bucket.refilledAt
      /\ TickLength * next.balance
           <= TickLength * bucket.balance + low * (next.refilledAt - bucket.refilledAt)
  BY <1>1, ReconcileEarned
<1>3. next.refilledAt \in Nat /\ next.balance \in Nat
  BY <1>2 DEF RowOK, BucketRow
<1>4. low \in Nat /\ low <= MaxCredit
  BY <1>1, Numbers DEF Lower
<1> HIDE DEF next, low
<1>5. low * (next.refilledAt - bucket.refilledAt)
        <= MaxCredit * next.refilledAt - MaxCredit * bucket.refilledAt
  <2>1. next.refilledAt - bucket.refilledAt \in Nat
    BY <1>1, <1>2, <1>3
  <2>2. (next.refilledAt - bucket.refilledAt) * low
          <= (next.refilledAt - bucket.refilledAt) * MaxCredit
    BY <2>1, <1>4, Numbers, TimesMonotone
  <2>3. (next.refilledAt - bucket.refilledAt) * MaxCredit
          = MaxCredit * next.refilledAt - MaxCredit * bucket.refilledAt
    BY <1>1, <1>3, Numbers
  <2>4. (next.refilledAt - bucket.refilledAt) * low = low * (next.refilledAt - bucket.refilledAt)
    BY <1>1, <1>3, <1>4
  <2> QED BY <2>2, <2>3, <2>4
<1>6. /\ TickLength * next.balance \in Int /\ TickLength * bucket.balance \in Int
      /\ TickLength * (Scale * spent) \in Int /\ TickLength * (Scale * MaxCapacity) \in Int
      /\ low * (next.refilledAt - bucket.refilledAt) \in Int
      /\ MaxCredit * next.refilledAt \in Int /\ MaxCredit * bucket.refilledAt \in Int
  BY <1>1, <1>3, <1>4, Numbers
<1>7. Conserved
  BY DEF BucketInv
<1> QED BY <1>1, <1>2, <1>3, <1>5, <1>6, <1>7 DEF Conserved, next

\* Reserving tokens moves them from the row to what was taken.
LEMMA ReserveBucket ==
    ASSUME BucketInv, NEW r \in Requests, NEW v \in Revisions, NEW units \in 1 .. MaxCapacity,
           NEW at \in Readings, Reserve(r, v, units, at)
    PROVE  BucketInv'
<1> DEFINE next == Reconcile(bucket, v, at)
<1>1. /\ RowOK(next)
      /\ next.capacity = Capacity[v]
      /\ next.refilledAt <= now
      /\ TickLength * next.balance + TickLength * (Scale * spent)
           <= TickLength * (Scale * MaxCapacity) + MaxCredit * next.refilledAt
  BY ReconcileConserves
<1>2. /\ next.balance >= units * Scale
      /\ bucket' = [capacity |-> next.capacity, balance |-> next.balance - units * Scale,
                    credit |-> next.credit, refilledAt |-> next.refilledAt]
      /\ held' = [held EXCEPT ![r] = units]
      /\ spent' = spent + units
      /\ now' = now
  BY DEF Reserve, Debit
<1> HIDE DEF next
<1>3. /\ next.capacity \in 1 .. MaxCapacity /\ next.balance \in Nat
      /\ next.credit \in 1 .. MaxCredit /\ next.refilledAt \in Nat
      /\ next.balance <= tokenCapacityBalance(next.capacity)
  BY <1>1 DEF RowOK, BucketRow
<1>4. units \in Nat /\ units * Scale \in Nat /\ spent \in Int /\ held \in [Requests -> Nat]
  BY Numbers DEF BucketInv, TypeOK
<1>5. /\ bucket'.capacity = next.capacity /\ bucket'.balance = next.balance - units * Scale
      /\ bucket'.credit = next.credit /\ bucket'.refilledAt = next.refilledAt
  BY <1>2
<1>6. TypeOK'
  <2>1. bucket'.balance \in Nat /\ bucket'.balance <= next.balance
    BY <1>2, <1>3, <1>4, <1>5
  <2>2. bucket' \in BucketRow
    BY <1>2, <1>3, <1>5, <2>1 DEF BucketRow
  <2>3. bucket'.balance <= tokenCapacityBalance(bucket'.capacity)
    <3>1. tokenCapacityBalance(next.capacity) \in Nat
      BY <1>3, Numbers DEF tokenCapacityBalance
    <3> QED BY <3>1, <2>1, <1>3, <1>5
  <2>4. held' \in [Requests -> Nat] /\ spent' \in Int
    BY <1>2, <1>4
  <2>5. now' \in Times
    BY <1>2 DEF BucketInv, TypeOK
  <2> QED BY <2>2, <2>3, <2>4, <2>5 DEF TypeOK, tokenCapacityBalance
<1>7. Conserved'
  <2>1. TickLength * bucket'.balance = TickLength * next.balance - TickLength * (units * Scale)
    BY <1>3, <1>4, <1>5, Numbers
  <2>2. TickLength * (Scale * spent') = TickLength * (Scale * spent) + TickLength * (units * Scale)
    BY <1>2, <1>4, Numbers
  <2>3. /\ TickLength * next.balance \in Int /\ TickLength * (units * Scale) \in Int
        /\ TickLength * (Scale * spent) \in Int /\ TickLength * (Scale * MaxCapacity) \in Int
        /\ MaxCredit * next.refilledAt \in Int
    BY <1>3, <1>4, Numbers
  <2> QED BY <2>1, <2>2, <2>3, <1>1, <1>5 DEF Conserved
<1>8. CursorBehindClock'
  BY <1>1, <1>2, <1>5 DEF CursorBehindClock
<1> QED BY <1>6, <1>7, <1>8 DEF BucketInv

\* Settling returns at most what was not charged, and cuts it at the capacity.
LEMMA SettleBucket ==
    ASSUME BucketInv, NEW r \in Requests, NEW charged \in 0 .. MaxCapacity,
           NEW at \in Readings, Settle(r, charged, at)
    PROVE  BucketInv'
<1> DEFINE units == held[r] - charged
           maximum == tokenCapacityBalance(bucket.capacity)
           full == units * Scale >= maximum - bucket.balance
<1>1. /\ bucket.capacity \in 1 .. MaxCapacity /\ bucket.balance \in Nat
      /\ bucket.credit \in 1 .. MaxCredit /\ bucket.refilledAt \in Nat
      /\ bucket.balance <= maximum /\ maximum \in Nat
      /\ bucket.refilledAt <= now /\ now \in Nat /\ at \in Nat /\ at <= now
      /\ spent \in Int /\ held \in [Requests -> Nat]
  BY Numbers, ClockTypes
     DEF BucketInv, TypeOK, CursorBehindClock, BucketRow, Readings, Times, tokenCapacityBalance
<1>2. units \in Nat /\ units * Scale \in Nat
  BY <1>1, Numbers DEF Settle
<1>3. held' = [held EXCEPT ![r] = 0] /\ spent' = spent - units /\ now' = now
  BY DEF Settle
<1>4. /\ bucket' \in BucketRow
      /\ bucket'.capacity = bucket.capacity
      /\ bucket'.balance <= maximum
      /\ bucket'.balance <= bucket.balance + units * Scale
      /\ bucket.refilledAt <= bucket'.refilledAt
      /\ bucket'.refilledAt <= now
  <2>1. CASE bucket' = bucket
    BY <2>1, <1>1, <1>2 DEF BucketInv, TypeOK
  <2>2. CASE bucket' = Refund(bucket, units, at)
    <3>1. bucket' = [capacity |-> bucket.capacity,
                     balance |-> IF full THEN maximum ELSE bucket.balance + units * Scale,
                     credit |-> bucket.credit,
                     refilledAt |-> IF full /\ at >= bucket.refilledAt THEN at ELSE bucket.refilledAt]
      BY <2>2 DEF Refund
    <3> HIDE DEF units, maximum
    <3>2. /\ bucket'.capacity = bucket.capacity
          /\ bucket'.balance = IF full THEN maximum ELSE bucket.balance + units * Scale
          /\ bucket'.credit = bucket.credit
          /\ bucket'.refilledAt = IF full /\ at >= bucket.refilledAt THEN at ELSE bucket.refilledAt
      BY <3>1
    <3>3. bucket'.balance \in Nat /\ bucket'.refilledAt \in Nat
      BY <3>2, <1>1, <1>2
    <3>4. bucket' \in BucketRow
      BY <3>1, <3>2, <3>3, <1>1 DEF BucketRow
    <3> QED BY <3>2, <3>3, <3>4, <1>1, <1>2
  <2>3. bucket' = bucket \/ bucket' = Refund(bucket, units, at)
    BY DEF Settle
  <2> QED BY <2>1, <2>2, <2>3
<1>5. bucket'.balance \in Nat /\ bucket'.refilledAt \in Nat
  BY <1>4 DEF BucketRow
<1>6. TypeOK'
  <2>1. held' \in [Requests -> Nat] /\ spent' \in Int
    BY <1>1, <1>2, <1>3
  <2>2. now' \in Times
    BY <1>3 DEF BucketInv, TypeOK
  <2>3. bucket'.balance <= tokenCapacityBalance(bucket'.capacity)
    BY <1>4
  <2> QED BY <1>4, <2>1, <2>2, <2>3 DEF TypeOK, tokenCapacityBalance
<1> HIDE DEF units
<1>7. Conserved'
  <2>1. TickLength * bucket'.balance <= TickLength * (bucket.balance + units * Scale)
    BY <1>1, <1>2, <1>4, <1>5, Numbers, TimesMonotone
  <2>2. TickLength * (bucket.balance + units * Scale)
          = TickLength * bucket.balance + TickLength * (units * Scale)
    BY <1>1, <1>2, Numbers
  <2>3. TickLength * (Scale * spent') = TickLength * (Scale * spent) - TickLength * (units * Scale)
    BY <1>1, <1>2, <1>3, Numbers
  <2>4. MaxCredit * bucket.refilledAt <= MaxCredit * bucket'.refilledAt
    BY <1>1, <1>4, <1>5, Numbers, TimesMonotone
  <2>5. /\ TickLength * bucket.balance \in Int /\ TickLength * (units * Scale) \in Int
        /\ TickLength * (Scale * spent) \in Int /\ TickLength * (Scale * MaxCapacity) \in Int
        /\ MaxCredit * bucket.refilledAt \in Int /\ MaxCredit * bucket'.refilledAt \in Int
        /\ TickLength * bucket'.balance \in Int
    BY <1>1, <1>2, <1>5, Numbers
  <2>6. Conserved
    BY DEF BucketInv
  <2> QED BY <2>1, <2>2, <2>3, <2>4, <2>5, <2>6 DEF Conserved
<1>8. CursorBehindClock'
  BY <1>3, <1>4 DEF CursorBehindClock
<1> QED BY <1>6, <1>7, <1>8 DEF BucketInv

\* Every step keeps the invariant.
LEMMA NextBucket == BucketInv /\ [Next]_vars => BucketInv'
<1> SUFFICES ASSUME BucketInv, [Next]_vars PROVE BucketInv'
  OBVIOUS
<1>1. ASSUME NEW at \in Readings, NEW r \in Requests, NEW v \in Revisions,
             NEW units \in 1 .. MaxCapacity, Reserve(r, v, units, at)
      PROVE  BucketInv'
  BY <1>1, ReserveBucket
<1>2. ASSUME NEW at \in Readings, NEW v \in Revisions, ReserveDenied(v, at)
      PROVE  BucketInv'
  <2>1. /\ bucket' = Reconcile(bucket, v, at) /\ now' = now /\ held' = held /\ spent' = spent
    BY <1>2 DEF ReserveDenied
  <2>2. /\ RowOK(bucket')
        /\ bucket'.refilledAt <= now
        /\ TickLength * bucket'.balance + TickLength * (Scale * spent)
             <= TickLength * (Scale * MaxCapacity) + MaxCredit * bucket'.refilledAt
    BY <2>1, ReconcileConserves
  <2> QED BY <2>1, <2>2
        DEF BucketInv, TypeOK, CursorBehindClock, Conserved, RowOK, tokenCapacityBalance
<1>3. ASSUME NEW at \in Readings, NEW r \in Requests, NEW charged \in 0 .. MaxCapacity,
             Settle(r, charged, at)
      PROVE  BucketInv'
  BY <1>3, SettleBucket
<1>4. CASE Tick
  <2>1. now' \in Times /\ now <= now'
    BY <1>4, Numbers DEF Tick, BucketInv, TypeOK, Times
  <2>2. CursorBehindClock'
    <3>1. bucket.refilledAt \in Nat /\ bucket.refilledAt <= now /\ now \in Nat /\ now' \in Nat
      BY <2>1, Numbers DEF BucketInv, TypeOK, BucketRow, CursorBehindClock, Times
    <3> QED BY <3>1, <2>1, <1>4 DEF Tick, CursorBehindClock
  <2> QED BY <1>4, <2>1, <2>2 DEF Tick, BucketInv, TypeOK, Conserved, tokenCapacityBalance
<1>5. CASE UNCHANGED vars
  BY <1>5 DEF vars, BucketInv, TypeOK, CursorBehindClock, Conserved, tokenCapacityBalance
<1> QED BY <1>1, <1>2, <1>3, <1>4, <1>5 DEF Next

\* The invariant holds in every reachable state.
LEMMA BucketInvariance == Spec => []BucketInv
BY InitBucket, NextBucket, PTL DEF Spec

-----------------------------------------------------------------------------
(* The theorems. *)

\* Every row stays within its capacity, and no interleaving of reservations,
\* refunds, denials and policy transitions takes more than one capacity and
\* what the fastest rate earned: reserveTokenBalance, refundTokenBalance and
\* reconcileTokenBucket together enforce the limit.
THEOREM RateEnforced == Spec => []RateKept
<1>1. BucketInv => RateKept
  <2> SUFFICES ASSUME BucketInv PROVE RateKept
    OBVIOUS
  <2>1. /\ bucket.balance \in Nat /\ bucket.refilledAt \in Nat /\ bucket.refilledAt <= now
        /\ now \in Nat /\ spent \in Int
    BY Numbers DEF BucketInv, TypeOK, BucketRow, CursorBehindClock, Times
  <2>2. MaxCredit * bucket.refilledAt <= MaxCredit * now
    BY <2>1, Numbers, TimesMonotone
  <2>3. /\ TickLength * bucket.balance \in Nat
        /\ TickLength * (Scale * spent) \in Int /\ TickLength * (Scale * MaxCapacity) \in Int
        /\ MaxCredit * bucket.refilledAt \in Int /\ MaxCredit * now \in Int
    BY <2>1, Numbers
  <2>4. /\ TickLength * Scale * spent = TickLength * (Scale * spent)
        /\ TickLength * Scale * MaxCapacity = TickLength * (Scale * MaxCapacity)
    BY <2>1, Numbers
  <2>5. Conserved
    BY DEF BucketInv
  <2>6. RateRespected
    BY <2>2, <2>3, <2>4, <2>5 DEF Conserved, RateRespected
  <2> QED BY <2>6 DEF RateKept, BucketInv
<1> QED BY <1>1, BucketInvariance, PTL

\* reconcileTokenBucket's comment, for every pair of policies, every instant
\* at which the new one may have become active and every later instant: the
\* transition cannot over-credit.
THEOREM TransitionsConservative == Spec => []TransitionNeverOverCredits
<1>1. TypeOK => TransitionNeverOverCredits
  <2> SUFFICES ASSUME TypeOK, NEW v \in Revisions, NEW at \in bucket.refilledAt .. MaxTime,
                      NEW t \in bucket.refilledAt .. at
               PROVE  TickLength * Reconcile(bucket, v, at).balance <= IdealBalance(bucket, v, t, at)
    BY DEF TransitionNeverOverCredits
  <2> DEFINE next == Reconcile(bucket, v, at)
             low == Lower(bucket.credit, Credit[v])
             capacity == Lower(bucket.capacity, Capacity[v])
             cursor == bucket.refilledAt
             new == TickLength * tokenCapacityBalance(Capacity[v])
             old == TickLength * tokenCapacityBalance(bucket.capacity)
             start == TickLength * bucket.balance
             before == bucket.credit * (t - cursor)
             after == Credit[v] * (at - t)
             x == TickLength * next.balance
  <2>1. /\ RowOK(bucket) /\ cursor \in Nat /\ at \in Nat /\ t \in Nat
        /\ cursor <= t /\ t <= at
        /\ bucket.balance \in Nat /\ bucket.credit \in Nat /\ bucket.capacity \in Nat
        /\ Credit[v] \in Nat /\ Capacity[v] \in Nat
    BY Numbers DEF TypeOK, RowOK, BucketRow
  <2>2. /\ RowOK(next)
        /\ next.balance <= tokenCapacityBalance(capacity)
        /\ cursor <= next.refilledAt
        /\ next.refilledAt <= at \/ next.refilledAt = cursor
        /\ x <= start + low * (next.refilledAt - cursor)
    BY <2>1, ReconcileEarned
  <2>3. next.balance \in Nat /\ next.refilledAt \in Nat
    BY <2>2 DEF RowOK, BucketRow
  <2>4. /\ low \in Nat /\ low <= bucket.credit /\ low <= Credit[v]
        /\ capacity \in Nat /\ capacity <= bucket.capacity /\ capacity <= Capacity[v]
    BY <2>1 DEF Lower
  <2> HIDE DEF next, low, capacity
  <2>5. x <= new /\ x <= old
    <3>1. /\ tokenCapacityBalance(capacity) \in Nat
          /\ tokenCapacityBalance(Capacity[v]) \in Nat
          /\ tokenCapacityBalance(bucket.capacity) \in Nat
      BY <2>1, <2>4, Numbers DEF tokenCapacityBalance
    <3>2. Scale * capacity <= Scale * Capacity[v] /\ Scale * capacity <= Scale * bucket.capacity
      BY <2>1, <2>4, Numbers, TimesMonotone
    <3>3. /\ tokenCapacityBalance(capacity) = Scale * capacity
          /\ tokenCapacityBalance(Capacity[v]) = Scale * Capacity[v]
          /\ tokenCapacityBalance(bucket.capacity) = Scale * bucket.capacity
      BY <2>1, <2>4, Numbers DEF tokenCapacityBalance
    <3>4. /\ next.balance <= tokenCapacityBalance(Capacity[v])
          /\ next.balance <= tokenCapacityBalance(bucket.capacity)
      BY <3>1, <3>2, <3>3, <2>2, <2>3
    <3> QED BY <3>1, <3>4, <2>3, Numbers, TimesMonotone
  <2>6. x <= start + before + after
    <3>1. low * (next.refilledAt - cursor) <= low * (at - cursor)
      BY <2>1, <2>2, <2>3, <2>4, TimesMonotone
    <3>2. low * (at - cursor) = (t - cursor) * low + (at - t) * low
      BY <2>1, <2>4
    <3>3. (t - cursor) * low <= (t - cursor) * bucket.credit
      BY <2>1, <2>4, TimesMonotone
    <3>4. (at - t) * low <= (at - t) * Credit[v]
      BY <2>1, <2>4, TimesMonotone
    <3>5. (t - cursor) * bucket.credit = before /\ (at - t) * Credit[v] = after
      BY <2>1
    <3>6. /\ low * (next.refilledAt - cursor) \in Int /\ low * (at - cursor) \in Int
          /\ (t - cursor) * low \in Int /\ (at - t) * low \in Int
          /\ before \in Int /\ after \in Int /\ start \in Int /\ x \in Int
      BY <2>1, <2>3, <2>4, Numbers
    <3> HIDE DEF before, after, start, x
    <3> QED BY <3>1, <3>2, <3>3, <3>4, <3>5, <3>6, <2>2
  <2>7. x \in Int /\ new \in Int /\ old \in Int /\ start \in Int /\ before \in Int /\ after \in Nat
    BY <2>1, <2>3, Numbers DEF tokenCapacityBalance
  <2>8. IdealBalance(bucket, v, t, at)
          = Lower(new, Lower(new, Lower(old, start + before)) + after)
    BY DEF IdealBalance
  <2> HIDE DEF x, new, old, start, before, after
  <2>9. x <= Lower(new, Lower(new, Lower(old, start + before)) + after)
    BY <2>5, <2>6, <2>7 DEF Lower
  <2> QED BY <2>8, <2>9 DEF x, next
<1>2. BucketInv => TypeOK
  BY DEF BucketInv
<1> QED BY <1>1, <1>2, BucketInvariance, PTL

-----------------------------------------------------------------------------
(* Refreshing a row that already has the policy of its revision. *)

\* Whole ticks are determined by the bounds of Division.
LEMMA DivisionUnique ==
    ASSUME NEW a \in Nat, NEW b \in Nat \ {0}, NEW q \in Nat, b * q <= a, a < b * q + b
    PROVE  a \div b = q
<1> DEFINE p == a \div b
<1>1. p \in Nat /\ b * p <= a /\ a < b * p + b
  BY Division
<1> HIDE DEF p
<1>2. ASSUME NEW x \in Nat, NEW y \in Nat, x < y
      PROVE  b * x + b <= b * y
  <2>1. b * (x + 1) <= b * y
    BY <1>2, TimesMonotone
  <2>2. b * (x + 1) = b * x + b
    OBVIOUS
  <2> QED BY <2>1, <2>2
<1>3. b * p \in Nat /\ b * q \in Nat
  BY <1>1
<1>4. ~(p < q) /\ ~(q < p)
  <2>1. CASE p < q
    <3>1. b * p + b <= b * q
      BY <1>1, <1>2, <2>1
    <3> QED BY <3>1, <1>1, <1>3
  <2>2. CASE q < p
    <3>1. b * q + b <= b * p
      BY <1>1, <1>2, <2>2
    <3> QED BY <3>1, <1>1, <1>3
  <2> QED BY <2>1, <2>2
<1> QED BY <1>1, <1>4 DEF p

\* A later instant lies at least as many whole ticks after the cursor.
LEMMA DivisionMonotone ==
    ASSUME NEW a \in Nat, NEW c \in Nat, a <= c, NEW b \in Nat \ {0}
    PROVE  a \div b <= c \div b
<1> DEFINE p == a \div b
           q == c \div b
<1>1. /\ p \in Nat /\ b * p <= a
      /\ q \in Nat /\ c < b * q + b
  BY Division
<1> HIDE DEF p, q
<1>2. CASE q < p
  <2>1. b * (q + 1) <= b * p
    BY <1>1, <1>2, TimesMonotone
  <2>2. b * (q + 1) = b * q + b /\ b * p \in Nat /\ b * q \in Nat
    BY <1>1
  <2> QED BY <2>1, <2>2, <1>1
<1> QED BY <1>1, <1>2 DEF p, q

\* What a row has: a balance within its maximum, earning something from a cursor.
Refillable(balance, maximum, credit, cursor) ==
    /\ maximum \in Nat /\ balance \in Nat /\ balance <= maximum
    /\ credit \in Nat \ {0} /\ cursor \in Nat

\* refillTokenBalance in closed form: full when the whole ticks cover what is
\* missing, and otherwise exactly those ticks, with the rest of the interval
\* left for the next refill.
LEMMA RefillValue ==
    ASSUME NEW balance, NEW maximum, NEW credit, NEW cursor,
           Refillable(balance, maximum, credit, cursor),
           NEW at \in Nat, cursor <= at, NEW ticks, ticks = (at - cursor) \div TickLength
    PROVE  /\ ticks \in Nat
           /\ TickLength * ticks <= at - cursor
           /\ at - cursor < TickLength * ticks + TickLength
           /\ balance + credit * ticks >= maximum =>
                Refill(balance, maximum, credit, cursor, at)
                  = [balance |-> maximum, refilledAt |-> at]
           /\ balance + credit * ticks < maximum =>
                Refill(balance, maximum, credit, cursor, at)
                  = [balance |-> balance + credit * ticks,
                     refilledAt |-> cursor + TickLength * ticks]
<1> DEFINE full == balance = maximum \/ ticks >= CeilingDivision(maximum - balance, credit)
           r == Refill(balance, maximum, credit, cursor, at)
<1> /\ maximum \in Nat /\ balance \in Nat /\ balance <= maximum
    /\ credit \in Nat \ {0} /\ cursor \in Nat
  BY DEF Refillable
<1>0. TickLength \in Nat \ {0} /\ at - cursor \in Nat
  BY ClockTypes
<1>1. ticks \in Nat /\ TickLength * ticks <= at - cursor /\ at - cursor < TickLength * ticks + TickLength
  BY <1>0, Division
<1>2. /\ full => r = [balance |-> maximum, refilledAt |-> at]
      /\ ~full => r = [balance |-> balance + ticks * credit, refilledAt |-> cursor + ticks * TickLength]
  BY DEF Refill
<1>3. ticks * credit = credit * ticks /\ ticks * TickLength = TickLength * ticks /\ credit * ticks \in Nat
  BY <1>0, <1>1
<1>4. full <=> balance + credit * ticks >= maximum
  <2>1. CASE balance = maximum
    BY <2>1, <1>3
  <2>2. CASE balance # maximum
    <3>1. maximum - balance \in Nat \ {0}
      BY <2>2
    <3>2. CeilingDivision(maximum - balance, credit) \in Int
      BY <3>1, Division DEF CeilingDivision
    <3>3. /\ ticks < CeilingDivision(maximum - balance, credit) => credit * ticks < maximum - balance
          /\ ticks >= CeilingDivision(maximum - balance, credit) => credit * ticks >= maximum - balance
      BY <3>1, <1>1, CeilingExact
    <3> QED BY <3>1, <3>2, <3>3, <2>2, <1>1, <1>3
  <2> QED BY <2>1, <2>2
<1> HIDE DEF full, r
<1>5. balance + credit * ticks < maximum => ~full
  BY <1>3, <1>4
<1> QED BY <1>1, <1>2, <1>3, <1>4, <1>5 DEF r

\* A refill in between changes nothing: the ticks of the two intervals add up
\* because the first leaves its cursor on a tick.
LEMMA RefillTwice ==
    ASSUME NEW balance, NEW maximum, NEW credit, NEW cursor,
           Refillable(balance, maximum, credit, cursor),
           NEW t \in Nat, NEW u \in Nat, cursor <= t, t <= u
    PROVE  LET first == Refill(balance, maximum, credit, cursor, t)
           IN Refill(first.balance, maximum, credit, first.refilledAt, u)
                = Refill(balance, maximum, credit, cursor, u)
<1> DEFINE first == Refill(balance, maximum, credit, cursor, t)
           k == (t - cursor) \div TickLength
           n == (u - cursor) \div TickLength
           whole == Refill(balance, maximum, credit, cursor, u)
<1> /\ maximum \in Nat /\ balance \in Nat /\ balance <= maximum
    /\ credit \in Nat \ {0} /\ cursor \in Nat
  BY DEF Refillable
<1>0. /\ TickLength \in Nat \ {0} /\ t - cursor \in Nat /\ u - cursor \in Nat /\ cursor <= u
  BY ClockTypes
<1>1. /\ k \in Nat
      /\ TickLength * k <= t - cursor
      /\ balance + credit * k >= maximum => first = [balance |-> maximum, refilledAt |-> t]
      /\ balance + credit * k < maximum =>
           first = [balance |-> balance + credit * k, refilledAt |-> cursor + TickLength * k]
  BY RefillValue
<1>2. /\ n \in Nat
      /\ TickLength * n <= u - cursor /\ u - cursor < TickLength * n + TickLength
      /\ balance + credit * n >= maximum => whole = [balance |-> maximum, refilledAt |-> u]
      /\ balance + credit * n < maximum =>
           whole = [balance |-> balance + credit * n, refilledAt |-> cursor + TickLength * n]
  <2>1. cursor <= u
    BY <1>0
  <2> HIDE DEF n, whole
  <2>2. n = (u - cursor) \div TickLength
    BY DEF n
  <2> QED BY <2>1, <2>2, RefillValue DEF whole
<1>3. k <= n
  BY <1>0, DivisionMonotone
<1> HIDE DEF first, k, n, whole
<1>4. credit * k <= credit * n /\ credit * k \in Nat /\ credit * n \in Nat
  BY <1>1, <1>2, <1>3, TimesMonotone
<1>5. CASE balance + credit * k >= maximum
  <2>1. whole = [balance |-> maximum, refilledAt |-> u]
    BY <1>2, <1>4, <1>5
  <2>2. first.balance = maximum /\ first.refilledAt = t
    BY <1>1, <1>5
  <2>3. Refill(maximum, maximum, credit, t, u) = [balance |-> maximum, refilledAt |-> u]
    BY DEF Refill
  <2> QED BY <2>1, <2>2, <2>3 DEF first, whole
<1>6. CASE balance + credit * k < maximum
  <2> DEFINE mid == cursor + TickLength * k
             start == balance + credit * k
             rest == (u - mid) \div TickLength
             second == Refill(start, maximum, credit, mid, u)
  <2>1. first.balance = start /\ first.refilledAt = mid
    BY <1>1, <1>6
  <2>2. /\ mid \in Nat /\ start \in Nat /\ start <= maximum /\ mid <= u /\ TickLength * k \in Nat
        /\ TickLength * n \in Nat
    BY <1>0, <1>1, <1>2, <1>4, <1>6
  <2>3. rest = n - k
    <3>1. TickLength * (n - k) = TickLength * n - TickLength * k
      BY <1>0, <1>1, <1>2
    <3>2. n - k \in Nat /\ u - mid \in Nat
      BY <1>1, <1>2, <1>3, <2>2
    <3>3. TickLength * (n - k) <= u - mid /\ u - mid < TickLength * (n - k) + TickLength
      BY <3>1, <2>2, <1>0, <1>2
    <3> QED BY <3>2, <3>3, <1>0, DivisionUnique
  <2>4. /\ start + credit * rest >= maximum => second = [balance |-> maximum, refilledAt |-> u]
        /\ start + credit * rest < maximum =>
             second = [balance |-> start + credit * rest, refilledAt |-> mid + TickLength * rest]
    <3> HIDE DEF mid, start
    <3>1. Refillable(start, maximum, credit, mid)
      BY <2>2 DEF Refillable
    <3> QED BY <3>1, <2>2, RefillValue
  <2>5. start + credit * rest = balance + credit * n /\ mid + TickLength * rest = cursor + TickLength * n
    <3>1. credit * (n - k) = credit * n - credit * k /\ TickLength * (n - k) = TickLength * n - TickLength * k
      BY <1>0, <1>1, <1>2
    <3> HIDE DEF rest
    <3> QED BY <3>1, <2>2, <2>3, <1>1, <1>2, <1>4
  <2> HIDE DEF mid, start, rest, second
  <2>6. second = whole
    BY <2>4, <2>5, <1>2, <1>4
  <2> QED BY <2>1, <2>6 DEF first, second, whole
<1> QED BY <1>1, <1>4, <1>5, <1>6

\* A refill never takes from the balance.
LEMMA RefillKeeps ==
    ASSUME NEW balance, NEW maximum, NEW credit, NEW cursor,
           Refillable(balance, maximum, credit, cursor), NEW t \in Nat
    PROVE  /\ Refill(balance, maximum, credit, cursor, t).balance \in Nat
           /\ Refill(balance, maximum, credit, cursor, t).balance >= balance
<1> DEFINE r == Refill(balance, maximum, credit, cursor, t)
           k == (t - cursor) \div TickLength
<1> /\ maximum \in Nat /\ balance \in Nat /\ balance <= maximum
    /\ credit \in Nat \ {0} /\ cursor \in Nat
  BY DEF Refillable
<1>1. CASE t < cursor
  <2>1. r = [balance |-> balance, refilledAt |-> cursor]
    BY <1>1 DEF Refill
  <2>2. r.balance = balance
    BY <2>1
  <2> QED BY <2>2
<1>2. CASE cursor <= t
  <2>1. /\ k \in Nat
        /\ balance + credit * k >= maximum => r = [balance |-> maximum, refilledAt |-> t]
        /\ balance + credit * k < maximum =>
             r = [balance |-> balance + credit * k, refilledAt |-> cursor + TickLength * k]
    <3> HIDE DEF k, r
    <3>1. k = (t - cursor) \div TickLength
      BY DEF k
    <3> QED BY <3>1, <1>2, RefillValue DEF r
  <2> HIDE DEF k, r
  <2>2. credit * k \in Nat
    BY <2>1
  <2>3. \/ balance + credit * k >= maximum
        \/ balance + credit * k < maximum
    BY <2>2
  <2>4. r.balance = maximum \/ r.balance = balance + credit * k
    BY <2>1, <2>3
  <2> QED BY <2>2, <2>4 DEF r
<1> QED BY <1>1, <1>2

\* The instant of tokenRetryAt: enough ticks have passed from then on, and one
\* too few just before.
LEMMA RefillReaches ==
    ASSUME NEW balance, NEW maximum, NEW credit, NEW cursor,
           Refillable(balance, maximum, credit, cursor), NEW t \in Nat,
           NEW wanted \in Nat, wanted <= maximum, balance < wanted,
           NEW ready, ready = cursor + CeilingDivision(wanted - balance, credit) * TickLength
    PROVE  /\ ready \in Nat
           /\ t >= ready => Refill(balance, maximum, credit, cursor, t).balance >= wanted
           /\ t < ready => Refill(balance, maximum, credit, cursor, t).balance < wanted
<1> DEFINE r == Refill(balance, maximum, credit, cursor, t)
           k == (t - cursor) \div TickLength
           need == CeilingDivision(wanted - balance, credit)
<1> /\ maximum \in Nat /\ balance \in Nat /\ balance <= maximum
    /\ credit \in Nat \ {0} /\ cursor \in Nat
  BY DEF Refillable
<1>0. TickLength \in Nat \ {0} /\ wanted - balance \in Nat \ {0}
  BY ClockTypes
<1>1. need \in Nat
  <2>1. (wanted - balance - 1) \div credit \in Nat
    BY <1>0, Division
  <2> QED BY <2>1 DEF CeilingDivision
<1>2. \A ticks \in Nat : /\ ticks < need => credit * ticks < wanted - balance
                         /\ ticks >= need => credit * ticks >= wanted - balance
  BY <1>0, CeilingExact
<1> HIDE DEF need
<1>3. ready = cursor + TickLength * need /\ TickLength * need \in Nat /\ ready \in Nat
  BY <1>0, <1>1 DEF need
<1>4. CASE t < cursor
  <2>1. r = [balance |-> balance, refilledAt |-> cursor]
    BY <1>4 DEF Refill
  <2>2. r.balance = balance
    BY <2>1
  <2> QED BY <2>2, <1>3, <1>4
<1>5. CASE cursor <= t
  <2>1. /\ k \in Nat
        /\ TickLength * k <= t - cursor /\ t - cursor < TickLength * k + TickLength
        /\ balance + credit * k >= maximum => r = [balance |-> maximum, refilledAt |-> t]
        /\ balance + credit * k < maximum =>
             r = [balance |-> balance + credit * k, refilledAt |-> cursor + TickLength * k]
    <3> HIDE DEF k, r
    <3>1. k = (t - cursor) \div TickLength
      BY DEF k
    <3> QED BY <3>1, <1>5, RefillValue DEF r
  <2> HIDE DEF k, r
  <2>2. credit * k \in Nat /\ TickLength * k \in Nat
    BY <2>1, <1>0
  <2>3. ASSUME t >= ready PROVE r.balance >= wanted
    <3>1. k >= need
      <4>1. CASE k < need
        <5>1. TickLength * (k + 1) <= TickLength * need
          BY <4>1, <2>1, <1>0, <1>1, TimesMonotone
        <5>2. TickLength * (k + 1) = TickLength * k + TickLength
          BY <2>1, <1>0
        <5> QED BY <5>1, <5>2, <2>1, <2>2, <2>3, <1>0, <1>3
      <4> QED BY <4>1, <2>1, <1>1
    <3>2. credit * k >= wanted - balance
      BY <3>1, <2>1, <1>2
    <3>3. \/ balance + credit * k >= maximum /\ r.balance = maximum
          \/ balance + credit * k < maximum /\ r.balance = balance + credit * k
      BY <2>1, <2>2
    <3> QED BY <3>2, <3>3, <2>2
  <2>4. ASSUME t < ready PROVE r.balance < wanted
    <3>1. k < need
      <4>1. CASE k >= need
        <5>1. TickLength * need <= TickLength * k
          BY <4>1, <2>1, <1>0, <1>1, TimesMonotone
        <5> QED BY <5>1, <2>1, <2>2, <2>4, <1>3
      <4> QED BY <4>1, <2>1, <1>1
    <3>2. credit * k < wanted - balance
      BY <3>1, <2>1, <1>2
    <3>3. r.balance = balance + credit * k
      BY <3>2, <2>1, <2>2
    <3> QED BY <3>2, <3>3, <2>2
  <2> QED BY <2>3, <2>4, <1>3 DEF r
<1> QED BY <1>4, <1>5

\* The fields of a row that has the policy of v.
LEMMA PolicyRow ==
    ASSUME NEW row, RowOK(row), NEW v \in Revisions,
           row.capacity = Capacity[v], row.credit = Credit[v]
    PROVE  /\ row.balance \in Nat /\ row.refilledAt \in Nat
           /\ tokenCapacityBalance(Capacity[v]) \in Nat
           /\ row.balance <= tokenCapacityBalance(Capacity[v])
           /\ Credit[v] \in Nat \ {0} /\ Capacity[v] \in Nat
           /\ Refillable(row.balance, tokenCapacityBalance(Capacity[v]), Credit[v], row.refilledAt)
<1>1. Capacity[v] \in 1 .. MaxCapacity /\ Credit[v] \in 1 .. MaxCredit
  BY Numbers
<1>2. tokenCapacityBalance(Capacity[v]) \in Nat
  BY <1>1, Numbers DEF tokenCapacityBalance
<1>3. /\ row.balance \in Nat /\ row.refilledAt \in Nat
      /\ row.balance <= tokenCapacityBalance(Capacity[v])
      /\ Credit[v] \in Nat \ {0} /\ Capacity[v] \in Nat
  BY <1>1, <1>2, Numbers DEF RowOK, BucketRow
<1> QED BY <1>2, <1>3 DEF Refillable

\* Reconciling a row that already has the policy of v is a refill.
LEMMA RefreshIsRefill ==
    ASSUME NEW row, RowOK(row), NEW v \in Revisions,
           row.capacity = Capacity[v], row.credit = Credit[v], NEW t
    PROVE  LET r == Refill(row.balance, tokenCapacityBalance(Capacity[v]), Credit[v], row.refilledAt, t)
           IN Reconcile(row, v, t) = [capacity |-> Capacity[v], balance |-> r.balance,
                                      credit |-> Credit[v], refilledAt |-> r.refilledAt]
<1> DEFINE maximum == tokenCapacityBalance(Capacity[v])
<1>1. /\ row.balance \in Nat /\ maximum \in Nat /\ row.balance <= maximum
      /\ Credit[v] \in Nat /\ Capacity[v] \in Nat
  BY PolicyRow
<1>2. /\ Lower(row.capacity, Capacity[v]) = Capacity[v]
      /\ Lower(row.credit, Credit[v]) = Credit[v]
      /\ Lower(row.balance, maximum) = row.balance
  BY <1>1 DEF Lower
<1> QED BY <1>2 DEF Reconcile

\* Refreshing such a row in between makes no difference.
LEMMA RefreshComposes ==
    ASSUME NEW row, RowOK(row), NEW v \in Revisions,
           row.capacity = Capacity[v], row.credit = Credit[v],
           NEW t \in Nat, NEW u \in Nat, row.refilledAt <= t, t <= u
    PROVE  Reconcile(Reconcile(row, v, t), v, u) = Reconcile(row, v, u)
<1> DEFINE maximum == tokenCapacityBalance(Capacity[v])
           first == Refill(row.balance, maximum, Credit[v], row.refilledAt, t)
           mid == Reconcile(row, v, t)
           second == Refill(mid.balance, maximum, Credit[v], mid.refilledAt, u)
           whole == Refill(row.balance, maximum, Credit[v], row.refilledAt, u)
<1>1. mid = [capacity |-> Capacity[v], balance |-> first.balance,
             credit |-> Credit[v], refilledAt |-> first.refilledAt]
  BY RefreshIsRefill
<1>2. RowOK(mid)
  BY ReconcileEarned
<1>3. /\ mid.capacity = Capacity[v] /\ mid.credit = Credit[v]
      /\ mid.balance = first.balance /\ mid.refilledAt = first.refilledAt
  <2> HIDE DEF mid, first
  <2> QED BY <1>1
<1>4. second = whole
  <2>1. Refillable(row.balance, maximum, Credit[v], row.refilledAt)
    BY PolicyRow
  <2> HIDE DEF maximum, mid
  <2>2. Refill(first.balance, maximum, Credit[v], first.refilledAt, u) = whole
    BY <2>1, RefillTwice
  <2> QED BY <2>2, <1>3
<1>5. Reconcile(mid, v, u) = [capacity |-> Capacity[v], balance |-> second.balance,
                              credit |-> Credit[v], refilledAt |-> second.refilledAt]
  <2> HIDE DEF mid
  <2> QED BY <1>2, <1>3, RefreshIsRefill
<1>6. Reconcile(row, v, u) = [capacity |-> Capacity[v], balance |-> whole.balance,
                              credit |-> Credit[v], refilledAt |-> whole.refilledAt]
  BY RefreshIsRefill
<1> HIDE DEF second, whole, mid
<1>7. Reconcile(mid, v, u) = Reconcile(row, v, u)
  BY <1>4, <1>5, <1>6
<1> QED BY <1>7 DEF mid

\* The retry instant of such a row is the first at which it can serve.
LEMMA RetryExact ==
    ASSUME NEW row, RowOK(row), NEW v \in Revisions,
           row.capacity = Capacity[v], row.credit = Credit[v],
           NEW units \in 1 .. Capacity[v], NEW at \in Nat
    PROVE  /\ Reconcile(row, v, RetryAt(row, units, at)).balance >= units * Scale
           /\ \A t \in at .. (RetryAt(row, units, at) - 1) :
                 ~(Reconcile(row, v, t).balance >= units * Scale)
<1> DEFINE maximum == tokenCapacityBalance(Capacity[v])
           wanted == units * Scale
           missing == wanted - row.balance
           ready == row.refilledAt + CeilingDivision(missing, Credit[v]) * TickLength
           result == RetryAt(row, units, at)
           after(t) == Refill(row.balance, maximum, Credit[v], row.refilledAt, t).balance
<1>1. /\ row.balance \in Nat /\ row.refilledAt \in Nat /\ maximum \in Nat
      /\ row.balance <= maximum /\ Credit[v] \in Nat \ {0} /\ Capacity[v] \in Nat
      /\ Refillable(row.balance, maximum, Credit[v], row.refilledAt)
  BY PolicyRow
<1>2. wanted \in Nat /\ wanted <= maximum
  <2>1. units \in Nat /\ units <= Capacity[v] /\ Scale \in Nat
    BY <1>1, Numbers
  <2>2. Scale * units <= Scale * Capacity[v]
    BY <2>1, <1>1, TimesMonotone
  <2>3. Scale * units = wanted /\ Scale * Capacity[v] = maximum /\ wanted \in Nat
    BY <2>1, <1>1 DEF tokenCapacityBalance
  <2> HIDE DEF wanted, maximum
  <2> QED BY <2>2, <2>3, <1>1
<1>3. \A t : Reconcile(row, v, t).balance = after(t)
  <2> SUFFICES ASSUME NEW t PROVE Reconcile(row, v, t).balance = after(t)
    OBVIOUS
  <2> DEFINE r == Refill(row.balance, maximum, Credit[v], row.refilledAt, t)
             next == Reconcile(row, v, t)
  <2>1. next = [capacity |-> Capacity[v], balance |-> r.balance,
                credit |-> Credit[v], refilledAt |-> r.refilledAt]
    BY RefreshIsRefill
  <2> HIDE DEF r, next
  <2>2. next.balance = r.balance
    BY <2>1
  <2> QED BY <2>2 DEF next, r
<1>4. result = IF missing <= 0 \/ ready < at THEN at ELSE ready
  BY DEF RetryAt
<1> HIDE DEF maximum, wanted, result
<1>5. CASE missing <= 0
  <2>1. result = at
    BY <1>4, <1>5
  <2>2. after(at) \in Nat /\ after(at) >= row.balance
    BY <1>1, RefillKeeps
  <2>3. after(at) >= wanted
    <3> HIDE DEF after
    <3> QED BY <2>2, <1>1, <1>2, <1>5
  <2>4. Reconcile(row, v, result).balance >= wanted
    BY <2>1, <2>3, <1>3
  <2>5. at .. (result - 1) = {}
    BY <2>1
  <2> QED BY <2>4, <2>5 DEF wanted, result
<1>6. CASE ~(missing <= 0)
  <2>1. row.balance < wanted
    BY <1>1, <1>2, <1>6
  <2>2. \A t \in Nat : /\ ready \in Nat
                       /\ t >= ready => after(t) >= wanted
                       /\ t < ready => after(t) < wanted
    <3> SUFFICES ASSUME NEW t \in Nat
                 PROVE /\ ready \in Nat
                       /\ t >= ready => after(t) >= wanted
                       /\ t < ready => after(t) < wanted
      OBVIOUS
    <3> HIDE DEF ready
    <3>1. ready = row.refilledAt + CeilingDivision(wanted - row.balance, Credit[v]) * TickLength
      BY DEF ready
    <3> QED BY <3>1, <2>1, <1>1, <1>2, RefillReaches
  <2> HIDE DEF ready, after
  <2>3. ready \in Nat
    BY <2>2
  <2>4. result \in Nat /\ result >= ready /\ (result = at \/ result = ready)
    BY <2>3, <1>4, <1>6
  <2>5. after(result) >= wanted
    BY <2>2, <2>3, <2>4
  <2>6. ASSUME NEW t \in at .. (result - 1) PROVE ~(after(t) >= wanted)
    <3>1. t \in Nat /\ t < ready
      BY <2>3, <2>4
    <3>2. after(t) < wanted /\ after(t) \in Nat
      <4>1. after(t) \in Nat
        BY <3>1, <1>1, RefillKeeps DEF after
      <4> QED BY <4>1, <3>1, <2>2
    <3> QED BY <3>2, <1>2
  <2> QED BY <2>5, <2>6, <1>3 DEF wanted, result
<1> QED BY <1>5, <1>6

\* tokenRetryAt and refillTokenBalance for every policy and in every reachable
\* state: a denial's instant is the first at which the bucket, left alone, can
\* serve the request, and refreshing the row meanwhile changes nothing.
THEOREM RefreshExact == Spec => []RefreshIsExact
<1>1. BucketInv => RefreshIsExact
  <2> SUFFICES ASSUME BucketInv PROVE RefreshIsExact
    OBVIOUS
  <2>1. RowOK(bucket) /\ now \in Nat /\ now \in Readings
    BY Numbers, ClockTypes DEF BucketInv, TypeOK, RowOK, Readings, Times
  <2>2. ASSUME NEW v \in Revisions, NEW at \in Readings
        PROVE  LET state == Reconcile(bucket, v, at)
               IN /\ RowOK(state) /\ state.capacity = Capacity[v] /\ state.credit = Credit[v]
                  /\ state.refilledAt <= now
                  /\ at \in Nat
    <3>1. at \in Nat
      BY Numbers DEF Readings, Times
    <3>2. Reconcile(bucket, v, at).credit = Credit[v]
      BY DEF Reconcile
    <3> QED BY <3>1, <3>2, ReconcileConserves
  <2>3. RetryAtIsExact
    <3> SUFFICES ASSUME NEW v \in Revisions, NEW at \in Readings, NEW units \in 1 .. Capacity[v]
                 PROVE  LET state == Reconcile(bucket, v, at)
                            ready == RetryAt(state, units, at)
                        IN /\ Reconcile(state, v, ready).balance >= units * Scale
                           /\ \A t \in at .. (ready - 1) :
                                 ~(Reconcile(state, v, t).balance >= units * Scale)
      BY DEF RetryAtIsExact
    <3> DEFINE state == Reconcile(bucket, v, at)
    <3>1. RowOK(state) /\ state.capacity = Capacity[v] /\ state.credit = Credit[v] /\ at \in Nat
      BY <2>2
    <3> HIDE DEF state
    <3>2. /\ Reconcile(state, v, RetryAt(state, units, at)).balance >= units * Scale
          /\ \A t \in at .. (RetryAt(state, units, at) - 1) :
                ~(Reconcile(state, v, t).balance >= units * Scale)
      BY <3>1, RetryExact
    <3> QED BY <3>2 DEF state
  <2>4. RefillComposes
    <3> SUFFICES ASSUME NEW v \in Revisions, NEW t \in now .. MaxTime, NEW u \in now .. MaxTime,
                        t <= u
                 PROVE  LET state == Reconcile(bucket, v, now)
                        IN Reconcile(Reconcile(state, v, t), v, u) = Reconcile(state, v, u)
      BY DEF RefillComposes
    <3> DEFINE state == Reconcile(bucket, v, now)
    <3>1. /\ RowOK(state) /\ state.capacity = Capacity[v] /\ state.credit = Credit[v]
          /\ state.refilledAt <= now
      BY <2>1, <2>2
    <3> HIDE DEF state
    <3>2. state.refilledAt \in Nat /\ t \in Nat /\ u \in Nat
      BY <3>1, <2>1 DEF RowOK, BucketRow
    <3>3. state.refilledAt <= t
      BY <3>1, <3>2, <2>1
    <3>4. Reconcile(Reconcile(state, v, t), v, u) = Reconcile(state, v, u)
      BY <3>1, <3>2, <3>3, RefreshComposes
    <3> QED BY <3>4 DEF state
  <2> QED BY <2>3, <2>4 DEF RefreshIsExact
<1> QED BY <1>1, BucketInvariance, PTL

=============================================================================
