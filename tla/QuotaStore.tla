----------------------------- MODULE QuotaStore -----------------------------
(***************************************************************************)
(* The durable quota ledger of internal/quota: logical requests, quota     *)
(* reservations with their entries, upstream attempts, quota buckets and   *)
(* concurrency leases, and every store method that changes them.           *)
(*                                                                         *)
(* Each method is one READ COMMITTED transaction that locks the rows it    *)
(* reads in one global order (reservation, logical request, attempts,      *)
(* entries, buckets by identifier, leases), so it is one atomic action.    *)
(* A call that returns an error rolls back and leaves the tables alone;    *)
(* only committing outcomes are actions.  Any caller may take any enabled  *)
(* action at any time: a replayed, late or duplicated call of another      *)
(* replica is simply a call made in a later state.                         *)
(*                                                                         *)
(* A limit is one rule together with one scope value; with a calendar      *)
(* window key it identifies one quota_buckets row.  Rows of token-bucket   *)
(* limits are the subject of module TokenBucket.                           *)
(***************************************************************************)
EXTENDS Integers, Sequences, FiniteSetsExt

CONSTANTS
    Requests,      \* logical request identifiers
    Limits,        \* calendar and concurrency limits (rule and scope value)
    Metric,        \* Metric[l]: the metric the limit counts
    Units,         \* Units[n][l]: trusted units the n-th attempt reserves in l
    InitialOnly,   \* cost limits whose retry treatment is initial_attempt_only
    Revisions,     \* configuration revisions requests may be pinned to
    Maximum,       \* Maximum[v][l]: the limit's maximum in revision v
    PlanLimits,    \* PlanLimits[n]: limits that apply to the n-th attempt's target
    MaxAttempts,   \* maximumAttemptsPerRequest
    Reports,       \* numbers of used units an upstream may report
    Windows,       \* calendar window keys
    WindowKey,     \* WindowKey[l][t]: window of limit l that holds instant t
    TTL,           \* reservation lifetime
    StaleAge,      \* age at which an authenticated request counts as abandoned
    MaxTime        \* bound on the database clock

Metrics == {"logical_requests", "upstream_attempts", "usage", "concurrency"}
Times == 0 .. MaxTime
Buckets == Limits \X Windows

ASSUME RequestsFinite == IsFiniteSet(Requests)
ASSUME AttemptBound == MaxAttempts \in Nat \ {0}
ASSUME ClockBounds == MaxTime \in Nat /\ TTL \in Nat \ {0} /\ StaleAge \in Nat \ {0}
ASSUME LimitTypes ==
    /\ Metric \in [Limits -> Metrics]
    /\ Units \in [1 .. MaxAttempts -> [Limits -> Nat]]
    /\ InitialOnly \subseteq {l \in Limits : Metric[l] = "usage"}
    /\ Maximum \in [Revisions -> [Limits -> Nat \ {0}]]
    /\ Reports \subseteq Nat
    /\ PlanLimits \in [1 .. MaxAttempts -> SUBSET Limits]
    /\ WindowKey \in [Limits -> [Times -> Windows]]
    /\ \A n \in 1 .. MaxAttempts, l \in Limits : Metric[l] # "usage" => Units[n][l] = 1

VARIABLES
    now,          \* the PostgreSQL clock
    logical,      \* logical_requests
    reservation,  \* quota_reservations
    entry,        \* quota_reservation_entries; origin 0 is "no such row"
    attempts,     \* upstream_attempts with their upstream_attempt_quota_entries
    bucket,       \* quota_buckets; hard_maximum 0 is "no such row"
    leases        \* concurrency_leases that have not been released

vars == <<now, logical, reservation, entry, attempts, bucket, leases>>

-----------------------------------------------------------------------------
(* Rows and their initial contents. *)

LogicalStatus == {"absent", "authenticated", "reserved", "dispatched", "streaming",
                  "denied", "succeeded", "failed", "cancelled"}
ReservationStatus == {"none", "pending", "settled", "released", "expired"}
AttemptStatus == {"started", "succeeded", "failed", "timed_out", "cancelled"}
Retryable == {"failed", "timed_out"}

\* The failure codes of a denial by Reserve, by what an exact replay does with
\* them; a bound of the request itself is stored as quota_exceeded.
FailureCode == {"none", "quota_exceeded", "concurrency_exceeded", "request_bound"}

LogicalRow == [status : LogicalStatus, requestedAt : Times, revision : Revisions, failure : FailureCode]
ReservationRow == [status : ReservationStatus, expiresAt : Nat]
EntryRow == [origin : 0 .. MaxAttempts, reserved : Nat, settled : Nat, released : Nat]
AttemptRow == [status : AttemptStatus, firstByte : BOOLEAN,
               buckets : SUBSET Buckets, charged : [Buckets -> Nat]]
BucketRow == [hard_maximum : Nat, used : Nat, reserved : Nat]

NoEntry == [origin |-> 0, reserved |-> 0, settled |-> 0, released |-> 0]
NoBucket == [hard_maximum |-> 0, used |-> 0, reserved |-> 0]
Nothing == [b \in Buckets |-> 0]

TypeOK ==
    /\ now \in Times
    /\ logical \in [Requests -> LogicalRow]
    /\ reservation \in [Requests -> ReservationRow]
    /\ entry \in [Requests -> [Buckets -> EntryRow]]
    /\ attempts \in [Requests -> Seq(AttemptRow)]
    /\ \A r \in Requests : Len(attempts[r]) <= MaxAttempts
    /\ bucket \in [Buckets -> BucketRow]
    /\ leases \in [Requests -> SUBSET Buckets]

Init ==
    /\ now = 0
    /\ logical \in [Requests -> {[status |-> "absent", requestedAt |-> 0, revision |-> v, failure |-> "none"] :
                                 v \in Revisions}]
    /\ reservation = [r \in Requests |-> [status |-> "none", expiresAt |-> 0]]
    /\ entry = [r \in Requests |-> [b \in Buckets |-> NoEntry]]
    /\ attempts = [r \in Requests |-> <<>>]
    /\ bucket = [b \in Buckets |-> NoBucket]
    /\ leases = [r \in Requests |-> {}]

-----------------------------------------------------------------------------
(* Reading the rows. *)

UnitsOf(n, b) == Units[n][b[1]]
MetricOf(b) == Metric[b[1]]
Outstanding(r, b) == entry[r][b].reserved - entry[r][b].settled - entry[r][b].released
Entries(r) == {b \in Buckets : entry[r][b].origin > 0}
Occupancy(b) == bucket[b].used + bucket[b].reserved
MaximumFor(r, b) == Maximum[logical[r].revision][b[1]]

\* The per-dispatch metrics of attemptAllocationOrder: the ones an attempt is
\* allocated and charged for, unlike the request count and concurrency.
Allocated(b) == MetricOf(b) \in {"upstream_attempts", "usage"}

LastAttempt(r) == attempts[r][Len(attempts[r])]
InFlight(r) == logical[r].status \in {"dispatched", "streaming"}
Pending(r) == reservation[r].status = "pending"

\* plannedBucketsAt: the rows a set of limits means at instant t.
PlannedBuckets(limits, t) == {<<l, WindowKey[l][t]>> : l \in limits}

-----------------------------------------------------------------------------
(* Moving units.  Every settlement, release and recovery takes `out` units  *)
(* out of a bucket's reserved column and puts `charged` of them into used.  *)

CanMove(out, charged) ==
    \A b \in Buckets : /\ out[b] <= bucket[b].reserved
                       /\ charged[b] <= bucket[b].hard_maximum - bucket[b].used

\* Slip: the entry keeps its charge but not what it gave back.
MoveUnitsForgettingReleased(r, out, charged) ==
    /\ CanMove(out, charged)
    /\ bucket' = [b \in Buckets |->
                    [hard_maximum |-> bucket[b].hard_maximum,
                     used |-> bucket[b].used + charged[b],
                     reserved |-> bucket[b].reserved - out[b]]]
    /\ entry' = [entry EXCEPT ![r] = [b \in Buckets |->
                    [entry[r][b] EXCEPT !.settled = @ + charged[b]]]]

MoveUnits(r, out, charged) ==
    /\ CanMove(out, charged)
    /\ bucket' = [b \in Buckets |->
                    [hard_maximum |-> bucket[b].hard_maximum,
                     used |-> bucket[b].used + charged[b],
                     reserved |-> bucket[b].reserved - out[b]]]
    /\ entry' = [entry EXCEPT ![r] = [b \in Buckets |->
                    [origin |-> entry[r][b].origin, reserved |-> entry[r][b].reserved,
                     settled |-> entry[r][b].settled + charged[b],
                     released |-> entry[r][b].released + (out[b] - charged[b])]]]

-----------------------------------------------------------------------------
(* The consistency checks every later transaction makes on the rows it has  *)
(* locked; it returns ErrInvalidState and rolls back when one fails.        *)

\* lockedEntryBucketValid.
BucketValid(b) == bucket[b].hard_maximum > 0 /\ Occupancy(b) <= bucket[b].hard_maximum

\* applicableAttemptQuotaEntries: the entries of table e that the n-th attempt
\* must have been allocated, whatever their window.
Applicable(e, n) ==
    {b \in Buckets : /\ e[b].origin \in 1 .. n
                     /\ Allocated(b)
                     /\ b[1] \in PlanLimits[n]
                     /\ n > 1 => b[1] \notin InitialOnly}

\* existingReservationStateMatches, for an entry of request r.
EntryStateMatches(r, b) ==
    LET e == entry[r][b]
        initial == UnitsOf(e.origin, b)
        closed == e.settled + e.released
    IN /\ initial <= e.reserved
       /\ closed <= e.reserved
       /\ ~Allocated(b) => e.reserved = initial
       /\ CASE Pending(r) ->
                 \/ logical[r].status = "reserved" /\ e.reserved = initial /\ closed = 0
                 \/ InFlight(r) /\ (~Allocated(b) => closed = 0)
            [] reservation[r].status = "settled" ->
                 /\ logical[r].status \in {"succeeded", "failed", "cancelled"}
                 /\ closed = e.reserved
                 /\ MetricOf(b) = "concurrency" => e.settled = 0
                 /\ MetricOf(b) = "logical_requests" => e.released = 0
            [] OTHER ->
                 /\ logical[r].status = "failed"
                 /\ e.reserved = initial
                 /\ e.released = e.reserved

\* Sum of Op(n) over the attempts of r that were allocated b.
SumAttempts(r, b, Op(_)) ==
    MapThenSumSet(Op, {n \in DOMAIN attempts[r] : b \in attempts[r][n].buckets})

\* retryPendingLifecycleMatches and retryAggregateMatchesEntries: the entry is
\* the sum of its attempts, and the first of them is its origin.
AggregateMatches(r, b) ==
    LET closed(n) == attempts[r][n].status # "started"
        allocated(n) == UnitsOf(n, b)
        charged(n) == IF closed(n) THEN attempts[r][n].charged[b] ELSE 0
        released(n) == IF closed(n) THEN UnitsOf(n, b) - attempts[r][n].charged[b] ELSE 0
        e == entry[r][b]
    IN /\ b \in attempts[r][e.origin].buckets
       /\ e.reserved = SumAttempts(r, b, allocated)
       /\ e.settled = SumAttempts(r, b, charged)
       /\ e.released = SumAttempts(r, b, released)

\* The order of attempt states: every attempt but the last was closed as
\* retryable, and each holds exactly the applicable entries.
AttemptSequenceMatches(r, last) ==
    \A n \in DOMAIN attempts[r] :
        /\ attempts[r][n].status \in IF n < Len(attempts[r]) THEN Retryable ELSE last
        /\ attempts[r][n].buckets = Applicable(entry[r], n)

ConcurrencyEntries(r) == {b \in Entries(r) : MetricOf(b) = "concurrency"}

\* pendingEntriesMatch and retryPendingLifecycleMatches.
PendingMatches(r) ==
    /\ \A b \in Entries(r) : /\ BucketValid(b)
                              /\ Outstanding(r, b) \in 0 .. bucket[b].reserved
                              /\ EntryStateMatches(r, b)
    /\ \A b \in ConcurrencyEntries(r) : bucket[b].used = 0
    /\ leases[r] = ConcurrencyEntries(r)
    /\ (attempts[r] = <<>>) <=> (logical[r].status = "reserved")
    /\ AttemptSequenceMatches(r, Retryable \cup {"started"})
    /\ attempts[r] # <<>> =>
          \A b \in Entries(r) : Allocated(b) => AggregateMatches(r, b)

\* terminalEntriesMatch, terminalAttemptSequenceMatches and
\* existingAttemptPresenceMatches, on a request whose reservation is closed.
TerminalMatches(r) ==
    /\ \A b \in Entries(r) : BucketValid(b) /\ EntryStateMatches(r, b)
    /\ \A b \in ConcurrencyEntries(r) : bucket[b].used = 0
    /\ (reservation[r].status = "settled") <=> (attempts[r] # <<>>)
    /\ AttemptSequenceMatches(r,
          IF logical[r].status = "failed" THEN Retryable ELSE {logical[r].status})
    /\ attempts[r] # <<>> =>
          \A b \in Entries(r) : Allocated(b) => AggregateMatches(r, b)

-----------------------------------------------------------------------------
(* Before the reservation. *)

\* BeginAuthenticatedRequest: the row exists before any later decision.  The
\* clock bound leaves room for the recovery of an abandoned request.
BeginAuthenticatedRequest(r) ==
    /\ logical[r].status = "absent"
    /\ now + StaleAge <= MaxTime
    /\ logical' = [logical EXCEPT ![r] =
                     [status |-> "authenticated", requestedAt |-> now, revision |-> @.revision, failure |-> "none"]]
    /\ UNCHANGED <<now, reservation, entry, attempts, bucket, leases>>

\* RecordDecisionStages with a final denied, failed or cancelled stage.
RecordDecisionFailure(r, outcome) ==
    /\ logical[r].status = "authenticated"
    /\ logical' = [logical EXCEPT ![r].status = outcome]
    /\ UNCHANGED <<now, reservation, entry, attempts, bucket, leases>>

\* RecoverStaleAuthenticatedRequestsBatch, one row.
RecoverStaleAuthenticatedRequest(r) ==
    /\ logical[r].status = "authenticated"
    /\ logical[r].requestedAt + StaleAge <= now
    /\ logical' = [logical EXCEPT ![r].status = "failed"]
    /\ UNCHANGED <<now, reservation, entry, attempts, bucket, leases>>

-----------------------------------------------------------------------------
(* Reserve. *)

\* The row a Reserve call works on: a fresh insert, or the claim of the row
\* that BeginAuthenticatedRequest left (claimAuthenticatedRequest), which
\* keeps the row's requested_at.
ClaimedAt(r) == IF logical[r].status = "absent" THEN now ELSE logical[r].requestedAt

Claim(r, status, failure) ==
    [logical EXCEPT ![r] = [status |-> status, requestedAt |-> ClaimedAt(r),
                            revision |-> @.revision, failure |-> failure]]

\* Windows are those of the reserving transaction's own start.
InitialBuckets == PlannedBuckets(PlanLimits[1], now)

\* Slip: units reserved by requests in flight are not counted.
ExceededByUsed(r) ==
    {b \in InitialBuckets : MaximumFor(r, b) < bucket[b].used + UnitsOf(1, b)}

Exceeded(r) ==
    {b \in InitialBuckets : MaximumFor(r, b) < Occupancy(b) + UnitsOf(1, b)}

\* A limit of usage or of calls prevails over one of concurrency.
DenialCode(r) ==
    IF \A b \in Exceeded(r) : MetricOf(b) = "concurrency" THEN "concurrency_exceeded" ELSE "quota_exceeded"

\* Reserve, accepted: every planned bucket takes the units, and the
\* reservation, its entries and its concurrency leases are inserted.
ReserveAccepted(r) ==
    /\ logical[r].status \in {"absent", "authenticated"}
    /\ now + TTL <= MaxTime
    /\ Exceeded(r) = {}
    /\ logical' = Claim(r, "reserved", "none")
    /\ bucket' = [b \in Buckets |->
                    IF b \in InitialBuckets
                    THEN [hard_maximum |-> MaximumFor(r, b), used |-> bucket[b].used,
                          reserved |-> bucket[b].reserved + UnitsOf(1, b)]
                    ELSE bucket[b]]
    /\ reservation' = [reservation EXCEPT ![r] = [status |-> "pending", expiresAt |-> now + TTL]]
    /\ entry' = [entry EXCEPT ![r] = [b \in Buckets |->
                    IF b \in InitialBuckets
                    THEN [origin |-> 1, reserved |-> UnitsOf(1, b), settled |-> 0, released |-> 0]
                    ELSE NoEntry]]
    /\ leases' = [leases EXCEPT ![r] = {b \in InitialBuckets : MetricOf(b) = "concurrency"}]
    /\ UNCHANGED <<now, attempts>>

\* Slip: a denial stores the pinned revision's maximum unconditionally.
ReserveDeniedLowering(r) ==
    /\ logical[r].status \in {"absent", "authenticated"}
    /\ Exceeded(r) # {}
    /\ logical' = Claim(r, "denied", DenialCode(r))
    /\ bucket' = [b \in Buckets |->
                    IF b \in InitialBuckets
                    THEN [bucket[b] EXCEPT !.hard_maximum = MaximumFor(r, b)]
                    ELSE bucket[b]]
    /\ UNCHANGED <<now, reservation, entry, attempts, leases>>

\* Reserve, denied by a bucket: the denial is durable, missing buckets are
\* materialised and maxima refreshed where the occupancy allows it, and no
\* units are taken.
ReserveDenied(r) ==
    /\ logical[r].status \in {"absent", "authenticated"}
    /\ Exceeded(r) # {}
    /\ logical' = Claim(r, "denied", DenialCode(r))
    /\ bucket' = [b \in Buckets |->
                    IF b \in InitialBuckets /\ Occupancy(b) <= MaximumFor(r, b)
                    THEN [bucket[b] EXCEPT !.hard_maximum = MaximumFor(r, b)]
                    ELSE bucket[b]]
    /\ UNCHANGED <<now, reservation, entry, attempts, leases>>

\* Reserve, denied by a per-request bound before any bucket is planned.
ReserveBoundExceeded(r) ==
    /\ logical[r].status \in {"absent", "authenticated"}
    /\ logical' = Claim(r, "denied", "request_bound")
    /\ UNCHANGED <<now, reservation, entry, attempts, bucket, leases>>

\* loadExistingReserve: an exact replay recomputes the plan from the stored
\* requested_at and refuses entries whose window differs.
ReplayPlanMatches(r) ==
    \A l \in PlanLimits[1] : entry[r][<<l, WindowKey[l][logical[r].requestedAt]>>].origin = 1

\* The windows have not changed since the request arrived.
SameWindows(r) ==
    PlannedBuckets(PlanLimits[1], logical[r].requestedAt) = PlannedBuckets(PlanLimits[1], now)

\* loadExistingReserve of a denied request: it has no reservation and no
\* attempt, and its code is one that Reserve gives.  A bound of the request is
\* found exceeded again; otherwise the buckets of the plan are locked, their rows
\* are sound and the plan has a limit of the class the code names, so that the
\* stored denial is answered whatever the occupancy has become.
ReplayDenied(r) ==
    LET planned == PlannedBuckets(PlanLimits[1], logical[r].requestedAt)
        concurrent == {b \in planned : MetricOf(b) = "concurrency"} IN
    /\ reservation[r].status = "none" /\ attempts[r] = <<>>
    /\ logical[r].failure # "none"
    /\ logical[r].failure # "request_bound" =>
          /\ \A b \in planned : bucket[b] # NoBucket
          /\ \A b \in concurrent : bucket[b].used = 0
          /\ IF logical[r].failure = "quota_exceeded" THEN planned # concurrent ELSE concurrent # {}

\* The rows of a reservation: those of the plan came with it, the others with
\* a later attempt on another target, all in the windows of the arrival.
ReplayEntriesMatch(r) ==
    \A b \in Entries(r) :
        /\ b[2] = WindowKey[b[1]][logical[r].requestedAt]
        /\ EntryStateMatches(r, b)
        /\ \/ b[1] \in PlanLimits[1] /\ entry[r][b].origin = 1
           \/ /\ b[1] \notin PlanLimits[1] /\ MetricOf(b) # "logical_requests"
              /\ entry[r][b].origin \in 2 .. Len(attempts[r])

\* loadExistingEntrylessReservation
ReplayEntryless(r) ==
    /\ leases[r] = {}
    /\ CASE Pending(r) -> logical[r].status = "reserved" \/ InFlight(r)
         [] reservation[r].status = "settled" -> logical[r].status \in {"succeeded", "failed", "cancelled"}
         [] OTHER -> logical[r].status = "failed"

\* The rest of loadExistingReserve: what is stored is answered with as it is.
ReplayAnswers(r) ==
    /\ IF Entries(r) = {} THEN ReplayEntryless(r) ELSE ReplayEntriesMatch(r)
    /\ IF Pending(r) THEN PendingMatches(r) ELSE TerminalMatches(r)

-----------------------------------------------------------------------------
(* What the quota snapshot of a feature reads (quota/snapshot.go). *)

\* snapshotPlansAt
SnapshotBuckets == PlannedBuckets(PlanLimits[1], now)

\* validateSnapshotBucket, on a row that exists
SnapshotBucketValid(b) ==
    /\ bucket[b].hard_maximum > 0 /\ Occupancy(b) <= bucket[b].hard_maximum
    /\ MetricOf(b) = "concurrency" => bucket[b].used = 0

\* limitSnapshotAt: nothing remains below a maximum lowered since.
Remaining(v, b) ==
    LET maximum == Maximum[v][b[1]]
    IN  IF bucket[b].used <= maximum /\ bucket[b].reserved <= maximum - bucket[b].used
        THEN maximum - bucket[b].used - bucket[b].reserved ELSE 0

-----------------------------------------------------------------------------
(* Dispatch. *)

NewAttempt(allocated) ==
    [status |-> "started", firstByte |-> FALSE, buckets |-> allocated, charged |-> Nothing]

\* BeginAttempt by the one caller that becomes the dispatch owner.  Replays
\* find the attempt and change nothing.
BeginAttempt(r) ==
    /\ attempts[r] = <<>>
    /\ Pending(r)
    /\ logical[r].status = "reserved"
    /\ reservation[r].expiresAt > now
    /\ logical' = [logical EXCEPT ![r].status = "dispatched"]
    /\ attempts' = [attempts EXCEPT ![r] =
                      <<NewAttempt({b \in Entries(r) : entry[r][b].origin = 1 /\ Allocated(b)})>>]
    /\ UNCHANGED <<now, reservation, entry, bucket, leases>>

\* MarkFirstByte: once per attempt, while the attempt is open.
MarkFirstByte(r) ==
    /\ attempts[r] # <<>>
    /\ LastAttempt(r).status = "started"
    /\ ~LastAttempt(r).firstByte
    /\ Pending(r)
    /\ InFlight(r)
    /\ attempts' = [attempts EXCEPT ![r][Len(attempts[r])].firstByte = TRUE]
    /\ logical' = [logical EXCEPT ![r].status = "streaming"]
    /\ UNCHANGED <<now, reservation, entry, bucket, leases>>

\* retryTargetPlansAt: the request count is charged once and an
\* initial_attempt_only cost limit is not re-reserved; windows are those of
\* the logical request's requested_at.
RetryBuckets(r, n) ==
    PlannedBuckets({l \in PlanLimits[n] : Metric[l] # "logical_requests" /\ l \notin InitialOnly},
                   logical[r].requestedAt)

\* Slip: a slot is taken for every attempt.
RetryReservesAll(r, n) == RetryBuckets(r, n)

\* What the next attempt has to reserve: its allocations, and a concurrency
\* slot for a target the request does not hold one for yet.
RetryReserves(r, n) ==
    {b \in RetryBuckets(r, n) : Allocated(b) \/ entry[r][b].origin = 0}

\* Slip: the rows just written are not compared with the plan.
RetryAllocationsUnchecked(r, n) == TRUE

\* attemptQuotaEntriesMatchReservation on the rows just written.
RetryAllocationsMatch(r, n) ==
    Applicable(entry'[r], n) = {b \in RetryBuckets(r, n) : Allocated(b)}

\* BeginRetryAttempt by the dispatch owner of the next attempt.  A limit that
\* cannot take the units, or allocations that do not match the applicable
\* entries after the inserts, roll everything back.
BeginRetryAttempt(r) ==
    LET n == Len(attempts[r]) + 1 IN
    /\ n \in 2 .. MaxAttempts
    /\ LastAttempt(r).status \in Retryable
    /\ Pending(r)
    /\ PendingMatches(r)
    /\ reservation[r].expiresAt > now
    /\ \A b \in RetryReserves(r, n) :
          /\ Allocated(b) => Outstanding(r, b) = 0
          /\ Occupancy(b) + UnitsOf(n, b) <= MaximumFor(r, b)
    /\ bucket' = [b \in Buckets |->
                    IF b \in RetryReserves(r, n)
                    THEN [hard_maximum |-> MaximumFor(r, b), used |-> bucket[b].used,
                          reserved |-> bucket[b].reserved + UnitsOf(n, b)]
                    ELSE bucket[b]]
    /\ entry' = [entry EXCEPT ![r] = [b \in Buckets |->
                    IF b \in RetryReserves(r, n)
                    THEN [origin |-> IF entry[r][b].origin = 0 THEN n ELSE entry[r][b].origin,
                          reserved |-> entry[r][b].reserved + UnitsOf(n, b),
                          settled |-> entry[r][b].settled, released |-> entry[r][b].released]
                    ELSE entry[r][b]]]
    /\ leases' = [leases EXCEPT ![r] = @ \cup {b \in RetryReserves(r, n) : MetricOf(b) = "concurrency"}]
    /\ attempts' = [attempts EXCEPT ![r] =
                      Append(@, NewAttempt({b \in RetryBuckets(r, n) : Allocated(b)}))]
    /\ RetryAllocationsMatch(r, n)
    /\ UNCHANGED <<now, logical, reservation>>

-----------------------------------------------------------------------------
(* Settlement. *)

\* What an attempt reports: its status, how usage is known, and the reported
\* units ("unknown" and "rejected" carry none).
ClosedStatus == AttemptStatus \ {"started"}
ReportedOutcome == [status : ClosedStatus, usage : {"reported"}, units : Reports]
UnknownOutcome == [status : ClosedStatus, usage : {"unknown"}, units : {0}]
RejectedOutcome == [status : {"failed"}, usage : {"rejected"}, units : {0}]
Outcomes == ReportedOutcome \cup UnknownOutcome \cup RejectedOutcome

\* Slip: a rejected call is not counted as an attempt.
ChargedUnitsFreeRejection(n, b, outcome) ==
    CASE outcome.usage = "rejected" -> 0
      [] MetricOf(b) = "upstream_attempts" -> 1
      [] MetricOf(b) = "usage" /\ outcome.usage = "reported" -> outcome.units
      [] OTHER -> UnitsOf(n, b)

\* retryAttemptChargedUnits.
ChargedUnits(n, b, outcome) ==
    CASE MetricOf(b) = "upstream_attempts" -> 1
      [] MetricOf(b) = "usage" /\ outcome.usage = "rejected" -> 0
      [] MetricOf(b) = "usage" /\ outcome.usage = "reported" -> outcome.units
      [] OTHER -> UnitsOf(n, b)

\* Slip: the report is trusted.
ReportTrusted(r, outcome) == TRUE

\* A report above the allocation of the open attempt is refused with
\* ErrInvalidInput.
ReportAccepted(r, outcome) ==
    \A b \in LastAttempt(r).buckets :
        ChargedUnits(Len(attempts[r]), b, outcome) <= UnitsOf(Len(attempts[r]), b)

AttemptOut(r) == [b \in Buckets |->
    IF b \in LastAttempt(r).buckets THEN UnitsOf(Len(attempts[r]), b) ELSE 0]
AttemptCharge(r, outcome) == [b \in Buckets |->
    IF b \in LastAttempt(r).buckets THEN ChargedUnits(Len(attempts[r]), b, outcome) ELSE 0]

\* finalizeRetryReservationLocked: the request count is charged, concurrency
\* is released; nothing else is outstanding any more.
FinalOut(r) == [b \in Buckets |->
    IF entry[r][b].origin > 0 /\ ~Allocated(b) THEN entry[r][b].reserved ELSE 0]
FinalCharge(r) == [b \in Buckets |->
    IF MetricOf(b) = "logical_requests" THEN FinalOut(r)[b] ELSE 0]

Plus(f, g) == [b \in Buckets |-> f[b] + g[b]]

FinalStatus(status) ==
    IF status \in {"succeeded", "cancelled"} THEN status ELSE "failed"

\* Slip: a closed attempt can be settled again.
SettleableAgain(r, outcome) ==
    /\ attempts[r] # <<>>
    /\ Pending(r)
    /\ PendingMatches(r)
    /\ ReportAccepted(r, outcome)

\* The last attempt is open and its settlement is acceptable.
Settleable(r, outcome) ==
    /\ attempts[r] # <<>>
    /\ LastAttempt(r).status = "started"
    /\ Pending(r)
    /\ PendingMatches(r)
    /\ ReportAccepted(r, outcome)

CloseAttempt(r, outcome) ==
    attempts' = [attempts EXCEPT ![r] = [attempts[r] EXCEPT ![Len(attempts[r])] =
                   [status |-> outcome.status, firstByte |-> LastAttempt(r).firstByte,
                    buckets |-> LastAttempt(r).buckets,
                    charged |-> AttemptCharge(r, outcome)]]]

\* Slip: the leases are left to expire.
CloseRequestKeepingLeases(r, status) ==
    /\ logical' = [logical EXCEPT ![r].status = FinalStatus(status)]
    /\ reservation' = [reservation EXCEPT ![r].status = "settled"]
    /\ UNCHANGED leases

CloseRequest(r, status) ==
    /\ logical' = [logical EXCEPT ![r].status = FinalStatus(status)]
    /\ reservation' = [reservation EXCEPT ![r].status = "settled"]
    /\ leases' = [leases EXCEPT ![r] = {}]

\* SettleForRetry: only the attempt is closed; the request count and the
\* concurrency leases stay reserved for the next attempt.
SettleForRetry(r, outcome) ==
    /\ Settleable(r, outcome)
    /\ outcome.status \in Retryable
    /\ MoveUnits(r, AttemptOut(r), AttemptCharge(r, outcome))
    /\ CloseAttempt(r, outcome)
    /\ UNCHANGED <<now, logical, reservation, leases>>

\* SettleFinalAttempt of an open attempt.
SettleFinalAttempt(r, outcome) ==
    /\ Settleable(r, outcome)
    /\ MoveUnits(r, Plus(AttemptOut(r), FinalOut(r)),
                    Plus(AttemptCharge(r, outcome), FinalCharge(r)))
    /\ CloseAttempt(r, outcome)
    /\ CloseRequest(r, outcome.status)
    /\ UNCHANGED now

\* Slip: a finalisation that comes after the worker's is carried out too.
FinalizeLate(r) ==
    /\ attempts[r] # <<>>
    /\ LastAttempt(r).status \in Retryable
    /\ MoveUnits(r, FinalOut(r), FinalCharge(r))
    /\ CloseRequest(r, LastAttempt(r).status)
    /\ UNCHANGED <<now, attempts>>

\* SettleFinalAttempt of an attempt SettleForRetry already closed: no next
\* attempt could be made, so the same outcome becomes the final one.
FinalizeSettledAttempt(r) ==
    /\ attempts[r] # <<>>
    /\ LastAttempt(r).status \in Retryable
    /\ Pending(r)
    /\ PendingMatches(r)
    /\ MoveUnits(r, FinalOut(r), FinalCharge(r))
    /\ CloseRequest(r, LastAttempt(r).status)
    /\ UNCHANGED <<now, attempts>>

-----------------------------------------------------------------------------
(* Release and recovery. *)

\* releaseLocked: every reserved unit goes back, nothing is charged.
ReleaseLocked(r, status) ==
    /\ attempts[r] = <<>>
    /\ Pending(r)
    /\ PendingMatches(r)
    /\ MoveUnits(r, [b \in Buckets |-> entry[r][b].reserved], Nothing)
    /\ leases' = [leases EXCEPT ![r] = {}]
    /\ logical' = [logical EXCEPT ![r].status = "failed"]
    /\ reservation' = [reservation EXCEPT ![r].status = status]
    /\ UNCHANGED <<now, attempts>>

ReleaseBeforeDispatch(r) == ReleaseLocked(r, "released")

\* The row claim of expireOne.
Expired(r) == Pending(r) /\ reservation[r].expiresAt <= now
OwnsConcurrency(r) == \E b \in Entries(r) : MetricOf(b) = "concurrency"

\* Unknown usage charges the attempt's whole allocation.
RecoveredOutcome == [status |-> "timed_out", usage |-> "unknown", units |-> 0]

\* expireOne with an attempt: settle it conservatively if it is still open,
\* and finalise the request either way.
RecoverDispatched(r) ==
    \/ SettleFinalAttempt(r, RecoveredOutcome)
    \/ FinalizeSettledAttempt(r)

\* The three recovery lanes of the worker.
ReleaseExpiredUndispatched(r) ==
    /\ Expired(r)
    /\ ~OwnsConcurrency(r)
    /\ ReleaseLocked(r, "expired")

ReconcilePendingUsage(r) ==
    /\ Expired(r)
    /\ ~OwnsConcurrency(r)
    /\ RecoverDispatched(r)

\* Slip: the lane takes the lease owners away from the other two and skips
\* those already dispatched.
ReleaseUndispatchedLeasesOnly(r) ==
    /\ Expired(r)
    /\ OwnsConcurrency(r)
    /\ ReleaseLocked(r, "expired")

ReleaseExpiredConcurrencyLeases(r) ==
    /\ Expired(r)
    /\ OwnsConcurrency(r)
    /\ \/ ReleaseLocked(r, "expired")
       \/ RecoverDispatched(r)

Recover(r) ==
    \/ ReleaseExpiredUndispatched(r)
    \/ ReconcilePendingUsage(r)
    \/ ReleaseExpiredConcurrencyLeases(r)
    \/ RecoverStaleAuthenticatedRequest(r)

-----------------------------------------------------------------------------
Tick ==
    /\ now < MaxTime
    /\ now' = now + 1
    /\ UNCHANGED <<logical, reservation, entry, attempts, bucket, leases>>

Call(r) ==
    \/ BeginAuthenticatedRequest(r)
    \/ \E outcome \in {"denied", "failed", "cancelled"} : RecordDecisionFailure(r, outcome)
    \/ ReserveAccepted(r) \/ ReserveDenied(r) \/ ReserveBoundExceeded(r)
    \/ BeginAttempt(r) \/ MarkFirstByte(r) \/ BeginRetryAttempt(r)
    \/ \E outcome \in Outcomes : SettleForRetry(r, outcome) \/ SettleFinalAttempt(r, outcome)
    \/ FinalizeSettledAttempt(r)
    \/ ReleaseBeforeDispatch(r)

Next ==
    \/ \E r \in Requests : Call(r) \/ Recover(r)
    \/ Tick

Spec == Init /\ [][Next]_vars

\* The recovery lanes are jobs of the worker process, which runs them again
\* and again, and the database clock does not stop.
Fairness == WF_vars(Tick) /\ \A r \in Requests : WF_vars(Recover(r))

FairSpec == Spec /\ Fairness

-----------------------------------------------------------------------------
(* Safety. *)

\* A bucket never promises more than its maximum: used plus reserved units
\* stay within hard_maximum under concurrent reservations, retries, late
\* settlements and requests pinned to revisions with different maxima.
NoOverspend == \A b \in Buckets : Occupancy(b) <= bucket[b].hard_maximum

\* The units of bucket b that entries still hold, and those they charged.
HeldUnits(b) == UNION {{r} \X (1 .. Outstanding(r, b)) : r \in Requests}
ChargedBy(b) == UNION {{r} \X (1 .. entry[r][b].settled) : r \in Requests}

\* The two columns of a bucket are exactly what the reservation entries add
\* up to: no unit is leaked, returned twice or charged twice, whichever of
\* the owner, a replay and the recovery worker closes the reservation.
LedgerBalances ==
    \A b \in Buckets : /\ bucket[b].reserved = Cardinality(HeldUnits(b))
                       /\ bucket[b].used = Cardinality(ChargedBy(b))

\* The checks that every later transaction makes accept every state the
\* store can reach: no settlement and no recovery batch is stopped by
\* ErrInvalidState, and an exact replay of Reserve whose windows are those of
\* the arrival is answered.  The quota snapshot accepts every row too, and
\* shows as remaining what a Reserve in that state would be given.
RowsAcceptedLater ==
    /\ \A r \in Requests :
          /\ Pending(r) => PendingMatches(r)
          /\ reservation[r].status \in {"settled", "released", "expired"} => TerminalMatches(r)
          /\ reservation[r].status # "none" /\ ReplayPlanMatches(r) => ReplayAnswers(r)
          /\ logical[r].status = "denied" /\ logical[r].failure # "none" /\ SameWindows(r) => ReplayDenied(r)
    /\ \A b \in SnapshotBuckets :
          /\ bucket[b] # NoBucket => SnapshotBucketValid(b)
          /\ \A r \in Requests :
                logical[r].status \in {"absent", "authenticated"} =>
                    (b \in Exceeded(r) <=> Remaining(logical[r].revision, b) < UnitsOf(1, b))

\* Calls are counted exactly: a settled request counts once whatever its
\* number of attempts, and every closed attempt counts once.
CountsAreExact ==
    \A b \in Buckets :
        /\ MetricOf(b) = "logical_requests" =>
              bucket[b].used = Cardinality({r \in Requests :
                  b \in Entries(r) /\ reservation[r].status = "settled"})
        /\ MetricOf(b) = "upstream_attempts" =>
              bucket[b].used = Cardinality(UNION {
                  {r} \X {n \in DOMAIN attempts[r] : /\ b \in attempts[r][n].buckets
                                                    /\ attempts[r][n].status # "started"} :
                  r \in Requests})

\* Leases are held exactly by the open reservations, one per concurrency
\* bucket the request's attempts use, and they are all that fills it.
LeasesBackConcurrency ==
    \A b \in Buckets : MetricOf(b) = "concurrency" =>
        /\ bucket[b].used = 0
        /\ bucket[b].reserved = Cardinality({r \in Requests : b \in leases[r]})
        /\ \A r \in Requests : b \in leases[r] => Pending(r)

\* The ledger is exact: the columns of a bucket are what the reservation
\* entries add up to, a settled request counts once and every closed attempt
\* once, and concurrency is filled by the leases of open reservations alone.
LedgerExact == LedgerBalances /\ CountsAreExact /\ LeasesBackConcurrency

\* The calendar rows of a request are those of the window in which it
\* arrived, so that a replay of Reserve finds the plan it made.
ArrivalWindow ==
    \A r \in Requests : reservation[r].status # "none" => ReplayPlanMatches(r)

\* A closed reservation is immutable: its rows, its request's status and its
\* attempts are not touched by late, replayed or recovery calls.
StaysClosed ==
    \A r \in Requests :
        reservation[r].status \in {"settled", "released", "expired"} =>
            /\ UNCHANGED <<logical[r].status, reservation[r], entry[r], attempts[r]>>
            /\ leases'[r] = {}

\* An attempt, once closed, keeps its outcome and its charge, and a unit once
\* charged is never given back.
ChargesAreFinal ==
    /\ \A r \in Requests, n \in 1 .. MaxAttempts :
         n <= Len(attempts[r]) =>
             /\ n <= Len(attempts'[r])
             /\ attempts[r][n].status # "started" => attempts'[r][n] = attempts[r][n]
    /\ \A b \in Buckets : bucket'[b].used >= bucket[b].used

\* What was closed and what was charged stays so, whatever comes later.
ClosedIsFinal == [][StaysClosed /\ ChargesAreFinal]_vars

(* Liveness, under FairSpec. *)

\* Undecided: authenticated and not yet reserved or denied, or reserved.
Open(r) == Pending(r) \/ logical[r].status = "authenticated"

\* Whatever its owner does or fails to do, a reservation is closed and an
\* authenticated request is decided.
EventuallyClosed == \A r \in Requests : Open(r) ~> ~Open(r)
=============================================================================
