-------------------------- MODULE SelfTestProofs --------------------------
(***************************************************************************)
(* Proofs about the worker queue and about the scheduled self-tests that   *)
(* run on it, for any number of replicas, job types, tests, schedules and  *)
(* tries, and any cost and daily limit.                                    *)
(*                                                                         *)
(* The queue: the invariant of the induction, QueueInv, adds two facts to  *)
(* the checked ones: a job that is not in the table yet has never been     *)
(* claimed, so that inserting it forgets no claim; and only a pending job  *)
(* waits for its retry delay, so that the end of a delay does not touch a  *)
(* job that is concluded.                                                  *)
(*                                                                         *)
(* The tests: the invariant, TestInv, relates what a replica remembers     *)
(* between its transactions to the row that every replica shares: the one  *)
(* that is about to send wrote the marker itself, no other replica is      *)
(* about to send for that job, and the cost is reserved; the one that is   *)
(* about to report success has seen a result.  The queue's own invariant   *)
(* is kept because every step here is a step of the queue.                 *)
(***************************************************************************)
EXTENDS ScheduledSelfTests, FiniteSetTheorems, TLAPS

AbsentIsUntried == \A j \in Jobs : jobs[j].status = "absent" => jobs[j].attempts = 0

OnlyPendingWait == \A j \in Jobs : jobs[j].delayed => jobs[j].status = "pending"

QueueInv ==
    QueueTypeOK /\ AbsentIsUntried /\ OnlyPendingWait /\ ClaimsAreExclusive /\ TriesLeft

\* What the rows of job j and j's row in another table t agree on when no
\* claim of j is made between them.
SameClaims(t) ==
    \A j \in Jobs : /\ jobs[j].status # "absent" => t[j].attempts = jobs[j].attempts
                    /\ t[j].status = "running" => jobs[j].status = "running"
                                                  /\ t[j].lockedBy = jobs[j].lockedBy
                    /\ t[j].status = "absent" => jobs[j].status = "absent"
                                                 /\ t[j].attempts = 0
                    /\ t[j].attempts <= MaxTriesOf(j)
                    /\ t[j].status = "pending" => t[j].attempts < MaxTriesOf(j)
                    /\ t[j].delayed => t[j].status = "pending"
                    /\ Concluded(j) => t[j] = jobs[j]

\* The constants have their types at every job.
LEMMA JobConstants ==
    ASSUME NEW j \in Jobs
    PROVE  MaxTriesOf(j) \in Nat \ {0}
BY KindTypes DEF Jobs, Kinds, MaxTriesOf

\* A job exists, so that NoClaim is a claim row.
LEMMA NoClaimType == NoClaim \in ClaimRow
<1>1. PICK k \in Kinds : TRUE
  BY KindsFinite
<1>2. <<k, 0>> \in Jobs
  BY <1>1, QueueBounds DEF Jobs, Times
<1>3. (CHOOSE j \in Jobs : TRUE) \in Jobs
  BY <1>2
<1>4. QED
  BY <1>3 DEF NoClaim, ClaimRow

\* Putting a running job back keeps its attempts and obeys max_attempts.
LEMMA RetryRow ==
    ASSUME QueueInv, NEW j \in Jobs, NEW delayed \in BOOLEAN, jobs[j].status = "running"
    PROVE  /\ Retry(j, delayed) \in JobRow
           /\ Retry(j, delayed).attempts = jobs[j].attempts
           /\ Retry(j, delayed).status \in {"pending", "dead"}
           /\ Retry(j, delayed).status = "pending" => jobs[j].attempts < MaxTriesOf(j)
           /\ Retry(j, delayed).delayed => Retry(j, delayed).status = "pending"
<1>1. jobs[j] \in JobRow
  BY DEF QueueInv, QueueTypeOK
<1>2. MaxTriesOf(j) \in Nat \ {0}
  BY JobConstants
<1>3. Retry(j, delayed).delayed => Retry(j, delayed).status = "pending"
  <2>1. ~(jobs[j].attempts < MaxTriesOf(j) /\ jobs[j].attempts >= MaxTriesOf(j))
    BY <1>1, <1>2 DEF JobRow
  <2>2. QED
    BY <2>1, Zenon DEF Retry
<1>4. /\ Retry(j, delayed) \in JobRow
      /\ Retry(j, delayed).attempts = jobs[j].attempts
      /\ Retry(j, delayed).status \in {"pending", "dead"}
      /\ Retry(j, delayed).status = "pending" => jobs[j].attempts < MaxTriesOf(j)
  BY <1>1, <1>2 DEF Retry, JobRow, JobStatus
<1>5. QED
  BY <1>3, <1>4

\* Recovery of stale claims changes no claim that is still valid.
LEMMA RecoveredTable ==
    ASSUME QueueInv
    PROVE  Recovered \in [Jobs -> JobRow] /\ SameClaims(Recovered)
<1>1. SUFFICES ASSUME NEW j \in Jobs
               PROVE  /\ Recovered[j] \in JobRow
                      /\ jobs[j].status # "absent" => Recovered[j].attempts = jobs[j].attempts
                      /\ Recovered[j].status = "running" => jobs[j].status = "running"
                                                  /\ Recovered[j].lockedBy = jobs[j].lockedBy
                      /\ Recovered[j].status = "absent" => jobs[j].status = "absent"
                                                 /\ Recovered[j].attempts = 0
                      /\ Recovered[j].attempts <= MaxTriesOf(j)
                      /\ Recovered[j].status = "pending" => Recovered[j].attempts < MaxTriesOf(j)
                      /\ Recovered[j].delayed => Recovered[j].status = "pending"
                      /\ Concluded(j) => Recovered[j] = jobs[j]
  BY DEF Recovered, SameClaims
<1>2. jobs[j] \in JobRow
  BY DEF QueueInv, QueueTypeOK
<1>3. CASE Stale(j)
  <2>1. Recovered[j] = Retry(j, FALSE) /\ jobs[j].status = "running"
    BY <1>3 DEF Recovered, Stale
  <2>2. jobs[j].attempts <= MaxTriesOf(j)
    BY DEF QueueInv, TriesLeft
  <2>3. QED
    BY <2>1, <2>2, RetryRow DEF Concluded
<1>4. CASE ~Stale(j)
  <2>1. Recovered[j] = jobs[j]
    BY <1>4 DEF Recovered
  <2>2. QED
    BY <2>1, <1>2 DEF QueueInv, AbsentIsUntried, OnlyPendingWait, TriesLeft
<1>5. QED
  BY <1>3, <1>4

\* Inserting keys touches only jobs that are not in the table.
LEMMA InsertTable ==
    ASSUME QueueInv, NEW keys, Insert(keys)
    PROVE  jobs' \in [Jobs -> JobRow] /\ SameClaims(jobs')
<1>1. SUFFICES ASSUME NEW j \in Jobs
               PROVE  /\ jobs'[j] \in JobRow
                      /\ jobs[j].status # "absent" => jobs'[j].attempts = jobs[j].attempts
                      /\ jobs'[j].status = "running" => jobs[j].status = "running"
                                                  /\ jobs'[j].lockedBy = jobs[j].lockedBy
                      /\ jobs'[j].status = "absent" => jobs[j].status = "absent"
                                                 /\ jobs'[j].attempts = 0
                      /\ jobs'[j].attempts <= MaxTriesOf(j)
                      /\ jobs'[j].status = "pending" => jobs'[j].attempts < MaxTriesOf(j)
                      /\ jobs'[j].delayed => jobs'[j].status = "pending"
                      /\ Concluded(j) => jobs'[j] = jobs[j]
  BY DEF Insert, SameClaims
<1>2. jobs[j] \in JobRow /\ MaxTriesOf(j) \in Nat \ {0}
  BY JobConstants DEF QueueInv, QueueTypeOK
<1>3. CASE j \in keys /\ jobs[j].status = "absent"
  BY <1>2, <1>3 DEF Insert, JobRow, JobStatus, Concluded
<1>4. CASE ~(j \in keys /\ jobs[j].status = "absent")
  <2>1. jobs'[j] = jobs[j]
    BY <1>4 DEF Insert
  <2>2. QED
    BY <2>1, <1>2 DEF QueueInv, AbsentIsUntried, OnlyPendingWait, TriesLeft
<1>5. QED
  BY <1>3, <1>4

\* A step that makes no claim, and after which every execution was one
\* before, preserves the invariant.
LEMMA NoNewClaim ==
    ASSUME QueueInv, QueueTypeOK', SameClaims(jobs'),
           \A w \in Workers : Executing(w)' => Executing(w) /\ claim'[w] = claim[w]
    PROVE  QueueInv'
<1>1. AbsentIsUntried'
  BY DEF AbsentIsUntried, SameClaims
<1>2. TriesLeft'
  BY DEF TriesLeft, SameClaims, MaxTriesOf
<1>3. ClaimsAreExclusive'
  <2> SUFFICES ASSUME NEW w \in Workers, Executing(w)'
               PROVE  /\ claim'[w].attempt \in 1 .. jobs'[claim'[w].job].attempts
                      /\ jobs'[claim'[w].job].status = "running"
                           /\ jobs'[claim'[w].job].attempts = claim'[w].attempt
                            => jobs'[claim'[w].job].lockedBy = w
                      /\ \A v \in Workers \ {w} : Executing(v)' => claim'[v] # claim'[w]
    BY DEF ClaimsAreExclusive, JobOf
  <2> DEFINE j == claim[w].job
  <2>1. Executing(w) /\ claim'[w] = claim[w]
    OBVIOUS
  <2>2. j \in Jobs /\ jobs[j] \in JobRow /\ claim[w].attempt \in Nat
    BY DEF QueueInv, QueueTypeOK, ClaimRow
  <2>3. claim[w].attempt \in 1 .. jobs[j].attempts
    BY <2>1 DEF QueueInv, ClaimsAreExclusive, JobOf
  <2>4. jobs[j].status # "absent"
    BY <2>2, <2>3 DEF QueueInv, AbsentIsUntried, JobRow
  <2>5. jobs'[j].attempts = jobs[j].attempts
    BY <2>2, <2>4 DEF SameClaims
  <2>6. jobs'[j].status = "running" => jobs[j].status = "running"
                                       /\ jobs'[j].lockedBy = jobs[j].lockedBy
    BY <2>2 DEF SameClaims
  <2>7. jobs[j].status = "running" /\ jobs[j].attempts = claim[w].attempt => jobs[j].lockedBy = w
    BY <2>1 DEF QueueInv, ClaimsAreExclusive, JobOf
  <2>8. \A v \in Workers \ {w} : Executing(v)' => claim'[v] # claim'[w]
    BY <2>1 DEF QueueInv, ClaimsAreExclusive
  <2>9. QED
    BY <2>1, <2>3, <2>5, <2>6, <2>7, <2>8
<1>4. OnlyPendingWait'
  BY DEF OnlyPendingWait, SameClaims
<1>5. QED
  BY <1>1, <1>2, <1>3, <1>4 DEF QueueInv

-----------------------------------------------------------------------------
(* The actions. *)

\* Moving a replica to another phase keeps the types of the worker table.
LEMMA WorkerTypes ==
    ASSUME QueueTypeOK, NEW w \in Workers, NEW phase \in Phases
    PROVE  /\ [worker EXCEPT ![w].phase = phase] \in [Workers -> WorkerRow]
           /\ [worker EXCEPT ![w] = Resting] \in [Workers -> WorkerRow]
<1>1. worker \in [Workers -> WorkerRow] /\ worker[w] \in WorkerRow
  BY DEF QueueTypeOK
<1>2. [worker[w] EXCEPT !.phase = phase] \in WorkerRow /\ Resting \in WorkerRow
  BY <1>1, QueueBounds DEF WorkerRow, Resting, Phases, Times
<1>3. QED
  BY <1>1, <1>2

\* A table that did not change makes no claim.
LEMMA SameTable == ASSUME QueueInv, jobs' = jobs PROVE SameClaims(jobs')
<1>1. \A j \in Jobs : jobs[j] \in JobRow
  BY DEF QueueInv, QueueTypeOK
<1>2. QED
  BY <1>1 DEF QueueInv, SameClaims, AbsentIsUntried, OnlyPendingWait, TriesLeft

\* The pass up to its claims, its end, and crashes.
LEMMA PassKeeps ==
    ASSUME QueueInv, NEW w \in Workers,
           \/ BeginPass(w)
           \/ PassFails(w)
           \/ EndPass(w)
           \/ Crash(w)
    PROVE  QueueInv' /\ SameClaims(jobs')
<1>0. /\ fresh \in [Workers -> BOOLEAN] /\ worker \in [Workers -> WorkerRow] /\ now \in Times
      /\ claim \in [Workers -> ClaimRow] /\ 0 \in Times
  BY QueueBounds DEF QueueInv, QueueTypeOK, Times
<1>1. jobs' = jobs /\ schedule' = schedule /\ now' = now
  BY DEF BeginPass, PassFails, EndPass, Crash
<1>2. fresh' \in [Workers -> BOOLEAN]
  BY <1>0 DEF BeginPass, PassFails, EndPass, Crash
<1>3. claim' \in [Workers -> ClaimRow]
  BY <1>0, NoClaimType DEF BeginPass, PassFails, EndPass, Crash
<1>4. worker' \in [Workers -> WorkerRow]
  <2>1. CASE BeginPass(w)
    <3>1. [phase |-> "scheduling", at |-> now, left |-> 0] \in WorkerRow
      BY <1>0 DEF WorkerRow, Phases
    <3>2. QED
      BY <2>1, <3>1, <1>0 DEF BeginPass
  <2>2. CASE Crash(w)
    <3>1. [phase |-> "crashed", at |-> 0, left |-> 0] \in WorkerRow
      BY <1>0 DEF WorkerRow, Phases
    <3>2. QED
      BY <2>2, <3>1, <1>0 DEF Crash
  <2>3. CASE PassFails(w) \/ EndPass(w)
    BY <2>3, WorkerTypes DEF PassFails, EndPass, Return, QueueInv, Phases
  <2>4. QED
    BY <2>1, <2>2, <2>3
<1>5. QueueTypeOK'
  BY <1>1, <1>2, <1>3, <1>4 DEF QueueInv, QueueTypeOK
<1>6. \A v \in Workers : Executing(v)' => Executing(v) /\ claim'[v] = claim[v]
  BY <1>0 DEF BeginPass, PassFails, EndPass, Crash, Executing, Return, Resting
<1>7. SameClaims(jobs')
  BY <1>1, SameTable
<1>8. QED
  BY <1>5, <1>6, <1>7, NoNewClaim

\* The instants of the schedules stay natural numbers.
LEMMA NextAfterType ==
    ASSUME NEW s \in Schedules, NEW due \in Nat, NEW t \in Times
    PROVE  NextAfter(s, due, t) \in Nat
<1>1. Interval[s] \in Nat \ {0} /\ t \in Nat
  BY KindTypes, QueueBounds DEF Kinds, Times
<1>2. CASE due > t
  BY <1>2 DEF NextAfter
<1>3. CASE ~(due > t)
  <2>1. t - due \in Nat
    BY <1>1, <1>3
  <2>2. (t - due) \div Interval[s] \in Nat
    BY <2>1, <1>1
  <2>3. ((t - due) \div Interval[s] + 1) * Interval[s] \in Nat
    BY <2>2, <1>1
  <2>4. QED
    BY <2>3, <1>3 DEF NextAfter
<1>4. QED
  BY <1>2, <1>3

\* Scheduling the windows of some of the job types preserves the invariant.
LEMMA ScheduleKeeps ==
    ASSUME QueueInv, NEW w \in Workers, NEW inserted \in SUBSET Types, Schedule(w, inserted)
    PROVE  QueueInv' /\ SameClaims(jobs')
<1>1. jobs' \in [Jobs -> JobRow] /\ SameClaims(jobs')
  BY InsertTable DEF Schedule
<1>2. worker' \in [Workers -> WorkerRow]
  BY WorkerTypes DEF Schedule, Enter, Return, QueueInv, Phases
<1>3. QueueTypeOK'
  BY <1>1, <1>2 DEF QueueInv, QueueTypeOK, Schedule
<1>4. \A v \in Workers : Executing(v)' => Executing(v) /\ claim'[v] = claim[v]
  <2>1. worker \in [Workers -> WorkerRow]
    BY DEF QueueInv, QueueTypeOK
  <2>2. QED
    BY <2>1 DEF WorkerRow, Schedule, Executing, Enter, Return, Resting
<1>5. QED
  BY <1>1, <1>3, <1>4, NoNewClaim

\* Coalescing the due self-tests preserves the invariant: the number of claims
\* it adds to the pass is finite because the due windows are jobs.
LEMMA ScheduleSelfTestsKeeps ==
    ASSUME QueueInv, NEW w \in Workers, ScheduleSelfTests(w)
    PROVE  QueueInv' /\ SameClaims(jobs')
<1> DEFINE keys == {<<s, schedule[s].next>> : s \in Due(w)}
           fits == {j \in keys : jobs[j].status = "absent"}
           row == [phase |-> "claiming", at |-> 0, left |-> TypeCount + Cardinality(fits)]
<1>0. worker \in [Workers -> WorkerRow] /\ schedule \in [Schedules -> ScheduleRow]
  BY DEF QueueInv, QueueTypeOK
<1>1. jobs' \in [Jobs -> JobRow] /\ SameClaims(jobs')
  BY InsertTable DEF ScheduleSelfTests
<1>2. Cardinality(fits) \in Nat
  <2>1. keys \subseteq Jobs
    <3>1. ASSUME NEW s \in Due(w) PROVE <<s, schedule[s].next>> \in Jobs
      BY <1>0, QueueBounds DEF Due, Jobs, Kinds, Times, ScheduleRow, WorkerRow
    <3>2. QED
      BY <3>1
  <2>2. IsFiniteSet(Jobs)
    <3>1. IsFiniteSet(Times)
      <4>1. 0 \in Int /\ MaxTime \in Int
        BY QueueBounds
      <4>2. QED
        BY <4>1, FS_Interval DEF Times
    <3>2. QED
      BY <3>1, KindsFinite, FS_Product DEF Jobs
  <2>3. IsFiniteSet(fits)
    BY <2>1, <2>2, FS_Subset
  <2>4. QED
    BY <2>3, FS_CardinalityType
<1>3. worker' \in [Workers -> WorkerRow]
  <2>1. row \in WorkerRow
    BY <1>2, QueueBounds DEF WorkerRow, Phases, Times
  <2>2. worker' = [worker EXCEPT ![w] = row]
    BY DEF ScheduleSelfTests
  <2>3. QED
    BY <2>1, <2>2, <1>0
<1>4. schedule' \in [Schedules -> ScheduleRow]
  <2>1. ASSUME NEW s \in Schedules
        PROVE  [active |-> TRUE, next |-> NextAfter(s, schedule[s].next, worker[w].at)] \in ScheduleRow
    BY <1>0, NextAfterType DEF ScheduleRow, WorkerRow
  <2>2. QED
    BY <2>1, <1>0 DEF ScheduleSelfTests
<1>5. QueueTypeOK'
  BY <1>1, <1>3, <1>4 DEF QueueInv, QueueTypeOK, ScheduleSelfTests
<1>6. \A v \in Workers : Executing(v)' => Executing(v) /\ claim'[v] = claim[v]
  BY <1>0 DEF ScheduleSelfTests, Executing
<1>7. QED
  BY <1>1, <1>5, <1>6, NoNewClaim

\* What Take does to the table: job j is claimed with a new attempt number.
LEMMA TakeTable ==
    ASSUME QueueInv, NEW w \in Workers, NEW j \in Jobs, Take(w, j)
    PROVE  /\ jobs' \in [Jobs -> JobRow]
           /\ jobs'[j].status = "running" /\ jobs'[j].lockedBy = w /\ ~jobs'[j].delayed
           /\ jobs'[j].attempts = Recovered[j].attempts + 1
           /\ jobs'[j].attempts <= MaxTriesOf(j)
           /\ Recovered[j].attempts \in Nat
           /\ Recovered[j].status = "pending"
           /\ \A i \in Jobs \ {j} : jobs'[i] = Recovered[i]
<1> DEFINE row == [status |-> "running", attempts |-> Recovered[j].attempts + 1,
                   lockedBy |-> w, delayed |-> FALSE]
<1>1. Recovered \in [Jobs -> JobRow]
  BY RecoveredTable
<1>2. jobs' = [Recovered EXCEPT ![j] = row] /\ row.attempts <= MaxTriesOf(j)
      /\ Recovered[j].status = "pending"
  BY DEF Take, Ready
<1>3. row \in JobRow /\ Recovered[j].attempts \in Nat
  BY <1>1 DEF JobRow, JobStatus
<1> HIDE DEF row
<1>4. jobs'[j] = row /\ \A i \in Jobs \ {j} : jobs'[i] = Recovered[i]
  BY <1>1, <1>2
<1>5. jobs' \in [Jobs -> JobRow]
  BY <1>1, <1>2, <1>3
<1>6. QED
  BY <1>2, <1>3, <1>4, <1>5 DEF row

\* A claim, heard or lost, preserves the invariant: its attempt number is
\* above that of every execution of the job.
LEMMA TakeKeeps ==
    ASSUME QueueInv, NEW w \in Workers, NEW j \in Jobs, Claim(w, j) \/ ClaimLost(w, j)
    PROVE  QueueInv' /\ \A i \in Jobs : Concluded(i) => jobs'[i] = jobs[i]
<1> DEFINE mine == [job |-> j, attempt |-> Recovered[j].attempts + 1]
<1>0. /\ worker \in [Workers -> WorkerRow] /\ claim \in [Workers -> ClaimRow]
      /\ jobs \in [Jobs -> JobRow]
  BY DEF QueueInv, QueueTypeOK
<1>1. Take(w, j)
  BY DEF Claim, ClaimLost
<1>2. /\ jobs' \in [Jobs -> JobRow]
      /\ jobs'[j].status = "running" /\ jobs'[j].lockedBy = w /\ ~jobs'[j].delayed
      /\ jobs'[j].attempts = Recovered[j].attempts + 1
      /\ jobs'[j].attempts <= MaxTriesOf(j)
      /\ Recovered[j].attempts \in Nat
      /\ Recovered[j].status = "pending"
      /\ \A i \in Jobs \ {j} : jobs'[i] = Recovered[i]
  BY <1>1, TakeTable
<1>3. Recovered \in [Jobs -> JobRow] /\ SameClaims(Recovered)
  BY RecoveredTable
<1>4. mine \in ClaimRow
  BY <1>2 DEF ClaimRow
<1>5. QueueTypeOK'
  <2>1. claim' \in [Workers -> ClaimRow]
    BY <1>0, <1>4 DEF Claim, ClaimLost
  <2>2. worker' \in [Workers -> WorkerRow]
    <3>1. CASE Claim(w, j)
      <4>1. [phase |-> "executing", at |-> worker[w].at, left |-> worker[w].left - 1] \in WorkerRow
        BY <1>0, <1>1 DEF WorkerRow, Phases, Take
      <4>2. QED
        BY <3>1, <4>1, <1>0 DEF Claim
    <3>2. CASE ClaimLost(w, j)
      BY <3>2, WorkerTypes DEF ClaimLost, Return, QueueInv, Phases
    <3>3. QED
      BY <3>1, <3>2
  <2>3. QED
    BY <1>1, <1>2, <2>1, <2>2 DEF QueueInv, QueueTypeOK, Take
<1>6. AbsentIsUntried'
  BY <1>2, <1>3 DEF AbsentIsUntried, SameClaims
<1>61. OnlyPendingWait'
  BY <1>2, <1>3 DEF OnlyPendingWait, SameClaims
<1>7. TriesLeft'
  BY <1>2, <1>3 DEF TriesLeft, SameClaims, MaxTriesOf
<1>8. ASSUME NEW v \in Workers, Executing(v)
      PROVE  /\ jobs[JobOf(v)].attempts = Recovered[JobOf(v)].attempts
             /\ claim[v].attempt \in 1 .. Recovered[JobOf(v)].attempts
             /\ JobOf(v) \in Jobs
             /\ claim[v].attempt \in Nat
  <2>1. JobOf(v) \in Jobs /\ claim[v].attempt \in Nat
    BY <1>0 DEF JobOf, ClaimRow
  <2>2. claim[v].attempt \in 1 .. jobs[JobOf(v)].attempts
    BY <1>8 DEF QueueInv, ClaimsAreExclusive
  <2>3. jobs[JobOf(v)].status # "absent"
    BY <1>0, <2>1, <2>2 DEF QueueInv, AbsentIsUntried, JobRow
  <2>4. QED
    BY <1>3, <2>1, <2>2, <2>3 DEF SameClaims
<1>9. \A v \in Workers \ {w} : claim'[v] = claim[v] /\ (Executing(v)' <=> Executing(v))
  BY <1>0 DEF Claim, ClaimLost, Executing, Return
<1>10. ASSUME NEW v \in Workers \ {w}, Executing(v)'
       PROVE  /\ claim'[v].attempt \in 1 .. jobs'[JobOf(v)'].attempts
              /\ jobs'[JobOf(v)'].status = "running"
                   /\ jobs'[JobOf(v)'].attempts = claim'[v].attempt
                      => jobs'[JobOf(v)'].lockedBy = v
              /\ claim'[v] # mine
  <2>1. Executing(v) /\ claim'[v] = claim[v] /\ JobOf(v)' = JobOf(v)
    BY <1>9, <1>10 DEF JobOf
  <2>2. claim[v].attempt \in 1 .. Recovered[JobOf(v)].attempts /\ JobOf(v) \in Jobs
        /\ jobs[JobOf(v)].attempts = Recovered[JobOf(v)].attempts /\ claim[v].attempt \in Nat
    BY <1>8, <2>1
  <2>3. CASE JobOf(v) = j
    BY <1>2, <2>1, <2>2, <2>3
  <2>4. CASE JobOf(v) # j
    <3>1. jobs'[JobOf(v)] = Recovered[JobOf(v)]
      BY <1>2, <2>2, <2>4
    <3>2. jobs[JobOf(v)].status = "running" /\ jobs[JobOf(v)].attempts = claim[v].attempt
             => jobs[JobOf(v)].lockedBy = v
      BY <2>1 DEF QueueInv, ClaimsAreExclusive
    <3>3. Recovered[JobOf(v)].status = "running" => jobs[JobOf(v)].status = "running"
                              /\ Recovered[JobOf(v)].lockedBy = jobs[JobOf(v)].lockedBy
      BY <1>3, <2>2 DEF SameClaims
    <3>4. claim[v] # mine
      BY <2>4 DEF JobOf
    <3>5. QED
      BY <2>1, <2>2, <3>1, <3>2, <3>3, <3>4
  <2>5. QED
    BY <2>3, <2>4
<1>11. Executing(w)' => claim'[w] = mine
  BY <1>0 DEF Claim, ClaimLost, Executing, Return, Resting
<1>12. ClaimsAreExclusive'
  <2> SUFFICES ASSUME NEW u \in Workers, Executing(u)'
               PROVE  /\ claim'[u].attempt \in 1 .. jobs'[JobOf(u)'].attempts
                      /\ jobs'[JobOf(u)'].status = "running"
                           /\ jobs'[JobOf(u)'].attempts = claim'[u].attempt
                              => jobs'[JobOf(u)'].lockedBy = u
                      /\ \A v \in Workers \ {u} : Executing(v)' => claim'[v] # claim'[u]
    BY DEF ClaimsAreExclusive
  <2>1. CASE u = w
    <3>1. claim'[w] = mine /\ JobOf(w)' = j
      BY <1>11, <2>1 DEF JobOf
    <3>2. QED
      BY <1>2, <1>10, <2>1, <3>1
  <2>2. CASE u # w
    <3>1. \A v \in Workers \ {u} : Executing(v)' => claim'[v] # claim'[u]
      <4>1. TAKE v \in Workers \ {u}
      <4>2. HAVE Executing(v)'
      <4>3. CASE v = w
        BY <1>10, <1>11, <2>2, <4>2, <4>3
      <4>4. CASE v # w
        BY <1>9, <2>2, <4>2, <4>4 DEF QueueInv, ClaimsAreExclusive
      <4>5. QED
        BY <4>3, <4>4
    <3>2. QED
      BY <1>10, <2>2, <3>1
  <2>3. QED
    BY <2>1, <2>2
<1>13. \A i \in Jobs : Concluded(i) => jobs'[i] = jobs[i]
  <2>1. TAKE i \in Jobs
  <2>2. HAVE Concluded(i)
  <2>3. Recovered[i] = jobs[i]
    BY <1>3, <2>2 DEF SameClaims
  <2>4. i # j
    BY <1>2, <2>2, <2>3 DEF Concluded
  <2>5. QED
    BY <1>2, <2>3, <2>4
<1>14. QED
  BY <1>5, <1>6, <1>61, <1>7, <1>12, <1>13 DEF QueueInv

\* A claim that finds nothing recovers stale claims and preserves the invariant.
LEMMA ClaimNothingKeeps ==
    ASSUME QueueInv, NEW w \in Workers, ClaimNothing(w)
    PROVE  QueueInv' /\ SameClaims(jobs')
<1>0. worker \in [Workers -> WorkerRow]
  BY DEF QueueInv, QueueTypeOK
<1>1. jobs' \in [Jobs -> JobRow] /\ SameClaims(jobs')
  BY RecoveredTable DEF ClaimNothing
<1>2. [phase |-> "claiming", at |-> worker[w].at, left |-> 0] \in WorkerRow
  BY <1>0 DEF WorkerRow, Phases
<1>3. worker' \in [Workers -> WorkerRow]
  BY <1>0, <1>2 DEF ClaimNothing
<1>4. QueueTypeOK'
  BY <1>1, <1>3 DEF QueueInv, QueueTypeOK, ClaimNothing
<1>5. \A v \in Workers : Executing(v)' => Executing(v) /\ claim'[v] = claim[v]
  BY <1>0 DEF ClaimNothing, Executing
<1>6. QED
  BY <1>1, <1>4, <1>5, NoNewClaim

\* Replacing the row of one running job by a row that keeps its attempts and
\* is not running makes no claim.
LEMMA EndedRow ==
    ASSUME QueueInv, NEW j \in Jobs, jobs[j].status = "running", NEW row \in JobRow,
           row.attempts = jobs[j].attempts, row.status \in {"pending", "dead", "succeeded"},
           row.status = "pending" => row.attempts < MaxTriesOf(j),
           row.delayed => row.status = "pending",
           jobs' = [jobs EXCEPT ![j] = row]
    PROVE  jobs' \in [Jobs -> JobRow] /\ SameClaims(jobs')
<1>1. jobs \in [Jobs -> JobRow]
  BY DEF QueueInv, QueueTypeOK
<1>2. jobs' \in [Jobs -> JobRow]
  BY <1>1
<1>3. jobs'[j] = row /\ \A i \in Jobs \ {j} : jobs'[i] = jobs[i]
  BY <1>1
<1>4. ASSUME NEW i \in Jobs
      PROVE  /\ jobs[i].status # "absent" => jobs'[i].attempts = jobs[i].attempts
             /\ jobs'[i].status = "running" => jobs[i].status = "running"
                                               /\ jobs'[i].lockedBy = jobs[i].lockedBy
             /\ jobs'[i].status = "absent" => jobs[i].status = "absent" /\ jobs'[i].attempts = 0
             /\ jobs'[i].attempts <= MaxTriesOf(i)
             /\ jobs'[i].status = "pending" => jobs'[i].attempts < MaxTriesOf(i)
             /\ jobs'[i].delayed => jobs'[i].status = "pending"
             /\ Concluded(i) => jobs'[i] = jobs[i]
  <2>1. jobs[i].attempts <= MaxTriesOf(i)
    BY DEF QueueInv, TriesLeft
  <2>2. CASE i = j
    BY <1>3, <2>1, <2>2 DEF Concluded
  <2>3. CASE i # j
    BY <1>3, <2>1, <2>3 DEF QueueInv, AbsentIsUntried, OnlyPendingWait, TriesLeft
  <2>4. QED
    BY <2>2, <2>3
<1>5. QED
  BY <1>2, <1>4 DEF SameClaims

\* The end of an execution, told to the queue or not, preserves the invariant.
LEMMA FinishKeeps ==
    ASSUME QueueInv, NEW w \in Workers, Finish(w)
    PROVE  QueueInv' /\ SameClaims(jobs')
<1> DEFINE j == JobOf(w)
<1>0. /\ worker \in [Workers -> WorkerRow] /\ claim \in [Workers -> ClaimRow]
      /\ jobs \in [Jobs -> JobRow] /\ j \in Jobs
  BY DEF QueueInv, QueueTypeOK, JobOf, ClaimRow
<1>1. jobs' \in [Jobs -> JobRow] /\ SameClaims(jobs')
  <2>1. CASE jobs' = jobs
    BY <2>1, <1>0, SameTable
  <2>2. CASE Complete(w) /\ Fence(w)
    <3> DEFINE row == [status |-> "succeeded", attempts |-> jobs[j].attempts,
                       lockedBy |-> Nobody, delayed |-> FALSE]
    <3>1. jobs' = [jobs EXCEPT ![j] = row] /\ jobs[j].status = "running"
      BY <2>2 DEF Complete, Fence
    <3>2. row \in JobRow
      BY <1>0 DEF JobRow, JobStatus
    <3>3. QED
      BY <1>0, <3>1, <3>2, EndedRow
  <2>3. CASE Fail(w) /\ Fence(w)
    <3>1. jobs' = [jobs EXCEPT ![j] = Retry(j, TRUE)] /\ jobs[j].status = "running"
      BY <2>3 DEF Fail, Fence
    <3>2. /\ Retry(j, TRUE) \in JobRow /\ Retry(j, TRUE).attempts = jobs[j].attempts
          /\ Retry(j, TRUE).status \in {"pending", "dead"}
          /\ Retry(j, TRUE).status = "pending" => jobs[j].attempts < MaxTriesOf(j)
          /\ Retry(j, TRUE).delayed => Retry(j, TRUE).status = "pending"
      BY <1>0, <3>1, RetryRow
    <3>3. QED
      BY <1>0, <3>1, <3>2, EndedRow
  <2>4. QED
    BY <2>1, <2>2, <2>3 DEF Finish, Complete, Fail, FinalizeLost
<1>2. worker' = [worker EXCEPT ![w].phase = "claiming"] /\ claim' = [claim EXCEPT ![w] = NoClaim]
      /\ now' = now /\ fresh' = fresh /\ schedule' = schedule
  BY DEF Finish, Complete, Fail, FinalizeLost, Done, Enter
<1>3. worker' \in [Workers -> WorkerRow] /\ claim' \in [Workers -> ClaimRow]
  BY <1>0, <1>2, WorkerTypes, NoClaimType DEF QueueInv, Phases
<1>4. QueueTypeOK'
  BY <1>1, <1>2, <1>3 DEF QueueInv, QueueTypeOK
<1>5. \A v \in Workers : Executing(v)' => Executing(v) /\ claim'[v] = claim[v]
  BY <1>0, <1>2 DEF Executing, WorkerRow
<1>6. QED
  BY <1>1, <1>4, <1>5, NoNewClaim

\* The passage of time and the end of a schedule preserve the invariant.
LEMMA EnvironmentKeeps ==
    ASSUME QueueInv, Environment
    PROVE  QueueInv' /\ SameClaims(jobs')
<1>0. /\ fresh \in [Workers -> BOOLEAN] /\ jobs \in [Jobs -> JobRow] /\ now \in Times
      /\ schedule \in [Schedules -> ScheduleRow]
  BY DEF QueueInv, QueueTypeOK
<1>1. worker' = worker /\ claim' = claim
  BY DEF Environment, WindowPasses, HeartbeatExpires, DelayEnds, DisableSchedule
<1>2. now' \in Times
  BY <1>0, QueueBounds DEF Environment, WindowPasses, HeartbeatExpires, DelayEnds, DisableSchedule, Times
<1>3. fresh' \in [Workers -> BOOLEAN]
  BY <1>0 DEF Environment, WindowPasses, HeartbeatExpires, DelayEnds, DisableSchedule
<1>4. schedule' \in [Schedules -> ScheduleRow]
  <2>1. CASE schedule' = schedule
    BY <1>0, <2>1
  <2>2. ASSUME NEW s \in Schedules, DisableSchedule(s) PROVE schedule' \in [Schedules -> ScheduleRow]
    <3>1. [active |-> FALSE, next |-> schedule[s].next] \in ScheduleRow
      BY <1>0 DEF ScheduleRow
    <3>2. QED
      BY <1>0, <2>2, <3>1 DEF DisableSchedule
  <2>3. QED
    BY <2>1, <2>2 DEF Environment, WindowPasses, HeartbeatExpires, DelayEnds
<1>5. jobs' \in [Jobs -> JobRow] /\ SameClaims(jobs')
  <2>1. CASE jobs' = jobs
    BY <2>1, <1>0, SameTable
  <2>2. CASE \E j \in Jobs : DelayEnds(j)
    <3>1. PICK j \in Jobs : DelayEnds(j)
      BY <2>2
    <3>2. jobs' \in [Jobs -> JobRow]
      BY <1>0, <3>1 DEF DelayEnds, JobRow
    <3>3. ASSUME NEW i \in Jobs
          PROVE  /\ jobs'[i].status = jobs[i].status /\ jobs'[i].attempts = jobs[i].attempts
                 /\ jobs'[i].lockedBy = jobs[i].lockedBy
                 /\ Concluded(i) => jobs'[i] = jobs[i]
      <4>1. jobs[j].status = "pending"
        BY <3>1 DEF DelayEnds, QueueInv, OnlyPendingWait
      <4>2. QED
        BY <1>0, <3>1, <4>1 DEF DelayEnds, JobRow, Concluded
    <3>5. \A i \in Jobs : jobs'[i].delayed => jobs[i].delayed
      BY <1>0, <3>1 DEF DelayEnds, JobRow
    <3>4. QED
      BY <3>2, <3>3, <3>5 DEF SameClaims, QueueInv, AbsentIsUntried, OnlyPendingWait, TriesLeft
  <2>3. QED
    BY <2>1, <2>2 DEF Environment, WindowPasses, HeartbeatExpires, DisableSchedule
<1>6. QueueTypeOK'
  BY <1>1, <1>2, <1>3, <1>4, <1>5 DEF QueueInv, QueueTypeOK
<1>7. QED
  BY <1>1, <1>5, <1>6, NoNewClaim DEF Executing

-----------------------------------------------------------------------------
(* The theorems. *)

\* The initial state satisfies the invariant.
LEMMA InitKeeps == QueueInit => QueueInv
<1> SUFFICES ASSUME QueueInit PROVE QueueInv
  OBVIOUS
<1>1. QueueTypeOK
  <2>1. now \in Times /\ fresh \in [Workers -> BOOLEAN]
    BY QueueBounds DEF QueueInit, Times
  <2>2. jobs \in [Jobs -> JobRow] /\ schedule \in [Schedules -> ScheduleRow]
    BY DEF QueueInit, NoJob, JobRow, JobStatus, ScheduleRow
  <2>3. Resting \in WorkerRow
    BY QueueBounds DEF Resting, WorkerRow, Phases, Times
  <2>4. worker \in [Workers -> WorkerRow] /\ claim \in [Workers -> ClaimRow]
    BY <2>3, NoClaimType DEF QueueInit
  <2>5. QED
    BY <2>1, <2>2, <2>4 DEF QueueTypeOK
<1>2. AbsentIsUntried /\ OnlyPendingWait
  BY DEF QueueInit, NoJob, AbsentIsUntried, OnlyPendingWait
<1>3. ClaimsAreExclusive
  BY DEF QueueInit, Resting, Executing, ClaimsAreExclusive
<1>4. TriesLeft
  <2>1. \A j \in Jobs : jobs[j] = NoJob /\ MaxTriesOf(j) \in Nat \ {0}
    BY JobConstants DEF QueueInit
  <2>2. QED
    BY <2>1 DEF NoJob, TriesLeft
<1>5. QED
  BY <1>1, <1>2, <1>3, <1>4 DEF QueueInv

\* Every step of the queue preserves the invariant and reopens no job.
LEMMA StepKeeps ==
    ASSUME QueueInv, [Next]_queueVars
    PROVE  QueueInv' /\ \A j \in Jobs : Concluded(j) => jobs'[j] = jobs[j]
<1>1. ASSUME SameClaims(jobs') PROVE \A j \in Jobs : Concluded(j) => jobs'[j] = jobs[j]
  BY <1>1 DEF SameClaims
<1>2. CASE UNCHANGED queueVars
  BY <1>2 DEF queueVars, QueueInv, QueueTypeOK, AbsentIsUntried, OnlyPendingWait,
              ClaimsAreExclusive, TriesLeft, Executing, JobOf
<1>3. ASSUME NEW w \in Workers, QueueStep(w)
      PROVE  QueueInv' /\ \A j \in Jobs : Concluded(j) => jobs'[j] = jobs[j]
  <2>1. CASE BeginPass(w) \/ PassFails(w) \/ EndPass(w) \/ Crash(w)
    BY <1>1, <2>1, PassKeeps
  <2>2. CASE \E inserted \in SUBSET Types : Schedule(w, inserted)
    BY <1>1, <2>2, ScheduleKeeps
  <2>3. CASE ScheduleSelfTests(w)
    BY <1>1, <2>3, ScheduleSelfTestsKeeps
  <2>4. CASE \E j \in Jobs : ClaimLost(w, j)
    BY <2>4, TakeKeeps
  <2>5. CASE ClaimNothing(w)
    BY <1>1, <2>5, ClaimNothingKeeps
  <2>6. QED
    BY <1>3, <2>1, <2>2, <2>3, <2>4, <2>5 DEF QueueStep
<1>4. ASSUME NEW w \in Workers, NEW j \in Jobs, Claim(w, j)
      PROVE  QueueInv' /\ \A i \in Jobs : Concluded(i) => jobs'[i] = jobs[i]
  BY <1>4, TakeKeeps
<1>5. ASSUME NEW w \in Workers, Finish(w)
      PROVE  QueueInv' /\ \A j \in Jobs : Concluded(j) => jobs'[j] = jobs[j]
  BY <1>1, <1>5, FinishKeeps
<1>6. CASE Environment
  BY <1>1, <1>6, EnvironmentKeeps
<1>7. QED
  BY <1>2, <1>3, <1>4, <1>5, <1>6 DEF Next

\* QueueInv is an invariant of the queue.
LEMMA Invariance == Spec => []QueueInv
<1>1. QueueInv /\ [Next]_queueVars => QueueInv'
  BY StepKeeps
<1>2. QED
  BY InitKeeps, <1>1, PTL DEF Spec

\* Type correctness of the worker queue.
THEOREM QueueTypes == Spec => []QueueTypeOK
<1>1. QueueInv => QueueTypeOK
  BY DEF QueueInv
<1>2. QED
  BY Invariance, <1>1, PTL

\* The fence of Complete and Fail (locked_by_instance_id, attempt_count) is
\* enough: two live executions never hold the same claim, and the one that
\* matches the row is that of the replica named in it.
THEOREM ExclusiveClaims == Spec => []ClaimsAreExclusive
<1>1. QueueInv => ClaimsAreExclusive
  BY DEF QueueInv
<1>2. QED
  BY Invariance, <1>1, PTL

\* No job is tried more than max_attempts times, and Claim meets no pending
\* job without a try left.
THEOREM TriesBounded == Spec => []TriesLeft
<1>1. QueueInv => TriesLeft
  BY DEF QueueInv
<1>2. QED
  BY Invariance, <1>1, PTL

\* A concluded job stays as it is, whichever replica still works on it.
THEOREM ConcludedStays == Spec => ConcludedIsFinal
<1>1. QueueInv /\ [Next]_queueVars
        => [StaysConcluded]_queueVars
  BY StepKeeps DEF StaysConcluded
<1>2. QED
  BY Invariance, <1>1, PTL DEF Spec, ConcludedIsFinal

-----------------------------------------------------------------------------
(* Scheduled self-tests. *)

\* What the row of a job says about its request: unmarked means not charged
\* and not sent, and what was sent, once, is charged.
PaidRow(row, n) ==
    /\ row.status = "none" => ~row.charged /\ n = 0
    /\ n > 0 => row.charged
    /\ n <= 1

RowsPaid == \A j \in Tests : PaidRow(run[j], sent[j])

Sending(w) == Testing(w) /\ step[w] = "send"

\* The replica about to send wrote the marker, and nothing was sent since.
SenderMarked ==
    \A w \in Workers : Sending(w) =>
        /\ run[JobOf(w)].status # "none" /\ run[JobOf(w)].charged
        /\ sent[JobOf(w)] = 0

SoleSender ==
    \A w, v \in Workers : Sending(w) /\ Sending(v) /\ JobOf(w) = JobOf(v) => w = v

\* The replica about to report success has a result to point to.
DoneHasResult ==
    \A w \in Workers : Testing(w) /\ step[w] = "done" => run[JobOf(w)].status = "completed"

\* The runs of schedule s that reserved their cost on day d.
ChargedRuns(rows, s, d) == {j \in Tests : j[1] = s /\ rows[j].day = d /\ rows[j].charged}

WithinDailyLimit ==
    \A s \in Schedules, d \in Nat : MaxCost * Cardinality(ChargedRuns(run, s, d)) <= DailyLimit

TestTypes ==
    /\ run \in [Tests -> RunRow]
    /\ step \in [Workers -> Steps]
    /\ sent \in [Tests -> Nat]
    /\ authorized \in [Schedules -> BOOLEAN]

TestInv ==
    /\ QueueInv /\ TestTypes
    /\ RowsPaid /\ SenderMarked /\ SoleSender /\ DoneHasResult
    /\ WithinDailyLimit /\ SuccessHasResult

-----------------------------------------------------------------------------
(* Facts about sets. *)

\* There are finitely many tests.
LEMMA TestsFinite == IsFiniteSet(Tests) /\ Tests \subseteq Jobs
<1>1. Schedules \in SUBSET Kinds
  BY DEF Kinds
<1>2. IsFiniteSet(Schedules)
  BY <1>1, KindsFinite, FS_Subset
<1>3. IsFiniteSet(Times)
  BY QueueBounds, FS_Interval DEF Times
<1>4. IsFiniteSet(Tests)
  BY <1>2, <1>3, FS_Product DEF Tests
<1> QED BY <1>1, <1>4 DEF Tests, Jobs

\* The cost reserved by more runs is no less, and one more run adds at most
\* one cost.
LEMMA CostOfMore ==
    ASSUME NEW S \in SUBSET Tests, NEW T \in SUBSET Tests, NEW j
    PROVE  /\ S \subseteq T => MaxCost * Cardinality(S) <= MaxCost * Cardinality(T)
           /\ S \subseteq T \cup {j} =>
                 MaxCost * Cardinality(S) <= MaxCost * Cardinality(T) + MaxCost
<1>1. IsFiniteSet(S) /\ IsFiniteSet(T) /\ MaxCost \in Nat
  BY TestsFinite, TestBounds, FS_Subset
<1>2. Cardinality(S) \in Nat /\ Cardinality(T) \in Nat
  BY <1>1, FS_CardinalityType
<1>3. ASSUME NEW a \in Nat, NEW b \in Nat, a <= b
      PROVE  MaxCost * a <= MaxCost * b
  <2>1. b - a \in Nat /\ MaxCost * (b - a) \in Nat
    BY <1>1, <1>3
  <2>2. MaxCost * b = MaxCost * a + MaxCost * (b - a)
    BY <1>1
  <2> QED BY <2>1, <2>2, <1>1
<1>4. ASSUME S \subseteq T PROVE MaxCost * Cardinality(S) <= MaxCost * Cardinality(T)
  <2>1. Cardinality(S) <= Cardinality(T)
    BY <1>1, <1>4, FS_Subset
  <2> QED BY <2>1, <1>2, <1>3
<1>5. ASSUME S \subseteq T \cup {j}
      PROVE  MaxCost * Cardinality(S) <= MaxCost * Cardinality(T) + MaxCost
  <2>1. /\ IsFiniteSet(T \cup {j})
        /\ Cardinality(T \cup {j}) = IF j \in T THEN Cardinality(T) ELSE Cardinality(T) + 1
    BY <1>1, FS_AddElement
  <2>2. Cardinality(S) <= Cardinality(T \cup {j})
    BY <2>1, <1>5, FS_Subset
  <2>3. Cardinality(S) <= Cardinality(T) + 1
    BY <2>1, <2>2, <1>2
  <2>4. MaxCost * Cardinality(S) <= MaxCost * (Cardinality(T) + 1)
    BY <2>3, <1>2, <1>3
  <2>5. MaxCost * (Cardinality(T) + 1) = MaxCost * Cardinality(T) + MaxCost
    BY <1>1, <1>2
  <2> QED BY <2>4, <2>5
<1> QED BY <1>4, <1>5

-----------------------------------------------------------------------------
(* Steps of the queue, seen from a test. *)

\* The conjuncts of TestInv that speak of tests.
TestsSound ==
    /\ TestTypes /\ RowsPaid /\ SenderMarked /\ SoleSender /\ DoneHasResult
    /\ WithinDailyLimit

\* A step that leaves the rows of the tests alone, and the replicas other than
\* w where they are, while w forgets its test.
LEMMA ForgetKeeps ==
    ASSUME TestInv, NEW w \in Workers,
           step' = [step EXCEPT ![w] = "start"],
           UNCHANGED <<run, sent, authorized>>,
           \A v \in Workers \ {w} : worker'[v] = worker[v] /\ claim'[v] = claim[v]
    PROVE  TestsSound'
<1>1. step \in [Workers -> Steps] /\ step' \in [Workers -> Steps]
  BY DEF TestInv, TestTypes, Steps
<1>2. step'[w] = "start" /\ \A v \in Workers \ {w} : step'[v] = step[v]
  BY <1>1
<1>3. \A v \in Workers : (Testing(v) /\ step[v] # "start")' =>
          v # w /\ Testing(v) /\ JobOf(v)' = JobOf(v) /\ step'[v] = step[v]
  BY <1>2 DEF Testing, Executing, JobOf
<1>4. TestTypes'
  BY <1>1 DEF TestInv, TestTypes
<1>5. RowsPaid'
  BY DEF TestInv, RowsPaid, PaidRow
<1>6. \A v \in Workers : Sending(v)' => Sending(v) /\ JobOf(v)' = JobOf(v)
  BY <1>3 DEF Sending
<1>7. SenderMarked'
  BY <1>6 DEF TestInv, SenderMarked
<1>8. SoleSender'
  BY <1>6 DEF TestInv, SoleSender
<1>9. DoneHasResult'
  BY <1>3 DEF TestInv, DoneHasResult
<1>10. WithinDailyLimit'
  BY DEF TestInv, WithinDailyLimit, ChargedRuns
<1> QED BY <1>4, <1>5, <1>7, <1>8, <1>9, <1>10 DEF TestsSound

\* A replica's step of the queue leaves the other replicas where they are.
LEMMA OthersKeep ==
    ASSUME QueueInv, NEW w \in Workers,
           QueueStep(w) \/ (\E j \in Jobs : Claim(w, j)) \/ Finish(w)
    PROVE  \A v \in Workers \ {w} : worker'[v] = worker[v] /\ claim'[v] = claim[v]
<1>1. worker \in [Workers -> WorkerRow] /\ claim \in [Workers -> ClaimRow]
  BY DEF QueueInv, QueueTypeOK
<1>2. CASE QueueStep(w)
  <2>1. CASE BeginPass(w) \/ PassFails(w) \/ EndPass(w) \/ Crash(w)
    BY <1>1, <2>1 DEF BeginPass, PassFails, EndPass, Crash, Return
  <2>2. CASE \E inserted \in SUBSET Types : Schedule(w, inserted)
    BY <1>1, <2>2 DEF Schedule, Enter, Return
  <2>3. CASE ScheduleSelfTests(w)
    BY <1>1, <2>3 DEF ScheduleSelfTests
  <2>4. CASE (\E j \in Jobs : ClaimLost(w, j)) \/ ClaimNothing(w)
    BY <1>1, <2>4 DEF ClaimLost, ClaimNothing, Return
  <2> QED BY <1>2, <2>1, <2>2, <2>3, <2>4 DEF QueueStep
<1>3. CASE \E j \in Jobs : Claim(w, j)
  BY <1>1, <1>3 DEF Claim
<1>4. CASE Finish(w)
  BY <1>1, <1>4 DEF Finish, Complete, Fail, FinalizeLost, Done, Enter
<1> QED BY <1>2, <1>3, <1>4

\* No step but Complete makes a job succeed.
SucceedsNoMore == \A j \in Jobs : jobs'[j].status = "succeeded" => jobs[j].status = "succeeded"

\* Recovery of stale claims makes none succeed.
LEMMA RecoverySucceedsNoMore ==
    ASSUME QueueInv, NEW j \in Jobs
    PROVE  Recovered[j].status = "succeeded" => jobs[j].status = "succeeded"
<1>1. CASE Stale(j)
  <2>1. Recovered[j] = Retry(j, FALSE) /\ jobs[j].status = "running"
    BY <1>1 DEF Recovered, Stale
  <2>2. Retry(j, FALSE).status \in {"pending", "dead"}
    BY <2>1, RetryRow
  <2> QED BY <2>1, <2>2
<1>2. CASE ~Stale(j)
  BY <1>2 DEF Recovered
<1> QED BY <1>1, <1>2

LEMMA OnlyCompleteSucceeds ==
    ASSUME QueueInv, NEW w \in Workers,
           \/ QueueStep(w) \/ (\E j \in Jobs : Claim(w, j))
           \/ Fail(w) \/ FinalizeLost(w) \/ Environment
    PROVE  SucceedsNoMore
<1>1. jobs \in [Jobs -> JobRow] /\ claim \in [Workers -> ClaimRow]
  BY DEF QueueInv, QueueTypeOK
<1>2. ASSUME NEW keys, Insert(keys) PROVE SucceedsNoMore
  BY <1>2 DEF Insert, SucceedsNoMore
<1>3. ASSUME NEW j \in Jobs, Take(w, j) PROVE SucceedsNoMore
  <2>1. Recovered \in [Jobs -> JobRow]
    BY RecoveredTable
  <2>2. \A i \in Jobs : jobs'[i] = IF i = j
                                   THEN [status |-> "running", attempts |-> Recovered[j].attempts + 1,
                                         lockedBy |-> w, delayed |-> FALSE]
                                   ELSE Recovered[i]
    BY <1>3, <2>1 DEF Take
  <2>3. jobs'[j].status = "running"
    BY <2>2
  <2> QED BY <2>2, <2>3, RecoverySucceedsNoMore DEF SucceedsNoMore
<1>4. CASE QueueStep(w)
  <2>1. CASE BeginPass(w) \/ PassFails(w) \/ EndPass(w) \/ Crash(w)
    BY <2>1 DEF BeginPass, PassFails, EndPass, Crash, SucceedsNoMore
  <2>2. CASE \E inserted \in SUBSET Types : Schedule(w, inserted)
    BY <1>2, <2>2 DEF Schedule
  <2>3. CASE ScheduleSelfTests(w)
    BY <1>2, <2>3 DEF ScheduleSelfTests
  <2>4. CASE \E j \in Jobs : ClaimLost(w, j)
    BY <1>3, <2>4 DEF ClaimLost
  <2>5. CASE ClaimNothing(w)
    BY <2>5, RecoverySucceedsNoMore DEF ClaimNothing, SucceedsNoMore
  <2> QED BY <1>4, <2>1, <2>2, <2>3, <2>4, <2>5 DEF QueueStep
<1>5. CASE \E j \in Jobs : Claim(w, j)
  BY <1>3, <1>5 DEF Claim
<1>6. CASE Fail(w)
  <2>1. JobOf(w) \in Jobs
    BY <1>1 DEF JobOf, ClaimRow
  <2>2. CASE Fence(w)
    <3>1. /\ jobs' = [jobs EXCEPT ![JobOf(w)] = Retry(JobOf(w), TRUE)]
          /\ jobs[JobOf(w)].status = "running"
      BY <1>6, <2>2 DEF Fail, Fence
    <3>2. Retry(JobOf(w), TRUE).status \in {"pending", "dead"}
      BY <3>1, <2>1, RetryRow
    <3> QED BY <3>1, <3>2, <2>1, <1>1 DEF SucceedsNoMore
  <2>3. CASE ~Fence(w)
    BY <1>6, <2>3 DEF Fail, SucceedsNoMore
  <2> QED BY <2>2, <2>3
<1>7. CASE FinalizeLost(w)
  BY <1>7 DEF FinalizeLost, SucceedsNoMore
<1>8. CASE Environment
  <2>1. CASE jobs' = jobs
    BY <2>1 DEF SucceedsNoMore
  <2>2. CASE \E j \in Jobs : DelayEnds(j)
    BY <2>2, <1>1 DEF DelayEnds, SucceedsNoMore, JobRow
  <2> QED BY <1>8, <2>1, <2>2 DEF Environment, WindowPasses, HeartbeatExpires, DisableSchedule
<1> QED BY <1>4, <1>5, <1>6, <1>7, <1>8

-----------------------------------------------------------------------------
(* Steps of a test. *)

\* One transaction of w's test, or its sending: the row of w's job becomes
\* row, n requests have been sent for it, and w goes on at x.
LEMMA TestStepKeeps ==
    ASSUME TestInv, NEW w \in Workers, Testing(w),
           jobs' = jobs, worker' = worker, claim' = claim, authorized' = authorized,
           NEW row \in RunRow, NEW n \in Nat, NEW x \in Steps,
           run' = [run EXCEPT ![JobOf(w)] = row],
           sent' = [sent EXCEPT ![JobOf(w)] = n],
           step' = [step EXCEPT ![w] = x],
           PaidRow(row, n),
           x = "send" => /\ row.status # "none" /\ row.charged /\ n = 0
                         /\ run[JobOf(w)].status = "none",
           x = "done" => row.status = "completed",
           n # sent[JobOf(w)] => step[w] = "send",
           run[JobOf(w)].status # "none" => row.status # "none",
           run[JobOf(w)].status = "completed" => row.status = "completed",
           run[JobOf(w)].charged => row.charged /\ row.day = run[JobOf(w)].day,
           row.charged /\ ~run[JobOf(w)].charged =>
              MaxCost * Cardinality(ChargedRuns(run, JobOf(w)[1], row.day)) <= DailyLimit - MaxCost
    PROVE  TestsSound' /\ SuccessHasResult'
<1> DEFINE j == JobOf(w)
<1>1. /\ run \in [Tests -> RunRow] /\ step \in [Workers -> Steps]
      /\ sent \in [Tests -> Nat] /\ j \in Tests
  BY DEF TestInv, TestTypes, Testing
<1>2. /\ run'[j] = row /\ sent'[j] = n /\ step'[w] = x
      /\ \A i \in Tests \ {j} : run'[i] = run[i] /\ sent'[i] = sent[i]
      /\ \A v \in Workers \ {w} : step'[v] = step[v]
  BY <1>1
<1>3. \A v \in Workers : JobOf(v)' = JobOf(v) /\ Testing(v)' = Testing(v)
  BY DEF JobOf, Testing, Executing
<1>4. TestTypes'
  BY <1>1 DEF TestInv, TestTypes
<1> HIDE DEF j
<1>5. RowsPaid'
  BY <1>2 DEF TestInv, RowsPaid
<1>6. \A v \in Workers \ {w} : Sending(v)' => Sending(v)
  BY <1>2, <1>3 DEF Sending
<1>7. \A v \in Workers \ {w} : Sending(v)' /\ JobOf(v) = j => n = sent[j] /\ x # "send"
  <2> SUFFICES ASSUME NEW v \in Workers \ {w}, Sending(v), JobOf(v) = j
               PROVE  n = sent[j] /\ x # "send"
    BY <1>6
  <2>1. n = sent[j]
    BY DEF TestInv, SoleSender, Sending, j
  <2>2. x # "send"
    BY DEF TestInv, SenderMarked, j
  <2> QED BY <2>1, <2>2
<1>8. SenderMarked'
  <2> SUFFICES ASSUME NEW v \in Workers, Sending(v)'
               PROVE  /\ run'[JobOf(v)].status # "none" /\ run'[JobOf(v)].charged
                      /\ sent'[JobOf(v)] = 0
    BY <1>3 DEF SenderMarked
  <2>1. CASE v = w
    BY <2>1, <1>2 DEF Sending, j
  <2>2. CASE v # w /\ JobOf(v) = j
    <3>1. Sending(v) /\ n = sent[j]
      BY <2>2, <1>6, <1>7
    <3>2. run[j].status # "none" /\ run[j].charged /\ sent[j] = 0
      BY <3>1, <2>2 DEF TestInv, SenderMarked
    <3> QED BY <3>1, <3>2, <2>2, <1>2 DEF j
  <2>3. CASE v # w /\ JobOf(v) # j
    <3>1. Sending(v) /\ JobOf(v) \in Tests
      BY <2>3, <1>6 DEF Sending, Testing
    <3> QED BY <3>1, <2>3, <1>2 DEF TestInv, SenderMarked
  <2> QED BY <2>1, <2>2, <2>3
<1>9. SoleSender'
  <2> SUFFICES ASSUME NEW u \in Workers, NEW v \in Workers, Sending(u)', Sending(v)',
                      JobOf(u) = JobOf(v), u # v
               PROVE  FALSE
    BY <1>3 DEF SoleSender
  <2>1. CASE u # w /\ v # w
    BY <2>1, <1>6 DEF TestInv, SoleSender
  <2>2. CASE u = w
    BY <2>2, <1>2, <1>7 DEF Sending, j
  <2>3. CASE v = w
    BY <2>3, <1>2, <1>7 DEF Sending, j
  <2> QED BY <2>1, <2>2, <2>3
<1>10. \A i \in Tests : run[i].status = "completed" => run'[i].status = "completed"
  BY <1>2 DEF j
<1>11. DoneHasResult'
  <2> SUFFICES ASSUME NEW v \in Workers, Testing(v), step'[v] = "done"
               PROVE  run'[JobOf(v)].status = "completed"
    BY <1>3 DEF DoneHasResult
  <2>1. CASE v = w
    BY <2>1, <1>2 DEF j
  <2>2. CASE v # w
    <3>1. JobOf(v) \in Tests /\ step[v] = "done"
      BY <2>2, <1>2 DEF Testing
    <3>2. run[JobOf(v)].status = "completed"
      BY <3>1 DEF TestInv, DoneHasResult
    <3> QED BY <3>1, <3>2, <1>10
  <2> QED BY <2>1, <2>2
<1>12. SuccessHasResult'
  BY <1>10 DEF TestInv, SuccessHasResult
<1>13. WithinDailyLimit'
  <2> SUFFICES ASSUME NEW s \in Schedules, NEW d \in Nat
               PROVE  MaxCost * Cardinality(ChargedRuns(run', s, d)) <= DailyLimit
    BY DEF WithinDailyLimit
  <2> DEFINE old == ChargedRuns(run, s, d)
             new == ChargedRuns(run', s, d)
  <2>1. old \in SUBSET Tests /\ new \in SUBSET Tests
    BY DEF ChargedRuns
  <2>2. MaxCost * Cardinality(old) <= DailyLimit
    BY DEF TestInv, WithinDailyLimit
  <2>3. MaxCost * Cardinality(old) \in Nat /\ MaxCost * Cardinality(new) \in Nat /\ DailyLimit \in Nat
        /\ MaxCost \in Nat
    <3>1. IsFiniteSet(old) /\ IsFiniteSet(new)
      BY <2>1, TestsFinite, FS_Subset
    <3> HIDE DEF old, new
    <3>2. Cardinality(old) \in Nat /\ Cardinality(new) \in Nat
      BY <3>1, FS_CardinalityType
    <3> QED BY <3>2, TestBounds
  <2>4. CASE row.charged /\ ~run[j].charged /\ j[1] = s /\ row.day = d
    <3>1. new \subseteq old \cup {j}
      BY <1>2 DEF ChargedRuns
    <3>2. MaxCost * Cardinality(new) <= MaxCost * Cardinality(old) + MaxCost
      BY <3>1, <2>1, CostOfMore
    <3>3. MaxCost * Cardinality(old) <= DailyLimit - MaxCost
      BY <2>4 DEF j
    <3> HIDE DEF old, new
    <3>4. MaxCost * Cardinality(new) <= DailyLimit
      BY <3>2, <3>3, <2>3
    <3> QED BY <3>4 DEF new
  <2>5. CASE ~(row.charged /\ ~run[j].charged /\ j[1] = s /\ row.day = d)
    <3>1. new \subseteq old
      <4> SUFFICES ASSUME NEW i \in new PROVE i \in old
        OBVIOUS
      <4>1. i \in Tests /\ i[1] = s /\ run'[i].day = d /\ run'[i].charged
        BY DEF ChargedRuns
      <4>2. CASE i # j
        BY <4>1, <4>2, <1>2 DEF ChargedRuns
      <4>3. CASE i = j
        <5>1. row.charged /\ row.day = d
          BY <4>1, <4>3, <1>2
        <5>2. run[j].charged
          BY <5>1, <4>1, <4>3, <2>5
        <5>3. run[j].day = d
          BY <5>1, <5>2 DEF j
        <5> QED BY <4>1, <4>3, <5>2, <5>3 DEF ChargedRuns
      <4> QED BY <4>2, <4>3
    <3>2. MaxCost * Cardinality(new) <= MaxCost * Cardinality(old)
      BY <3>1, <2>1, CostOfMore
    <3> HIDE DEF old, new
    <3>3. MaxCost * Cardinality(new) <= DailyLimit
      BY <3>2, <2>2, <2>3
    <3> QED BY <3>3 DEF new
  <2> QED BY <2>4, <2>5
<1> QED BY <1>4, <1>5, <1>8, <1>9, <1>11, <1>12, <1>13 DEF TestsSound

\* What is known of the job of a replica that tests.
LEMMA TestedRow ==
    ASSUME TestInv, NEW w \in Workers, Testing(w)
    PROVE  /\ JobOf(w) \in Tests /\ JobOf(w)[1] \in Schedules
           /\ run[JobOf(w)] \in RunRow /\ sent[JobOf(w)] \in Nat
           /\ PaidRow(run[JobOf(w)], sent[JobOf(w)])
           /\ run = [run EXCEPT ![JobOf(w)] = run[JobOf(w)]]
           /\ sent = [sent EXCEPT ![JobOf(w)] = sent[JobOf(w)]]
<1>1. /\ JobOf(w) \in Tests
      /\ run \in [Tests -> RunRow] /\ sent \in [Tests -> Nat]
  BY DEF TestInv, TestTypes, Testing
<1>2. PaidRow(run[JobOf(w)], sent[JobOf(w)])
  BY <1>1 DEF TestInv, RowsPaid
<1> QED BY <1>1, <1>2 DEF Tests

\* The day is a natural number.
LEMMA TodayType == ASSUME QueueInv PROVE Today \in Nat
<1>1. now \in Nat
  BY DEF QueueInv, QueueTypeOK, Times
<1> QED BY <1>1, TestBounds DEF Today

\* The marker and the reservation are written before anything is sent.
LEMMA DispatchKeeps ==
    ASSUME TestInv, NEW w \in Workers, NEW heard \in BOOLEAN, PrepareDispatch(w, heard)
    PROVE  TestsSound' /\ SuccessHasResult'
<1> DEFINE j == JobOf(w)
           row == [status |-> "dispatching", day |-> Today, charged |-> TRUE, result |-> "none"]
           n == sent[j]
           x == IF heard THEN "send" ELSE "error"
<1>1. /\ Testing(w) /\ run[j].status = "none"
      /\ jobs' = jobs /\ worker' = worker /\ claim' = claim /\ authorized' = authorized
      /\ run' = [run EXCEPT ![j] = row] /\ sent' = sent /\ step' = [step EXCEPT ![w] = x]
      /\ ReservedCost(j[1], Today) <= DailyLimit - MaxCost
  BY DEF PrepareDispatch, Preparing, Unmarked, WithinBudget, Mark, Answer, queueVars
<1>2. n \in Nat /\ PaidRow(run[j], n) /\ sent' = [sent EXCEPT ![j] = n] /\ run[j] \in RunRow
  BY <1>1, TestedRow
<1>3. row \in RunRow /\ x \in Steps
  BY TodayType DEF TestInv, RunRow, RunStatus, Results, Steps
<1>4. /\ row.status = "dispatching" /\ row.charged /\ row.day = Today
      /\ n = 0 /\ ~run[j].charged
  BY <1>1, <1>2 DEF PaidRow
<1>5. PaidRow(row, n) /\ x # "done"
  BY <1>4 DEF PaidRow
<1>6. MaxCost * Cardinality(ChargedRuns(run, j[1], row.day)) <= DailyLimit - MaxCost
  BY <1>1, <1>4 DEF ReservedCost, ChargedRuns
<1> HIDE DEF row, n, x
<1> QED BY <1>1, <1>2, <1>3, <1>4, <1>5, <1>6, TestStepKeeps DEF j, n

\* A test that may not run is marked without a reservation.
LEMMA RejectKeeps ==
    ASSUME TestInv, NEW w \in Workers, NEW heard \in BOOLEAN, PrepareReject(w, heard)
    PROVE  TestsSound' /\ SuccessHasResult'
<1> DEFINE j == JobOf(w)
           row == [status |-> "dispatching", day |-> Today, charged |-> FALSE, result |-> "none"]
           n == sent[j]
           x == IF heard THEN "persist" ELSE "error"
<1>1. /\ Testing(w) /\ run[j].status = "none"
      /\ jobs' = jobs /\ worker' = worker /\ claim' = claim /\ authorized' = authorized
      /\ run' = [run EXCEPT ![j] = row] /\ sent' = sent /\ step' = [step EXCEPT ![w] = x]
  BY DEF PrepareReject, Preparing, Unmarked, Mark, Answer
<1>2. n \in Nat /\ PaidRow(run[j], n) /\ sent' = [sent EXCEPT ![j] = n] /\ run[j] \in RunRow
  BY <1>1, TestedRow
<1>3. row \in RunRow /\ x \in Steps
  BY TodayType DEF TestInv, RunRow, RunStatus, Results, Steps
<1>4. /\ row.status = "dispatching" /\ ~row.charged
      /\ n = 0 /\ ~run[j].charged
  BY <1>1, <1>2 DEF PaidRow
<1>5. PaidRow(row, n) /\ x # "done" /\ x # "send"
  BY <1>4 DEF PaidRow
<1> HIDE DEF row, n, x
<1> QED BY <1>1, <1>2, <1>3, <1>4, <1>5, TestStepKeeps DEF j, n

\* Recording a result keeps the day and the reservation.
LEMMA RecordKeeps ==
    ASSUME TestInv, NEW w \in Workers, NEW heard \in BOOLEAN, NEW result \in Results,
           Testing(w), Record(w, result), Answer(w, "done", heard),
           jobs' = jobs, worker' = worker, claim' = claim, authorized' = authorized, sent' = sent
    PROVE  TestsSound' /\ SuccessHasResult'
<1> DEFINE j == JobOf(w)
           old == run[j]
           row == [status |-> "completed", day |-> old.day, charged |-> old.charged, result |-> result]
           n == sent[j]
           x == IF heard THEN "done" ELSE "error"
<1>1. n \in Nat /\ PaidRow(old, n) /\ sent' = [sent EXCEPT ![j] = n] /\ old \in RunRow /\ j \in Tests
  BY TestedRow
<1>2. run' = [run EXCEPT ![j] = row] /\ step' = [step EXCEPT ![w] = x]
  BY <1>1 DEF Record, Answer, TestInv, TestTypes
<1>3. row \in RunRow /\ x \in Steps /\ x # "send"
  BY <1>1 DEF RunRow, RunStatus, Steps
<1>4. row.status = "completed" /\ row.charged = old.charged /\ row.day = old.day
  OBVIOUS
<1>5. PaidRow(row, n)
  BY <1>1, <1>4 DEF PaidRow
<1> HIDE DEF row, n, x
<1> QED BY <1>1, <1>2, <1>3, <1>4, <1>5, TestStepKeeps DEF j, n, old

\* The request is sent by the only replica that may.
LEMMA RunBoundKeeps ==
    ASSUME TestInv, NEW w \in Workers, NEW used \in BOOLEAN, RunBound(w, used)
    PROVE  TestsSound' /\ SuccessHasResult'
<1> DEFINE j == JobOf(w)
           row == run[j]
           n == IF used THEN sent[j] + 1 ELSE sent[j]
           x == "persist"
<1>1. /\ Testing(w) /\ step[w] = "send"
      /\ jobs' = jobs /\ worker' = worker /\ claim' = claim /\ authorized' = authorized
      /\ run' = run /\ step' = [step EXCEPT ![w] = x]
      /\ sent' = [sent EXCEPT ![j] = IF used THEN @ + 1 ELSE @]
  BY DEF RunBound, Answer, queueVars
<1>2. /\ sent[j] \in Nat /\ run' = [run EXCEPT ![j] = row] /\ row \in RunRow /\ j \in Tests
      /\ sent \in [Tests -> Nat]
  BY <1>1, TestedRow DEF TestInv, TestTypes
<1>3. row.status # "none" /\ row.charged /\ sent[j] = 0
  BY <1>1 DEF TestInv, SenderMarked, Sending
<1>4. n \in Nat /\ PaidRow(row, n) /\ x \in Steps /\ x # "send" /\ x # "done"
  BY <1>2, <1>3 DEF PaidRow, Steps
<1>5. sent' = [sent EXCEPT ![j] = n]
  BY <1>1, <1>2
<1> HIDE DEF n, x
<1> QED BY <1>1, <1>2, <1>3, <1>4, <1>5, TestStepKeeps DEF j, row

\* Steps that change nothing but where w is.
LEMMA OnlyAnswerKeeps ==
    ASSUME TestInv, NEW w \in Workers, Testing(w), NEW x \in Steps,
           x # "send", x = "done" => run[JobOf(w)].status = "completed",
           step' = [step EXCEPT ![w] = x], run' = run, sent' = sent,
           jobs' = jobs, worker' = worker, claim' = claim, authorized' = authorized
    PROVE  TestsSound' /\ SuccessHasResult'
<1> DEFINE j == JobOf(w)
           row == run[j]
           n == sent[j]
<1>1. /\ n \in Nat /\ PaidRow(row, n) /\ row \in RunRow
      /\ sent' = [sent EXCEPT ![j] = n] /\ run' = [run EXCEPT ![j] = row]
  BY TestedRow
<1> QED BY <1>1, TestStepKeeps

-----------------------------------------------------------------------------
(* The composition. *)

\* Every step of the self-tests is a step of the queue, or leaves it alone: a
\* rejected test at most disables its schedule.
LEMMA TestStepIsQueueStep ==
    ASSUME TestInv, [TestNext]_vars
    PROVE  [Next]_queueVars
<1>1. CASE UNCHANGED vars
  BY <1>1 DEF vars, queueVars
<1>2. ASSUME NEW w \in Workers, NEW heard \in BOOLEAN, PrepareReject(w, heard)
      PROVE  [Next]_queueVars
  <2> DEFINE s == JobOf(w)[1]
  <2>1. /\ schedule' = [schedule EXCEPT ![s] = [active |-> @.active /\ authorized[s], next |-> @.next]]
        /\ UNCHANGED <<now, fresh, jobs, worker, claim>>
    BY <1>2 DEF PrepareReject
  <2>2. s \in Schedules
    BY <1>2, TestedRow DEF PrepareReject, Preparing
  <2>3. schedule \in [Schedules -> ScheduleRow] /\ schedule[s] \in ScheduleRow /\ authorized[s] \in BOOLEAN
    BY <2>2 DEF TestInv, QueueInv, QueueTypeOK, TestTypes
  <2> HIDE DEF s
  <2>4. CASE authorized[s]
    <3>1. [active |-> schedule[s].active /\ authorized[s], next |-> schedule[s].next] = schedule[s]
      BY <2>3, <2>4 DEF ScheduleRow
    <3>2. schedule' = schedule
      BY <3>1, <2>1, <2>2, <2>3
    <3> QED BY <3>2, <2>1 DEF queueVars
  <2>5. CASE ~authorized[s]
    <3>1. (schedule[s].active /\ authorized[s]) = FALSE
      BY <2>3, <2>5
    <3>2. schedule' = [schedule EXCEPT ![s] = [active |-> FALSE, next |-> @.next]]
      BY <3>1, <2>1, <2>2, <2>3
    <3>3. DisableSchedule(s)
      BY <3>2, <2>1 DEF DisableSchedule
    <3> QED BY <3>3, <2>2 DEF Next, Environment
  <2> QED BY <2>3, <2>4, <2>5
<1>3. ASSUME NEW w \in Workers
      PROVE  /\ QueueStep(w) => Next
             /\ \A j \in Jobs : ClaimTest(w, j) => Next
             /\ CompleteTest(w) => Next
             /\ FailTest(w) => Next
  BY DEF Next, ClaimTest, CompleteTest, FailTest, Finish
<1>4. ASSUME NEW w \in Workers, NEW heard \in BOOLEAN
      PROVE  /\ PrepareDispatch(w, heard) => UNCHANGED queueVars
             /\ PrepareRecovery(w, heard) => UNCHANGED queueVars
             /\ PersistResult(w, heard) => UNCHANGED queueVars
             /\ PrepareCompleted(w) => UNCHANGED queueVars
             /\ RunBound(w, heard) => UNCHANGED queueVars
             /\ ExecutionFails(w) => UNCHANGED queueVars
  BY DEF PrepareDispatch, PrepareRecovery, PersistResult, PrepareCompleted, RunBound, ExecutionFails
<1>5. CASE Environment
  BY <1>5 DEF Next
<1>6. ASSUME NEW s \in Schedules, AuthorizationEnds(s)
      PROVE  UNCHANGED queueVars
  BY <1>6 DEF AuthorizationEnds
<1> QED BY <1>1, <1>2, <1>3, <1>4, <1>5, <1>6 DEF TestNext

\* Initially nothing is marked, sent or in progress.
LEMMA TestInit == Init => TestInv
<1> SUFFICES ASSUME Init PROVE TestInv
  OBVIOUS
<1>1. QueueInv
  BY InitKeeps DEF Init
<1>2. TestTypes
  BY DEF Init, TestTypes, NoRun, RunRow, RunStatus, Results, Steps
<1>3. \A j \in Tests : run[j] = NoRun /\ sent[j] = 0 /\ ~run[j].charged
  BY DEF Init, NoRun
<1>4. RowsPaid
  BY <1>3 DEF RowsPaid, PaidRow
<1>5. \A w \in Workers : step[w] = "start"
  BY DEF Init
<1>6. SenderMarked /\ SoleSender /\ DoneHasResult
  BY <1>5 DEF SenderMarked, SoleSender, DoneHasResult, Sending
<1>7. WithinDailyLimit
  <2>1. \A s \in Schedules, d \in Nat : ChargedRuns(run, s, d) = {}
    BY <1>3 DEF ChargedRuns
  <2>2. MaxCost * 0 = 0 /\ 0 <= DailyLimit
    BY TestBounds
  <2> QED BY <2>1, <2>2, FS_EmptySet DEF WithinDailyLimit
<1>8. SuccessHasResult
  <2>1. \A j \in Tests : jobs[j] = NoJob
    BY TestsFinite DEF Init, QueueInit
  <2> QED BY <2>1 DEF NoJob, SuccessHasResult
<1> QED BY <1>1, <1>2, <1>4, <1>6, <1>7, <1>8 DEF TestInv

\* Every step keeps the invariant.
LEMMA TestNextKeeps == TestInv /\ [TestNext]_vars => TestInv'
<1> SUFFICES ASSUME TestInv, [TestNext]_vars PROVE TestInv'
  OBVIOUS
<1>1. QueueInv'
  <2>1. QueueInv
    BY DEF TestInv
  <2>2. [Next]_queueVars
    BY TestStepIsQueueStep
  <2> QED BY <2>1, <2>2, StepKeeps
<1>2. SUFFICES TestsSound' /\ SuccessHasResult'
  BY <1>1 DEF TestInv, TestsSound
<1>3. ASSUME SucceedsNoMore, run' = run PROVE SuccessHasResult'
  BY <1>3, TestsFinite DEF TestInv, SucceedsNoMore, SuccessHasResult
<1>4. ASSUME NEW w \in Workers, QueueStep(w), Forget(w), UNCHANGED <<run, sent, authorized>>
      PROVE  TestsSound' /\ SuccessHasResult'
  <2>1. \A v \in Workers \ {w} : worker'[v] = worker[v] /\ claim'[v] = claim[v]
    BY <1>4, OthersKeep DEF TestInv
  <2>2. TestsSound'
    BY <1>4, <2>1, ForgetKeeps DEF Forget
  <2>3. SucceedsNoMore
    BY <1>4, OnlyCompleteSucceeds DEF TestInv
  <2> QED BY <1>3, <1>4, <2>2, <2>3
<1>5. ASSUME NEW w \in Workers, NEW j \in Jobs, ClaimTest(w, j)
      PROVE  TestsSound' /\ SuccessHasResult'
  <2>1. /\ Claim(w, j) /\ step' = [step EXCEPT ![w] = "start"]
        /\ UNCHANGED <<run, sent, authorized>>
    BY <1>5 DEF ClaimTest
  <2>2. \A v \in Workers \ {w} : worker'[v] = worker[v] /\ claim'[v] = claim[v]
    BY <2>1, OthersKeep DEF TestInv
  <2>3. TestsSound'
    BY <2>1, <2>2, ForgetKeeps
  <2>4. SucceedsNoMore
    BY <2>1, OnlyCompleteSucceeds DEF TestInv
  <2> QED BY <1>3, <2>1, <2>3, <2>4
<1>6. ASSUME NEW w \in Workers, CompleteTest(w)
      PROVE  TestsSound' /\ SuccessHasResult'
  <2>1. /\ Complete(w) /\ step' = [step EXCEPT ![w] = "start"]
        /\ UNCHANGED <<run, sent, authorized>>
        /\ JobOf(w) \in Tests => step[w] = "done"
    BY <1>6 DEF CompleteTest
  <2>2. \A v \in Workers \ {w} : worker'[v] = worker[v] /\ claim'[v] = claim[v]
    BY <2>1, OthersKeep DEF TestInv, Finish
  <2>3. TestsSound'
    BY <2>1, <2>2, ForgetKeeps
  <2>4. SuccessHasResult'
    <3> SUFFICES ASSUME NEW j \in Tests, jobs'[j].status = "succeeded"
                 PROVE  run[j].status = "completed"
      BY <2>1 DEF SuccessHasResult
    <3>1. CASE j = JobOf(w)
      <4>1. Testing(w) /\ step[w] = "done"
        BY <2>1, <3>1 DEF Complete, Testing
      <4> QED BY <4>1, <3>1 DEF TestInv, DoneHasResult
    <3>2. CASE j # JobOf(w)
      <4>1. jobs \in [Jobs -> JobRow] /\ j \in Jobs
        BY TestsFinite DEF TestInv, QueueInv, QueueTypeOK
      <4>2. jobs'[j] = jobs[j]
        BY <2>1, <3>2, <4>1 DEF Complete
      <4> QED BY <4>2 DEF TestInv, SuccessHasResult
    <3> QED BY <3>1, <3>2
  <2> QED BY <2>3, <2>4
<1>7. ASSUME NEW w \in Workers, FailTest(w)
      PROVE  TestsSound' /\ SuccessHasResult'
  <2>1. /\ Fail(w) \/ FinalizeLost(w)
        /\ step' = [step EXCEPT ![w] = "start"]
        /\ UNCHANGED <<run, sent, authorized>>
    BY <1>7 DEF FailTest
  <2>2. \A v \in Workers \ {w} : worker'[v] = worker[v] /\ claim'[v] = claim[v]
    BY <2>1, OthersKeep DEF TestInv, Finish
  <2>3. TestsSound'
    BY <2>1, <2>2, ForgetKeeps
  <2>4. SucceedsNoMore
    BY <2>1, OnlyCompleteSucceeds DEF TestInv
  <2> QED BY <1>3, <2>1, <2>3, <2>4
<1>8. ASSUME NEW w \in Workers, NEW heard \in BOOLEAN,
             \/ PrepareDispatch(w, heard) \/ PrepareReject(w, heard)
             \/ PrepareRecovery(w, heard) \/ PersistResult(w, heard)
      PROVE  TestsSound' /\ SuccessHasResult'
  <2>1. CASE PrepareDispatch(w, heard)
    BY <2>1, DispatchKeeps
  <2>2. CASE PrepareReject(w, heard)
    BY <2>2, RejectKeeps
  <2>3. CASE PrepareRecovery(w, heard)
    <3>1. /\ Testing(w) /\ Record(w, "recovery") /\ Answer(w, "done", heard) /\ "recovery" \in Results
          /\ jobs' = jobs /\ worker' = worker /\ claim' = claim
          /\ authorized' = authorized /\ sent' = sent
      BY <2>3 DEF PrepareRecovery, Preparing, queueVars, Results
    <3> QED BY <3>1, RecordKeeps
  <2>4. CASE PersistResult(w, heard)
    <3>1. /\ Testing(w) /\ Answer(w, "done", heard)
          /\ jobs' = jobs /\ worker' = worker /\ claim' = claim
          /\ authorized' = authorized /\ sent' = sent
          /\ IF run[JobOf(w)].status = "completed" THEN UNCHANGED run ELSE Record(w, "test")
      BY <2>4 DEF PersistResult, queueVars
    <3>2. CASE run[JobOf(w)].status = "completed"
      <4> DEFINE x == IF heard THEN "done" ELSE "error"
      <4>1. step' = [step EXCEPT ![w] = x] /\ x \in Steps /\ x # "send" /\ run' = run
        BY <3>1, <3>2 DEF Answer, Steps
      <4> HIDE DEF x
      <4> QED BY <3>1, <3>2, <4>1, OnlyAnswerKeeps
    <3>3. CASE run[JobOf(w)].status # "completed"
      <4>1. Record(w, "test") /\ "test" \in Results
        BY <3>1, <3>3 DEF Results
      <4> QED BY <3>1, <4>1, RecordKeeps
    <3> QED BY <3>2, <3>3
  <2> QED BY <1>8, <2>1, <2>2, <2>3, <2>4
<1>9. ASSUME NEW w \in Workers, PrepareCompleted(w) \/ ExecutionFails(w)
      PROVE  TestsSound' /\ SuccessHasResult'
  <2>1. PICK x \in {"done", "error"} :
          /\ step' = [step EXCEPT ![w] = x]
          /\ x = "done" => run[JobOf(w)].status = "completed"
    BY <1>9 DEF PrepareCompleted, ExecutionFails, Answer
  <2>2. /\ Testing(w) /\ run' = run /\ sent' = sent
        /\ jobs' = jobs /\ worker' = worker /\ claim' = claim /\ authorized' = authorized
    BY <1>9 DEF PrepareCompleted, Preparing, ExecutionFails, queueVars
  <2>3. x \in Steps /\ x # "send"
    BY DEF Steps
  <2> QED BY <2>1, <2>2, <2>3, OnlyAnswerKeeps
<1>10. ASSUME NEW w \in Workers, NEW used \in BOOLEAN, RunBound(w, used)
       PROVE  TestsSound' /\ SuccessHasResult'
  BY <1>10, RunBoundKeeps
<1>11. ASSUME worker' = worker, claim' = claim, run' = run, step' = step, sent' = sent, TestTypes'
       PROVE  TestsSound'
  BY <1>11 DEF TestInv, TestsSound, RowsPaid, PaidRow, SenderMarked, SoleSender, DoneHasResult,
               Sending, Testing, Executing, JobOf, WithinDailyLimit, ChargedRuns
<1>12. CASE Environment /\ UNCHANGED testVars
  <2>1. worker' = worker /\ claim' = claim
    BY <1>12 DEF Environment, WindowPasses, HeartbeatExpires, DelayEnds, DisableSchedule
  <2>2. TestsSound'
    BY <1>11, <1>12, <2>1 DEF testVars, TestInv, TestTypes
  <2>3. SuccessHasResult'
    <3>1. CASE jobs' = jobs
      BY <3>1, <1>12 DEF TestInv, SuccessHasResult, testVars
    <3>2. CASE \E j \in Jobs : DelayEnds(j)
      <4>1. \A j \in Jobs : jobs'[j].status = jobs[j].status
        BY <3>2 DEF DelayEnds, TestInv, QueueInv, QueueTypeOK, JobRow
      <4> QED BY <4>1, <1>12, TestsFinite DEF TestInv, SuccessHasResult, testVars
    <3> QED BY <1>12, <3>1, <3>2 DEF Environment, WindowPasses, HeartbeatExpires, DisableSchedule
  <2> QED BY <2>2, <2>3
<1>13. ASSUME NEW s \in Schedules, AuthorizationEnds(s)
       PROVE  TestsSound' /\ SuccessHasResult'
  <2>1. /\ worker' = worker /\ claim' = claim /\ jobs' = jobs
        /\ run' = run /\ step' = step /\ sent' = sent
        /\ authorized' = [authorized EXCEPT ![s] = FALSE]
    BY <1>13 DEF AuthorizationEnds, queueVars
  <2>2. TestsSound'
    BY <1>11, <2>1 DEF TestInv, TestTypes
  <2> QED BY <2>1, <2>2 DEF TestInv, SuccessHasResult
<1>14. CASE UNCHANGED vars
  <2>1. TestsSound'
    BY <1>11, <1>14 DEF vars, TestInv, TestTypes
  <2> QED BY <2>1, <1>14 DEF vars, TestInv, SuccessHasResult
<1> QED
  BY <1>4, <1>5, <1>6, <1>7, <1>8, <1>9, <1>10, <1>12, <1>13, <1>14 DEF TestNext

\* The invariant holds in every reachable state.
LEMMA TestInvariance == TestSpec => []TestInv
BY TestInit, TestNextKeeps, PTL DEF TestSpec

-----------------------------------------------------------------------------
(* The theorems. *)

\* The executor's rows and what its replicas remember are well formed.
THEOREM TestTypesHold == TestSpec => []TypeOK
<1>1. TestInv => TypeOK
  BY DEF TestInv, TestTypes, QueueInv, TypeOK
<1> QED BY <1>1, TestInvariance, PTL

\* The self-tests implement the queue: whatever their executor does, jobs are
\* claimed, fenced and concluded as WorkerQueue says.
THEOREM TestsImplementQueue == TestSpec => Spec
<1>1. Init => QueueInit
  BY DEF Init
<1>2. TestInv /\ [TestNext]_vars => [Next]_queueVars
  BY TestStepIsQueueStep
<1> QED BY <1>1, <1>2, TestInvariance, PTL DEF TestSpec, Spec

\* prepareExecution's marker is enough: no test is paid twice, a job that
\* succeeded has a published result, and a day's tests stay within the limit.
THEOREM PaidOnce == TestSpec => []TestsPaidOnce
<1>1. TestInv => TestsPaidOnce
  <2> SUFFICES ASSUME TestInv PROVE TestsPaidOnce
    OBVIOUS
  <2>1. SentOnce
    BY DEF TestInv, RowsPaid, PaidRow, SentOnce
  <2>2. SuccessHasResult
    BY DEF TestInv
  <2>3. SpentWithinLimit
    <3> SUFFICES ASSUME NEW s \in Schedules, NEW i \in Tests
                 PROVE  MaxCost * Cardinality({j \in Tests : j[1] = s /\ sent[j] > 0
                                                             /\ run[j].day = run[i].day}) <= DailyLimit
      BY DEF SpentWithinLimit
    <3> DEFINE d == run[i].day
               S == {j \in Tests : j[1] = s /\ sent[j] > 0 /\ run[j].day = d}
               T == ChargedRuns(run, s, d)
    <3>1. S \in SUBSET Tests /\ T \in SUBSET Tests /\ S \subseteq T
      BY DEF TestInv, RowsPaid, PaidRow, ChargedRuns
    <3>2. d \in Nat
      BY DEF TestInv, TestTypes, RunRow
    <3>3. MaxCost * Cardinality(T) <= DailyLimit
      BY <3>2 DEF TestInv, WithinDailyLimit
    <3>4. MaxCost * Cardinality(S) <= MaxCost * Cardinality(T)
      BY <3>1, CostOfMore
    <3>5. MaxCost * Cardinality(S) \in Nat /\ MaxCost * Cardinality(T) \in Nat /\ DailyLimit \in Nat
      <4>1. IsFiniteSet(S) /\ IsFiniteSet(T)
        BY <3>1, TestsFinite, FS_Subset
      <4> HIDE DEF S, T
      <4>2. Cardinality(S) \in Nat /\ Cardinality(T) \in Nat
        BY <4>1, FS_CardinalityType
      <4> QED BY <4>2, TestBounds
    <3> HIDE DEF S, T
    <3>6. MaxCost * Cardinality(S) <= DailyLimit
      BY <3>3, <3>4, <3>5
    <3> QED BY <3>6 DEF S
  <2> QED BY <2>1, <2>2, <2>3 DEF TestsPaidOnce
<1> QED BY <1>1, TestInvariance, PTL

\* A result that was published is never replaced, and a marker never taken
\* back: by a late result, a recovery or another try.
THEOREM ResultsStayFinal == TestSpec => ResultsAreFinal
<1>1. TestInv /\ [TestNext]_vars => [ResultsStay]_vars
  <2> SUFFICES ASSUME TestInv, TestNext PROVE ResultsStay
    BY DEF vars
  <2>1. run \in [Tests -> RunRow]
    BY DEF TestInv, TestTypes
  <2>2. CASE run' = run
    BY <2>2, <2>1 DEF ResultsStay
  <2>3. ASSUME NEW w \in Workers, NEW heard \in BOOLEAN,
               PrepareDispatch(w, heard) \/ PrepareReject(w, heard)
        PROVE  ResultsStay
    BY <2>1, <2>3 DEF PrepareDispatch, PrepareReject, Unmarked, Mark, ResultsStay
  <2>4. ASSUME NEW w \in Workers, NEW heard \in BOOLEAN,
               PrepareRecovery(w, heard) \/ PersistResult(w, heard)
        PROVE  ResultsStay
    <3>1. run' = run \/ (run[JobOf(w)].status # "completed" /\ \E r \in Results : Record(w, r))
      BY <2>4 DEF PrepareRecovery, PersistResult, Results
    <3>2. ASSUME NEW r \in Results, run[JobOf(w)].status # "completed", Record(w, r)
          PROVE  ResultsStay
      BY <3>2, <2>1 DEF Record, ResultsStay
    <3> QED BY <2>2, <3>1, <3>2
  <2>5. \/ run' = run
        \/ \E w \in Workers, heard \in BOOLEAN :
              \/ PrepareDispatch(w, heard) \/ PrepareReject(w, heard)
              \/ PrepareRecovery(w, heard) \/ PersistResult(w, heard)
    BY DEF TestNext, ClaimTest, PrepareCompleted, RunBound, ExecutionFails, CompleteTest, FailTest,
           AuthorizationEnds, testVars
  <2> QED BY <2>2, <2>3, <2>4, <2>5
<1> QED BY <1>1, TestInvariance, PTL DEF TestSpec, ResultsAreFinal
=============================================================================
