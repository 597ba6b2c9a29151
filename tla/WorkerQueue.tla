----------------------------- MODULE WorkerQueue -----------------------------
(***************************************************************************)
(* The durable maintenance queue of internal/worker: the jobs table, the   *)
(* heartbeats of runtime_instances, and the worker replicas, each of which *)
(* is one goroutine that runs pass after pass: heartbeat, schedule the     *)
(* current windows, claim and execute jobs one by one, heartbeat.          *)
(*                                                                         *)
(* A process that restarts takes a new instance identifier, so a worker    *)
(* here is one instance and a crash is for ever.  Durations are abstract:  *)
(* a heartbeat may pass defaultWorkerStaleAfter and a retry delay may end  *)
(* at any moment, and `now`, which only names schedule windows, advances   *)
(* at its own pace, so every ratio between the timeouts is covered.        *)
(***************************************************************************)
EXTENDS Integers, FiniteSets

CONSTANTS
    Workers,     \* runtime instances
    Types,       \* periodic job types
    Schedules,   \* self-test schedules; each is the type of its own jobs
    Interval,    \* Interval[k]: window length, or a schedule's interval
    MaxTries,    \* MaxTries[k]: max_attempts of the jobs of type k
    TypeCount,   \* len(jobTypes): claims a pass may make beside its self-tests
    MaxTime,     \* bound on the clock that names windows
    Nobody       \* locked_by_instance_id IS NULL

Kinds == Types \cup Schedules
Times == 0 .. MaxTime
Jobs == Kinds \X Times    \* unique (job_type, idempotency_key)

ASSUME WorkersFinite == IsFiniteSet(Workers) /\ Nobody \notin Workers
ASSUME KindsFinite == IsFiniteSet(Kinds) /\ Kinds # {} /\ Types \cap Schedules = {}
ASSUME QueueBounds == MaxTime \in Nat /\ TypeCount \in Nat
ASSUME KindTypes ==
    /\ Interval \in [Kinds -> Nat \ {0}]
    /\ MaxTries \in [Kinds -> Nat \ {0}]

VARIABLES
    now,       \* the clock, in window units
    fresh,     \* fresh[w]: w's heartbeat is younger than staleAfter
    jobs,      \* the jobs table
    schedule,  \* self_test_schedules
    worker,    \* where each replica is in its pass
    claim      \* claim[w]: the job value that w executes

queueVars == <<now, fresh, jobs, schedule, worker, claim>>

-----------------------------------------------------------------------------
JobStatus == {"absent", "pending", "running", "succeeded", "dead"}
Phases == {"idle", "scheduling", "self_tests", "claiming", "executing", "crashed"}

JobRow == [status : JobStatus, attempts : Nat, lockedBy : Workers \cup {Nobody}, delayed : BOOLEAN]
ScheduleRow == [active : BOOLEAN, next : Nat]
WorkerRow == [phase : Phases, at : Times, left : Nat]
ClaimRow == [job : Jobs, attempt : Nat]

QueueTypeOK ==
    /\ now \in Times
    /\ fresh \in [Workers -> BOOLEAN]
    /\ jobs \in [Jobs -> JobRow]
    /\ schedule \in [Schedules -> ScheduleRow]
    /\ worker \in [Workers -> WorkerRow]
    /\ claim \in [Workers -> ClaimRow]

NoJob == [status |-> "absent", attempts |-> 0, lockedBy |-> Nobody, delayed |-> FALSE]

Resting == [phase |-> "idle", at |-> 0, left |-> 0]
NoClaim == [job |-> CHOOSE j \in Jobs : TRUE, attempt |-> 0]

\* Administrators have created schedules, some of which are disabled.
QueueInit ==
    /\ now = 0
    /\ fresh = [w \in Workers |-> FALSE]
    /\ jobs = [j \in Jobs |-> NoJob]
    /\ schedule \in [Schedules -> [active : BOOLEAN, next : {0}]]
    /\ worker = [w \in Workers |-> Resting]
    /\ claim = [w \in Workers |-> NoClaim]

MaxTriesOf(j) == MaxTries[j[1]]
Executing(w) == worker[w].phase = "executing"
JobOf(w) == claim[w].job
Concluded(j) == jobs[j].status \in {"succeeded", "dead"}

Enter(w, phase) == worker' = [worker EXCEPT ![w].phase = phase]
Return(w) == worker' = [worker EXCEPT ![w] = Resting]

-----------------------------------------------------------------------------
(* A pass up to its claims. *)

\* runDurablePass reads its clock once and heartbeats.
BeginPass(w) ==
    /\ worker[w].phase = "idle"
    /\ fresh' = [fresh EXCEPT ![w] = TRUE]
    /\ worker' = [worker EXCEPT ![w] = [phase |-> "scheduling", at |-> now, left |-> 0]]
    /\ UNCHANGED <<now, jobs, schedule, claim>>

\* INSERT ... ON CONFLICT (job_type, idempotency_key) DO NOTHING.
Insert(keys) ==
    jobs' = [j \in Jobs |-> IF j \in keys /\ jobs[j].status = "absent"
                            THEN [status |-> "pending", attempts |-> 0,
                                  lockedBy |-> Nobody, delayed |-> FALSE]
                            ELSE jobs[j]]

\* scheduleBucket.
Bucket(k, t) == t - (t % Interval[k])

\* Schedule: one statement per type; the first that fails ends the pass.
Schedule(w, inserted) ==
    /\ worker[w].phase = "scheduling"
    /\ Insert({<<k, Bucket(k, worker[w].at)>> : k \in inserted})
    /\ IF inserted = Types THEN Enter(w, "self_tests") ELSE Return(w)
    /\ UNCHANGED <<now, fresh, schedule, claim>>

\* nextScheduleAfter.
NextAfter(s, due, t) ==
    IF due > t THEN due ELSE due + ((t - due) \div Interval[s] + 1) * Interval[s]

Due(w) == {s \in Schedules : schedule[s].active /\ schedule[s].next <= worker[w].at}

\* ScheduleSelfTests: every due schedule is coalesced to one job and moved
\* past the caller's clock, in one transaction.
ScheduleSelfTests(w) ==
    LET keys == {<<s, schedule[s].next>> : s \in Due(w)} IN
    /\ worker[w].phase = "self_tests"
    /\ Insert(keys)
    /\ schedule' = [s \in Schedules |->
                      IF s \in Due(w)
                      THEN [active |-> TRUE, next |-> NextAfter(s, schedule[s].next, worker[w].at)]
                      ELSE schedule[s]]
    /\ worker' = [worker EXCEPT ![w] =
                    [phase |-> "claiming", at |-> 0,
                     left |-> TypeCount
                              + Cardinality({j \in keys : jobs[j].status = "absent"})]]
    /\ UNCHANGED <<now, fresh, claim>>

\* A database call of the pass fails: the pass returns without a heartbeat.
PassFails(w) ==
    /\ worker[w].phase \in {"scheduling", "self_tests", "claiming"}
    /\ Return(w)
    /\ UNCHANGED <<now, fresh, jobs, schedule, claim>>

\* The pass has made its claims, or found nothing: the closing heartbeat.
EndPass(w) ==
    /\ worker[w].phase = "claiming"
    /\ worker[w].left = 0
    /\ fresh' = [fresh EXCEPT ![w] = TRUE]
    /\ Return(w)
    /\ UNCHANGED <<now, jobs, schedule, claim>>

-----------------------------------------------------------------------------
(* Claim. *)

\* Slip: an abandoned job is put back whatever its number of attempts.
RetryForever(j, delayed) ==
    [status |-> "pending", attempts |-> jobs[j].attempts, lockedBy |-> Nobody, delayed |-> delayed]

\* Slip: an execution that did not end is not counted.
RetryUncounted(j, delayed) ==
    [status |-> "pending", attempts |-> jobs[j].attempts - 1, lockedBy |-> Nobody, delayed |-> delayed]

\* A failed or abandoned execution: another try, or none left.
Retry(j, delayed) ==
    [status |-> IF jobs[j].attempts >= MaxTriesOf(j) THEN "dead" ELSE "pending",
     attempts |-> jobs[j].attempts, lockedBy |-> Nobody,
     delayed |-> delayed /\ jobs[j].attempts < MaxTriesOf(j)]

\* Slip: the comparison is turned round.
StaleReversed(j) == jobs[j].status = "running" /\ fresh[jobs[j].lockedBy]

Stale(j) == jobs[j].status = "running" /\ ~fresh[jobs[j].lockedBy]

\* The table after the first statement of Claim has recovered stale claims.
Recovered == [j \in Jobs |-> IF Stale(j) THEN Retry(j, FALSE) ELSE jobs[j]]

Ready == {j \in Jobs : Recovered[j].status = "pending" /\ ~Recovered[j].delayed}

\* Slip: a pass goes on claiming as long as it finds something.
TakeUnbounded(w, j) ==
    /\ worker[w].phase = "claiming"
    /\ j \in Ready
    /\ Recovered[j].attempts + 1 <= MaxTriesOf(j)
    /\ jobs' = [Recovered EXCEPT ![j] =
                  [status |-> "running", attempts |-> Recovered[j].attempts + 1,
                   lockedBy |-> w, delayed |-> FALSE]]
    /\ UNCHANGED <<now, fresh, schedule>>

\* SKIP LOCKED lets a claim pass over rows another replica is claiming, so
\* any ready job may be the one it takes.  A stored job whose next attempt
\* would exceed max_attempts makes the call fail.
Take(w, j) ==
    /\ worker[w].phase = "claiming"
    /\ worker[w].left > 0
    /\ j \in Ready
    /\ Recovered[j].attempts + 1 <= MaxTriesOf(j)
    /\ jobs' = [Recovered EXCEPT ![j] =
                  [status |-> "running", attempts |-> Recovered[j].attempts + 1,
                   lockedBy |-> w, delayed |-> FALSE]]
    /\ UNCHANGED <<now, fresh, schedule>>

Claim(w, j) ==
    /\ Take(w, j)
    /\ worker' = [worker EXCEPT ![w] = [phase |-> "executing", at |-> @.at, left |-> @.left - 1]]
    /\ claim' = [claim EXCEPT ![w] = [job |-> j, attempt |-> Recovered[j].attempts + 1]]

\* The claim commits and its answer is lost: the pass returns.
ClaimLost(w, j) ==
    /\ Take(w, j)
    /\ Return(w)
    /\ UNCHANGED claim

ClaimNothing(w) ==
    /\ worker[w].phase = "claiming"
    /\ worker[w].left > 0
    /\ Ready = {}
    /\ jobs' = Recovered
    /\ worker' = [worker EXCEPT ![w] = [phase |-> "claiming", at |-> @.at, left |-> 0]]
    /\ UNCHANGED <<now, fresh, schedule, claim>>

-----------------------------------------------------------------------------
(* executeDurableJob, after the job's own work. *)

\* Slip: nothing is compared.
FenceNothing(w) == TRUE

\* The row is still that of the claim: WHERE status = 'running' AND
\* locked_by_instance_id = $2 AND attempt_count = $3.
Fence(w) ==
    /\ jobs[JobOf(w)].status = "running"
    /\ jobs[JobOf(w)].lockedBy = w
    /\ jobs[JobOf(w)].attempts = claim[w].attempt

Done(w) ==
    /\ Enter(w, "claiming")
    /\ claim' = [claim EXCEPT ![w] = NoClaim]

Complete(w) ==
    /\ Executing(w)
    /\ jobs' = IF Fence(w)
               THEN [jobs EXCEPT ![JobOf(w)] =
                       [status |-> "succeeded", attempts |-> @.attempts,
                        lockedBy |-> Nobody, delayed |-> FALSE]]
               ELSE jobs
    /\ Done(w)
    /\ UNCHANGED <<now, fresh, schedule>>

\* The job failed, or Complete did: Fail is then tried with the same claim.
Fail(w) ==
    /\ Executing(w)
    /\ jobs' = IF Fence(w)
               THEN [jobs EXCEPT ![JobOf(w)] = Retry(JobOf(w), TRUE)]
               ELSE jobs
    /\ Done(w)
    /\ UNCHANGED <<now, fresh, schedule>>

\* Neither Complete nor Fail reaches the database within its two seconds.
FinalizeLost(w) ==
    /\ Executing(w)
    /\ Done(w)
    /\ UNCHANGED <<now, fresh, jobs, schedule>>

-----------------------------------------------------------------------------
(* The environment. *)

\* A replica dies at any point; some replica survives.
Crash(w) ==
    /\ worker[w].phase # "crashed"
    /\ \E v \in Workers \ {w} : worker[v].phase # "crashed"
    /\ worker' = [worker EXCEPT ![w] = [phase |-> "crashed", at |-> 0, left |-> 0]]
    /\ claim' = [claim EXCEPT ![w] = NoClaim]
    /\ UNCHANGED <<now, fresh, jobs, schedule>>

\* disableSelfTestSchedule.
DisableSchedule(s) ==
    /\ schedule' = [schedule EXCEPT ![s] = [active |-> FALSE, next |-> @.next]]
    /\ UNCHANGED <<now, fresh, jobs, worker, claim>>

WindowPasses ==
    /\ now < MaxTime
    /\ now' = now + 1
    /\ UNCHANGED <<fresh, jobs, schedule, worker, claim>>

\* A heartbeat of a dead, slow or paused replica passes staleAfter.
HeartbeatExpires(w) ==
    /\ fresh[w]
    /\ fresh' = [fresh EXCEPT ![w] = FALSE]
    /\ UNCHANGED <<now, jobs, schedule, worker, claim>>

\* available_at is reached.
DelayEnds(j) ==
    /\ jobs[j].delayed
    /\ jobs' = [jobs EXCEPT ![j].delayed = FALSE]
    /\ UNCHANGED <<now, fresh, schedule, worker, claim>>

QueueStep(w) ==
    \/ BeginPass(w)
    \/ \E inserted \in SUBSET Types : Schedule(w, inserted)
    \/ ScheduleSelfTests(w)
    \/ PassFails(w)
    \/ EndPass(w)
    \/ \E j \in Jobs : ClaimLost(w, j)
    \/ ClaimNothing(w)
    \/ Crash(w)

Environment ==
    \/ WindowPasses
    \/ \E w \in Workers : HeartbeatExpires(w)
    \/ \E j \in Jobs : DelayEnds(j)
    \/ \E s \in Schedules : DisableSchedule(s)

Finish(w) == Complete(w) \/ Fail(w) \/ FinalizeLost(w)

Next ==
    \/ \E w \in Workers : \/ QueueStep(w)
                          \/ \E j \in Jobs : Claim(w, j)
                          \/ Finish(w)
    \/ Environment

Spec == QueueInit /\ [][Next]_queueVars

\* Each replica's loop is driven by a ticker and every call it makes has a
\* timeout, so it goes on; a database call that is tried again and again
\* succeeds some time; heartbeats and delays run out by the clock.
Fairness ==
    /\ \A w \in Workers :
          /\ WF_queueVars(BeginPass(w))
          /\ SF_queueVars(Schedule(w, Types))
          /\ SF_queueVars(ScheduleSelfTests(w))
          /\ SF_queueVars(ClaimNothing(w) \/ \E j \in Jobs : Claim(w, j))
          /\ WF_queueVars(EndPass(w))
          /\ WF_queueVars(Finish(w))
          /\ WF_queueVars(HeartbeatExpires(w))
    /\ \A j \in Jobs : WF_queueVars(DelayEnds(j))

FairSpec == Spec /\ Fairness

-----------------------------------------------------------------------------
(* Safety. *)

\* A replica that was declared dead may still be executing next to the one
\* that took its job over; their claims never coincide, and only the newest
\* one, whose replica holds the row, can pass the fence of Complete and Fail.
ClaimsAreExclusive ==
    \A w \in Workers : Executing(w) =>
        /\ claim[w].attempt \in 1 .. jobs[JobOf(w)].attempts
        /\ jobs[JobOf(w)].status = "running" /\ jobs[JobOf(w)].attempts = claim[w].attempt
              => jobs[JobOf(w)].lockedBy = w
        /\ \A v \in Workers \ {w} : Executing(v) => claim[v] # claim[w]

\* Every pending job has a try left and no job is tried more than
\* max_attempts times, so that Claim never meets a row it must refuse, which
\* would stop the queue at that row.
TriesLeft ==
    \A j \in Jobs : /\ jobs[j].attempts <= MaxTriesOf(j)
                    /\ jobs[j].status = "pending" => jobs[j].attempts < MaxTriesOf(j)

\* A job that succeeded or died is never reopened: not by the late Complete
\* or Fail of a replica that lost it, by recovery, or by scheduling again.
StaysConcluded == \A j \in Jobs : Concluded(j) => jobs'[j] = jobs[j]
ConcludedIsFinal == [][StaysConcluded]_queueVars

(* Liveness, under FairSpec. *)

\* The row is held by a live replica that no longer works on it: its Complete
\* and Fail were both lost, or the answer to its claim was.
Stranded(j) ==
    /\ jobs[j].status = "running"
    /\ worker[jobs[j].lockedBy].phase # "crashed"
    /\ ~(Executing(jobs[j].lockedBy)
            /\ claim[jobs[j].lockedBy] = [job |-> j, attempt |-> jobs[j].attempts])

\* A crashed replica never strands work: a scheduled job ends, unless a live
\* replica lost track of it.
EventuallyConcluded ==
    \A j \in Jobs : (jobs[j].status = "pending") ~> (Concluded(j) \/ Stranded(j))

=============================================================================
