------------------------- MODULE ScheduledSelfTests -------------------------
(***************************************************************************)
(* Scheduled self-tests: the executor of internal/adminapi on top of the   *)
(* worker queue.  A test sends one paid request to an upstream provider.   *)
(* The row of scheduled_self_test_runs is written as "dispatching", with   *)
(* its cost reserved, before the request is sent; a later execution of the *)
(* same job that meets the marker records a failed test instead of sending *)
(* again.                                                                  *)
(*                                                                         *)
(* The queue may have given the job to another replica meanwhile: every    *)
(* step here interleaves with every step of WorkerQueue.                   *)
(***************************************************************************)
EXTENDS WorkerQueue

CONSTANTS
    DayLength,   \* window units of one UTC day
    MaxCost,     \* max_cost_nano_usd of one test
    DailyLimit   \* daily_cost_limit_nano_usd of a schedule

ASSUME TestBounds == DayLength \in Nat \ {0} /\ MaxCost \in Nat /\ DailyLimit \in Nat

VARIABLES
    run,         \* scheduled_self_test_runs
    step,        \* how far each replica is with its test
    sent,        \* sent[j]: upstream requests made for job j (observation)
    authorized   \* the schedule's token, revision and secrets are current

testVars == <<run, step, sent, authorized>>
vars == <<now, fresh, jobs, schedule, worker, claim, run, step, sent, authorized>>

Tests == Schedules \X Times
RunStatus == {"none", "dispatching", "completed"}
Results == {"none", "test", "recovery"}    \* who recorded the result
RunRow == [status : RunStatus, day : Nat, charged : BOOLEAN, result : Results]
Steps == {"start", "send", "persist", "done", "error"}

TypeOK ==
    /\ QueueTypeOK
    /\ run \in [Tests -> RunRow]
    /\ step \in [Workers -> Steps]
    /\ sent \in [Tests -> Nat]
    /\ authorized \in [Schedules -> BOOLEAN]

NoRun == [status |-> "none", day |-> 0, charged |-> FALSE, result |-> "none"]

Init ==
    /\ QueueInit
    /\ run = [j \in Tests |-> NoRun]
    /\ step = [w \in Workers |-> "start"]
    /\ sent = [j \in Tests |-> 0]
    /\ authorized \in [Schedules -> BOOLEAN]

Testing(w) == Executing(w) /\ JobOf(w) \in Tests

Today == now \div DayLength

\* sum(reserved_cost_nano_usd) of a schedule's runs of one day; a run
\* reserves max_cost or nothing.
ReservedCost(s, d) ==
    MaxCost * Cardinality({j \in Tests : j[1] = s /\ run[j].day = d /\ run[j].charged})

-----------------------------------------------------------------------------
(* prepareExecution: one transaction that holds the job and the schedule.   *)
(* `heard` is FALSE when it commits but its answer is lost.                 *)

Answer(w, result, heard) ==
    step' = [step EXCEPT ![w] = IF heard THEN result ELSE "error"]

Preparing(w) == Testing(w) /\ step[w] = "start" /\ jobs[JobOf(w)].status = "running"

Mark(w, charged) ==
    run' = [run EXCEPT ![JobOf(w)] = [status |-> "dispatching", day |-> Today,
                                      charged |-> charged, result |-> "none"]]

\* completeExecutionTx.
Record(w, result) ==
    run' = [run EXCEPT ![JobOf(w)] = [status |-> "completed", day |-> @.day,
                                      charged |-> @.charged, result |-> result]]

\* Slip: the marker of an execution that stopped is not looked at.
UnmarkedOrStopped(w) == run[JobOf(w)].status # "completed"
Unmarked(w) == run[JobOf(w)].status = "none"

\* Slip: the reservation only has to fit by itself.
WithinBudgetAlone(s) == MaxCost <= DailyLimit
WithinBudget(s) == ReservedCost(s, Today) <= DailyLimit - MaxCost

PrepareDispatch(w, heard) ==
    LET s == JobOf(w)[1] IN
    /\ Preparing(w)
    /\ Unmarked(w)
    /\ schedule[s].active /\ authorized[s] /\ WithinBudget(s)
    /\ Mark(w, TRUE)
    /\ Answer(w, "send", heard)
    /\ UNCHANGED <<queueVars, sent, authorized>>

\* The test may not run: a failed result is recorded for it, and a schedule
\* whose authorisation is gone is disabled.
PrepareReject(w, heard) ==
    LET s == JobOf(w)[1] IN
    /\ Preparing(w)
    /\ Unmarked(w)
    /\ ~(schedule[s].active /\ authorized[s] /\ WithinBudget(s))
    /\ Mark(w, FALSE)
    /\ schedule' = [schedule EXCEPT ![s] = [active |-> @.active /\ authorized[s], next |-> @.next]]
    /\ Answer(w, "persist", heard)
    /\ UNCHANGED <<now, fresh, jobs, worker, claim, sent, authorized>>

\* The marker of an execution that stopped, or is still under way elsewhere.
PrepareRecovery(w, heard) ==
    /\ Preparing(w)
    /\ run[JobOf(w)].status = "dispatching"
    /\ Record(w, "recovery")
    /\ Answer(w, "done", heard)
    /\ UNCHANGED <<queueVars, sent, authorized>>

PrepareCompleted(w) ==
    /\ Preparing(w)
    /\ run[JobOf(w)].status = "completed"
    /\ Answer(w, "done", TRUE)
    /\ UNCHANGED <<queueVars, run, sent, authorized>>

-----------------------------------------------------------------------------
\* RunBound: the request is sent, or the credential cannot be used.
RunBound(w, used) ==
    /\ Testing(w)
    /\ step[w] = "send"
    /\ sent' = [sent EXCEPT ![JobOf(w)] = IF used THEN @ + 1 ELSE @]
    /\ Answer(w, "persist", TRUE)
    /\ UNCHANGED <<queueVars, run, authorized>>

\* Slip: the result replaces the one recorded meanwhile.
PersistResultAnyway(w, heard) ==
    /\ Testing(w)
    /\ step[w] = "persist"
    /\ Record(w, "test")
    /\ Answer(w, "done", heard)
    /\ UNCHANGED <<queueVars, sent, authorized>>

\* persistExecutionResult; a result recorded meanwhile is kept.
PersistResult(w, heard) ==
    /\ Testing(w)
    /\ step[w] = "persist"
    /\ IF run[JobOf(w)].status = "completed" THEN UNCHANGED run ELSE Record(w, "test")
    /\ Answer(w, "done", heard)
    /\ UNCHANGED <<queueVars, sent, authorized>>

\* A transaction rolls back, or the job is no longer running.
ExecutionFails(w) ==
    /\ Testing(w)
    /\ step[w] \in {"start", "persist"}
    /\ Answer(w, "error", TRUE)
    /\ UNCHANGED <<queueVars, run, sent, authorized>>

\* The token is revoked, the revision replaced or a secret rotated.
AuthorizationEnds(s) ==
    /\ authorized[s]
    /\ authorized' = [authorized EXCEPT ![s] = FALSE]
    /\ UNCHANGED <<queueVars, run, step, sent>>

-----------------------------------------------------------------------------
(* Composition with the queue: a claim starts an execution, and the queue   *)
(* is told the outcome when the executor has returned.                      *)

ClaimTest(w, j) ==
    /\ Claim(w, j)
    /\ step' = [step EXCEPT ![w] = "start"]
    /\ UNCHANGED <<run, sent, authorized>>

\* Slip: the job is completed although its result was not stored.
CompleteAnyway(w) ==
    /\ JobOf(w) \in Tests => step[w] \in {"done", "error"}
    /\ Complete(w)
    /\ step' = [step EXCEPT ![w] = "start"]
    /\ UNCHANGED <<run, sent, authorized>>

CompleteTest(w) ==
    /\ JobOf(w) \in Tests => step[w] = "done"
    /\ Complete(w)
    /\ step' = [step EXCEPT ![w] = "start"]
    /\ UNCHANGED <<run, sent, authorized>>

FailTest(w) ==
    /\ JobOf(w) \in Tests => step[w] \in {"done", "error"}
    /\ Fail(w) \/ FinalizeLost(w)
    /\ step' = [step EXCEPT ![w] = "start"]
    /\ UNCHANGED <<run, sent, authorized>>

\* A replica outside an execution, or stopped, remembers nothing of a test.
Forget(w) == step' = [step EXCEPT ![w] = "start"]

TestNext ==
    \/ \E w \in Workers :
          \/ QueueStep(w) /\ Forget(w) /\ UNCHANGED <<run, sent, authorized>>
          \/ \E j \in Jobs : ClaimTest(w, j)
          \/ \E heard \in BOOLEAN : \/ PrepareDispatch(w, heard)
                                    \/ PrepareReject(w, heard)
                                    \/ PrepareRecovery(w, heard)
                                    \/ PersistResult(w, heard)
          \/ PrepareCompleted(w)
          \/ \E used \in BOOLEAN : RunBound(w, used)
          \/ ExecutionFails(w)
          \/ CompleteTest(w)
          \/ FailTest(w)
    \/ Environment /\ UNCHANGED testVars
    \/ \E s \in Schedules : AuthorizationEnds(s)

TestSpec == Init /\ [][TestNext]_vars

-----------------------------------------------------------------------------
(* Safety. *)

\* The paid request of a job is never repeated, however often the job is
\* claimed, by however many replicas at once, and wherever they stop.
SentOnce == \A j \in Tests : sent[j] <= 1

\* What a schedule may have spent in a day stays within its daily limit.
SpentWithinLimit ==
    \A s \in Schedules, d \in {run[j].day : j \in Tests} :
        MaxCost * Cardinality({j \in Tests : j[1] = s /\ sent[j] > 0 /\ run[j].day = d})
            <= DailyLimit

\* A job that succeeded has its result published.
SuccessHasResult ==
    \A j \in Tests : jobs[j].status = "succeeded" => run[j].status = "completed"

\* A self-test sends its paid request once, whichever replicas and tries its
\* job goes through; a job recorded as successful has its result; and what one
\* day's tests may spend stays within the daily limit.
TestsPaidOnce == SentOnce /\ SuccessHasResult /\ SpentWithinLimit

\* A published result is not replaced, neither by a test whose execution
\* was given up too early nor by recovery, and a marker is not taken back.
ResultsStay ==
    \A j \in Tests : /\ run[j].status = "completed" => run'[j] = run[j]
                     /\ run[j].status = "dispatching" => run'[j].status # "none"

\* What a test published, and that it was started, is never changed later.
ResultsAreFinal == [][ResultsStay]_vars
=============================================================================
