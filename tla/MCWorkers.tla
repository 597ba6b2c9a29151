--------------------------------- MODULE MCWorkers ---------------------------------
(***************************************************************************)
(* Scheduled self-tests on the job queue, by two replicas.  One of two     *)
(* schedules is enabled, chosen at the start: `retried` has one test whose *)
(* job may be tried three times, `daily` has two tests of the same day, of *)
(* which the daily limit admits one, and whose jobs are tried once.        *)
(* LiveSpec is the queue alone, with periodic jobs and its fairness.       *)
(***************************************************************************)
EXTENDS ScheduledSelfTests, TLC

CONSTANTS retried, daily,
          Tries            \* max_attempts of the other jobs

MCInterval == [k \in Kinds |-> IF k = retried THEN 2 ELSE 1]
MCMaxTries == [k \in Kinds |-> IF k = retried THEN 3 ELSE Tries]

MCInit ==
    /\ Init
    /\ \E enabled \in Schedules :
          /\ schedule = [s \in Schedules |-> [active |-> s = enabled, next |-> 0]]
          /\ authorized = [s \in Schedules |-> s = enabled]

MCSpec == MCInit /\ [][TestNext]_vars

LiveSpec == Init /\ [][Next /\ UNCHANGED testVars]_vars /\ Fairness

Symmetry == Permutations(Workers)
=============================================================================
